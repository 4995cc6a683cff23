---------------------------- MODULE Replication ----------------------------
(***************************************************************************)
(* The metaserver's re-replication of chunks, the evacuation of servers    *)
(* that retire or hibernate, and the rebalancing of servers                *)
(* (meta/LayoutManager.cc, meta/ChunkReplicator.cc), over the chunk        *)
(* servers that copy, delete and write the chunks.                         *)
(*                                                                         *)
(* The main thread runs one request at a time.  Its long loops are split   *)
(* into one step per chunk (main.at says which loop it is in), so that     *)
(* the network thread can find a connection broken in the middle of one;   *)
(* no other request runs before the loop is over.                          *)
(*                                                                         *)
(* Chunk versions and writes are small numbers; a copy of a chunk is a     *)
(* version and the set of the writes it holds.  Whether a server answers   *)
(* heartbeats in time (IsResponsiveServer) and the time limits of the      *)
(* loops are left open: any candidate may be passed over, and a loop may   *)
(* stop after any chunk.                                                   *)
(***************************************************************************)
EXTENDS Integers, Sequences, FiniteSets, FiniteSetsExt, SequencesExt

CONSTANTS
  Servers,      \* chunk servers
  Rack,         \* the rack of each server
  Util,         \* space utilization: 1 under, 2 between, 3 over the thresholds
  NumChunks,    \* chunks are 1 .. NumChunks
  OldChunks,    \* the chunks that exist at the start, on Goal servers each
  Goal,         \* the replication degree the files have at the start
  Goals,        \* the degrees changeFileReplication may set
  MAX_CONCURRENT_WRITE_REPLICATIONS_PER_NODE,
  MAX_CONCURRENT_READ_REPLICATIONS_PER_NODE,
  Events,       \* the kinds of requests and failures the run explores
  MaxEvents,    \* bound on those requests and failures
  MaxWrites     \* bound on client writes to a chunk

Chunks == 1 .. NumChunks

\* What the thresholds of the code split utilizations into.
Under == 1
Over == 3

ASSUME ReplicationAssumptions ==
  /\ IsFiniteSet(Servers)
  /\ Rack \in [Servers -> Nat]
  /\ Util \in [Servers -> Under .. Over]
  /\ NumChunks \in Nat
  /\ OldChunks \subseteq 1 .. NumChunks
  /\ Goals \subseteq Nat \ {0}
  /\ Goal \in 1 .. Cardinality(Servers)
  /\ MAX_CONCURRENT_WRITE_REPLICATIONS_PER_NODE \in Nat
  /\ MAX_CONCURRENT_READ_REPLICATIONS_PER_NODE \in Nat
  /\ MaxEvents \in Nat /\ MaxWrites \in Nat

VARIABLES
  m,        \* the metaserver: LayoutManager, its ChunkServer objects, the tree
  main,     \* the request the main thread is in
  net,      \* servers whose connection to the metaserver is up
  store,    \* the copy of each chunk on each server's disk
  chain,    \* the servers the client was told to write a chunk to
  commit,   \* the writes to a chunk that the whole chain acknowledged
  missed,   \* chunks whose shortage the code is known to forget
  mixed,    \* chunks of which the code may take up a copy that misses writes
  left      \* events still allowed

vars == <<m, main, net, store, chain, commit, missed, mixed, left>>

Absent == [ver |-> 0, data |-> {}]

-----------------------------------------------------------------------------
(***************************************************************************)
(* Asking chunk servers.  A request to a server whose connection is gone   *)
(* is failed with EIO and has no effect.                                   *)
(***************************************************************************)

Send(mm, S, r) ==
  [mm EXCEPT !.rpc = [s \in Servers |->
     IF s \in S \cap net THEN Append(@[s], r) ELSE @[s]]]

Retiring(mm) == {s \in mm.reg : mm.retiring[s] # "no"}

\* ChunkServer::Retire; the repeats of a retire that is already under way
\* reach a process that has exited.
Retire(mm, S) ==
  [Send(mm, S \ mm.told, [op |-> "retire", c |-> 0, ver |-> 0])
     EXCEPT !.told = @ \cup S]

\* EvacuateChunkDone of every server of S, as ReplicationDoneNotifier calls it.
EvacuateChunkDone(mm, S, c) ==
  LET R == S \cap Retiring(mm)
  IN Retire([mm EXCEPT !.evac = [s \in Servers |->
               IF s \in R THEN @[s] \ {c} ELSE @[s]]],
            {s \in R : mm.evac[s] \subseteq {c}})

\* ChunkServer::DeleteChunk on every server of S.
DeleteCopies(mm, S, c) ==
  Send(EvacuateChunkDone(mm, S, c), S, [op |-> "delete", c |-> c, ver |-> 0])

NotifyStaleChunk(mm, s, c) ==
  Send(mm, {s}, [op |-> "delete", c |-> c, ver |-> 0])

GetNumChunkReplications(mm, s) ==
  Cardinality({o \in mm.repl : o.dst = s /\ ~o.gone})

\* The utilization of a server whose connection broke is 0: its total space
\* was set to 0.
GetSpaceUtilization(s) == IF s \in net THEN Util[s] ELSE 0

ChangeChunkReplication(mm, C) == [mm EXCEPT !.cand = @ \cup C]

-----------------------------------------------------------------------------
(***************************************************************************)
(* Choosing servers.                                                       *)
(***************************************************************************)

IsCandidateServer(mm, s) == s \in net /\ s \notin Retiring(mm)

FindCandidateServers(mm, sources, excludes) ==
  {s \in sources : /\ IsCandidateServer(mm, s)
                   /\ s \notin excludes
                   /\ GetSpaceUtilization(s) < Over}

\* RackSetter: the racks of a set of servers.
RacksOf(S) == {Rack[s] : s \in S}

FindCandidateRacks(mm, excludes) == mm.racks \ excludes

\* At most n servers, evenly from the racks (numServersPerRack).
Spread(T, n, racks) ==
  LET perRack == (n + Cardinality(racks) - 1) \div Cardinality(racks)
  IN /\ Cardinality(T) <= n
     /\ \A r \in racks : Cardinality({s \in T : Rack[s] = r}) <= perRack

\* A mutant: the servers that hold the chunk are not excluded.
SpotsAnywhere(mm, c, extra) ==
  {T \in SUBSET FindCandidateServers(mm, mm.reg, {}) :
     Cardinality(T) <= extra}

\* ReplicateChunk, first half: where the extra copies may go.  Racks that
\* hold a copy are used only when the metaserver knows of no other.
Spots(mm, c, extra) ==
  LET fresh == FindCandidateRacks(mm, RacksOf(mm.hosts[c] \ Retiring(mm)))
      racks == IF fresh # {} THEN fresh ELSE FindCandidateRacks(mm, {})
      able  == {s \in FindCandidateServers(mm, mm.reg, mm.hosts[c]) :
                  Rack[s] \in racks}
  IN {T \in SUBSET able : Spread(T, extra, racks)}

\* The servers a copy can be read from.  The code prefers one that retires,
\* and turns to the others when that one misses heartbeats.
DataServers(mm, c) ==
  {s \in mm.hosts[c] :
     mm.load[s] < MAX_CONCURRENT_READ_REPLICATIONS_PER_NODE}

\* ReplicateChunk, second half: one copy to s, when s and a source have room.
StartCopy(mm, c, s, src) ==
  [Send(mm, {s}, [op |-> "replicate", c |-> c, ver |-> 0])
     EXCEPT !.load[src] = @ + 1,
            !.ongoing[c] = @ + 1,
            !.repl = @ \cup {[c |-> c, dst |-> s, src |-> src, ver |-> 0,
                              gone |-> FALSE,
                              st |-> IF s \in net THEN "sent" ELSE "late"]}]

HasRoom(mm, s) == GetNumChunkReplications(mm, s)
                    <= MAX_CONCURRENT_WRITE_REPLICATIONS_PER_NODE

\* The copies are issued in the order of the candidates; each takes read
\* bandwidth from its source before the next source is chosen.
ReplicateChunk(mm, c, T) ==
  LET One(S, s) == UNION {
        IF HasRoom(x, s) /\ DataServers(x, c) # {}
          THEN {StartCopy(x, c, s, src) : src \in DataServers(x, c)}
          ELSE {x} : x \in S}
  IN FoldSet(LAMBDA s, S : One(S, s), {mm}, T)

-----------------------------------------------------------------------------
(***************************************************************************)
(* How many copies a chunk lacks, and which extra ones go.                 *)
(***************************************************************************)

\* CanReplicateChunkNow: no copy under a write lease, no deletion under any.
ExtraReplicas(mm, c) ==
  IF mm.hosts[c] = {} \/ mm.vers[c] = 0 THEN 0
  ELSE LET lacks == mm.goal[c] - Cardinality(mm.hosts[c] \ Retiring(mm))
       IN IF mm.hosts[c] \cap Retiring(mm) = {} THEN lacks
          ELSE IF lacks > 0 THEN lacks ELSE 0

CanReplicateChunkNow(mm, c) ==
  /\ mm.lease[c] # "write"
  /\ ExtraReplicas(mm, c) < 0 => mm.lease[c] = "none"

\* SortServersByUtilization puts k before h, or may.
SortsBefore(k, h) == GetSpaceUtilization(k) <= GetSpaceUtilization(h)

\* DeleteAddlChunkReplicas: the sets of servers that may keep their copy, the
\* least utilized ones, one per rack when the racks are as many as the goal.
Keeps(mm, c) ==
  LET H == mm.hosts[c]
      byRack == Cardinality(RacksOf(H)) = mm.goal[c]
  IN {K \in SUBSET H :
        /\ Cardinality(K) = mm.goal[c]
        /\ byRack => RacksOf(K) = RacksOf(H)
        /\ \A k \in K, h \in H \ K :
             (byRack => Rack[k] = Rack[h]) => SortsBefore(k, h)}

DeleteAddlChunkReplicas(mm, c, K) ==
  DeleteCopies([mm EXCEPT !.hosts[c] = K], mm.hosts[c] \ K, c)

-----------------------------------------------------------------------------
(***************************************************************************)
(* Servers that hibernate.                                                 *)
(***************************************************************************)

Sleeping(mm) == {s \in Servers : mm.hib[s].on}

\* CheckHibernatingServersStatus: an entry goes when its server is registered
\* (back, or not gone yet); late are the servers whose time is over.
CheckHibernatingServersStatus(mm, late) ==
  [mm EXCEPT !.cand = @ \cup UNION {mm.hib[s].blocks : s \in late \ mm.reg},
             !.hib = [s \in Servers |->
                IF s \in late \cup mm.reg THEN [on |-> FALSE, blocks |-> {}]
                ELSE @[s]]]

\* A server that leaves for good does not count as a copy; one that sleeps
\* does until it is down.
Short(mm, c) ==
  /\ c \in mm.mapped /\ mm.vers[c] > 0 /\ mm.hosts[c] # {}
  /\ Cardinality({s \in mm.hosts[c] : mm.retiring[s] # "leaves"}) < mm.goal[c]

Tracked(mm, c) == c \in mm.cand \cup UNION {mm.hib[s].blocks : s \in Servers}

\* The chunks a step leaves short and out of sight.
Forgotten(mm) == {c \in Chunks : Short(mm, c) /\ ~Tracked(mm, c)}

-----------------------------------------------------------------------------
(***************************************************************************)
(* The request loops of the main thread.                                   *)
(***************************************************************************)

IdleMain ==
  [at |-> "idle", srv |-> {}, todo |-> {}, del |-> {}, plan |-> {}]

Idle == main.at = "idle"

\* One request or failure of kind k.
Event(k) == k \in Events /\ left > 0 /\ left' = left - 1

physical == <<net, store, chain, commit>>

\* A check that finds nothing to look at changes nothing, and is left out.
NothingToCheck(mm) ==
  /\ mm = m /\ mm.cand = {} /\ ~mm.rebalancing
  /\ \A s \in mm.reg : mm.move[s] = {} /\ mm.evac[s] = {}

\* ChunkReplicationChecker begins, and looks at the servers that hibernate.
CheckBegins ==
  /\ Idle
  /\ \E late \in SUBSET (Sleeping(m) \ m.reg) :
       LET mm == CheckHibernatingServersStatus(m, late)
       IN /\ ~NothingToCheck(mm)
          /\ m' = mm
          /\ main' = [IdleMain EXCEPT !.at = "check", !.todo = mm.cand]
          /\ missed' = missed \cup Forgotten(mm)
  /\ UNCHANGED <<physical, mixed, left>>

\* ChunkReplicationChecker's loop: the next candidate, in the order of ids.
CheckChunk ==
  /\ main.at = "check" /\ main.todo # {}
  /\ LET c == Min(main.todo)
         next == [main EXCEPT !.todo = @ \ {c}]
         extra == ExtraReplicas(m, c)
     IN \/ /\ c \notin m.mapped
           /\ main' = [next EXCEPT !.del = @ \cup {c}]
           /\ UNCHANGED m
        \/ /\ c \in m.mapped
           /\ m.ongoing[c] > 0 \/ ~CanReplicateChunkNow(m, c)
           /\ main' = next
           /\ UNCHANGED m
        \/ /\ c \in m.mapped /\ m.ongoing[c] = 0 /\ CanReplicateChunkNow(m, c)
           /\ \/ /\ extra > 0
                 /\ \E T \in Spots(m, c, extra) : m' \in ReplicateChunk(m, c, T)
                 /\ main' = next
              \/ /\ extra = 0
                 /\ main' = [next EXCEPT !.del = @ \cup {c}]
                 /\ UNCHANGED m
              \/ /\ extra < 0
                 /\ \E K \in Keeps(m, c) :
                      m' = DeleteAddlChunkReplicas(m, c, K)
                 /\ main' = [next EXCEPT !.del = @ \cup {c}]
  /\ UNCHANGED <<physical, missed, mixed, left>>

\* EvacuateChunkChecker on every retiring server, when no candidate is left.
EvacuateChunkChecker(mm) ==
  LET bogus == {<<s, c>> \in Retiring(mm) \X Chunks :
                  c \in mm.evac[s] \ mm.mapped}
      more == UNION {mm.evac[s] : s \in Retiring(mm)} \cap mm.mapped
  IN FoldSet(LAMBDA p, x : EvacuateChunkDone(x, {p[1]}, p[2]),
             ChangeChunkReplication(mm, more), bogus)

\* The servers RebalanceServers moves chunks to, and away from.
NonLoaded(mm) == {s \in mm.reg \ Retiring(mm) : GetSpaceUtilization(s) <= Under}
Loaded(S) == {s \in S : GetSpaceUtilization(s) = Over}

\* The main thread goes on to the next loop when one is over.
Settled(mn) ==
  IF mn.at = "plan" /\ mn.plan # {} THEN mn
  ELSE IF mn.at \in {"plan", "rebalance"} /\ mn.todo # {}
  THEN [mn EXCEPT !.at = "rebalance"] ELSE IdleMain

PlanOf(mm, S) == {<<s, c>> \in S \X Chunks : c \in mm.move[s]}

\* A mutant: a checked chunk is dropped from the candidates as soon as a copy
\* of it is on its way.
DropsOngoing(mm, del) ==
  [mm EXCEPT !.cand = {c \in @ \ del : mm.ongoing[c] = 0}]

\* The candidates that need no copy leave; servers that retire are told.
DropCandidates(mm, del) ==
  FoldSet(LAMBDA c, x : EvacuateChunkDone(x, x.hosts[c], c),
          [mm EXCEPT !.cand = @ \ del], del \cap mm.mapped)

\* The end of ChunkReplicationChecker, and the start of RebalanceServers.
\* The loop over the candidates may have been cut short.
CheckEnds ==
  /\ main.at = "check"
  /\ LET dropped == DropCandidates(m, main.del)
         mm == IF dropped.cand = {} THEN EvacuateChunkChecker(dropped)
               ELSE dropped
     IN /\ m' = mm
        /\ \E first \in IF mm.rebalancing THEN Chunks ELSE {1} :
             main' = Settled([at |-> "plan", srv |-> {}, del |-> {},
                plan |-> PlanOf(mm, mm.reg \ Retiring(mm)),
                todo |-> {c \in mm.mapped :
                  /\ mm.rebalancing /\ c >= first
                  /\ NonLoaded(mm) # {}
                  /\ Loaded(mm.reg \ Retiring(mm)) # {}}])
  /\ UNCHANGED <<physical, missed, mixed, left>>

\* ReplicateChunkToServers: the chunk is watched until the extra copies go.
ReplicateChunkToServers(mm, c, T) ==
  {IF x = mm THEN mm ELSE ChangeChunkReplication(x, {c}) :
     x \in ReplicateChunk(mm, c, T)}

\* ExecuteRebalancePlan(server): the next chunk of the plan of a server.  A
\* chunk that is gone is looked up past the end of the map: it is skipped,
\* or the metaserver crashes.
PlanChunk ==
  /\ main.at = "plan"
  /\ \E p \in main.plan :
       LET s == p[1]
           c == p[2]
           skip == Settled([main EXCEPT !.plan = @ \ {p}])
           stop == Settled([main EXCEPT !.plan = {q \in @ : q[1] # s}])
       IN \/ /\ GetSpaceUtilization(s) = Over
             /\ m' = [m EXCEPT !.move[s] = {}]
             /\ main' = stop
          \/ /\ GetSpaceUtilization(s) < Over /\ ~HasRoom(m, s)
             /\ main' = stop
             /\ UNCHANGED m
          \/ /\ GetSpaceUtilization(s) < Over /\ HasRoom(m, s)
             /\ \/ /\ c \notin m.mapped
                   /\ main' \in {skip, [IdleMain EXCEPT !.at = "crashed"]}
                   /\ UNCHANGED m
                \/ /\ c \in m.mapped
                   /\ m.ongoing[c] > 0 \/ ~CanReplicateChunkNow(m, c)
                        \/ s \in m.hosts[c]
                   /\ main' = skip
                   /\ UNCHANGED m
                \/ /\ c \in m.mapped /\ m.ongoing[c] = 0
                   /\ CanReplicateChunkNow(m, c) /\ s \notin m.hosts[c]
                   /\ m' \in ReplicateChunkToServers(m, c, {s})
                   /\ main' = skip
  /\ UNCHANGED <<physical, missed, mixed, left>>

\* Moves within the rack of a loaded server, one per loaded server.
FindIntraRackRebalanceCandidates(mm, c) ==
  LET able == FindCandidateServers(mm, NonLoaded(mm), mm.hosts[c])
      OnRack(S, r) == Cardinality({s \in S : Rack[s] = r})
  IN {T \in SUBSET able : \A r \in RacksOf(T) :
        OnRack(T, r) <= OnRack(Loaded(mm.hosts[c]), r)}

\* A move to a rack that has no copy.
FindInterRackRebalanceCandidate(mm, c) ==
  {{s} : s \in {t \in FindCandidateServers(mm, NonLoaded(mm), mm.hosts[c]) :
                  /\ Cardinality(mm.racks) > 1
                  /\ Rack[t] \notin RacksOf(mm.hosts[c])}}

\* RebalanceServers' loop: the next chunk, unless all targets are busy.
RebalanceChunk ==
  /\ main.at = "rebalance"
  /\ LET c == Min(main.todo)
         skip == Settled([main EXCEPT !.todo = @ \ {c}])
         moves == /\ m.ongoing[c] = 0 /\ CanReplicateChunkNow(m, c)
                  /\ ExtraReplicas(m, c) >= 0
                  /\ Loaded(m.hosts[c]) # {} /\ m.vers[c] > 0
     IN \/ /\ \A s \in NonLoaded(m) : ~HasRoom(m, s)
           /\ main' = IdleMain
           /\ UNCHANGED m
        \/ /\ \E s \in NonLoaded(m) : HasRoom(m, s)
           /\ main' = skip
           /\ \/ ~moves /\ UNCHANGED m
              \/ /\ moves
                 /\ \E T \in FindIntraRackRebalanceCandidates(m, c)
                               \cup FindInterRackRebalanceCandidate(m, c) :
                      m' \in ReplicateChunkToServers(m, c, T)
  /\ UNCHANGED <<physical, missed, mixed, left>>

\* FindReplicationWorkForServer's loop: the next candidate for the server.
WorkChunk ==
  /\ main.at = "work" /\ main.todo # {}
  /\ LET c == Min(main.todo)
         s == CHOOSE x \in main.srv : TRUE
         skip == [main EXCEPT !.todo = @ \ {c}]
         free == /\ c \in m.mapped /\ m.ongoing[c] = 0
                 /\ s \notin m.hosts[c] /\ CanReplicateChunkNow(m, c)
         fits == /\ ExtraReplicas(m, c) > 0
                 /\ Cardinality(m.racks) > 1
                      => Rack[s] \notin RacksOf(m.hosts[c] \ Retiring(m))
     IN \/ /\ ~(free /\ fits)
           /\ main' = skip
           /\ UNCHANGED m
        \/ /\ free /\ fits
           /\ m' \in ReplicateChunk(m, c, {s})
           /\ main' = IF HasRoom(m', s) THEN skip
                      ELSE [main EXCEPT !.todo = {}]
  /\ UNCHANGED <<physical, missed, mixed, left>>

\* The loop is over, or its 200 ms are: on to the plan of the server.
WorkEnds ==
  /\ main.at = "work"
  /\ main' = Settled([main EXCEPT !.at = "plan", !.todo = {}])
  /\ UNCHANGED <<m, physical, missed, mixed, left>>

-----------------------------------------------------------------------------
(***************************************************************************)
(* The other requests of the main thread.                                  *)
(***************************************************************************)

\* A mutant: the count is left alone when the copy failed.
CountsSuccesses(mm, o) ==
  [mm EXCEPT !.ongoing[o.c] =
     IF o.c \in mm.mapped /\ @ > 0 /\ o.st = "done" THEN @ - 1 ELSE @]

\* ChunkReplicationDone's bookkeeping.
OneLessOngoing(mm, o) ==
  [mm EXCEPT !.ongoing[o.c] = IF o.c \in mm.mapped /\ @ > 0 THEN @ - 1 ELSE @]

Finished(mm, o) ==
  [OneLessOngoing(mm, o) EXCEPT
     !.repl = @ \ {o},
     !.move[o.dst] = IF o.gone THEN @ ELSE @ \ {o.c},
     !.load[o.src] = IF o.src \in mm.reg /\ @ > 0 THEN @ - 1 ELSE @]

\* A copy of the version in the tree, or of a later one, is taken up though a
\* write lease is out whose chain the copy is not in, or though the copy
\* misses acknowledged writes.
Unguarded(s, c, ver) ==
  /\ ver >= m.vers[c]
  /\ m.lease[c] = "write" \/ ~(commit[c] \subseteq store[s][c].data)

\* A mutant: the version of the copy is not looked at.
TakesAnyVersion(mm, o) == mm.vers[o.c] > 0

CopyIsLatest(mm, o) == mm.vers[o.c] > 0 /\ mm.vers[o.c] = o.ver

\* ChunkReplicationDone.  The version the copy is compared with is the one in
\* the tree; an allocation that is raising it shows only later.
ChunkReplicationDone ==
  /\ Idle
  /\ \E o \in m.repl :
       LET done == Finished(m, o)
           told == IF o.c \in m.mapped
                   THEN EvacuateChunkDone(done, done.hosts[o.c], o.c) ELSE done
           added == [told EXCEPT !.hosts[o.c] = @ \cup {o.dst}]
       IN \/ /\ o.st \in {"failed", "late"}
             /\ m' = done
             /\ UNCHANGED <<main, mixed>>
          \/ /\ o.st = "done" /\ ~CopyIsLatest(m, o)
             /\ m' = NotifyStaleChunk(told, o.dst, o.c)
             /\ UNCHANGED <<main, mixed>>
          \/ /\ o.st = "done" /\ CopyIsLatest(m, o)
             /\ m' = added
             /\ mixed' = IF Unguarded(o.dst, o.c, o.ver)
                         THEN mixed \cup {o.c} ELSE mixed
             /\ IF /\ GetNumChunkReplications(added, o.dst) <= 1
                   /\ o.dst \notin Retiring(added)
                THEN \E first \in 1 .. NumChunks :
                       main' = [at |-> "work", srv |-> {o.dst}, del |-> {},
                                todo |-> {c \in added.cand : c >= first},
                                plan |-> PlanOf(added, {o.dst})]
                ELSE UNCHANGED main
  /\ UNCHANGED <<physical, missed, left>>

\* MapPurger: every mapped chunk is to be looked at, those that were not on
\* the server included; for a server that hibernates, only when its time is
\* over.
MapPurger(mm, s) == [mm EXCEPT
  !.hosts = [c \in Chunks |-> @[c] \ {s}],
  !.cand = IF mm.hib[s].on THEN @ ELSE @ \cup mm.mapped,
  !.hib[s].blocks = IF mm.hib[s].on THEN @ \cup mm.mapped ELSE @]

\* handle_bye, ServerDown.  What was dispatched to the server was failed, and
\* queued, before the bye.
ServerDown(s) ==
  /\ Idle /\ s \in m.reg \ net
  /\ ~\E o \in m.repl : o.dst = s /\ o.st \in {"done", "failed"}
  /\ m' = [MapPurger(m, s) EXCEPT
             !.reg = @ \ {s},
             !.repl = {IF o.dst = s THEN [o EXCEPT !.gone = TRUE] ELSE o :
                         o \in @},
             !.retiring[s] = "no", !.told = @ \ {s},
             !.evac[s] = {}, !.move[s] = {}, !.load[s] = 0]
  /\ UNCHANGED <<main, physical, missed, mixed, left>>

\* AddNewServer: chunks of the version in the tree, or of a later one that
\* no one was told of, are taken up; the others are stale.
AddNewServer(s) ==
  /\ Idle /\ s \notin m.reg \cup net
  /\ net' = net \cup {s}
  /\ LET good == {c \in Chunks : m.vers[c] \in 1 .. store[s][c].ver}
         has == {c \in Chunks : store[s][c].ver > 0}
         ahead == {c \in good : store[s][c].ver > m.vers[c]}
         order == SetToSeq([op : {"vers"}, c : ahead, ver : {0}])
                    \o SetToSeq([op : {"delete"}, c : has \ good, ver : {0}])
         known == [m EXCEPT
           !.reg = @ \cup {s},
           !.racks = @ \cup {Rack[s]},
           !.cand = @ \cup good,
           !.hosts = [c \in Chunks |->
                        IF c \in good THEN @[c] \cup {s} ELSE @[c]],
           !.rpc[s] = [i \in 1 .. Len(order) |->
                        [order[i] EXCEPT !.ver = m.vers[order[i].c]]]]
     IN /\ \E late \in SUBSET (Sleeping(m) \ known.reg) :
             m' = CheckHibernatingServersStatus(known, late)
        /\ missed' = missed \cup Forgotten(m')
        /\ mixed' = mixed \cup
             {c \in good : Unguarded(s, c, store[s][c].ver)}
  /\ UNCHANGED <<main, store, chain, commit, left>>

\* MapRetirer: every chunk on the server is to be evacuated.
MapRetirer(mm, s) ==
  LET C == {c \in mm.mapped : s \in mm.hosts[c]}
  IN [ChangeChunkReplication(mm, C) EXCEPT !.evac[s] = C]

\* RetireServer: for good, or for some time.
RetireServer(s, sleeps) ==
  /\ Idle /\ s \in m.reg \ Retiring(m) /\ Event("retire")
  /\ IF sleeps
     THEN m' = Retire([m EXCEPT !.retiring[s] = "sleeps",
                                !.hib[s].on = TRUE], {s})
     ELSE m' = MapRetirer([m EXCEPT !.retiring[s] = "leaves"], s)
  /\ UNCHANGED <<main, physical, missed, mixed>>

\* changeFileReplication.  A chunk whose first allocation is under way is not
\* in the tree yet, so it is not looked at again.
ChangeFileReplication(c, n) ==
  /\ Idle /\ c \in m.mapped /\ n # m.goal[c]
  /\ Event("goal")
  /\ m' = [m EXCEPT !.goal[c] = n,
                    !.cand = IF m.vers[c] > 0 THEN @ \cup {c} ELSE @]
  /\ missed' = IF m.vers[c] > 0 THEN missed ELSE missed \cup {c}
  /\ UNCHANGED <<main, physical, mixed>>

ToggleRebalancing ==
  /\ Idle /\ Event("toggle")
  /\ m' = [m EXCEPT !.rebalancing = ~@]
  /\ UNCHANGED <<main, physical, missed, mixed>>

LoadRebalancePlan(s, c) ==
  /\ Idle /\ s \in m.reg /\ m.vers[c] > 0 /\ Event("plan")
  /\ m' = [m EXCEPT !.move[s] = @ \cup {c}]
  /\ UNCHANGED <<main, physical, missed, mixed>>

\* LayoutManager::DeleteChunk, for a file that is removed.  A mapping that
\* has no server stays.
DeleteChunk(c) ==
  /\ Idle /\ m.vers[c] > 0 /\ m.lease[c] = "none" /\ ~m.alloc[c].on
  /\ Event("delete")
  /\ m' = IF m.hosts[c] = {} THEN [m EXCEPT !.vers[c] = 0]
          ELSE DeleteCopies([m EXCEPT !.vers[c] = 0, !.hosts[c] = {},
                               !.mapped = @ \ {c}, !.ongoing[c] = 0],
                            m.hosts[c], c)
  /\ UNCHANGED <<main, physical, missed, mixed>>

\* ChunkCorrupt: the server put the file aside and told the metaserver.
ChunkCorrupt(s, c) ==
  /\ Idle /\ s \in m.hosts[c] \cap net /\ store[s][c].ver > 0
  /\ Event("corrupt")
  /\ store' = [store EXCEPT ![s][c] = Absent]
  /\ m' = EvacuateChunkDone(
            [ChangeChunkReplication(m, {c}) EXCEPT
               !.hosts[c] = @ \ {s}, !.move[s] = @ \ {c}], {s}, c)
  /\ UNCHANGED <<main, net, chain, commit, missed, mixed>>

GetChunkReadLease(c) ==
  /\ Idle /\ c \in m.mapped /\ m.lease[c] = "none" /\ Event("read")
  /\ m' = [m EXCEPT !.lease[c] = "read"]
  /\ UNCHANGED <<main, physical, missed, mixed>>

LeaseExpires(c) ==
  /\ Idle /\ m.lease[c] # "none" /\ ~m.alloc[c].on
  /\ m' = [m EXCEPT !.lease[c] = "none"]
  /\ chain' = [chain EXCEPT ![c] = {}]
  /\ UNCHANGED <<main, net, store, commit, missed, mixed, left>>

NoAlloc == [on |-> FALSE, servers |-> {}, wait |-> {}, ok |-> TRUE]

\* ChunkServer::AllocateChunk on every server of T, under a new version: one
\* more than the tree's, whether or not an earlier attempt used it already.
AskAllocate(mm, c, T) ==
  Send([mm EXCEPT !.lease[c] = "write", !.born = @ \cup {c},
                  !.alloc[c] = [on |-> TRUE, servers |-> T, wait |-> T,
                                ok |-> TRUE]],
       T, [op |-> "alloc", c |-> c, ver |-> mm.vers[c] + 1])

\* handle_allocate for a chunk that is new: AllocateChunk.
AllocateChunk(c, T) ==
  /\ Idle /\ c \notin m.born /\ T # {} /\ Event("alloc")
  /\ T \subseteq FindCandidateServers(m, m.reg, {})
  /\ Spread(T, m.goal[c], m.racks)
  /\ m' = LET mm == [AskAllocate(m, c, T) EXCEPT
                       !.mapped = @ \cup {c}, !.hosts[c] = T]
          IN IF Cardinality(T) < m.goal[c]
             THEN ChangeChunkReplication(mm, {c}) ELSE mm
  /\ UNCHANGED <<main, physical, missed, mixed>>

\* handle_allocate for a chunk of the tree: GetChunkWriteLease.
GetChunkWriteLease(c) ==
  /\ Idle /\ m.vers[c] > 0 /\ m.hosts[c] # {} /\ ~m.alloc[c].on
  /\ \/ /\ m.lease[c] = "write" /\ chain[c] # m.hosts[c]
        /\ chain' = [chain EXCEPT ![c] = m.hosts[c]]
        /\ UNCHANGED <<m, left>>
     \/ /\ m.lease[c] = "none" /\ m.hosts[c] \subseteq net
        /\ Event("alloc")
        /\ m' = AskAllocate(m, c, m.hosts[c])
        /\ UNCHANGED chain
  /\ UNCHANGED <<main, net, store, commit, missed, mixed>>

\* handle_allocate once every server has answered.
AllocateDone(c) ==
  /\ Idle /\ m.alloc[c].on /\ m.alloc[c].wait = {}
  /\ LET mm == [m EXCEPT !.alloc[c] = NoAlloc]
         S == m.alloc[c].servers
     IN IF m.alloc[c].ok
        THEN /\ m' = [mm EXCEPT !.vers[c] = @ + 1]
             /\ chain' = [chain EXCEPT ![c] = S]
        ELSE /\ m' = IF m.vers[c] > 0
                     THEN Send(mm, S, [op |-> "vers", c |-> c, ver |-> m.vers[c]])
                     ELSE [mm EXCEPT !.mapped = @ \ {c}, !.hosts[c] = {},
                                     !.lease[c] = "none", !.ongoing[c] = 0]
             /\ UNCHANGED chain
  /\ UNCHANGED <<main, net, store, commit, missed, mixed, left>>

-----------------------------------------------------------------------------
(***************************************************************************)
(* The chunk servers, the clients that write, and the network.             *)
(***************************************************************************)

SetState(o, st, ver) ==
  [m EXCEPT !.repl = (@ \ {o}) \cup {[o EXCEPT !.st = st, !.ver = ver]}]

\* A server takes its next request.  A copy goes on in the background
\* (Replicator).
ServeRequest(s) ==
  /\ s \in net /\ m.rpc[s] # <<>>
  /\ LET r == Head(m.rpc[s])
         mm == [m EXCEPT !.rpc[s] = Tail(@)]
     IN \/ /\ r.op = "delete"
           /\ store' = [store EXCEPT ![s][r.c] = Absent]
           /\ m' = mm
        \/ /\ r.op = "alloc"
           /\ store' = [store EXCEPT ![s][r.c].ver = r.ver]
           /\ m' = [mm EXCEPT !.alloc[r.c].wait = @ \ {s}]
        \/ /\ r.op = "vers"
           /\ store' = [store EXCEPT ![s][r.c].ver =
                          IF @ > 0 THEN r.ver ELSE 0]
           /\ m' = mm
        \/ /\ r.op = "replicate"
           /\ m' = [mm EXCEPT !.repl =
                      {IF o.dst = s /\ o.c = r.c /\ o.st = "sent"
                       THEN [o EXCEPT !.st = "copying"] ELSE o : o \in @}]
           /\ UNCHANGED store
  /\ UNCHANGED <<main, net, chain, commit, missed, mixed, left>>

\* The Replicator has read the chunk from the source, at the version it has
\* there, and answers.
CopyDone ==
  /\ \E o \in m.repl :
       /\ o.st = "copying" /\ o.src \in net /\ store[o.src][o.c].ver > 0
       /\ store' = [store EXCEPT ![o.dst][o.c] = store[o.src][o.c]]
       /\ m' = SetState(o, "done", store[o.src][o.c].ver)
  /\ UNCHANGED <<main, net, chain, commit, missed, mixed, left>>

\* The Replicator could not read the chunk: what it has of it is deleted.
CopyFails ==
  /\ \E o \in m.repl :
       /\ o.st = "copying"
       /\ o.src \in net => store[o.src][o.c].ver = 0
       /\ store' = [store EXCEPT ![o.dst][o.c] = Absent]
       /\ m' = SetState(o, "failed", 0)
  /\ UNCHANGED <<main, net, chain, commit, missed, mixed, left>>

\* The connection of a server breaks: it crashed, was found dead, or exits
\* because it was told to retire.  What was dispatched fails.
ConnectionBreaks(s) ==
  /\ s \in net
  /\ \/ Event("break")
     \/ /\ m.rpc[s] # <<>> /\ Head(m.rpc[s]).op = "retire"
        /\ UNCHANGED left
  /\ net' = net \ {s}
  /\ m' = [m EXCEPT
       !.rpc[s] = <<>>,
       !.repl = {IF o.dst = s /\ o.st \in {"sent", "copying"}
                 THEN [o EXCEPT !.st = "failed"] ELSE o : o \in @},
       !.alloc = [c \in Chunks |-> IF s \in @[c].wait
                    THEN [@[c] EXCEPT !.wait = @ \ {s}, !.ok = FALSE]
                    ELSE @[c]]]
  /\ UNCHANGED <<main, store, chain, commit, missed, mixed>>

\* A client writes through the chain, under the write lease.
ClientWrites(c) ==
  /\ m.lease[c] = "write" /\ ~m.alloc[c].on /\ chain[c] # {}
  /\ Cardinality(commit[c]) < MaxWrites
  /\ \A s \in chain[c] : s \in net /\ store[s][c].ver = m.vers[c]
  /\ LET w == Cardinality(commit[c]) + 1
     IN /\ commit' = [commit EXCEPT ![c] = @ \cup {w}]
        /\ store' = [s \in Servers |-> IF s \in chain[c]
              THEN [store[s] EXCEPT ![c].data = @ \cup {w}] ELSE store[s]]
  /\ UNCHANGED <<m, main, net, chain, missed, mixed, left>>

-----------------------------------------------------------------------------
Init ==
  /\ \E H \in [Chunks -> SUBSET Servers] :
       /\ \A c \in Chunks \ OldChunks : H[c] = {}
       /\ \A c \in OldChunks : /\ Cardinality(H[c]) = Goal
                               /\ Spread(H[c], Goal, RacksOf(Servers))
       /\ store = [s \in Servers |-> [c \in Chunks |->
                     [ver |-> IF s \in H[c] THEN 1 ELSE 0, data |-> {}]]]
       /\ m = [reg |-> Servers, racks |-> RacksOf(Servers),
               mapped |-> OldChunks, hosts |-> H,
               vers |-> [c \in Chunks |-> IF c \in OldChunks THEN 1 ELSE 0],
               born |-> OldChunks,
               goal |-> [c \in Chunks |-> Goal],
               lease |-> [c \in Chunks |-> "none"],
               alloc |-> [c \in Chunks |-> NoAlloc],
               ongoing |-> [c \in Chunks |-> 0],
               cand |-> {}, repl |-> {},
               retiring |-> [s \in Servers |-> "no"],
               told |-> {}, rebalancing |-> FALSE,
               evac |-> [s \in Servers |-> {}],
               move |-> [s \in Servers |-> {}],
               load |-> [s \in Servers |-> 0],
               hib |-> [s \in Servers |-> [on |-> FALSE, blocks |-> {}]],
               rpc |-> [s \in Servers |-> <<>>]]
  /\ main = IdleMain
  /\ net = Servers
  /\ chain = [c \in Chunks |-> {}]
  /\ commit = [c \in Chunks |-> {}]
  /\ missed = {} /\ mixed = {}
  /\ left = MaxEvents

\* The rest is quiet: nothing is left for the main thread to do.
Rests == main.at \in {"idle", "crashed"} /\ UNCHANGED vars

Next ==
  \/ CheckBegins \/ CheckChunk \/ CheckEnds \/ PlanChunk \/ RebalanceChunk
  \/ WorkChunk \/ WorkEnds \/ ChunkReplicationDone
  \/ \E s \in Servers : \/ ServerDown(s) \/ AddNewServer(s)
                        \/ ServeRequest(s) \/ ConnectionBreaks(s)
                        \/ \E sleeps \in BOOLEAN : RetireServer(s, sleeps)
  \/ \E c \in Chunks : \/ DeleteChunk(c) \/ GetChunkReadLease(c)
                       \/ LeaseExpires(c) \/ GetChunkWriteLease(c)
                       \/ AllocateDone(c) \/ ClientWrites(c)
                       \/ \E T \in SUBSET Servers : AllocateChunk(c, T)
                       \/ \E n \in Goals : ChangeFileReplication(c, n)
                       \/ \E s \in Servers : \/ ChunkCorrupt(s, c)
                                             \/ LoadRebalancePlan(s, c)
  \/ ToggleRebalancing \/ CopyDone \/ CopyFails
  \/ Rests

Spec == Init /\ [][Next]_vars

-----------------------------------------------------------------------------
(***************************************************************************)
(* Properties.                                                             *)
(***************************************************************************)

\* The types of the metaserver's tables; the counters that ReplicateChunkDone
\* and ChunkReplicationDone assert or clamp never leave their range.
TypeOK ==
  /\ net \subseteq Servers /\ m.reg \subseteq Servers
  /\ m.mapped \subseteq Chunks /\ m.cand \subseteq Chunks
  /\ \A c \in Chunks :
       /\ m.hosts[c] \subseteq m.reg
       /\ c \notin m.mapped => m.hosts[c] = {} /\ m.ongoing[c] = 0
       /\ m.vers[c] > 0 => c \in m.mapped
       /\ m.vers[c] \in Nat
  /\ \A o \in m.repl :
       /\ o.st \in {"sent", "copying", "done", "failed", "late"}
       /\ o.gone => o.st = "late"
  /\ \A s \in Servers :
       /\ m.load[s] \in Nat
       /\ s \notin m.reg => m.retiring[s] = "no" /\ m.move[s] = {}
  /\ main.at \in {"idle", "check", "plan", "rebalance", "work", "crashed"}

\* ongoingReplications of a mapped chunk is the number of copies that are
\* under way (CheckChunk starts no copy while it is above 0, so a count that
\* stays too high would stop the re-replication of the chunk for good), and
\* the read load of a server is never more than the copies that read from it.
CopiesAccounted ==
  /\ \A c \in m.mapped :
       m.ongoing[c] = Cardinality({o \in m.repl : o.c = c})
  /\ \A s \in Servers :
       m.load[s] <= Cardinality({o \in m.repl : o.src = s})

\* A server a chunk is being copied to does not hold the chunk already, and no
\* two copies of a chunk go to one server: UpdateChunkToServerMapping would
\* list the server twice, and the chunk would count one copy too many.
CopiesGoElsewhere ==
  \A o \in m.repl : o.st \in {"sent", "copying", "done"} =>
    /\ o.dst \notin m.hosts[o.c]
    /\ \A q \in m.repl \ {o} :
         q.c = o.c /\ q.dst = o.dst => q.st \in {"failed", "late"}

\* A chunk with fewer copies than its file asks for, on servers that stay, is
\* in mChunkReplicationCandidates or waits for a server that hibernates.  Left
\* out are the chunks whose shortage the code forgets: a server back from
\* hibernation without its chunks, and a degree changed during the first
\* allocation.
ShortageTracked ==
  \A c \in Chunks : Short(m, c) => Tracked(m, c) \/ c \in missed

\* The servers the metaserver sends readers to are registered.  Those it can
\* reach have the chunk, in no older version than the tree's, and a copy of the
\* version in the tree holds every write the whole chain acknowledged.
\* Left out are chunks of which a copy was taken up under a write lease, or
\* after missing a write of the very version in the tree (Unguarded).
HostsCurrent ==
  \A c \in m.mapped :
    /\ m.hosts[c] \subseteq m.reg
    /\ \A s \in m.hosts[c] \cap net :
         \/ \E i \in 1 .. Len(m.rpc[s]) :
              m.rpc[s][i].op = "alloc" /\ m.rpc[s][i].c = c
         \/ c \in mixed
         \/ /\ store[s][c].ver > 0 /\ store[s][c].ver >= m.vers[c]
            /\ store[s][c].ver = m.vers[c] =>
                 commit[c] \subseteq store[s][c].data
=============================================================================

------------------------------ MODULE ChunkAlloc ------------------------------
(***************************************************************************)
(* Allocation and versioning of the chunk at one offset of one file.       *)
(*                                                                         *)
(* A write starts with an allocation.  The first one picks a chunk id and  *)
(* some chunkservers; a later one that finds no valid write lease bumps    *)
(* the version of the chunk at the servers that have it.  Either way the   *)
(* request is suspended until every server has answered, and only then     *)
(* does the tree change, the log record it and the client hear of it.      *)
(* Chunkservers come and go meanwhile; one that comes back reports its     *)
(* chunks, and the version decides whether its copy is kept.               *)
(*                                                                         *)
(* Leases, logging and connections have modules of their own.  Here a      *)
(* write lease is valid or not and may end at any time; a logged result is *)
(* sent at once; a broken connection is noticed before it is made again.   *)
(***************************************************************************)
EXTENDS Naturals, Sequences, FiniteSets, Functions

CONSTANTS Servers,
          NumIds,      \* bound: chunk ids
          MaxReqs,     \* bound: allocations and truncations
          Kinds,       \* what clients ask for: a subset of {"allocate", "truncate"}
          MaxBreaks,   \* bound: lost connections
          MaxFails,    \* bound: allocations that fail at a chunkserver
          MaxCrashes,  \* bound: crashes of the metaserver
          MaxFaults,   \* bound: lost connections, failures and crashes together
          MaxWrites    \* bound: writes that clients finish

ASSUME AllocAssumption ==
    /\ NumIds \in Nat \ {0} /\ Kinds \subseteq {"allocate", "truncate"}
    /\ {MaxReqs, MaxBreaks, MaxFails, MaxCrashes, MaxFaults, MaxWrites} \subseteq Nat

Ids == 1..NumIds
Reqs == 1..MaxReqs
chunkVersionInc == 1      \* ChangeIncarnationNumber sets it to 1 and leaves it there

VARIABLES
    \* the metaserver's memory
    tree,         \* id and version of the chunk in the metatree; id 0: no chunk
    genid,        \* the next chunk id
    mapped,       \* chunks in mChunkToServerMap
    hosts,        \* the servers of each chunk there
    lease,        \* does the chunk have a valid write lease?
    recovering,   \* InRecovery()
    reqs,         \* the requests
    requestList,  \* what waits for the request thread
    pending,      \* results that wait for the logger
    servers,      \* mChunkServers
    \* the metaserver's disk
    log,          \* the chunk that a replay of checkpoint and logs yields
    unreplayable, \* has the log a record that replay_allocate asserts against?
    \* the network and the chunkservers
    conn,         \* "up", "down", or "hello": HELLO waits for the request thread
    inbox,        \* RPCs on their way to, or waiting at, each server
    outbox,       \* responses on their way back
    disk,         \* the chunks of each server; version 0: no such chunk
    \* the clients
    told,         \* allocations that clients were told of
    acked,        \* finished writes to each chunk
    \* history
    issued, reissued,  \* versions issued so far; was one issued twice?
    aborted,      \* did the assertion of NetDispatch::Dispatch fail?
    breaks, fails, crashes

memory == <<tree, genid, mapped, hosts, lease, recovering>>
chunkservers == <<inbox, outbox, disk>>
clients == <<told, acked>>
history == <<issued, reissued, aborted>>
vars == <<memory, reqs, requestList, pending, servers, log, unreplayable, conn, chunkservers,
          clients, history, breaks, fails, crashes>>

FaultsLeft == breaks + fails + crashes < MaxFaults

NoChunk == [id |-> 0, vers |-> 0]
NoCopy == [vers |-> 0, data |-> {}]
NoReq == [kind |-> "allocate", state |-> "none", id |-> 0, vers |-> 0, servers |-> {},
          alive |-> {}, waiting |-> {}, failed |-> FALSE]

Init ==
    /\ tree = NoChunk /\ genid = 1 /\ mapped = {} /\ hosts = [c \in Ids |-> {}]
    /\ lease = [c \in Ids |-> FALSE] /\ recovering = FALSE
    /\ reqs = [r \in Reqs |-> NoReq] /\ requestList = <<>> /\ pending = <<>>
    /\ servers = Servers /\ log = NoChunk /\ unreplayable = FALSE
    /\ conn = [s \in Servers |-> "up"] /\ inbox = [s \in Servers |-> <<>>]
    /\ outbox = [s \in Servers |-> {}] /\ disk = [s \in Servers |-> [c \in Ids |-> NoCopy]]
    /\ told = {} /\ acked = [c \in Ids |-> {}]
    /\ issued = {} /\ reissued = FALSE /\ aborted = FALSE
    /\ breaks = 0 /\ fails = 0 /\ crashes = 0

\* The elements of a finite set of numbers, the least first.
InOrder(S) == CHOOSE q \in [1..Cardinality(S) -> S] :
                \A i, j \in 1..Cardinality(S) : i < j => q[i] < q[j]

-----------------------------------------------------------------------------
(* Metaserver: the first pass of an allocation. *)

Item(op, r, s, chunks) == [op |-> op, req |-> r, server |-> s, chunks |-> chunks]
NoChunks == [c \in Ids |-> 0]

RPC(op, c, v, r) == [op |-> op, id |-> c, vers |-> v, req |-> r, live |-> TRUE]

\* Sends an RPC to some servers; one whose connection is gone does not get it.
Send(S, m) == inbox' = [s \in Servers |-> IF s \in S /\ conn[s] = "up"
                                          THEN Append(inbox[s], m) ELSE inbox[s]]

\* The request goes to the servers S and waits; those that are gone fail it.
Layout(r, kind, c, v, S) ==
    LET up == {s \in S : conn[s] = "up"} IN
    /\ Send(S, RPC("alloc", c, v, r))
    /\ reqs' = [reqs EXCEPT ![r] =
                  [kind |-> kind, state |-> IF up = {} THEN "ready" ELSE "layout",
                   id |-> c, vers |-> v, servers |-> S, alive |-> up, waiting |-> up,
                   failed |-> up # S]]
    /\ requestList' = IF up = {} THEN Append(requestList, Item("layout", r, 0, NoChunks))
                      ELSE requestList
    /\ issued' = issued \cup {<<c, v>>}
    /\ reissued' = (reissued \/ <<c, v>> \in issued)
    /\ lease' = [lease EXCEPT ![c] = TRUE]

\* The request ends without a layout.  A truncation waits for its allocation to
\* come out of the logger, and the allocation it made for itself never goes in.
Ended(r, kind) ==
    reqs' = [reqs EXCEPT ![r] = [NoReq EXCEPT !.kind = kind, !.state =
                                   IF kind = "truncate" THEN "stuck" ELSE "answered"]]

\* No chunk at this offset yet: AllocateChunk picks servers, or finds no space.
AllocateChunk(r, kind) ==
    /\ tree.id = 0
    /\ \/ \E S \in SUBSET {s \in servers : conn[s] = "up"} \ {{}} :
            /\ genid <= NumIds
            /\ genid' = genid + 1
            /\ mapped' = mapped \cup {genid}
            /\ hosts' = [hosts EXCEPT ![genid] = S]
            /\ Layout(r, kind, genid, chunkVersionInc, S)
       \/ /\ Ended(r, kind)
          /\ UNCHANGED <<genid, mapped, hosts, lease, inbox, requestList, issued, reissued>>
    /\ UNCHANGED pending

\* The chunk exists: GetChunkWriteLease refuses, finds the lease, or bumps the
\* version.  A truncation does not get here: Tree::truncate needs no allocation.
GetChunkWriteLease(r, kind) ==
    /\ tree.id # 0 /\ kind = "allocate"
    /\ LET c == tree.id IN
       \/ /\ recovering \/ c \notin mapped \/ hosts[c] = {} \/ ~lease[c]
          /\ Ended(r, kind)
          /\ UNCHANGED <<lease, inbox, requestList, pending, issued, reissued>>
       \/ /\ ~recovering /\ c \in mapped /\ hosts[c] # {} /\ lease[c]
          /\ reqs' = [reqs EXCEPT ![r] = [NoReq EXCEPT !.state = "logging", !.id = c,
                                            !.vers = tree.vers, !.servers = hosts[c]]]
          /\ pending' = Append(pending, r)
          /\ UNCHANGED <<lease, inbox, requestList, issued, reissued>>
       \/ /\ ~recovering /\ c \in mapped /\ hosts[c] # {} /\ ~lease[c]
          /\ Layout(r, kind, c, tree.vers + chunkVersionInc, hosts[c])
          /\ UNCHANGED pending
    /\ UNCHANGED <<genid, mapped, hosts>>

\* handle_allocate, and handle_truncate of an offset that has no chunk.
handle_allocate(r, kind) ==
    /\ reqs[r].state = "none" /\ \A q \in 1..(r - 1) : reqs[q].state # "none"
    /\ AllocateChunk(r, kind) \/ GetChunkWriteLease(r, kind)
    /\ UNCHANGED <<tree, recovering, servers, log, unreplayable, conn, outbox, disk, clients,
                   aborted, breaks, fails, crashes>>

-----------------------------------------------------------------------------
(* Metaserver: the servers' answers and the second pass. *)

\* Mutant: a failed RPC is not counted.
ResumedOnlyOk(rs, s, ok) ==
    [r \in Reqs |-> IF r \notin rs \/ ~ok THEN reqs[r] ELSE
       LET left == reqs[r].waiting \ {s} IN
       [reqs[r] EXCEPT !.waiting = left, !.state = IF left = {} THEN "ready" ELSE @]]

\* ResumeOp: the requests rs hear from server s.  One that has heard from all
\* its servers goes back to the request thread.
Resumed(rs, s, ok) ==
    [r \in Reqs |-> IF r \notin rs THEN reqs[r] ELSE
       LET left == reqs[r].waiting \ {s} IN
       [reqs[r] EXCEPT !.waiting = left, !.failed = @ \/ ~ok,
                       !.state = IF left = {} THEN "ready" ELSE @]]

LayoutDone(rs, s) ==
    LET done == {r \in rs : reqs[r].waiting = {s}} IN
    [i \in 1..Cardinality(done) |-> Item("layout", InOrder(done)[i], 0, NoChunks)]

\* The response of a server arrives.
HandleReply(s) ==
    \E m \in outbox[s] :
       /\ outbox' = [outbox EXCEPT ![s] = @ \ {m}]
       /\ reqs' = Resumed({m.req}, s, m.ok)
       /\ requestList' = requestList \o LayoutDone({m.req}, s)
       /\ UNCHANGED <<memory, pending, servers, log, unreplayable, conn, inbox, disk, clients,
                      history, breaks, fails, crashes>>

Handling(op) == requestList # <<>> /\ Head(requestList).op = op

\* assignChunkId: a chunk that is there already keeps its id and takes the
\* version, unless it has that version: then the request fails with EEXIST.
assignChunkId(c, v) == IF tree.id = 0 THEN [id |-> c, vers |-> v] ELSE [tree EXCEPT !.vers = v]

\* Mutant: the status of the layout is not looked at.
LayoutSucceedsAnyway(r) ==
    LET q == reqs[r] IN
    /\ tree' = assignChunkId(q.id, q.vers)
    /\ reqs' = [reqs EXCEPT ![r].state = "logging", ![r].failed = (tree.id # 0 /\ tree.vers = q.vers)]
    /\ pending' = Append(pending, r)
    /\ requestList' = Tail(requestList)
    /\ UNCHANGED <<mapped, hosts, lease, inbox>>

\* All servers have the chunk: the tree changes and the result goes to the logger.
LayoutSucceeds(r) ==
    LET q == reqs[r] IN
    /\ ~q.failed
    /\ tree' = assignChunkId(q.id, q.vers)
    /\ reqs' = [reqs EXCEPT ![r].state = "logging", ![r].failed = (tree.id # 0 /\ tree.vers = q.vers)]
    /\ pending' = Append(pending, r)
    /\ requestList' = Tail(requestList)
    /\ UNCHANGED <<mapped, hosts, lease, inbox>>

\* Mutant: the chunk is forgotten after every failure.
LayoutFailsForgets(r) ==
    LET q == reqs[r] IN
    /\ q.failed
    /\ mapped' = mapped \ {q.id}
    /\ hosts' = [hosts EXCEPT ![q.id] = {}]
    /\ lease' = [lease EXCEPT ![q.id] = FALSE]
    /\ reqs' = [reqs EXCEPT ![r].state = "failing"]
    /\ requestList' = Append(Tail(requestList), Item("inc", r, 0, NoChunks))
    /\ UNCHANGED <<inbox, tree, pending>>

\* A server failed: the others go back to the version in the tree, or the chunk
\* is forgotten if it is not in the tree, and the answer waits for the log record
\* of chunkVersionInc.
LayoutFails(r) ==
    LET q == reqs[r] IN
    /\ q.failed
    /\ IF tree.id = q.id
       THEN /\ Send(q.alive, RPC("vers", q.id, tree.vers, 0))
            /\ UNCHANGED <<mapped, hosts, lease>>
       ELSE /\ mapped' = mapped \ {q.id}
            /\ hosts' = [hosts EXCEPT ![q.id] = {}]
            /\ lease' = [lease EXCEPT ![q.id] = FALSE]
            /\ UNCHANGED inbox
    /\ reqs' = [reqs EXCEPT ![r].state = "failing"]
    /\ requestList' = Append(Tail(requestList), Item("inc", r, 0, NoChunks))
    /\ UNCHANGED <<tree, pending>>

handle_layoutDone ==
    /\ Handling("layout")
    /\ LayoutSucceeds(Head(requestList).req) \/ LayoutFails(Head(requestList).req)
    /\ UNCHANGED <<genid, recovering, servers, log, unreplayable, conn, outbox, disk, clients,
                   history, breaks, fails, crashes>>

\* The request to log chunkVersionInc, and a truncation whose chunk is there now.
handle_change_chunkVersionInc ==
    /\ Handling("inc")
    /\ pending' = Append(pending, Head(requestList).req)
    /\ requestList' = Tail(requestList)
    /\ UNCHANGED <<memory, reqs, servers, log, unreplayable, conn, chunkservers, clients,
                   history, breaks, fails, crashes>>

handle_truncate ==
    /\ Handling("truncate")
    /\ reqs' = [reqs EXCEPT ![Head(requestList).req].state = "answered"]
    /\ requestList' = Tail(requestList)
    /\ UNCHANGED <<memory, pending, servers, log, unreplayable, conn, chunkservers, clients,
                   history, breaks, fails, crashes>>

\* Mutant: a record for a chunk that exists is skipped.
replay_allocateFirst(c, v) ==
    /\ log' = IF log.id = 0 THEN [id |-> c, vers |-> v] ELSE log
    /\ UNCHANGED unreplayable

\* What replay_allocate makes of the record of an allocation.
replay_allocate(c, v) ==
    /\ log' = IF log.id = 0 THEN [id |-> c, vers |-> v] ELSE [log EXCEPT !.vers = v]
    /\ unreplayable' = (unreplayable \/ (log.id \notin {0, c} /\ log.vers # v))

\* The logger writes a successful allocation and Dispatch sends the result: to
\* the client, or back to the truncation that made the allocation.  Dispatch
\* asserts that a failed allocation has a client.
logger_main ==
    /\ pending # <<>>
    /\ LET r == Head(pending)
           q == reqs[r]
           ok == q.state = "logging" /\ ~q.failed
       IN /\ IF ok THEN replay_allocate(q.id, q.vers) ELSE UNCHANGED <<log, unreplayable>>
          /\ IF q.kind = "truncate" /\ q.state = "logging"
             THEN /\ requestList' = Append(requestList, Item("truncate", r, 0, NoChunks))
                  /\ UNCHANGED <<reqs, told, aborted>>
             ELSE /\ reqs' = [reqs EXCEPT ![r].state = "answered"]
                  /\ told' = IF ok THEN told \cup {[id |-> q.id, vers |-> q.vers,
                                                    servers |-> q.servers]} ELSE told
                  /\ aborted' = (aborted \/ q.kind = "truncate")
                  /\ UNCHANGED requestList
    /\ pending' = Tail(pending)
    /\ UNCHANGED <<memory, servers, conn, chunkservers, acked, issued, reissued, breaks, fails,
                   crashes>>

-----------------------------------------------------------------------------
(* Chunkservers. *)

\* A server runs its next RPC.  An allocation may fail, before or after it has
\* changed the version of the copy.
Execute(s) ==
    /\ inbox[s] # <<>>
    /\ LET m == Head(inbox[s])
           copy == disk[s][m.id]
           Put(new) == disk' = [disk EXCEPT ![s][m.id] = new]
           Answer(ok) == outbox' = IF m.live /\ m.req # 0
                                   THEN [outbox EXCEPT ![s] = @ \cup {[req |-> m.req, ok |-> ok]}]
                                   ELSE outbox
       IN \/ /\ m.op = "alloc"
             /\ Put([copy EXCEPT !.vers = m.vers])
             /\ Answer(TRUE)
             /\ UNCHANGED fails
          \/ /\ m.op = "alloc" /\ fails < MaxFails /\ FaultsLeft
             /\ Put(copy) \/ Put([copy EXCEPT !.vers = m.vers])
             /\ Answer(FALSE)
             /\ fails' = fails + 1
          \/ /\ m.op = "vers"
             /\ Put(IF copy = NoCopy THEN copy ELSE [copy EXCEPT !.vers = m.vers])
             /\ UNCHANGED <<outbox, fails>>
          \/ /\ m.op = "stale"
             /\ Put(NoCopy)
             /\ UNCHANGED <<outbox, fails>>
    /\ inbox' = [inbox EXCEPT ![s] = Tail(@)]
    /\ UNCHANGED <<memory, reqs, requestList, pending, servers, log, unreplayable, conn, clients,
                   history, breaks, crashes>>

\* When a connection is lost, the first n RPCs have reached the server, which
\* runs them although nobody hears of it.
Orphans(s, n) == [i \in 1..n |-> [inbox[s][i] EXCEPT !.live = FALSE]]

\* The metaserver's network thread finds a connection broken: requests that wait
\* for the server fail, and BYE goes to the request thread.
Break(s) ==
    /\ conn[s] # "down" /\ breaks < MaxBreaks /\ FaultsLeft
    /\ breaks' = breaks + 1
    /\ conn' = [conn EXCEPT ![s] = "down"]
    /\ \E n \in 0..Len(inbox[s]) : inbox' = [inbox EXCEPT ![s] = Orphans(s, n)]
    /\ outbox' = [outbox EXCEPT ![s] = {}]
    /\ LET rs == {r \in Reqs : s \in reqs[r].waiting} IN
       /\ reqs' = [r \in Reqs |-> [Resumed(rs, s, FALSE)[r] EXCEPT !.alive = @ \ {s}]]
       /\ requestList' = Append(requestList \o LayoutDone(rs, s), Item("bye", 0, s, NoChunks))
    /\ UNCHANGED <<memory, pending, servers, log, unreplayable, disk, clients, history, fails,
                   crashes>>

\* The server connects again and reports the chunks it has.  RPCs that it got
\* before may still be waiting for the disk, except the deletion of stale chunks.
SendHello(s) ==
    /\ conn[s] = "down"
    /\ \A i \in DOMAIN requestList : requestList[i].op = "hello" => requestList[i].server # s
    /\ \A i \in DOMAIN inbox[s] : inbox[s][i].op # "stale"
    /\ conn' = [conn EXCEPT ![s] = "hello"]
    /\ requestList' = Append(requestList, Item("hello", 0, s, [c \in Ids |-> disk[s][c].vers]))
    /\ UNCHANGED <<memory, reqs, pending, servers, log, unreplayable, chunkservers, clients,
                   history, breaks, fails, crashes>>

-----------------------------------------------------------------------------
(* Metaserver: chunkservers that come and go, time, crashes. *)

\* AddNewServer: a copy at the version in the tree, or a later one, is kept and a
\* later one is set back; any other copy is stale.
AddNewServer(s, chunks) ==
    LET kept == {c \in Ids : c = tree.id /\ tree.vers <= chunks[c] /\ c \in mapped}
        noticed == {c \in Ids : chunks[c] # 0 /\ (c \in kept => tree.vers < chunks[c])}
        Notice(c) == IF c \in kept THEN RPC("vers", c, tree.vers, 0) ELSE RPC("stale", c, 0, 0)
        \* one RPC for each chunk that is not as it should be, in the order of their ids
        notices == [i \in 1..Cardinality(noticed) |-> Notice(InOrder(noticed)[i])]
    IN /\ hosts' = [c \in Ids |-> IF c \in kept THEN hosts[c] \cup {s} ELSE hosts[c]]
       /\ inbox' = [inbox EXCEPT ![s] = @ \o notices]
       /\ servers' = servers \cup {s}
       /\ conn' = [conn EXCEPT ![s] = "up"]

handle_hello ==
    /\ Handling("hello")
    /\ LET s == Head(requestList).server IN
       IF conn[s] = "down" THEN UNCHANGED <<hosts, inbox, servers, conn>>
       ELSE AddNewServer(s, Head(requestList).chunks)
    /\ requestList' = Tail(requestList)
    /\ UNCHANGED <<tree, genid, mapped, lease, recovering, reqs, pending, log, unreplayable,
                   outbox, disk, clients, history, breaks, fails, crashes>>

\* ServerDown
handle_bye ==
    /\ Handling("bye")
    /\ LET s == Head(requestList).server IN
       /\ hosts' = [c \in Ids |-> hosts[c] \ {s}]
       /\ servers' = servers \ {s}
    /\ requestList' = Tail(requestList)
    /\ UNCHANGED <<tree, genid, mapped, lease, recovering, reqs, pending, log, unreplayable, conn,
                   chunkservers, clients, history, breaks, fails, crashes>>

\* A write lease runs out; the recovery period ends.
LeaseExpires(c) ==
    /\ lease[c]
    /\ lease' = [lease EXCEPT ![c] = FALSE]
    /\ UNCHANGED <<tree, genid, mapped, hosts, recovering, reqs, requestList, pending, servers,
                   log, unreplayable, conn, chunkservers, clients, history, breaks, fails, crashes>>

RecoveryEnds ==
    /\ recovering
    /\ recovering' = FALSE
    /\ UNCHANGED <<tree, genid, mapped, hosts, lease, reqs, requestList, pending, servers, log,
                   unreplayable, conn, chunkservers, clients, history, breaks, fails, crashes>>

\* The metaserver crashes and starts again from its checkpoint and logs.
Crash ==
    /\ crashes < MaxCrashes /\ FaultsLeft
    /\ crashes' = crashes + 1
    /\ tree' = log /\ genid' = log.id + 1
    /\ mapped' = {log.id} \cap Ids /\ hosts' = [c \in Ids |-> {}]
    /\ lease' = [c \in Ids |-> FALSE] /\ recovering' = TRUE
    /\ reqs' = [r \in Reqs |-> IF reqs[r].state \in {"none", "answered"} THEN reqs[r]
                               ELSE [NoReq EXCEPT !.state = "lost"]]
    /\ requestList' = <<>> /\ pending' = <<>> /\ servers' = {}
    /\ conn' = [s \in Servers |-> "down"]
    /\ \E n \in [Servers -> 0..MaxReqs + 1] :
         /\ \A s \in Servers : n[s] <= Len(inbox[s])
         /\ inbox' = [s \in Servers |-> Orphans(s, n[s])]
    /\ outbox' = [s \in Servers |-> {}]
    /\ UNCHANGED <<log, unreplayable, disk, clients, history, breaks, fails>>

-----------------------------------------------------------------------------
\* A client that was told where the chunk is writes to all its servers, which
\* accept a write at the version they have, while the lease of the master lasts.
Write ==
    \E t \in told :
       /\ Cardinality(UNION Range(acked)) < MaxWrites
       /\ lease[t.id] \/ recovering
       /\ \A s \in t.servers : disk[s][t.id].vers = t.vers
       /\ LET w == Cardinality(UNION Range(acked)) + 1 IN
          /\ disk' = [s \in Servers |-> IF s \in t.servers
                                        THEN [disk[s] EXCEPT ![t.id].data = @ \cup {w}]
                                        ELSE disk[s]]
          /\ acked' = [acked EXCEPT ![t.id] = @ \cup {w}]
       /\ UNCHANGED <<memory, reqs, requestList, pending, servers, log, unreplayable, conn, inbox,
                      outbox, told, history, breaks, fails, crashes>>

MetaNext == \/ handle_layoutDone \/ handle_change_chunkVersionInc \/ handle_truncate
            \/ handle_hello \/ handle_bye \/ logger_main

Next ==
    \/ \E r \in Reqs, kind \in Kinds : handle_allocate(r, kind)
    \/ \E s \in Servers : HandleReply(s) \/ Execute(s) \/ Break(s) \/ SendHello(s)
    \/ MetaNext
    \/ \E c \in Ids : LeaseExpires(c)
    \/ RecoveryEnds \/ Crash \/ Write

Spec == Init /\ [][Next]_vars

\* The metaserver's threads and the chunkservers go on working, and responses arrive.
FairSpec ==
    /\ Spec
    /\ WF_vars(MetaNext)
    /\ \A s \in Servers : WF_vars(Execute(s)) /\ WF_vars(HandleReply(s))

-----------------------------------------------------------------------------
(* Properties. *)

Copies == [vers : 0..MaxReqs + 1, data : SUBSET (1..MaxWrites)]
Chunk == [id : 0..NumIds, vers : 0..MaxReqs + 1]

\* Type invariant: a request waits only for servers whose connection has been up
\* ever since, and the tree and the log hold a chunk with both an id and a version
\* or none.
TypeOK ==
    /\ {tree, log} \subseteq Chunk /\ (tree.id = 0 <=> tree.vers = 0)
    /\ genid \in 1..NumIds + 1 /\ mapped \subseteq Ids
    /\ hosts \in [Ids -> SUBSET Servers] /\ lease \in [Ids -> BOOLEAN] /\ recovering \in BOOLEAN
    /\ \A r \in Reqs :
         /\ reqs[r].kind \in {"allocate", "truncate"}
         /\ reqs[r].state \in {"none", "layout", "ready", "logging", "failing", "stuck",
                               "answered", "lost"}
         /\ reqs[r].waiting \subseteq reqs[r].alive /\ reqs[r].alive \subseteq reqs[r].servers
         /\ \A s \in reqs[r].waiting : conn[s] = "up"
    /\ \A i \in DOMAIN requestList :
         requestList[i].op \in {"layout", "inc", "truncate", "hello", "bye"}
    /\ pending \in Seq(Reqs) /\ servers \subseteq Servers
    /\ conn \in [Servers -> {"up", "down", "hello"}]
    /\ disk \in [Servers -> [Ids -> Copies]]
    /\ {unreplayable, reissued, aborted} \subseteq BOOLEAN

\* assert(res >= 0) in AddNewServer: a chunk of the tree is in the map from
\* chunks to servers, whatever allocations failed and whenever the server crashed.
TreeChunkMapped == tree.id # 0 => tree.id \in mapped

\* The servers that the metaserver names for the chunk have a copy of it: a
\* failed allocation, a stale copy or a server that left never stays in the map.
HostsHaveChunk == tree.id # 0 => \A s \in hosts[tree.id] : disk[s][tree.id] # NoCopy

\* An allocation that a client was told of survives a crash: the log has this
\* version of the chunk, or a later one.
ToldIsDurable == \A t \in told : log.id = t.id /\ log.vers >= t.vers

\* "the chunkservers write out the version bump on disk -- the metaserver gets
\* ack; writes out the version bump on disk -- and then notifies the client": a
\* server that a client was sent to never goes back to an earlier version.
ToldOnDisk ==
    \A t \in told : \A s \in t.servers :
       disk[s][t.id] # NoCopy => disk[s][t.id].vers >= t.vers

\* Every client that asks for an allocation is answered, unless the metaserver crashes.
AllocatesAnswered ==
    \A r \in Reqs : reqs[r].kind = "allocate" /\ reqs[r].state # "none"
                      ~> reqs[r].state \in {"answered", "lost"}

\* "run the allocation thru the entire gamut ... and then resume processing of
\* the truncation": a truncation that needs a chunk is answered in the end.
TruncatesAnswered ==
    \A r \in Reqs : reqs[r].kind = "truncate" /\ reqs[r].state # "none"
                      ~> reqs[r].state \in {"answered", "lost"}

\* assert((r->op == META_ALLOCATE) && (r->clnt != NULL)): the allocation that
\* waited for the record of chunkVersionInc has a client.
AllocateHasClient == ~aborted

\* assert(cid == logChunkId): the records of the log name the chunk that replay
\* finds in the tree.
LogReplayable == ~unreplayable

\* "to avoid reissuing the same version # multiple times": no version of a chunk
\* is issued twice.
NoReissue == ~reissued

\* "when metaserver sees that s1 has version v of chunk c, but the latest is v',
\* metaserver will notify s1 that its copy of c is stale": a copy at the version
\* in the tree, on a server that the metaserver names, has all finished writes.
StaleDetected ==
    tree.id # 0 => \A s \in hosts[tree.id] :
       disk[s][tree.id].vers = tree.vers => acked[tree.id] \subseteq disk[s][tree.id].data
=============================================================================

------------------------------- MODULE Leases -------------------------------
(***************************************************************************)
(* Chunk leases of KFS.                                                    *)
(*                                                                         *)
(* The metaserver's lease table (LayoutManager: chunkLeases of every entry *)
(* of mChunkToServerMap), the chunkservers' LeaseClerks that hold and      *)
(* renew write leases, and the metaserver operations that have to respect  *)
(* leases: allocation, remove, truncate, the dumpster and crash recovery.  *)
(*                                                                         *)
(* Time is relative: a lease stores the seconds it has left,               *)
(* left = expires - now, and Tick lowers every such field by one.  The     *)
(* file system holds one file; chunk c is the chunk at its c-th offset.    *)
(***************************************************************************)
EXTENDS Integers, Sequences, FiniteSets

CONSTANTS
  NumChunks,        \* chunk offsets of the file
  Servers,          \* the chunkservers
  LeaseInterval,    \* LEASE_INTERVAL_SECS (60)
  ExpireWindow,     \* LeaseClerk::LEASE_EXPIRE_WINDOW_SECS (10)
  MinChunkservers,  \* mMinChunkserversToExitRecovery
  MaxDelay,         \* seconds a message to a chunkserver may be under way
  MaxLeases,        \* bound: leases granted in a behaviour
  MaxCrashes        \* bound: metaserver restarts in a behaviour

ASSUME LeaseConstants ==
  /\ NumChunks \in Nat \ {0}
  /\ LeaseInterval \in Nat \ {0}
  /\ ExpireWindow \in Nat /\ ExpireWindow <= LeaseInterval
  /\ MinChunkservers \in Nat
  /\ MaxDelay \in Nat
  /\ MaxLeases \in Nat
  /\ MaxCrashes \in Nat
  /\ IsFiniteSet(Servers)

VARIABLES
  file,       \* where the file's dentry is: "linked", "dumpster", "removed"
  used,       \* chunk ids that were handed out
  inFile,     \* chunks with a MetaChunkInfo in the metatree
  version,    \* chunkVersion of those chunks
  mapped,     \* chunks with an entry in mChunkToServerMap
  hosts,      \* chunkServers of the entry
  leases,     \* chunkLeases of the entry
  mLeaseId,   \* the next lease id
  serial,     \* leases granted so far: orders the leases of one chunkLeases
  recLeft,    \* mRecoveryStartTime + LEASE_INTERVAL_SECS - now
  up,         \* mChunkServers
  numWrites,  \* mNumChunkWrites of every chunkserver
  layouts,    \* allocations suspended until the chunkservers reply
  readers,    \* read leases in the hands of clients
  toServer,   \* messages from the metaserver to every chunkserver, in order
  toMeta,     \* lease renewals of every chunkserver not answered yet
  clerk,      \* mLeases of every chunkserver's LeaseClerk
  crashes     \* metaserver restarts so far

tree   == <<file, used, inFile, version>>
layout == <<mapped, hosts, leases, mLeaseId, serial, layouts, numWrites>>
conns  == <<up, toServer, toMeta>>
vars   == <<tree, layout, conns, recLeft, readers, clerk, crashes>>

Chunks == 1..NumChunks
READ_LEASE == "READ_LEASE"
WRITE_LEASE == "WRITE_LEASE"
NoLease == [id |-> 0]

Lease ==
  [serial: 0..MaxLeases, id: Nat, type: {READ_LEASE, WRITE_LEASE},
   left: -1..LeaseInterval]

Message ==
  [kind: {"grant"}, chunk: Chunks, id: Nat, serial: 1..MaxLeases,
   age: 0..MaxDelay]
    \cup
  [kind: {"reply"}, chunk: Chunks, id: Nat, ok: BOOLEAN, age: 0..MaxDelay]

Renewal == [chunk: Chunks, id: Nat]

Layout ==
  [chunk: Chunks, serial: 1..MaxLeases, version: Nat, acked: BOOLEAN]

ClerkLease ==
  [id: Nat, left: (-LeaseInterval - 1)..LeaseInterval,
   idle: 0..(LeaseInterval + 1), renewSent: BOOLEAN]

\* Type invariant: the lease table, the clerks of the chunkservers and the messages
\* between them hold what LeaseInfo, LeaseInfo_t and the RPCs can hold.
TypeOK ==
  /\ file \in {"linked", "dumpster", "removed"}
  /\ used \subseteq Chunks
  /\ inFile \subseteq Chunks
  /\ version \in [Chunks -> Nat]
  /\ mapped \subseteq Chunks
  /\ hosts \in [Chunks -> SUBSET Servers]
  /\ leases \in [Chunks -> SUBSET Lease]
  /\ mLeaseId \in Nat
  /\ serial \in 0..MaxLeases
  /\ recLeft \in -1..LeaseInterval
  /\ up \subseteq Servers
  /\ numWrites \in [Servers -> Nat]
  /\ layouts \subseteq Layout
  /\ readers \subseteq Renewal
  /\ toServer \in [Servers -> Seq(Message)]
  /\ toMeta \in [Servers -> Seq(Renewal)]
  /\ clerk \in [Servers -> [Chunks -> ClerkLease \cup {NoLease}]]
  /\ crashes \in 0..MaxCrashes

Init ==
  /\ file = "linked" /\ used = {} /\ inFile = {}
  /\ version = [c \in Chunks |-> 0]
  /\ mapped = {}
  /\ hosts = [c \in Chunks |-> {}]
  /\ leases = [c \in Chunks |-> {}]
  /\ mLeaseId = 1 /\ serial = 0
  /\ recLeft = -1
  /\ up = Servers
  /\ numWrites = [s \in Servers |-> 0]
  /\ layouts = {} /\ readers = {}
  /\ toServer = [s \in Servers |-> <<>>]
  /\ toMeta = [s \in Servers |-> <<>>]
  /\ clerk = [s \in Servers |-> [c \in Chunks |-> NoLease]]
  /\ crashes = 0

-----------------------------------------------------------------------------
(* The lease table. *)

IsValidLease(l) == l.left >= 0
IsValidWriteLease(l) == l.type = WRITE_LEASE /\ IsValidLease(l)
LeaseExpired(l) == l.left <= 0
ValidLeaseIssued(c) == c \in mapped /\ \E l \in leases[c] : IsValidLease(l)

InRecovery == Cardinality(up) < MinChunkservers \/ recLeft >= 0

NewLease(type) ==
  [serial |-> serial + 1, id |-> mLeaseId, type |-> type,
   left |-> LeaseInterval]

\* The writes of n leases on a chunk stored on S are over.
Decremented(S, n) ==
  [s \in Servers |->
     IF s \in S /\ n > 0
     THEN IF numWrites[s] > n THEN numWrites[s] - n ELSE 0
     ELSE numWrites[s]]

WriteLeases(L) == {l \in L : l.type = WRITE_LEASE}

\* What a new write lease on chunk c with replicas S does: the lease goes to
\* the first of them, the master, and all are sent AllocateChunk.
Grant(c, S, master, vers, counts) ==
  /\ serial < MaxLeases
  /\ serial' = serial + 1
  /\ mLeaseId' = mLeaseId + 1
  /\ leases' = [leases EXCEPT ![c] = {NewLease(WRITE_LEASE)}]
  /\ hosts' = [hosts EXCEPT ![c] = S]
  /\ mapped' = mapped \cup {c}
  /\ numWrites' = [s \in Servers |->
                     IF s \in S THEN counts[s] + 1 ELSE counts[s]]
  /\ layouts' = layouts \cup {[chunk |-> c, serial |-> serial + 1,
                               version |-> vers, acked |-> FALSE]}
  /\ toServer' = [toServer EXCEPT ![master] =
                    Append(@, [kind |-> "grant", chunk |-> c, id |-> mLeaseId,
                               serial |-> serial + 1, age |-> 0])]

\* handle_allocate for an offset without a chunk: LayoutManager::AllocateChunk.
AllocateChunk(c, S) ==
  /\ file # "removed" /\ c \notin used
  /\ S \subseteq up
  /\ \E master \in S : Grant(c, S, master, 1, numWrites)
  /\ used' = used \cup {c}
  /\ UNCHANGED <<file, inFile, version, up, toMeta, recLeft, readers, clerk,
                 crashes>>

\* Variant: a lease is issued although another one is still valid.
NeedsNewLeaseUnchecked(c) ==
  /\ file # "removed" /\ c \in inFile
  /\ ~InRecovery
  /\ c \in mapped /\ hosts[c] # {}

\* The conditions under which GetChunkWriteLease gets to issue a new lease;
\* in all other cases it changes nothing.
NeedsNewLease(c) ==
  /\ file # "removed" /\ c \in inFile
  /\ ~InRecovery
  /\ c \in mapped /\ hosts[c] # {}
  /\ \A l \in leases[c] : ~IsValidLease(l)

\* handle_allocate for an existing chunk: GetChunkWriteLease, new lease.
GetChunkWriteLease(c) ==
  /\ NeedsNewLease(c)
  /\ \E master \in hosts[c] :
       Grant(c, hosts[c], master, version[c] + 1,
             Decremented(hosts[c], Cardinality(WriteLeases(leases[c]))))
  /\ UNCHANGED <<tree, up, toMeta, recLeft, readers, clerk, crashes>>

\* GetChunkWriteLease when a replica lacks space: LeaseCleanup has counted the
\* old leases as finished, yet the entry with them is not stored back.
GetChunkWriteLeaseNoSpace(c) ==
  /\ NeedsNewLease(c)
  /\ numWrites' = Decremented(hosts[c], Cardinality(WriteLeases(leases[c])))
  /\ UNCHANGED <<tree, mapped, hosts, leases, mLeaseId, serial, layouts, conns,
                 recLeft, readers, clerk, crashes>>

\* Second pass of handle_allocate, once every replica replied or was lost.
LayoutDone(l, ok) ==
  /\ \A s \in Servers : \A i \in DOMAIN toServer[s] :
       ~(toServer[s][i].kind = "grant" /\ toServer[s][i].serial = l.serial)
  /\ ok => l.acked
  /\ layouts' = layouts \ {l}
  /\ IF ok
     THEN \* assignChunkId: inserts the chunk or sets its version
          /\ IF file = "removed"
             THEN UNCHANGED <<inFile, version>>
             ELSE /\ inFile' = inFile \cup {l.chunk}
                  /\ version' = [version EXCEPT ![l.chunk] = l.version]
          /\ UNCHANGED <<mapped, hosts, leases>>
     ELSE /\ IF l.chunk \in inFile
             THEN UNCHANGED <<mapped, hosts, leases>>
             ELSE \* RemoveChunkToServerMapping
                  /\ mapped' = mapped \ {l.chunk}
                  /\ hosts' = [hosts EXCEPT ![l.chunk] = {}]
                  /\ leases' = [leases EXCEPT ![l.chunk] = {}]
          /\ UNCHANGED <<inFile, version>>
  /\ UNCHANGED <<file, used, mLeaseId, serial, numWrites, conns, recLeft,
                 readers, clerk, crashes>>

\* GetChunkReadLease for a client that found the chunk with getalloc.
GetChunkReadLease(c) ==
  /\ c \in inFile
  /\ ~InRecovery /\ c \in mapped
  /\ serial < MaxLeases
  /\ serial' = serial + 1
  /\ mLeaseId' = mLeaseId + 1
  /\ leases' = [leases EXCEPT ![c] = @ \cup {NewLease(READ_LEASE)}]
  /\ readers' = readers \cup {[chunk |-> c, id |-> mLeaseId]}
  /\ UNCHANGED <<tree, mapped, hosts, layouts, numWrites, conns, recLeft,
                 clerk, crashes>>

\* find_if with LeaseIdMatcher: the first lease of list L with that id.
Found(l, L, id) ==
  l \in L /\ l.id = id /\ \A m \in L : m.id = id => l.serial <= m.serial

\* Variants: the renewed lease is not stored back into the table, or it is
\* added to the list instead of replacing the lease that was renewed.
RenewedLocally(L, l) == L
RenewedTwice(L, l) == L \cup {[l EXCEPT !.left = LeaseInterval]}

\* The lease list L after l was renewed.
Renewed(L, l) == (L \ {l}) \cup {[l EXCEPT !.left = LeaseInterval]}

\* LayoutManager::LeaseRenew and whether it succeeds.
LeaseRenew(c, id, type, ok) ==
  \/ \* learn of a lease during recovery
     /\ c \notin mapped /\ InRecovery
     /\ ok
     /\ mapped' = mapped \cup {c}
     /\ leases' = [leases EXCEPT ![c] =
                     {[serial |-> 0, id |-> id, type |-> type,
                       left |-> LeaseInterval]}]
     /\ mLeaseId' = IF id > mLeaseId THEN id + 1 ELSE mLeaseId
  \/ /\ c \in mapped
     /\ ok
     /\ \E l \in leases[c] :
          /\ Found(l, leases[c], id) /\ l.left >= 0
          /\ leases' = [leases EXCEPT ![c] = Renewed(@, l)]
     /\ UNCHANGED <<mapped, mLeaseId>>
  \/ \* unknown chunk or lease, or an expired lease
     /\ IF c \in mapped
        THEN \A l \in leases[c] : Found(l, leases[c], id) => l.left < 0
        ELSE ~InRecovery
     /\ ~ok
     /\ UNCHANGED <<mapped, leases, mLeaseId>>

\* A client renews a read lease.
RenewReadLease(r) ==
  /\ \E ok \in BOOLEAN : LeaseRenew(r.chunk, r.id, READ_LEASE, ok)
  /\ UNCHANGED <<tree, hosts, serial, layouts, numWrites, conns, recLeft,
                 readers, clerk, crashes>>

\* The metaserver handles the next renewal of chunkserver s and replies.
RenewWriteLease(s) ==
  /\ s \in up /\ toMeta[s] # <<>>
  /\ LET op == Head(toMeta[s])
     IN \E ok \in BOOLEAN :
          /\ LeaseRenew(op.chunk, op.id, WRITE_LEASE, ok)
          /\ toServer' = [toServer EXCEPT ![s] =
                            Append(@, [kind |-> "reply", chunk |-> op.chunk,
                                       id |-> op.id, ok |-> ok, age |-> 0])]
  /\ toMeta' = [toMeta EXCEPT ![s] = Tail(@)]
  /\ UNCHANGED <<tree, hosts, serial, layouts, numWrites, up, recLeft, readers,
                 clerk, crashes>>

-----------------------------------------------------------------------------
(* Removal and cleanup. *)

\* MetaChunkInfo::DeleteChunk of the chunks in D: they leave the tree, and the
\* map too unless no chunkserver holds them (LayoutManager::DeleteChunk).
DeleteChunks(D) ==
  LET erased == {c \in D : c \in mapped /\ hosts[c] # {}}
  IN /\ inFile' = inFile \ D
     /\ mapped' = mapped \ erased
     /\ hosts' = [c \in Chunks |-> IF c \in erased THEN {} ELSE hosts[c]]

\* Tree::remove: a file with a leased chunk goes to the dumpster.
RemoveFile ==
  /\ file = "linked"
  /\ IF \E c \in inFile : ValidLeaseIssued(c)
     THEN /\ file' = "dumpster"
          /\ UNCHANGED <<inFile, mapped, hosts, leases>>
     ELSE /\ file' = "removed"
          /\ DeleteChunks(inFile)
          /\ leases' = [c \in Chunks |->
                          IF c \in mapped' THEN leases[c] ELSE {}]
  /\ UNCHANGED <<used, version, mLeaseId, serial, layouts, numWrites, conns,
                 recLeft, readers, clerk, crashes>>

\* Tree::truncate to an offset inside chunk k: every later chunk is deleted.
Truncate(k) ==
  /\ file # "removed" /\ k \in inFile
  /\ DeleteChunks({c \in inFile : c > k})
  /\ leases' = [c \in Chunks |-> IF c \in mapped' THEN leases[c] ELSE {}]
  /\ UNCHANGED <<file, used, version, mLeaseId, serial, layouts, numWrites,
                 conns, recLeft, readers, clerk, crashes>>

\* LeaseExpirer on chunk c: remove_if moves the surviving leases to the front
\* of chunkLeases; what DecChunkWriteCount visits is the rest of the vector,
\* which still holds the leases that were at those positions.
Survivors(c) == {l \in leases[c] : ~LeaseExpired(l)}
Position(l, L) == Cardinality({m \in L : m.serial <= l.serial})
Trimmed(c) ==
  {l \in leases[c] : Position(l, leases[c]) > Cardinality(Survivors(c))}

\* Variant: the periodic cleanup leaves the dumpster alone.
CleanupDumpsterNever(busy) == UNCHANGED <<file, inFile, mapped, hosts>>

\* Tree::cleanupDumpster: remove the file unless one of its chunks is leased.
CleanupDumpster(busy) ==
  IF file = "dumpster" /\ ~busy
  THEN /\ file' = "removed"
       /\ DeleteChunks(inFile)
  ELSE UNCHANGED <<file, inFile, mapped, hosts>>

\* handle_lease_cleanup: LeaseCleanup, then cleanupDumpster.
LeaseCleanup ==
  LET kept == [c \in Chunks |-> IF c \in mapped THEN Survivors(c) ELSE {}]
      ended(s) == {c \in mapped : s \in hosts[c] /\ WriteLeases(Trimmed(c)) # {}}
      busy == \E c \in inFile \cap mapped : \E l \in kept[c] : IsValidLease(l)
  IN /\ numWrites' = [s \in Servers |->
                        IF numWrites[s] > Cardinality(ended(s))
                        THEN numWrites[s] - Cardinality(ended(s)) ELSE 0]
     /\ CleanupDumpster(busy)
     /\ leases' = [c \in Chunks |-> IF c \in mapped' THEN kept[c] ELSE {}]
     /\ UNCHANGED <<used, version, mLeaseId, serial, layouts, conns, recLeft,
                    readers, clerk, crashes>>

-----------------------------------------------------------------------------
(* Chunkserver connections and metaserver restarts. *)

\* MetaBye: the connection to s is gone.  The leases it was granted stay.  When
\* the chunkserver process itself died, its clerk and its renewals are lost.
ServerDown(s, died) ==
  /\ s \in up
  /\ up' = up \ {s}
  /\ hosts' = [c \in Chunks |-> hosts[c] \ {s}]
  /\ numWrites' = [numWrites EXCEPT ![s] = 0]
  /\ IF died
     THEN /\ clerk' = [clerk EXCEPT ![s] = [c \in Chunks |-> NoLease]]
          /\ toServer' = [toServer EXCEPT ![s] = <<>>]
          /\ toMeta' = [toMeta EXCEPT ![s] = <<>>]
     ELSE UNCHANGED <<clerk, toServer, toMeta>>
  /\ UNCHANGED <<tree, mapped, leases, mLeaseId, serial, layouts, recLeft,
                 readers, crashes>>

\* The chunkserver dies while it is disconnected.
ServerDies(s) ==
  /\ s \notin up
  /\ clerk' = [clerk EXCEPT ![s] = [c \in Chunks |-> NoLease]]
  /\ toServer' = [toServer EXCEPT ![s] = <<>>]
  /\ toMeta' = [toMeta EXCEPT ![s] = <<>>]
  /\ UNCHANGED <<tree, layout, up, recLeft, readers, crashes>>

\* The last message on a broken connection never arrives.  A renewal whose
\* reply is lost is still in mDispatchedOps and will be sent again.
Lose(s) ==
  /\ s \notin up /\ toServer[s] # <<>>
  /\ LET m == toServer[s][Len(toServer[s])]
     IN toMeta' = IF m.kind = "reply"
                  THEN [toMeta EXCEPT ![s] =
                          <<[chunk |-> m.chunk, id |-> m.id]>> \o @]
                  ELSE toMeta
  /\ toServer' = [toServer EXCEPT ![s] = SubSeq(@, 1, Len(@) - 1)]
  /\ UNCHANGED <<tree, layout, up, recLeft, readers, clerk, crashes>>

\* AddNewServer: s reconnects and hosts the chunks in keep again; it reported
\* the others with an old version, or not at all.  A chunkserver with
\* unanswered operations does not get through the handshake (MetaConnect).
AddNewServer(s, keep) ==
  /\ s \notin up /\ toServer[s] = <<>> /\ toMeta[s] = <<>>
  /\ keep \subseteq inFile \cap mapped
  /\ up' = up \cup {s}
  /\ hosts' = [c \in Chunks |-> IF c \in keep THEN hosts[c] \cup {s}
                                             ELSE hosts[c]]
  /\ UNCHANGED <<tree, mapped, leases, mLeaseId, serial, layouts, numWrites,
                 toServer, toMeta, recLeft, readers, clerk, crashes>>

ChunkCorrupt(s, c) ==
  /\ s \in up /\ c \in mapped /\ s \in hosts[c]
  /\ hosts' = [hosts EXCEPT ![c] = @ \ {s}]
  /\ UNCHANGED <<tree, mapped, leases, mLeaseId, serial, layouts, numWrites,
                 conns, recLeft, readers, clerk, crashes>>

\* The metaserver dies and is started again (kfs_startup): the tree comes back
\* from checkpoint and logs, every chunk in it with an empty map entry; the
\* dumpster is emptied.
MetaRestart ==
  /\ crashes < MaxCrashes
  /\ crashes' = crashes + 1
  /\ mapped' = inFile
  /\ IF file = "dumpster"
     THEN file' = "removed" /\ inFile' = {}
     ELSE UNCHANGED <<file, inFile>>
  /\ hosts' = [c \in Chunks |-> {}]
  /\ leases' = [c \in Chunks |-> {}]
  /\ mLeaseId' = 1
  /\ recLeft' = LeaseInterval
  /\ up' = {}
  /\ layouts' = {}
  /\ numWrites' = [s \in Servers |-> 0]
  /\ UNCHANGED <<used, version, serial, toServer, toMeta, readers, clerk>>

-----------------------------------------------------------------------------
(* The LeaseClerk of a chunkserver. *)

\* AllocChunkOp registers the lease (RegisterLease); LeaseClerk::HandleEvent
\* takes the reply to a renewal: LeaseRenewed or UnRegisterLease, by chunk.
Receive(s) ==
  /\ toServer[s] # <<>>
  /\ LET m == Head(toServer[s])
         mine == clerk[s][m.chunk]
     IN IF m.kind = "grant"
        THEN /\ clerk' = [clerk EXCEPT ![s][m.chunk] =
                            [id |-> m.id, left |-> LeaseInterval, idle |-> 0,
                             renewSent |-> FALSE]]
             /\ layouts' = {[l EXCEPT !.acked = @ \/ (s \in up /\ l.serial = m.serial)]
                              : l \in layouts}
        ELSE /\ clerk' =
                  IF mine = NoLease THEN clerk
                  ELSE IF m.ok
                  THEN [clerk EXCEPT ![s][m.chunk].left = LeaseInterval,
                                     ![s][m.chunk].renewSent = FALSE]
                  ELSE [clerk EXCEPT ![s][m.chunk] = NoLease]
             /\ UNCHANGED layouts
  /\ toServer' = [toServer EXCEPT ![s] = Tail(@)]
  /\ UNCHANGED <<tree, mapped, hosts, leases, mLeaseId, serial, numWrites, up,
                 toMeta, recLeft, readers, crashes>>

Held(s) == {c \in Chunks : clerk[s][c] # NoLease}
IsLeaseValid(s, c) == c \in Held(s) /\ clerk[s][c].left >= 0

\* DoingWrite, after WritePrepare or WriteSync found the lease valid.
DoingWrite(s, c) ==
  /\ IsLeaseValid(s, c) /\ clerk[s][c].idle > 0
  /\ clerk' = [clerk EXCEPT ![s][c].idle = 0]
  /\ UNCHANGED <<tree, layout, conns, recLeft, readers, crashes>>

\* LeaseClerk::Timeout: CleanupExpiredLeases, then LeaseRenewer on the rest.
\* pending are the chunks with a write in the queue (IsWritePending).
ClerkTimeout(s, pending) ==
  LET kept == {c \in Held(s) : clerk[s][c].left >= -LeaseInterval}
      renew == {c \in kept : /\ clerk[s][c].left <= ExpireWindow
                             /\ ~clerk[s][c].renewSent
                             /\ \/ c \in pending
                                \/ clerk[s][c].idle <= LeaseInterval}
  IN /\ pending \subseteq Held(s)
     /\ clerk' = [clerk EXCEPT ![s] = [c \in Chunks |->
                    IF c \in renew THEN [@[c] EXCEPT !.renewSent = TRUE]
                    ELSE IF c \in kept THEN @[c] ELSE NoLease]]
     /\ \E ops \in [1..Cardinality(renew) -> renew] :  \* unordered_map order
          /\ renew = {ops[i] : i \in DOMAIN ops}
          /\ toMeta' = [toMeta EXCEPT ![s] = @ \o
                          [i \in DOMAIN ops |->
                             [chunk |-> ops[i], id |-> clerk[s][ops[i]].id]]]
     /\ UNCHANGED <<tree, layout, up, toServer, recLeft, readers, crashes>>

-----------------------------------------------------------------------------
\* Variant: time fields run below the value at which they stop to matter.
DownForever(n, floor) == n - 1

Down(n, floor) == IF n > floor THEN n - 1 ELSE n

\* One second passes; no message to a chunkserver is under way for longer
\* than MaxDelay.  Fields that no longer matter stay at their floor.
Tick ==
  /\ \A s \in Servers : \A i \in DOMAIN toServer[s] : toServer[s][i].age < MaxDelay
  /\ leases' = [c \in Chunks |-> {[l EXCEPT !.left = Down(@, -1)] : l \in leases[c]}]
  /\ recLeft' = Down(recLeft, -1)
  /\ toServer' = [s \in Servers |->
                    [i \in DOMAIN toServer[s] |-> [toServer[s][i] EXCEPT !.age = @ + 1]]]
  /\ clerk' = [s \in Servers |-> [c \in Chunks |->
                 IF clerk[s][c] = NoLease THEN NoLease
                 ELSE [clerk[s][c] EXCEPT
                         !.left = Down(@, -LeaseInterval - 1),
                         !.idle = IF @ <= LeaseInterval THEN @ + 1 ELSE @]]]
  /\ UNCHANGED <<tree, mapped, hosts, mLeaseId, serial, layouts, numWrites, up,
                 toMeta, readers, crashes>>

MetaStep ==
  \/ \E c \in Chunks :
       \/ \E S \in SUBSET Servers : AllocateChunk(c, S)
       \/ GetChunkWriteLease(c)
       \/ GetChunkWriteLeaseNoSpace(c)
       \/ GetChunkReadLease(c)
       \/ Truncate(c)
       \/ \E s \in Servers : ChunkCorrupt(s, c)
  \/ \E l \in layouts, ok \in BOOLEAN : LayoutDone(l, ok)
  \/ \E r \in readers : RenewReadLease(r)
  \/ \E s \in Servers :
       \/ RenewWriteLease(s)
       \/ \E died \in BOOLEAN : ServerDown(s, died)
       \/ \E keep \in SUBSET Chunks : AddNewServer(s, keep)
  \/ RemoveFile
  \/ LeaseCleanup
  \/ MetaRestart

ServerStep ==
  \E s \in Servers :
    \/ Receive(s)
    \/ Lose(s)
    \/ ServerDies(s)
    \/ \E c \in Chunks : DoingWrite(s, c)
    \/ \E pending \in SUBSET Chunks : ClerkTimeout(s, pending)

Next == MetaStep \/ ServerStep \/ Tick

Spec == Init /\ [][Next]_vars

\* Seconds pass, LeaseCleaner's timer keeps submitting lease cleanups, and a
\* chunkserver reads what arrives on its connection.
FairSpec ==
  Spec /\ WF_vars(Tick) /\ WF_vars(LeaseCleanup)
       /\ \A s \in Servers : WF_vars(Receive(s))

-----------------------------------------------------------------------------
(* Properties. *)

\* A chunk has at most one valid write lease in the lease table, whatever mix
\* of grants, renewals, recoveries and cleanups produced it: writes to a chunk
\* are serialised by one master.
WriteLeaseExclusive ==
  \A c \in Chunks : \A l, m \in leases[c] :
    IsValidWriteLease(l) /\ IsValidWriteLease(m) => l = m

\* A chunkserver counts its lease from the moment it hears of it, by chunk id
\* and not by lease id, and a restarted metaserver forgets all leases.  Still,
\* the time a clerk believes to have left exceeds neither a lease in the table
\* nor the recovery period by more than the message delay.
HolderIsCovered ==
  \A s \in Servers, c \in inFile \cap mapped :
    IsLeaseValid(s, c) =>
      \/ clerk[s][c].left <= MaxDelay
      \/ clerk[s][c].left <= recLeft + MaxDelay
      \/ \E l \in leases[c] : clerk[s][c].left <= l.left + MaxDelay

\* When GetChunkWriteLease issues a new lease on an existing chunk, no
\* chunkserver goes on believing in an earlier one for longer than the message
\* delay, even if the earlier one was granted before a metaserver crash.
GrantAfterHoldersLapse ==
  [][\A c \in inFile :
       (serial' > serial /\ \E l \in leases'[c] : l.serial = serial' /\ l.type = WRITE_LEASE)
         => \A s \in Servers : IsLeaseValid(s, c) => clerk[s][c].left <= MaxDelay]_vars

\* A client asks for a lease, writes, or has its lease renewed.
ClientStep ==
  \/ \E c \in Chunks :
       \/ \E S \in SUBSET Servers : AllocateChunk(c, S)
       \/ GetChunkWriteLease(c)
       \/ GetChunkReadLease(c)
       \/ \E s \in Servers : DoingWrite(s, c)
  \/ \E r \in readers : RenewReadLease(r)
  \/ \E s \in Servers, pending \in SUBSET Chunks \ {{}} : ClerkTimeout(s, pending)

\* A file moved to the dumpster because of a lease is reclaimed once clients
\* stop working on it: its leases lapse and cleanupDumpster gets to remove it.
DumpsterReclaimed ==
  []<><<ClientStep>>_vars \/ (file = "dumpster" ~> file = "removed")

\* "As long as the lease is valid, server promises not to change the lease's
\* version #": no allocation that completes changes the version of a chunk
\* under a valid read lease.
ReadLeaseKeepsVersion ==
  [][\A c \in inFile : version'[c] # version[c] =>
       \A l \in leases[c] : l.type = READ_LEASE => ~IsValidLease(l)]_vars

\* "chunk won't disappear as long as lease is valid": a chunk under a valid
\* lease stays in the metatree.
LeasedChunkStays ==
  [][\A c \in inFile : ValidLeaseIssued(c) => c \in inFile']_vars

\* "we only grant lease renews ... during the time period that corresponds to
\* a lease interval, we may learn about leases that we had handed out before
\* crashing": a renewal of an unexpired lease that its holder sends during the
\* recovery period is granted.
RecoveryHonoursRenewals ==
  [][\A s \in Servers :
       LET op == Head(toMeta[s])
       IN (/\ s \in up \cap up' /\ recLeft >= 0
           /\ toMeta[s] # <<>> /\ toMeta'[s] = Tail(toMeta[s])
           /\ IsLeaseValid(s, op.chunk) /\ clerk[s][op.chunk].id = op.id)
          => toServer'[s][Len(toServer'[s])].ok]_vars

\* "If the write lease on a chunk is expired, then decrement the # of writes on
\* the servers that are involved in the write": when cleanup drops the write
\* lease of a chunk, the count of every replica goes down.
CleanupEndsWrite ==
  [][\A c \in mapped \cap mapped', s \in Servers :
       (/\ s \in hosts[c] \cap hosts'[c] /\ numWrites[s] > 0
        /\ WriteLeases(leases[c]) # {} /\ WriteLeases(leases'[c]) = {})
       => numWrites'[s] < numWrites[s]]_vars

=============================================================================

--------------------------- MODULE WritePipeline ---------------------------
(***************************************************************************)
(* A write on its way through the chunkservers: the write ids the servers  *)
(* allocate, the data the client pushes to the master and each server      *)
(* forwards to the next, the sync that follows the data down the chain and *)
(* whose reply is the only one the client gets (chunk/KfsOps.cc,           *)
(* ChunkManager's pending writes, RemoteSyncSM and ClientSM).              *)
(*                                                                         *)
(* The servers of a chunk are the nodes 1 .. N of a chain, 1 the master.   *)
(* Connection i leads to node i: from the client for i = 1, from node      *)
(* i - 1 otherwise.  A cell of the file stands for what one WRITE_PREPARE  *)
(* carries; how the disk stores it is ChunkStore's subject and one step    *)
(* here.  The client that drives the chain is module ClientIO.             *)
(***************************************************************************)
EXTENDS Integers, Sequences, FiniteSets, SequencesExt, FiniteSetsExt

CONSTANTS N, CHUNKSIZE, NumChunks, MaxFaults

ASSUME ChainAssumption == N \in Nat \ {0} /\ CHUNKSIZE \in Nat \ {0} /\ NumChunks \in Nat \ {0}

Nodes == 1 .. N
Chunks == 0 .. NumChunks - 1
Cells == 0 .. NumChunks * CHUNKSIZE - 1
ChunkOf(x) == x \div CHUNKSIZE

VARIABLES
    mPendingWrites,  \* per node: write id -> status of the write
    mWriteId,        \* per node: the last write id given out
    vers,            \* per node and chunk: the version, 0 for none
    loaded,          \* per node and chunk: AreChecksumsLoaded()
    data,            \* per node and cell: what is stored, 0 for nothing
    lease,           \* per chunk: the master's write lease is valid
    conn,            \* per connection: it is up
    req, rep,        \* per connection: the requests and the replies on it
    mOps,            \* per node: ClientSM::mOps, the ops that will be answered
    faults,          \* the failures so far
    try, hidden      \* history: the attempt under way, and whether some of its
                     \* data was dropped in a way that no sync reports

stores == <<vers, loaded, data, lease>>
writes == <<mPendingWrites, mWriteId>>
wires  == <<conn, req, rep, mOps>>
pipe   == <<stores, writes, wires, faults, try, hidden>>

\* chunkInfo.chunkSize, in cells.
ChunkSize(i, c) ==
    Max({0} \cup {(x % CHUNKSIZE) + 1 : x \in {y \in Cells : ChunkOf(y) = c /\ data[i][y] # 0}})

Full(i, c) == ChunkSize(i, c) >= CHUNKSIZE

\* A failure is one of at most MaxFaults.
Faulted == faults < MaxFaults /\ faults' = faults + 1

\* What the client or a peer sends.  A prepare carries the cell and its value.
Request(kind, seq, c, ver, ids, cell, val) ==
    [kind |-> kind, seq |-> seq, chunk |-> c, ver |-> ver, ids |-> ids, cell |-> cell, val |-> val,
     try |-> try]

\* The op of a request at a server, and its reply.
Op(m, status, ids, done) ==
    [kind |-> m.kind, seq |-> m.seq, chunk |-> m.chunk, status |-> status, ids |-> ids,
     done |-> done, orphan |-> FALSE]

Reply(o) == [seq |-> o.seq, status |-> o.status, ids |-> o.ids]
-----------------------------------------------------------------------------
(* Forwarding, answering, and losing a connection.                         *)

\* needToForwardWrite(): every server but the last forwards to the next.
needToForwardWrite(i) == i < N

Live(q) == SelectSeq(q, LAMBDA o : ~o.orphan)
DoneInFront(q) == Max({0} \cup {k \in 1 .. Len(q) : \A j \in 1 .. k : q[j].done})

\* ClientSM, EVENT_CMD_DONE, for the ops queued in ops[i]: the ones that are
\* done at the front are answered in order, and an op whose connection is
\* gone is only deleted.  The destructor of a sync closes a full chunk,
\* which drops its checksums.
Answer(i, ops, reps, load) ==
    LET live  == Live(ops[i])
        k     == DoneInFront(live)
        ended == Range(SubSeq(live, 1, k)) \cup {o \in Range(ops[i]) : o.orphan /\ o.done}
        shut  == {o.chunk : o \in {o \in ended : o.kind = "sync"}}
    IN  /\ mOps' = [ops EXCEPT ![i] = SelectSeq(@, LAMBDA o : o.orphan /\ ~o.done)
                                      \o SubSeq(live, k + 1, Len(live))]
        /\ rep' = [reps EXCEPT ![i] = @ \o [j \in 1 .. k |-> Reply(live[j])]]
        /\ loaded' = [load EXCEPT ![i] = [c \in Chunks |-> @[c] /\ ~(c \in shut /\ Full(i, c))]]

\* ChunkServer::FindServer(): the next server is connected to if it is not yet.
FindServer(i) == conn' = [conn EXCEPT ![i + 1] = TRUE]

\* RemoteSyncSM::Enqueue(): the request goes on, from connection i to i + 1.
Enqueue(i, m) == req' = [req EXCEPT ![i] = Tail(@), ![i + 1] = Append(@, m)]

Forward(i, m) == FindServer(i) /\ Enqueue(i, m)

Consume(i) == req' = [req EXCEPT ![i] = Tail(@)] /\ UNCHANGED conn

\* A mutant: the ops that wait are not told.
FailsNone(q) == q

\* RemoteSyncSM::FailAllOps(): the ops that wait for a peer fail.
FailAllOps(q) == [j \in 1 .. Len(q) |-> IF q[j].done THEN q[j]
                                        ELSE [q[j] EXCEPT !.done = TRUE, !.status = "EHOSTUNREACH"]]

Orphaned(q) == [j \in 1 .. Len(q) |-> [q[j] EXCEPT !.orphan = TRUE]]

\* The connections in cut go down: what is on them is lost, the ops that came
\* over them stay without a client, and the ops that wait at the other end
\* fail.  The ops of the nodes in dead are gone.
Cut(cut, dead) ==
    [i \in Nodes |-> IF i \in dead THEN <<>>
                     ELSE LET q == IF i + 1 \in cut THEN FailAllOps(mOps[i]) ELSE mOps[i]
                          IN  IF i \in cut THEN Orphaned(q) ELSE q]

Emptied(queues, cut) == [i \in Nodes |-> IF i \in cut THEN <<>> ELSE queues[i]]

\* A prepare of this attempt that is lost on the way between two servers,
\* with no sync behind it that would be lost as well.
LosesData(i) ==
    /\ i > 1
    /\ \E j \in 1 .. Len(req[i]) : /\ req[i][j].kind = "prepare" /\ req[i][j].try = try
                                   /\ \A k \in j + 1 .. Len(req[i]) : req[i][k].kind # "sync"
-----------------------------------------------------------------------------
(* The handlers of a chunkserver.                                          *)

Arrived(i, kind) == req[i] # <<>> /\ Head(req[i]).kind = kind

\* The op goes to the back of mOps, and is answered if it is done.
Enter(i, o) == Answer(i, [mOps EXCEPT ![i] = Append(@, o)], rep, loaded)

\* ChunkManager::AllocateWriteId(), which alone compares versions.
AllocateWriteId(i, m) ==
    IF vers[i][m.chunk] # m.ver THEN UNCHANGED writes
    ELSE /\ mWriteId' = [mWriteId EXCEPT ![i] = @ + 1]
         /\ mPendingWrites' = [mPendingWrites EXCEPT ![i] = Append(@, "ok")]

\* WriteIdAllocOp::Execute(): forwards first, then takes an id of its own.
WriteIdAllocOp(i) ==
    LET m == Head(req[i])
        s == IF vers[i][m.chunk] = m.ver THEN "ok" ELSE "EINVAL"
        w == IF s = "ok" THEN <<mWriteId[i] + 1>> ELSE <<0>>
    IN  /\ Arrived(i, "id")
        /\ \/ /\ IF needToForwardWrite(i) THEN Forward(i, m) ELSE Consume(i)
              /\ AllocateWriteId(i, m)
              /\ Enter(i, Op(m, s, w, ~needToForwardWrite(i)))
              /\ UNCHANGED faults
           \/ /\ needToForwardWrite(i) /\ Faulted              \* no peer
              /\ Consume(i)
              /\ Enter(i, Op(m, "EHOSTUNREACH", w, TRUE))
              /\ UNCHANGED writes
        /\ UNCHANGED <<vers, data, lease, try, hidden>>

\* A mutant: the error of a prepare is not kept for the sync.
KeepsWriteStatus(i, id, status) == UNCHANGED mPendingWrites

\* ChunkManager::IsValidWriteId() and SetWriteStatus().
IsValidWriteId(i, id) == id \in DOMAIN mPendingWrites[i]

SetWriteStatus(i, id, status) == mPendingWrites' = [mPendingWrites EXCEPT ![i][id] = status]

\* The refusals of WritePrepareOp::Execute() that leave the write as it is.
PrepareRefused(i, m) ==
    \/ ~IsValidWriteId(i, m.ids[i])
    \/ ~loaded[i][m.chunk]
    \/ i = 1 /\ ~lease[m.chunk]

\* No reply goes out for a prepare, so a refusal is seen by a later sync, if
\* at all: the sync of a full chunk does not need its checksums.
WritePrepareRefused(i) ==
    LET m == Head(req[i])
    IN  /\ Arrived(i, "prepare") /\ PrepareRefused(i, m)
        /\ Consume(i)
        /\ hidden' = (hidden \/ (m.try = try /\ ~loaded[i][m.chunk] /\ Full(i, m.chunk)))
        /\ UNCHANGED <<stores, writes, rep, mOps, faults, try>>

\* A checksum mismatch, or a peer that cannot be connected to: the error is
\* kept for the sync.
WritePrepareFails(i) ==
    LET m == Head(req[i])
    IN  /\ Arrived(i, "prepare") /\ ~PrepareRefused(i, m) /\ Faulted
        /\ \/ SetWriteStatus(i, m.ids[i], "EBADCKSUM")
           \/ needToForwardWrite(i) /\ SetWriteStatus(i, m.ids[i], "EHOSTUNREACH")
        /\ Consume(i)
        /\ UNCHANGED <<stores, mWriteId, rep, mOps, try, hidden>>

\* WritePrepareOp::Execute(), to the end of the write: forwarded first.  An
\* error of the disk is noted in the op, which has no reply to put it in.
WritePrepareOp(i) ==
    LET m == Head(req[i])
    IN  /\ Arrived(i, "prepare") /\ ~PrepareRefused(i, m)
        /\ mPendingWrites[i][m.ids[i]] = "ok"
        /\ IF needToForwardWrite(i) THEN Forward(i, m) ELSE Consume(i)
        /\ \/ data' = [data EXCEPT ![i][m.cell] = m.val] /\ UNCHANGED <<faults, hidden>>
           \/ Faulted /\ hidden' = (hidden \/ m.try = try) /\ UNCHANGED data
        /\ UNCHANGED <<vers, loaded, lease, writes, rep, mOps, try>>

\* WriteSyncOp::Execute(): the status it ends with, or "ok" to go on.  The
\* checksums of a full chunk may have been paged out by an earlier sync.
SyncStatus(i, m) ==
    IF ~IsValidWriteId(i, m.ids[i]) \/ mPendingWrites[i][m.ids[i]] # "ok" THEN "EINVAL"
    ELSE IF ~loaded[i][m.chunk] /\ ~Full(i, m.chunk) THEN "ELEASEEXPIRED"
    ELSE IF i = 1 /\ ~lease[m.chunk] THEN "ELEASEEXPIRED"
    ELSE "ok"

WriteSyncOp(i) ==
    LET m == Head(req[i])
        s == SyncStatus(i, m)
    IN  /\ Arrived(i, "sync")
        /\ \/ /\ s = "ok" /\ needToForwardWrite(i)
              /\ Forward(i, m) /\ Enter(i, Op(m, s, <<>>, FALSE))
              /\ UNCHANGED faults
           \/ /\ s = "ok" => ~needToForwardWrite(i)
              /\ Consume(i) /\ Enter(i, Op(m, s, <<>>, TRUE))
              /\ UNCHANGED faults
           \/ /\ s = "ok" /\ needToForwardWrite(i) /\ Faulted   \* no peer
              /\ Consume(i) /\ Enter(i, Op(m, "EHOSTUNREACH", <<>>, TRUE))
        /\ UNCHANGED <<vers, data, lease, writes, try, hidden>>

\* WriteIdAllocOp::HandlePeerReply(): the ids of the peers follow one's own.
WithPeerIds(o, r) ==
    IF r.status # "ok" THEN [o EXCEPT !.done = TRUE, !.status = r.status]
    ELSE [o EXCEPT !.done = TRUE, !.ids = @ \o r.ids]

\* WriteSyncOp::HandleDone(): the peer's error, if it has one.
SyncDone(o, r) == [o EXCEPT !.done = TRUE, !.status = IF r.status = "ok" THEN @ ELSE r.status]

\* RemoteSyncSM::HandleResponse(): the op that waits for this reply ends.
Completed(o, r) ==
    IF o.seq # r.seq \/ o.done THEN o
    ELSE IF o.kind = "id" THEN WithPeerIds(o, r) ELSE SyncDone(o, r)

HandleResponse(i) ==
    /\ i < N /\ rep[i + 1] # <<>>
    /\ LET r == Head(rep[i + 1])
           q == [j \in 1 .. Len(mOps[i]) |-> Completed(mOps[i][j], r)]
       IN  Answer(i, [mOps EXCEPT ![i] = q], [rep EXCEPT ![i + 1] = Tail(@)], loaded)
    /\ UNCHANGED <<vers, data, lease, writes, conn, req, faults, try, hidden>>
-----------------------------------------------------------------------------
(* Failures.                                                               *)

\* The node at the other end of connection i; for i = 1 it is the client, and
\* node 1 itself stands in, which then has nothing to answer.
Sender(i) == Max({1, i - 1})

\* Connection i breaks: EVENT_NET_ERROR at both of its ends.
Break(i) ==
    /\ conn[i] /\ Faulted
    /\ conn' = [conn EXCEPT ![i] = FALSE]
    /\ req' = Emptied(req, {i})
    /\ Answer(Sender(i), Cut({i}, {}), Emptied(rep, {i}), loaded)
    /\ hidden' = (hidden \/ LosesData(i))
    /\ UNCHANGED <<vers, data, lease, writes, try>>

\* Node i stops and starts again: its pending writes, its leases and its
\* loaded checksums are gone, and mWriteId starts from 0 once more.
Restarted(i) ==
    LET cut == {i, i + 1} \cap Nodes
    IN  /\ conn' = [j \in Nodes |-> conn[j] /\ j \notin cut]
        /\ req' = Emptied(req, cut)
        /\ Answer(Sender(i), Cut(cut, {i}), Emptied(rep, cut),
                  [loaded EXCEPT ![i] = [c \in Chunks |-> FALSE]])
        /\ mPendingWrites' = [mPendingWrites EXCEPT ![i] = <<>>]
        /\ mWriteId' = [mWriteId EXCEPT ![i] = 0]
        /\ lease' = IF i = 1 THEN [c \in Chunks |-> FALSE] ELSE lease
        /\ UNCHANGED <<vers, data, try, hidden>>

Restart(i) == Faulted /\ Restarted(i)

\* WritePrepareOp::Execute(), assert(writeOp != NULL): CloneWriteOp() finds no
\* good write for data that comes after an error was set.
WritePrepareAsserts(i) ==
    /\ Arrived(i, "prepare") /\ ~PrepareRefused(i, Head(req[i]))
    /\ mPendingWrites[i][Head(req[i]).ids[i]] # "ok"
    /\ Restarted(i) /\ UNCHANGED faults

\* The master's lease runs out; the checksums of an idle chunk are dropped
\* (CleanupInactiveFds(), ScavengePendingWrites()).
LeaseLapses(c) ==
    /\ lease[c] /\ Faulted
    /\ lease' = [lease EXCEPT ![c] = FALSE]
    /\ UNCHANGED <<vers, loaded, data, writes, wires, try, hidden>>

CleanupInactiveFds(i, c) ==
    /\ loaded[i][c] /\ Faulted
    /\ loaded' = [loaded EXCEPT ![i][c] = FALSE]
    /\ UNCHANGED <<vers, data, lease, writes, wires, try, hidden>>

PipeInit ==
    /\ mPendingWrites = [i \in Nodes |-> <<>>] /\ mWriteId = [i \in Nodes |-> 0]
    /\ vers = [i \in Nodes |-> [c \in Chunks |-> 0]]
    /\ loaded = [i \in Nodes |-> [c \in Chunks |-> FALSE]]
    /\ data = [i \in Nodes |-> [x \in Cells |-> 0]]
    /\ lease = [c \in Chunks |-> FALSE]
    /\ conn = [i \in Nodes |-> FALSE]
    /\ req = [i \in Nodes |-> <<>>] /\ rep = [i \in Nodes |-> <<>>] /\ mOps = [i \in Nodes |-> <<>>]
    /\ faults = 0 /\ try = 0 /\ hidden = FALSE

\* What node i does by itself, and what may befall it.
ServerStep(i) ==
    \/ WriteIdAllocOp(i)
    \/ WritePrepareRefused(i)
    \/ WritePrepareOp(i)
    \/ WritePrepareAsserts(i)
    \/ WriteSyncOp(i)
    \/ HandleResponse(i)

Failure ==
    \/ \E i \in Nodes : WritePrepareFails(i) \/ Break(i) \/ Restart(i)
    \/ \E c \in Chunks : LeaseLapses(c)
    \/ \E i \in Nodes, c \in Chunks : CleanupInactiveFds(i, c)
=============================================================================

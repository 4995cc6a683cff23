------------------------------ MODULE ClientIO ------------------------------
(***************************************************************************)
(* Reading and writing an open file: KfsClientImpl::Write(), Read(),       *)
(* Seek(), Sync() and Close() over the chunkservers of WritePipeline       *)
(* (libkfsClient/KfsWrite.cc, KfsRead.cc and the I/O part of               *)
(* KfsClient.cc), for one file of one client.  The buffer of a file, what  *)
(* is known of its chunks, the three nested retry loops of a write and the *)
(* socket to the master are the client's; a request to the metaserver, a   *)
(* size query and a read from a chunkserver are one step each.             *)
(***************************************************************************)
EXTENDS WritePipeline

CONSTANTS
    BUF_SIZE,            \* ChunkBuffer::BUF_SIZE, in cells
    MinOps,              \* the prepares between two commits
    NUM_RETRIES_PER_OP,
    Calls,               \* what the application may call
    MaxCalls             \* a bound: calls and failures together

VARIABLES
    pos,        \* FilePosition: the offset in the file
    pref,       \* preferredServer, 0 for none
    cb,         \* the ChunkBuffer; stale: cells written past it (history)
    cattr,      \* per chunk: what is known of it (ChunkAttr)
    fileSize,   \* fattr.fileSize
    fr,         \* where the current call is
    seq,        \* the last sequence number
    calls,      \* the calls so far
    file,       \* history: what the application wrote, -1 if it cannot tell
    acked,      \* history: what the servers said they hold, -1 for nothing
    got         \* history: what a read returned, and what it should have

view == <<pos, pref, cb, cattr, fileSize>>
past == <<file, acked, got>>
vars == <<pipe, view, fr, seq, calls, past>>

chunkNum == ChunkOf(pos)
chunkOffset == pos % CHUNKSIZE
CellsFrom(c, off, len) == {c * CHUNKSIZE + off + j : j \in 0 .. len - 1}

NoChunk == [known |-> FALSE, did |-> FALSE, size |-> 0, ver |-> 0]
NoBuffer == [chunkno |-> -1, start |-> 0, vals |-> <<>>, dirty |-> FALSE, stale |-> {}]

\* A call: its operation, the cells left, and a pc.  A seek has a target and
\* what follows it; WriteToServer() has its caller, the cells it writes, its
\* result, the retries of WriteToServer(), DoLargeWriteToServer() and
\* DoAllocation(), and in DoPipelinedWrite() the next op to push, the
\* commits out and whether one failed.  back is where DoAllocation() returns.
NoCall ==
    [pc |-> "idle", op |-> "none", left |-> 0, to |-> 0, then |-> "none",
     caller |-> "none", off |-> 0, vals |-> <<>>, res |-> "ok",
     wtries |-> 0, ltries |-> 0, atries |-> 0, back |-> "none",
     ids |-> <<>>, next |-> 1, wait |-> <<>>, failed |-> FALSE]

At(pc) == fr.pc = pc
Goto(pc) == fr' = [fr EXCEPT !.pc = pc]

\* The value a call writes.
Value == calls + 1

\* Nothing is under way on any connection.
Quiet == \A i \in Nodes : req[i] = <<>> /\ rep[i] = <<>> /\ mOps[i] = <<>>

\* ScavengePendingWrites(), when no request names a write id any more.  The
\* model numbers the ids anew then.
ScavengePendingWrites ==
    mWriteId' = [i \in Nodes |-> 0] /\ mPendingWrites' = [i \in Nodes |-> <<>>]

\* The call returns to the application.  The model starts its sequence numbers
\* anew when none is in use.
Returns ==
    /\ fr' = NoCall /\ calls' = calls + 1 /\ got' = {}
    /\ IF Quiet THEN seq' = 0 /\ ScavengePendingWrites ELSE UNCHANGED <<seq, writes>>

\* ResetServers(): the sockets to the chunkservers are closed.  A server has
\* read by then what the client sent on them.
ResetServers(up) ==
    /\ conn' = [conn EXCEPT ![1] = up]
    /\ req' = Emptied(req, {1}) /\ rep' = Emptied(rep, {1}) /\ mOps' = Cut({1}, {})
-----------------------------------------------------------------------------
(* Calls, and Seek().                                                      *)

\* The application calls; a read or a write comes after a seek.  Close() and
\* Open() of the file are one call.
Call(k) ==
    /\ At("idle") /\ calls + faults < MaxCalls
    /\ fr' = [NoCall EXCEPT !.op = k.op, !.left = k.n, !.to = k.at, !.then = k.op,
                            !.pc = IF k.op \in {"sync", "close"} THEN "flush" ELSE "seek",
                            !.caller = k.op]
    /\ UNCHANGED <<pipe, view, seq, calls, past>>

\* Seek(): a change of chunk flushes the buffer first.
Seek ==
    /\ At("seek")
    /\ IF ChunkOf(fr.to) # chunkNum /\ cb.dirty
       THEN fr' = [fr EXCEPT !.pc = "flush", !.caller = "seek"]
       ELSE Goto("sought")
    /\ UNCHANGED <<pipe, view, seq, calls, past>>

\* A mutant: the client goes on with a buffer it could not flush.
NeverPanics == FALSE

\* A buffer that could not be flushed ends the client in Seek(): "better to
\* panic than silently lose a write".
MustPanic == ChunkOf(fr.to) # chunkNum /\ cb.dirty

Sought ==
    /\ At("sought")
    /\ IF MustPanic THEN Goto("aborted") /\ UNCHANGED <<pipe, view>>
       ELSE /\ pos' = fr.to /\ Goto(fr.then)
            /\ IF ChunkOf(fr.to) # chunkNum THEN ResetServers(FALSE) /\ pref' = 0
               ELSE UNCHANGED <<wires, pref>>
            /\ UNCHANGED <<stores, writes, faults, try, hidden, cb, cattr, fileSize>>
    /\ UNCHANGED <<seq, calls, past>>
-----------------------------------------------------------------------------
(* DoAllocation().                                                         *)

\* The metaserver (external): with the write lease still valid the chunk keeps
\* its version; otherwise every server of it gets the next one, with its
\* checksums loaded, and the master gets the lease.
MetaAllocate(c) ==
    /\ IF lease[c] THEN UNCHANGED <<vers, loaded>>
       ELSE /\ vers' = [i \in Nodes |-> [vers[i] EXCEPT ![c] = vers[1][c] + 1]]
            /\ loaded' = [i \in Nodes |-> [loaded[i] EXCEPT ![c] = TRUE]]
    /\ lease' = [lease EXCEPT ![c] = TRUE]

\* A mutant: the answer to the size query is not stored.
SizeNotTaken(j) == cattr[chunkNum].size

\* SizeChunk(): what server j says the size of the current chunk is.
SizeChunk(j) == ChunkSize(j, chunkNum)

\* AllocChunk(): the chunk, its version and its size on the master; the old
\* sockets are closed and the master is connected to.
AllocChunk ==
    /\ At("alloc")
    /\ MetaAllocate(chunkNum)
    /\ cattr' = [cattr EXCEPT ![chunkNum] =
                    [known |-> TRUE, did |-> TRUE, size |-> SizeChunk(1), ver |-> vers'[1][chunkNum]]]
    /\ ResetServers(TRUE) /\ pref' = 1
    /\ Goto(fr.back)
    /\ UNCHANGED <<data, writes, faults, try, hidden, pos, cb, fileSize, seq, calls, past>>

\* A failed allocation is tried again, and then given up.  Write() takes that
\* for the end of its work, WriteToServer() for its result.
AllocChunkFails ==
    /\ At("alloc") /\ Faulted
    /\ IF fr.atries + 1 < NUM_RETRIES_PER_OP
       THEN fr' = [fr EXCEPT !.atries = @ + 1]
       ELSE IF fr.back = "open" THEN Goto("end")
       ELSE fr' = [fr EXCEPT !.pc = "return", !.res = "error"]
    /\ UNCHANGED <<stores, writes, wires, try, hidden, view, seq, calls, past>>

\* DoAllocation(fd, force) on its way to back.
DoAllocation(f, force, back) ==
    /\ cattr' = [cattr EXCEPT ![chunkNum].did = @ /\ ~force]
    /\ fr' = [f EXCEPT !.pc = IF cattr[chunkNum].known /\ cattr'[chunkNum].did THEN back ELSE "alloc",
                       !.atries = 0, !.back = back]
-----------------------------------------------------------------------------
(* Write() and the buffer.                                                 *)

\* The head of the loop in Write().
Write ==
    /\ At("write")
    /\ IF fr.left = 0 THEN Goto("end") /\ UNCHANGED cattr
       ELSE DoAllocation(fr, FALSE, "open")
    /\ UNCHANGED <<pipe, pos, pref, cb, fileSize, seq, calls, past>>

\* OpenChunk(): a server at random, and the size of the chunk there.
OpenChunk(j) ==
    /\ pref' = IF pref = 0 THEN j ELSE pref
    /\ cattr' = IF pref = 0 THEN [cattr EXCEPT ![chunkNum].size = SizeChunk(j)] ELSE cattr

\* WriteToBuffer() cannot take the data before a flush.
MustFlush ==
    cb.dirty /\ \/ cb.chunkno # chunkNum
                \/ chunkOffset - cb.start # Len(cb.vals)
                \/ Len(cb.vals) = BUF_SIZE

Least(a, b) == IF a < b THEN a ELSE b

\* What WriteToServer() is asked to write, starting at off of the chunk.
ToServer(f, caller, off, vals) ==
    [f EXCEPT !.pc = "attempt", !.caller = caller, !.off = off, !.wtries = 0,
              !.vals = SubSeq(vals, 1, Least(Len(vals), CHUNKSIZE - off))]

\* The rest of the loop in Write(), up to the I/O: a write that is small, or
\* comes while there is dirty data, is buffered.
WriteOpened ==
    /\ At("open")
    /\ \E j \in Nodes : OpenChunk(j)
    /\ fr' = IF fr.left < BUF_SIZE \/ cb.dirty
             THEN IF MustFlush THEN [fr EXCEPT !.pc = "flush", !.caller = "absorb"]
                  ELSE [fr EXCEPT !.pc = "absorb"]
             ELSE ToServer(fr, "thru", chunkOffset, [j \in 1 .. fr.left |-> Value])
    /\ UNCHANGED <<pipe, pos, cb, fileSize, seq, calls, past>>

\* An I/O of n cells is over: Write() and Read() move the file position.
Advanced(n, then) == [fr EXCEPT !.pc = "seek", !.to = pos + n, !.left = @ - n, !.then = then, !.caller = "none"]

\* WriteToBuffer(), the copy.
Absorb ==
    LET b == IF cb.dirty THEN cb ELSE [NoBuffer EXCEPT !.chunkno = chunkNum, !.start = chunkOffset]
        n == Least(Least(fr.left, CHUNKSIZE - chunkOffset), BUF_SIZE - Len(b.vals))
    IN  /\ At("absorb")
        /\ cb' = [b EXCEPT !.vals = @ \o [j \in 1 .. n |-> Value], !.dirty = TRUE]
        /\ fr' = Advanced(n, "write")
        /\ file' = [x \in Cells |-> IF x \in pos .. pos + n - 1 THEN Value ELSE file[x]]
        /\ UNCHANGED <<pipe, pos, pref, cattr, fileSize, seq, calls, acked, got>>

\* FlushBuffer(), which has nothing to do for a clean buffer.
FlushBuffer ==
    /\ At("flush")
    /\ fr' = IF cb.dirty THEN ToServer(fr, fr.caller, cb.start, cb.vals)
             ELSE [fr EXCEPT !.pc = "return", !.res = "ok", !.vals = <<>>]
    /\ UNCHANGED <<pipe, view, seq, calls, past>>
-----------------------------------------------------------------------------
(* WriteToServer(): the attempts, each with its write id, data and commits. *)

AttemptCells == CellsFrom(chunkNum, fr.off, Len(fr.vals))
AttemptValue(x) == fr.vals[x - (chunkNum * CHUNKSIZE + fr.off) + 1]

\* DoOpSend() on a socket that is up.
DoOpSend(ms) == req' = [req EXCEPT ![1] = @ \o ms]

\* GetChunkServerSocket(): the master's socket, connected if need be.
GetChunkServerSocket == conn' = [conn EXCEPT ![1] = TRUE]

\* AllocateWriteId(), the request, on a socket that is up.  It starts an
\* attempt: what it writes is no longer known to be on the servers.
SendWriteIdAlloc ==
    /\ seq' = seq + 1 /\ try' = seq + 1 /\ hidden' = FALSE
    /\ DoOpSend(<<[Request("id", seq + 1, chunkNum, cattr[chunkNum].ver, <<>>, 0, 0) EXCEPT !.try = seq + 1]>>)
    /\ acked' = [x \in Cells |-> IF x \in AttemptCells THEN -1 ELSE acked[x]]
    /\ file' = [x \in Cells |-> IF x \in AttemptCells /\ fr.caller = "thru" THEN -1 ELSE file[x]]

\* DoLargeWriteToServer(), from its start; the master may not be reached.
DoLargeWriteToServer ==
    /\ At("attempt")
    /\ \/ /\ SendWriteIdAlloc
          /\ GetChunkServerSocket
          /\ fr' = [fr EXCEPT !.pc = "id", !.ltries = 0]
          /\ UNCHANGED faults
       \/ /\ Faulted
          /\ fr' = [fr EXCEPT !.pc = "tried", !.res = "error"]
          /\ UNCHANGED <<seq, try, hidden, req, conn, acked, file>>
    /\ UNCHANGED <<stores, writes, rep, mOps, view, calls, got>>

\* The retry loop of DoLargeWriteToServer().
NextTry(f) == [f EXCEPT !.ltries = @ + 1, !.pc = IF f.ltries + 1 < NUM_RETRIES_PER_OP THEN "retry" ELSE "tried"]

\* AllocateWriteId() failed: the first time that is the result.
IdFailed(status) ==
    IF fr.ltries = 0 THEN [fr EXCEPT !.pc = "tried", !.res = status] ELSE NextTry(fr)

Retry ==
    /\ At("retry")
    /\ IF conn[1] THEN SendWriteIdAlloc /\ Goto("id")
       ELSE fr' = IdFailed("error") /\ UNCHANGED <<seq, try, hidden, req, acked, file>>
    /\ UNCHANGED <<stores, writes, conn, rep, mOps, faults, view, calls, got>>

\* DoOpResponse(): a reply with another sequence number is discarded; a closed
\* socket fails the op, and so does a timeout.
NoReply(status) == [seq |-> 0, status |-> status, ids |-> <<>>]
Replies == {NoReply("EHOSTUNREACH"), NoReply("ETIMEDOUT")} \cup ToSet(rep[1])

TakesReply == conn[1] /\ rep[1] # <<>> /\ rep' = [rep EXCEPT ![1] = Tail(@)] /\ UNCHANGED faults

Response(s, r) ==
    \/ TakesReply /\ r = Head(rep[1]) /\ r.seq = s
    \/ ~conn[1] /\ r = NoReply("EHOSTUNREACH") /\ UNCHANGED <<rep, faults>>
    \/ Faulted /\ r = NoReply("ETIMEDOUT") /\ UNCHANGED rep

Discards(s) == TakesReply /\ Head(rep[1]).seq # s /\ UNCHANGED fr

\* AllocateWriteId(), the reply.  An error of the socket is returned as -1.
GotWriteId(r) ==
    fr' = IF r.status = "ok" THEN [fr EXCEPT !.pc = "push", !.ids = r.ids, !.next = 1, !.wait = <<>>, !.failed = FALSE]
          ELSE IdFailed(IF r.seq = 0 THEN "error" ELSE r.status)

WriteIdReply ==
    /\ At("id")
    /\ (\E r \in Replies : Response(seq, r) /\ GotWriteId(r)) \/ Discards(seq)
    /\ UNCHANGED <<stores, writes, conn, req, mOps, try, hidden, view, seq, calls, past>>

\* The end of DoPipelinedWrite(), and what DoLargeWriteToServer() makes of it.
Pipelined(f, status) ==
    IF status \in {"ok", "ELEASEEXPIRED"} THEN [f EXCEPT !.pc = "tried", !.res = status]
    ELSE NextTry([f EXCEPT !.res = status])

\* PushData() and SendCommit(): the next prepares and a sync for them.  Two
\* commits are out before a reply is waited for.
Push ==
    LET last == Least(fr.next + MinOps - 1, Len(fr.vals))
        c    == chunkNum
        msg(j) == Request("prepare", 0, c, cattr[c].ver, fr.ids, c * CHUNKSIZE + fr.off + j - 1, fr.vals[j])
        sync == Request("sync", seq + 1, c, cattr[c].ver, fr.ids, 0, 0)
    IN  /\ At("push")
        /\ IF conn[1]
           THEN /\ DoOpSend([j \in 1 .. last - fr.next + 1 |-> msg(fr.next + j - 1)] \o <<sync>>)
                /\ seq' = seq + 1
                /\ fr' = [fr EXCEPT !.next = last + 1, !.wait = Append(@, seq + 1),
                                    !.pc = IF Len(fr.wait) = 1 \/ last = Len(fr.vals) THEN "commit" ELSE "push"]
           ELSE fr' = Pipelined(fr, "EHOSTUNREACH") /\ UNCHANGED <<req, seq>>
        /\ UNCHANGED <<stores, writes, conn, rep, mOps, faults, try, hidden, view, calls, past>>

\* GetCommitReply().  When the older of two commits fails nothing more is
\* pushed, but the result is that of the newer one.
GotCommit(r) ==
    /\ fr' = IF Len(fr.wait) = 1 THEN Pipelined(fr, r.status)
             ELSE [fr EXCEPT !.wait = Tail(@), !.failed = r.status # "ok",
                             !.pc = IF r.status # "ok" \/ fr.next > Len(fr.vals) THEN "commit" ELSE "push"]

CommitReply ==
    /\ At("commit")
    /\ (\E r \in Replies : Response(Head(fr.wait), r) /\ GotCommit(r)) \/ Discards(Head(fr.wait))
    /\ hidden' = (hidden \/ (fr'.pc = "tried" /\ fr'.res = "ok" /\ fr.failed))
    /\ UNCHANGED <<stores, writes, conn, req, mOps, try, view, seq, calls, past>>

\* The end of DoLargeWriteToServer(): only a chunk that grows makes the file
\* grow.  Then WriteToServer(): a chain that is broken or has no lease is
\* allocated again.
Tried ==
    LET ok  == fr.res = "ok"
        end == fr.off + Len(fr.vals)
        won == IF ok THEN AttemptCells ELSE {}
    IN  /\ At("tried")
        /\ IF fr.res \in {"EHOSTUNREACH", "ELEASEEXPIRED"} THEN DoAllocation(fr, TRUE, "again")
           ELSE /\ Goto("return")
                /\ cattr' = [cattr EXCEPT ![chunkNum].size = IF ok /\ @ < end THEN end ELSE @]
        /\ fileSize' = IF ok /\ cattr[chunkNum].size < end THEN Max({fileSize, chunkNum * CHUNKSIZE + end}) ELSE fileSize
        /\ acked' = [x \in Cells |-> IF x \in won /\ ~hidden THEN AttemptValue(x) ELSE acked[x]]
        /\ file' = [x \in Cells |-> IF x \in won THEN IF hidden THEN -1 ELSE AttemptValue(x) ELSE file[x]]
        /\ UNCHANGED <<pipe, pos, pref, cb, seq, calls, got>>

Again ==
    /\ At("again")
    /\ fr' = [fr EXCEPT !.wtries = @ + 1, !.pc = IF fr.wtries + 1 < NUM_RETRIES_PER_OP THEN "attempt" ELSE "return"]
    /\ UNCHANGED <<pipe, view, seq, calls, past>>

\* A mutant: a failed flush clears the dirty flag.
FlushedAnyway(ok) == [cb EXCEPT !.dirty = FALSE, !.vals = <<>>]

\* FlushBuffer() after WriteToServer(): the buffer is clean if all went well.
Flushed(ok) == IF ok THEN [cb EXCEPT !.dirty = FALSE, !.vals = <<>>] ELSE cb

\* WriteToServer() returns.  A write-through leaves the buffer alone.
WriteToServerReturns ==
    LET ok == fr.res = "ok"
    IN  /\ At("return")
        /\ cb' = IF fr.caller # "thru" THEN Flushed(ok)
                 ELSE [cb EXCEPT !.stale = @ \cup (AttemptCells \cap CellsFrom(cb.chunkno, cb.start, Len(cb.vals)))]
        /\ fr' = IF fr.caller = "seek" THEN [fr EXCEPT !.pc = "sought"]
                 ELSE IF fr.caller = "read" THEN [fr EXCEPT !.pc = "readloop", !.wtries = 0]
                 ELSE IF fr.caller = "close" THEN [fr EXCEPT !.pc = "close"]
                 ELSE IF ~ok \/ fr.caller = "sync" THEN [fr EXCEPT !.pc = "end"]
                 ELSE IF fr.caller = "absorb" THEN [fr EXCEPT !.pc = "absorb"]
                 ELSE Advanced(Len(fr.vals), "write")
        /\ UNCHANGED <<pipe, pos, pref, cattr, fileSize, seq, calls, past>>

End ==
    /\ At("end") /\ Returns
    /\ UNCHANGED <<stores, wires, faults, try, hidden, view, file, acked>>

\* ComputeFilesize(): from the size server j has of the last chunk.
ComputeFilesize(j) ==
    LET there == {c \in Chunks : vers[1][c] > 0}
    IN  IF there = {} THEN 0 ELSE Max(there) * CHUNKSIZE + ChunkSize(j, Max(there))

\* Close() drops the buffer, flushed or not, and says which; Open() starts
\* from nothing and asks for the size of the file.
Close ==
    /\ At("close") /\ Returns
    /\ cb' = NoBuffer /\ cattr' = [c \in Chunks |-> NoChunk] /\ pos' = 0 /\ pref' = 0
    /\ ResetServers(FALSE)
    /\ \E j \in Nodes : fileSize' = ComputeFilesize(j)
    /\ file' = [x \in Cells |-> IF cb.dirty /\ x \in CellsFrom(cb.chunkno, cb.start, Len(cb.vals)) THEN -1 ELSE file[x]]
    /\ UNCHANGED <<stores, faults, try, hidden, acked>>
-----------------------------------------------------------------------------
(* Read().                                                                 *)

\* The start of Read(): the buffer is flushed, whether that works or not.
Read ==
    /\ At("read")
    /\ fr' = [fr EXCEPT !.pc = IF cb.dirty THEN "flush" ELSE "readloop", !.caller = "read", !.wtries = 0]
    /\ UNCHANGED <<pipe, view, seq, calls, past>>

\* IsChunkReadable() fails, or the end of the file, or nothing is left: Read()
\* is over.  A chunk that is not known is looked up at the metaserver.
ReadEnds ==
    /\ At("readloop")
    /\ ~(fr.left > 0 /\ (cattr[chunkNum].known \/ vers[1][chunkNum] > 0) /\ pos < fileSize)
    /\ Goto("end")
    /\ UNCHANGED <<pipe, view, seq, calls, past>>

\* CopyFromChunkBuf() has the cell at the file position.
InChunkBuf == cb.chunkno = chunkNum /\ chunkOffset \in cb.start .. cb.start + Len(cb.vals) - 1

\* The cells server j has from the file position on, at most n; none is an error.
Available(j, n) == Max({0, Least(ChunkSize(j, chunkNum) - chunkOffset, n)})
DataOf(j, n) == [k \in 1 .. Available(j, n) |-> data[j][pos + k - 1]]

\* A read within one checksum block asks for as many cells as the chunk has.
DoSmallReadFromServer(j, size, n) == DataOf(j, Least(size, n))

\* A larger one is pipelined, block after block, to the end of the chunk.
DoLargeReadFromServer(j, size, n) == DataOf(j, Least(size - chunkOffset, n))

ReadFromServer(j, size, n) ==
    IF Least(size - chunkOffset, n) <= 1 THEN DoSmallReadFromServer(j, size, n)
    ELSE DoLargeReadFromServer(j, size, n)

\* ZeroFillBuf(): past the end of the chunk there are zeros.
ZeroFillBuf(size) ==
    [k \in 1 .. Least(Least(CHUNKSIZE - size, fileSize - pos), fr.left) |-> 0]

\* LocateChunk(), for a chunk that is not known.
LocateChunk(j) ==
    IF cattr[chunkNum].known THEN cattr[chunkNum]
    ELSE [NoChunk EXCEPT !.known = TRUE, !.ver = vers[j][chunkNum]]

\* IsChunkLeaseGood() and GetLease(): there is no read lease before the write
\* lease has lapsed.
IsChunkLeaseGood(c) == lease' = [lease EXCEPT ![c] = FALSE]

\* The loop of Read(): IsChunkReadable() finds the chunk, a server j and a read
\* lease; ReadChunk() takes the cells from the buffer, from past the end of the
\* chunk, or from the server, by way of the buffer if the read is small.
ReadChunk(j) ==
    LET c     == chunkNum
        size  == IF pref = 0 THEN SizeChunk(j) ELSE cattr[c].size
        fresh == ~InChunkBuf /\ chunkOffset < size
        small == fr.left < BUF_SIZE
        sent  == ReadFromServer(j, size, IF small THEN BUF_SIZE ELSE fr.left)
        vals  == IF InChunkBuf THEN SubSeq(cb.vals, chunkOffset - cb.start + 1, Len(cb.vals))
                 ELSE IF fresh THEN sent ELSE ZeroFillBuf(size)
        n     == Least(Len(vals), fr.left)
        want(x) == IF (InChunkBuf /\ x \in cb.stale) \/ ChunkOf(x) # c THEN -1 ELSE file[x]
    IN  /\ At("readloop") /\ fr.left > 0 /\ pos < fileSize
        /\ cattr[c].known \/ vers[1][c] > 0
        /\ pref \in {0, j}
        /\ pref' = j
        /\ cattr' = [cattr EXCEPT ![c] = [LocateChunk(j) EXCEPT !.size = size]]
        /\ IsChunkLeaseGood(c)
        /\ loaded' = [loaded EXCEPT ![j][c] = @ \/ fresh]
        /\ cb' = IF fresh /\ small /\ n > 0
                 THEN [cb EXCEPT !.chunkno = c, !.start = chunkOffset, !.vals = sent, !.stale = {}] ELSE cb
        /\ got' = {<<vals[k], want(pos + k - 1)>> : k \in 1 .. n}
        /\ fr' = IF n = 0 THEN [fr EXCEPT !.pc = "end"] ELSE [Advanced(n, "readloop") EXCEPT !.wtries = 0]
        /\ file' = [x \in Cells |-> IF cb.dirty /\ cb' # cb /\ x \in CellsFrom(cb.chunkno, cb.start, Len(cb.vals))
                                    THEN -1 ELSE file[x]]
        /\ UNCHANGED <<vers, data, writes, wires, faults, try, hidden, pos, fileSize, seq, calls, acked>>

\* The read fails in a way that is worth a retry: the chunk is located anew.
ReadChunkFails ==
    /\ At("readloop") /\ fr.left > 0 /\ pos < fileSize /\ cattr[chunkNum].known /\ Faulted
    /\ cattr' = [cattr EXCEPT ![chunkNum].known = FALSE]
    /\ ResetServers(FALSE) /\ pref' = 0
    /\ fr' = [fr EXCEPT !.wtries = @ + 1, !.pc = IF fr.wtries + 1 < NUM_RETRIES_PER_OP THEN "readloop" ELSE "end"]
    /\ UNCHANGED <<stores, writes, try, hidden, pos, cb, fileSize, seq, calls, past>>
-----------------------------------------------------------------------------
Init ==
    /\ PipeInit
    /\ pos = 0 /\ pref = 0 /\ cb = NoBuffer /\ cattr = [c \in Chunks |-> NoChunk] /\ fileSize = 0
    /\ fr = NoCall /\ seq = 0 /\ calls = 0
    /\ file = [x \in Cells |-> 0] /\ acked = [x \in Cells |-> -1] /\ got = {}

ClientStep ==
    \/ Seek \/ Sought
    \/ AllocChunk
    \/ Write \/ WriteOpened \/ Absorb \/ FlushBuffer
    \/ DoLargeWriteToServer \/ Retry \/ WriteIdReply \/ Push \/ CommitReply
    \/ Tried \/ Again \/ WriteToServerReturns
    \/ End \/ Close
    \/ Read \/ ReadEnds \/ (\E j \in Nodes : ReadChunk(j))

\* The calls are over, or the client has aborted.
Finished == (calls + faults >= MaxCalls /\ At("idle")) \/ At("aborted")

Next ==
    \/ \E k \in Calls : Call(k)
    \/ ClientStep
    \/ AllocChunkFails
    \/ ReadChunkFails
    \/ (\E i \in Nodes : ServerStep(i)) /\ UNCHANGED <<view, fr, seq, calls, past>>
    \/ Failure /\ UNCHANGED <<view, fr, seq, calls, past>>
    \/ Finished /\ UNCHANGED vars

Spec == Init /\ [][Next]_vars
-----------------------------------------------------------------------------
(* Properties.                                                             *)

Statuses == {"ok", "EINVAL", "EBADCKSUM", "EHOSTUNREACH", "ELEASEEXPIRED", "ETIMEDOUT", "error"}
Values == 0 .. MaxCalls

\* The state has its types: in particular every write id an op names is a
\* number, a buffer holds at most BUF_SIZE cells and never runs past the end of
\* its chunk, and at most two commits are out.
TypeOK ==
    /\ \A i \in Nodes : Range(mPendingWrites[i]) \subseteq {"ok", "EBADCKSUM", "EHOSTUNREACH"}
    /\ \A i \in Nodes : Len(mPendingWrites[i]) = mWriteId[i]
    /\ data \in [Nodes -> [Cells -> Values]] /\ loaded \in [Nodes -> [Chunks -> BOOLEAN]]
    /\ conn \in [Nodes -> BOOLEAN] /\ \A i \in Nodes : ~conn[i] => req[i] = <<>> /\ rep[i] = <<>>
    /\ pos \in 0 .. NumChunks * CHUNKSIZE /\ pref \in 0 .. N /\ fileSize \in 0 .. NumChunks * CHUNKSIZE
    /\ Len(cb.vals) <= BUF_SIZE /\ cb.start + Len(cb.vals) <= CHUNKSIZE /\ cb.dirty => cb.vals # <<>>
    /\ fr.res \in Statuses /\ Len(fr.wait) <= 2 /\ fr.left \in Nat
    /\ Range(file) \cup Range(acked) \subseteq Values \cup {-1}

\* A write the client was told has succeeded is stored by every server of the
\* chain, whatever broke, restarted or lapsed on the way, for the attempts all
\* of whose losses some sync can report (WriteSyncOp, SetWriteStatus(),
\* DoPipelinedWrite()).
AckedOnChain == \A x \in Cells : acked[x] # -1 => \A i \in Nodes : data[i][x] = acked[x]

\* What a read returns for a cell is what the application last wrote there,
\* whether it comes from the buffer or from any of the servers.
ReadOwnWrites == \A g \in got : g[2] > 0 => g[1] = g[2]

\* Between two calls, what the application has written is on the servers or in
\* a buffer that is still marked dirty (FlushBuffer(), WriteToServer()).
WrittenOrDirty ==
    At("idle") => \A x \in Cells :
        file[x] > 0 => acked[x] = file[x] \/ (cb.dirty /\ x \in CellsFrom(cb.chunkno, cb.start, Len(cb.vals)))

\* A dirty buffer belongs to the chunk the file position is in: FlushBuffer()
\* writes it to the current chunk.
DirtyInCurrentChunk == cb.dirty => cb.chunkno = chunkNum

\* Nobody waits for a reply that cannot come.  The request the client or a
\* server waits for is on the connection, with the server it leads to, or
\* answered; otherwise that connection is down, and the one who waits knows it
\* (RemoteSyncSM::FailAllOps(), HandleResponse(), ClientSM's mOps).
Coming(i, s) ==
    \/ \E m \in Range(req[i]) : m.seq = s
    \/ \E o \in Range(mOps[i]) : o.seq = s /\ ~o.orphan
    \/ \E r \in Range(rep[i]) : r.seq = s

AwaitedIsComing ==
    /\ conn[1] /\ At("id") => Coming(1, seq)
    /\ conn[1] /\ At("commit") => \A s \in Range(fr.wait) : Coming(1, s)
    /\ \A i \in 1 .. N - 1 : \A o \in Range(mOps[i]) : ~o.done => conn[i + 1] /\ Coming(i + 1, o.seq)
=============================================================================

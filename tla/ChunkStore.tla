----------------------------- MODULE ChunkStore -----------------------------
(***************************************************************************)
(* The chunk store of one chunkserver: the ChunkManager with its table of  *)
(* chunks, the operations that run on it, the disk connections through     *)
(* which it reads and writes chunk files asynchronously, and what a        *)
(* restart finds on the disk.                                              *)
(*                                                                         *)
(* A chunk is NumBlocks checksum blocks of BlockSize cells; a cell stands  *)
(* for a run of bytes and holds the number of the operation that wrote it  *)
(* (0 is a hole).  A chunk file is a header of one cell, which holds the   *)
(* checksums of the blocks, followed by the data.  The checksum of a block *)
(* is the block itself, which is what a checksum is meant to stand for.    *)
(*                                                                         *)
(* The server is one thread.  A handler that calls back several operations *)
(* (those waiting for a header) puts them in run; nothing but the disk     *)
(* moves until run is empty, so the callbacks are one handler as in the    *)
(* code.  The disk performs a scheduled I/O at any time (Perform) and its  *)
(* completion is reaped later (the *Done actions).                         *)
(***************************************************************************)
EXTENDS Integers, Sequences, FiniteSets, SequencesExt, FiniteSetsExt

CONSTANTS Chunks,       \* the chunk ids
          NumBlocks,    \* checksum blocks of a chunk
          BlockSize,    \* cells of a checksum block
          Kinds,        \* the operations that are submitted
          Reads,        \* extents <<offset, length>> that clients read
          Writes,       \* extents that clients write
          Truncs,       \* sizes that the metaserver truncates to
          SrcSize,      \* size of the copy that a replication fetches
          TotalSpace,   \* mTotalSpace, in cells
          MaxOps,       \* operations submitted
          MaxVers,      \* chunk versions
          MaxFaults,    \* disk faults
          MaxCrashes    \* crashes, beside those of failed assertions

ASSUME SizesAssumption ==
    /\ NumBlocks \in Nat \ {0} /\ BlockSize \in Nat /\ BlockSize >= NumBlocks
    /\ \A x \in Reads \cup Writes :          \* as the client cuts its requests
          /\ x[2] > 0 /\ x[1] + x[2] <= NumBlocks * BlockSize
          /\ \/ (x[1] % BlockSize) + x[2] <= BlockSize
             \/ x[1] % BlockSize = 0 /\ (x \in Writes => x[2] % BlockSize = 0)
    /\ \A n \in Truncs : n < NumBlocks * BlockSize

VARIABLES mChunkTable,  \* the entries of the chunks that are hosted
          mUsedSpace,
          mNumChunks,
          dir,          \* the files of the chunk directory: version and file
          files,        \* the files ever created: header and data
          io,           \* the I/O of each operation that has scheduled one
          ops,          \* the operations submitted
          run,          \* operations to call back in this handler: <<op, res>>
          up,           \* is the server running?
          faults,
          crashes,
          want,         \* file -> what its data should be (history)
          dirty,        \* files written since their header was (history)
          excused,      \* files whose checksums may fail to match (history)
          cut,          \* files that were truncated (history)
          corrupt       \* files declared corrupt (history)

store == <<mChunkTable, mUsedSpace, mNumChunks>>
disk == <<dir, files>>
history == <<want, dirty, excused, cut, corrupt>>
vars == <<store, disk, io, ops, run, up, faults, crashes, history>>

CHUNKSIZE == NumBlocks * BlockSize
Blocks == 0 .. NumBlocks - 1
OpIds == 1 .. MaxOps
Original == MaxOps + 1      \* what a chunk holds that was there at the start
Source == MaxOps + 2        \* what the copies on other servers hold

Unset == <<>>               \* the stored checksum 0: nothing to verify
NoSums == [b \in Blocks |-> Unset]
Empty == [x \in {} |-> x]

EBADF == -9
EINVAL == -22
ENOSPC == -28
EIO == -5
EBADVERS == -1000
EBADCKSUM == -1002
ELEASEEXPIRED == -1001
ESERVERBUSY == -1004

(***************************************************************************)
(* Arithmetic of offsets, and buffers of cells.                            *)
(***************************************************************************)
OffsetToChecksumBlockNum(o) == o \div BlockSize
OffsetToChecksumBlockStart(o) == BlockSize * (o \div BlockSize)

Zeros(n) == [i \in 1 .. n |-> 0]
ZeroPad(b) == LET r == Len(b) % BlockSize
              IN  IF r = 0 THEN b ELSE b \o Zeros(BlockSize - r)

\* b with the cells of d in place of those at offset o; what lies between
\* the end of b and o is a hole.
Splice(b, d, o) ==
    [i \in 1 .. Max({Len(b), o + Len(d)}) |->
        IF i > o /\ i <= o + Len(d) THEN d[i - o]
        ELSE IF i <= Len(b) THEN b[i] ELSE 0]

\* The part of b from offset o, at most n cells of it.
Part(b, o, n) == SubSeq(b, o + 1, Min({Len(b), o + n}))

Resize(b, n) == [i \in 1 .. n |-> IF i <= Len(b) THEN b[i] ELSE 0]

\* The checksum of each block of a buffer, in order.
ComputeChecksums(b) ==
    [i \in 1 .. Len(b) \div BlockSize |-> Part(b, (i - 1) * BlockSize, BlockSize)]

SumsOf(b) == [i \in Blocks |->
                 IF i * BlockSize < Len(b)
                 THEN ZeroPad(Part(b, i * BlockSize, BlockSize)) ELSE Unset]

(***************************************************************************)
(* The chunk table.                                                        *)
(***************************************************************************)
Present(c) == c \in DOMAIN mChunkTable
IsChunkMetadataLoaded(c) == Present(c) /\ mChunkTable[c].loaded

\* An entry as ChunkInfo_t::Init leaves it: no checksum is set, and the
\* array that holds them is there.
NewEntry(v, r) == [vers |-> v, size |-> 0, loaded |-> TRUE, sums |-> NoSums,
                   fd |-> FALSE, repl |-> r, reading |-> 0]

\* An entry as it is rebuilt from the name and the size of a chunk file.
MakeChunkInfoFromPathname(c) ==
    [NewEntry(dir[c].vers, FALSE) EXCEPT !.size = Len(files[dir[c].ino].data),
                                         !.loaded = FALSE]

\* Release closes the descriptor and drops the checksums.
Release(e) == [e EXCEPT !.loaded = FALSE, !.sums = NoSums, !.fd = FALSE]

\* The I/Os that hold a connection on the open descriptor of chunk c.
Holders(c) == {j \in DOMAIN io : io[j].ino = dir[c].ino /\ ~io[j].closed}

Space(t) == MapThenSumSet(LAMBDA c : t[c].size, DOMAIN t)

(***************************************************************************)
(* Operations, and the I/O of an operation.                                *)
(***************************************************************************)
Op(k, c, v, o, n) == [kind |-> k, c |-> c, vers |-> v, off |-> o, n |-> n,
                      st |-> "wait", rop |-> "none", status |-> 0, ans |-> 0,
                      wrong |-> 0]

\* The operation is handed to the logger, which calls back its owner.
\* What it was asked to do does not matter any more.
Submitted(o, i, s) ==
    [o EXCEPT ![i] = [Op(@.kind, @.c, 0, 0, 0) EXCEPT !.st = "done", !.status = s,
                                                      !.ans = o[i].ans + 1]]

\* I/O x of kind k for chunk c at offset o: n cells to read, or data d and
\* checksums s to write.
IO(k, c, ino, o, n, d, s) ==
    [kind |-> k, c |-> c, ino |-> ino, off |-> o, n |-> n, data |-> d, sums |-> s,
     done |-> "no", closed |-> FALSE, fresh |-> TRUE, has |-> FALSE,
     expect |-> <<>>, waiters |-> <<>>]

Without(f, x) == Restrict(f, DOMAIN f \ {x})

\* The data I/Os in flight on a file that meet blocks with offsets o .. o+n-1
\* and do not commute with an I/O of kind k there.
Overlaps(ino, o, n, k, i) ==
    \E j \in DOMAIN io \ {i} :
        /\ io[j].ino = ino /\ io[j].kind \in {"r", "w"} /\ "w" \in {k, io[j].kind}
        /\ OffsetToChecksumBlockNum(o) <= OffsetToChecksumBlockNum(io[j].off + io[j].n - 1)
        /\ OffsetToChecksumBlockNum(io[j].off) <= OffsetToChecksumBlockNum(o + n - 1)

\* A descriptor that cannot be opened: SetupDiskConnection returns NULL.
OpenFails(c, b) == b => faults < MaxFaults /\ Present(c) /\ ~mChunkTable[c].fd
Faulted(b) == faults' = IF b THEN faults + 1 ELSE faults

(***************************************************************************)
(* The server stops: a crash, or an assertion that fails (the default      *)
(* build keeps assertions).  What is in memory is gone; I/Os the disk has  *)
(* not performed are lost.                                                 *)
(***************************************************************************)
Halt ==
    /\ up' = FALSE /\ run' = <<>> /\ io' = Empty
    /\ mChunkTable' = Empty /\ mUsedSpace' = 0 /\ mNumChunks' = 0
    /\ ops' = [i \in DOMAIN ops |->
                  IF ops[i].st = "done" THEN ops[i] ELSE [ops[i] EXCEPT !.st = "lost"]]
    /\ excused' = excused \cup dirty
                          \cup {io[j].ino : j \in {k \in DOMAIN io :
                                    io[k].kind = "w"}}
    /\ UNCHANGED <<disk, want, dirty, cut, corrupt>>

Crash == /\ up /\ crashes < MaxCrashes
         /\ crashes' = crashes + 1
         /\ Halt
         /\ UNCHANGED faults

\* An assertion fails in the handler being modelled.
Abort == Halt /\ UNCHANGED <<faults, crashes>>

\* The table is rebuilt from the files of the chunk directory.
RestoreV2 ==
    /\ ~up
    /\ up' = TRUE
    /\ mChunkTable' = [c \in DOMAIN dir |-> MakeChunkInfoFromPathname(c)]
    /\ mNumChunks' = Cardinality(DOMAIN dir)
    /\ mUsedSpace' = Space(mChunkTable')
    /\ UNCHANGED <<disk, io, ops, run, faults, crashes, history>>

(***************************************************************************)
(* Submitting an operation executes it.  ReadChunkMetadata brings in the   *)
(* checksums of a chunk: at once when they are in memory, with the read    *)
(* that is under way when there is one, or with a read of its own.         *)
(***************************************************************************)
Accepts(k) == up /\ run = <<>> /\ k \in Kinds /\ Len(ops) < MaxOps
New == Len(ops) + 1

ReadChunkMetadata(i, o, c, busy) ==
    \/ /\ ~Present(c) \/ busy
       /\ ops' = Submitted(o, i, EINVAL)
       /\ UNCHANGED <<mChunkTable, io, run>>
    \/ /\ IsChunkMetadataLoaded(c)
       /\ ops' = o /\ run' = <<<<i, 0>>>>
       /\ UNCHANGED <<mChunkTable, io>>
    \/ /\ Present(c) /\ ~mChunkTable[c].loaded /\ mChunkTable[c].reading # 0
       /\ ops' = o
       /\ io' = [io EXCEPT ![mChunkTable[c].reading].waiters = Append(@, i)]
       /\ UNCHANGED <<mChunkTable, run>>
    \/ /\ Present(c) /\ ~busy /\ ~mChunkTable[c].loaded /\ mChunkTable[c].reading = 0
       /\ ops' = o
       /\ mChunkTable' = [mChunkTable EXCEPT ![c].reading = i, ![c].fd = TRUE]
       /\ io' = io @@ (i :> IO("h", c, dir[c].ino, 0, 1, <<>>, NoSums))
       /\ UNCHANGED run

\* Opening the file is tried, and may fail, only when a header is to be read
\* and no descriptor is open.
BusyOnRead(c, busy) ==
    busy => /\ faults < MaxFaults /\ Present(c) /\ ~mChunkTable[c].loaded
            /\ ~mChunkTable[c].fd /\ mChunkTable[c].reading = 0

Metadata(x, busy) ==
    /\ BusyOnRead(x.c, busy) /\ Faulted(busy)
    /\ ReadChunkMetadata(New, Append(ops, x), x.c, busy)
    /\ UNCHANGED <<mUsedSpace, mNumChunks, disk, up, crashes, history>>

NeedToReadChunkMetadata(c) == Present(c) /\ mChunkTable[c].vers > 0

NextVersion(c) == IF Present(c) THEN mChunkTable[c].vers + 1 ELSE 1

AllocChunkOp(c, busy) ==
    LET x == Op("alloc", c, NextVersion(c), 0, 0) IN
    /\ Accepts("alloc") /\ x.vers <= MaxVers /\ (Present(c) => ~mChunkTable[c].repl)
    /\ \/ NeedToReadChunkMetadata(c) /\ Metadata(x, busy)
       \/ /\ ~NeedToReadChunkMetadata(c) /\ ~busy
          /\ ops' = Append(ops, x) /\ run' = <<<<New, 0>>>>
          /\ UNCHANGED <<store, disk, io, up, faults, crashes, history>>

TruncateChunkOp(c, n, busy) ==
    Accepts("truncate") /\ Metadata(Op("truncate", c, 0, 0, n), busy)

ChangeChunkVersOp(c, busy) ==
    /\ Accepts("vers") /\ NextVersion(c) <= MaxVers
    /\ Present(c) => ~mChunkTable[c].repl
    /\ Metadata(Op("vers", c, NextVersion(c), 0, 0), busy)

GetChunkMetadataOp(c, busy) == Accepts("meta") /\ Metadata(Op("meta", c, 0, 0, 0), busy)

\* A client reads at the version that the chunk has when it asks.
ReadOp(c, x, busy) ==
    /\ Accepts("read")
    /\ Metadata(Op("read", c, IF Present(c) THEN mChunkTable[c].vers ELSE 1, x[1], x[2]), busy)

\* A mutant: the space of the chunk stays accounted for.
DeleteChunkKeepsSpace(c) ==
    /\ mChunkTable' = Without(mChunkTable, c)
    /\ mNumChunks' = mNumChunks - 1
    /\ dir' = Without(dir, c)
    /\ UNCHANGED <<mUsedSpace, files>>

\* The chunk goes: its file is unlinked, or moved to the stale directory.
DeleteChunk(c) ==
    /\ mChunkTable' = Without(mChunkTable, c)
    /\ mUsedSpace' = mUsedSpace - mChunkTable[c].size
    /\ mNumChunks' = mNumChunks - 1
    /\ dir' = Without(dir, c)
    /\ UNCHANGED files

DeleteChunkOp(c) ==
    /\ Accepts("delete")
    /\ LET o == Append(ops, Op("delete", c, 0, 0, 0)) IN
       \/ Present(c) /\ DeleteChunk(c) /\ ops' = Submitted(o, New, 0)
       \/ ~Present(c) /\ ops' = Submitted(o, New, EBADF) /\ UNCHANGED <<store, disk>>
    /\ UNCHANGED <<io, run, up, faults, crashes, history>>

\* The chunks the metaserver has no use for; those not hosted are skipped.
StaleChunksOp(c) ==
    /\ Accepts("stale")
    /\ ops' = Submitted(Append(ops, Op("stale", c, 0, 0, 0)), New, 0)
    /\ IF Present(c) THEN DeleteChunk(c) ELSE UNCHANGED <<store, disk>>
    /\ UNCHANGED <<io, run, up, faults, crashes, history>>

(***************************************************************************)
(* The callbacks of the operations that waited for the header, and the     *)
(* writing of the header that ends those that change the chunk.            *)
(***************************************************************************)
CallsBack(k) == up /\ run # <<>> /\ ops[run[1][1]].kind = k
Called == run[1][1]
Result == run[1][2]

\* Operation i writes the header of chunk c of table t, whose file is ino.
WriteChunkMetadata(i, t, c, ino, busy) ==
    /\ mChunkTable' = IF busy THEN t ELSE [t EXCEPT ![c].fd = TRUE]
    /\ IF busy THEN /\ ops' = Submitted(ops, i, ESERVERBUSY) /\ UNCHANGED io
               ELSE /\ io' = io @@ (i :> IO("m", c, ino, 0, 1, <<>>, t[c].sums))
                    /\ UNCHANGED ops

Answers(s) == ops' = Submitted(ops, Called, s) /\ UNCHANGED <<store, io>>

ChangeChunkVers(c, v) ==
    /\ dir' = [dir EXCEPT ![c].vers = v]
    /\ UNCHANGED <<files, mUsedSpace, mNumChunks>>

\* Serialize asserts that the checksums are there.
ChangesVersion(i, c, v, busy) ==
    IF mChunkTable[c].loaded \/ busy
    THEN /\ OpenFails(c, busy) /\ Faulted(busy)
         /\ ChangeChunkVers(c, v)
         /\ WriteChunkMetadata(i, [mChunkTable EXCEPT ![c].vers = v], c, dir[c].ino, busy)
         /\ run' = Tail(run)
         /\ UNCHANGED <<up, crashes, history>>
    ELSE Abort

\* A new, empty file; its header is still to be written.  What is read from an
\* earlier file of the chunk will be taken for its own.
CreateFile(c, v) ==
    /\ files' = Append(files, [hdr |-> [has |-> FALSE, sums |-> NoSums], data |-> <<>>])
    /\ dir' = dir @@ (c :> [vers |-> v, ino |-> Len(files) + 1])
    /\ want' = Append(want, <<>>)
    /\ mNumChunks' = mNumChunks + 1
    /\ excused' = IF \E j \in DOMAIN io : io[j].c = c /\ io[j].kind \in {"h", "r"}
                  THEN excused \cup {Len(files) + 1} ELSE excused
    /\ UNCHANGED <<mUsedSpace, dirty, cut, corrupt>>

AllocChunkOp_HandleChunkMetaReadDone(busy) ==
    LET i == Called  c == ops[i].c  v == ops[i].vers IN
    /\ CallsBack("alloc")
    /\ \/ Present(c) /\ ChangesVersion(i, c, v, busy)
       \/ /\ ~Present(c) /\ Faulted(busy) /\ (busy => faults < MaxFaults)
          /\ IF busy       \* creat fails: the op is submitted, and once more
             THEN /\ ops' = Submitted(Submitted(ops, i, ESERVERBUSY), i, EBADF)
                  /\ UNCHANGED <<store, disk, io, history>>
             ELSE /\ CreateFile(c, v)
                  /\ WriteChunkMetadata(i, mChunkTable @@ (c :> NewEntry(v, FALSE)), c,
                                        Len(files) + 1, FALSE)
          /\ run' = Tail(run) /\ UNCHANGED <<up, crashes>>

ChangeChunkVersOp_HandleChunkMetaReadDone(busy) ==
    LET i == Called  c == ops[i].c IN
    /\ CallsBack("vers")
    /\ \/ /\ Result < 0 \/ ~Present(c)
          /\ ~busy /\ Answers(IF Result < 0 THEN Result ELSE -1)
          /\ run' = Tail(run)
          /\ UNCHANGED <<disk, up, faults, crashes, history>>
       \/ /\ Result >= 0 /\ Present(c)
          /\ ChangesVersion(i, c, ops[i].vers, busy)

\* truncate() is given the size of the data, without that of the header.
TruncatedFile(f, n) ==
    IF n = 0 THEN [hdr |-> [has |-> FALSE, sums |-> NoSums], data |-> <<>>]
             ELSE [f EXCEPT !.data = Resize(@, n - 1)]

TruncateChunk(c, n) ==
    LET ino == dir[c].ino IN
    /\ files' = [files EXCEPT ![ino] = TruncatedFile(@, n)]
    /\ mUsedSpace' = mUsedSpace - mChunkTable[c].size + n
    /\ want' = [want EXCEPT ![ino] = Resize(@, n)]
    /\ cut' = cut \cup {ino}
    /\ UNCHANGED <<dir, mNumChunks, dirty, excused, corrupt>>

TruncateChunkOp_HandleChunkMetaReadDone(busy) ==
    LET i == Called  c == ops[i].c  n == ops[i].n IN
    /\ CallsBack("truncate")
    /\ \/ /\ Result < 0 \/ ~Present(c)
          /\ ~busy /\ Answers(IF Result < 0 THEN Result ELSE EBADF)
          /\ run' = Tail(run)
          /\ UNCHANGED <<disk, up, faults, crashes, history>>
       \/ /\ Result >= 0 /\ Present(c) /\ ~mChunkTable[c].loaded /\ ~busy
          /\ Abort
       \/ /\ Result >= 0 /\ IsChunkMetadataLoaded(c)
          /\ OpenFails(c, busy) /\ Faulted(busy)
          /\ TruncateChunk(c, n)
          /\ WriteChunkMetadata(i, [mChunkTable EXCEPT ![c].size = n,
                                        ![c].sums[OffsetToChecksumBlockNum(n)] = Unset],
                                c, dir[c].ino, busy)
          /\ run' = Tail(run) /\ UNCHANGED <<up, crashes>>

GetChunkMetadataOp_HandleChunkMetaReadDone ==
    /\ CallsBack("meta")
    /\ Answers(IF Result < 0 THEN Result ELSE IF Present(ops[Called].c) THEN 0 ELSE EBADF)
    /\ run' = Tail(run)
    /\ UNCHANGED <<disk, up, faults, crashes, history>>

(***************************************************************************)
(* Reading.                                                                *)
(***************************************************************************)
\* What is read from disk for a read of n cells at offset o of a chunk of
\* the given size: whole blocks, up to the end of the chunk.
NumBytesIO(o, n, size) == IF o >= size THEN 0 ELSE Min({n, size - o})
RoundedUp(n) == BlockSize * ((n + BlockSize - 1) \div BlockSize)

\* The read is scheduled for operation i at offset o.
ScheduleRead(i, c, o, n) ==
    LET ino == dir[c].ino  e == mChunkTable[c]  start == OffsetToChecksumBlockStart(o)
        len == Min({RoundedUp(NumBytesIO(o, n, e.size)), e.size - start})
    IN  /\ mChunkTable' = [mChunkTable EXCEPT ![c].fd = TRUE]
        /\ io' = (i :> [IO("r", c, ino, start, len, <<>>, NoSums) EXCEPT
                           !.expect = Part(want[ino], o, n)]) @@ io
        /\ excused' = excused \cup (IF Overlaps(ino, start, len, "r", i) THEN {ino} ELSE {})

ReadOp_HandleChunkMetaReadDone(busy) ==
    LET i == Called  x == ops[i]  c == x.c  e == mChunkTable[c] IN
    /\ CallsBack("read")
    /\ \/ /\ Result < 0 \/ ~Present(c)
          /\ ~busy /\ Answers(IF Result < 0 THEN Result ELSE EBADF)
          /\ UNCHANGED <<faults, excused>>
       \/ /\ Result >= 0 /\ Present(c) /\ busy
          /\ OpenFails(c, busy) /\ Faulted(busy) /\ Answers(ESERVERBUSY)
          /\ UNCHANGED excused
       \/ /\ Result >= 0 /\ IsChunkMetadataLoaded(c) /\ ~busy
          /\ IF x.vers # e.vers \/ NumBytesIO(x.off, x.n, e.size) = 0
             THEN /\ mChunkTable' = [mChunkTable EXCEPT ![c].fd = TRUE]
                  /\ ops' = Submitted(ops, i, IF x.vers # e.vers THEN EBADVERS ELSE EIO)
                  /\ UNCHANGED <<io, excused>>
             ELSE ScheduleRead(i, c, x.off, x.n) /\ UNCHANGED ops
          /\ UNCHANGED <<mUsedSpace, mNumChunks, faults>>
    /\ run' = Tail(run)
    /\ UNCHANGED <<disk, up, crashes, want, dirty, cut, corrupt>>

(***************************************************************************)
(* Writing.  The checksums kept are those of whole blocks, so a write of a *)
(* part of a block first reads the block and is then resumed.              *)
(***************************************************************************)
\* A mutant: the block is taken for a hole.
SplicedInZeros(blk, d, o) == Splice(Zeros(BlockSize), d, o)

\* The block that was read, with data d at offset o of it.
SplicedBlock(blk, d, o) == ZeroPad(Splice(blk, d, o))

Plan(d, s, sums) == [do |-> d, status |-> s, sums |-> sums]

\* What WriteChunk does with data d at offset o of chunk c; rop is TRUE when
\* the block has been read, and blk is what was read.
WriteChunk(c, o, d, rop, blk) ==
    LET e == mChunkTable[c]  start == OffsetToChecksumBlockStart(o) IN
    CASE ~Present(c) -> Plan("fail", EBADF, <<>>)
      [] Present(c) /\ ~e.loaded -> Plan("abort", 0, <<>>)
      [] IsChunkMetadataLoaded(c) ->
           IF mUsedSpace + (o + Len(d) - e.size) >= TotalSpace THEN Plan("fail", ENOSPC, <<>>)
           ELSE IF start = o /\ Len(d) >= BlockSize
           THEN Plan("write", 0, ComputeChecksums(d))
           ELSE IF start >= e.size
           THEN Plan("write", 0, <<Splice(Zeros(BlockSize), d, o % BlockSize)>>)
           ELSE IF ~rop THEN Plan("read", 0, <<>>)
           ELSE Plan("write", 0, <<SplicedBlock(blk, d, o % BlockSize)>>)

\* The write is scheduled; the checksums and the size change at once.
UpdateChecksums(e, o, n, sums) ==
    LET b == OffsetToChecksumBlockNum(o) IN
    [e EXCEPT !.fd = TRUE, !.size = Max({@, o + n}),
              !.sums = [k \in Blocks |-> IF k - b \in 0 .. Len(sums) - 1
                                         THEN sums[k - b + 1] ELSE @[k]]]

ScheduleWrite(i, c, o, d, sums, rest) ==
    LET ino == dir[c].ino  e == mChunkTable[c]  x == UpdateChecksums(e, o, Len(d), sums) IN
    /\ mChunkTable' = [mChunkTable EXCEPT ![c] = x]
    /\ mUsedSpace' = mUsedSpace + x.size - e.size
    /\ io' = (i :> IO("w", c, ino, o, Len(d), d, NoSums)) @@
             [j \in DOMAIN rest |->
                 IF rest[j].kind = "m" /\ rest[j].ino = ino
                 THEN [rest[j] EXCEPT !.fresh = FALSE] ELSE rest[j]]
    /\ dirty' = dirty \cup {ino}
    /\ excused' = excused \cup (IF Overlaps(ino, o, Len(d), "w", i) THEN {ino} ELSE {})
    /\ UNCHANGED <<mNumChunks, want, cut, corrupt>>

Payload(i) == [k \in 1 .. ops[i].n |-> i]

\* The local part of a write prepare: the data is on its way to the disk
\* before the operation ends.  A client writes at the version it was given,
\* which may by now be the one before the chunk's.
WritePrepareOp(c, x, v, busy) ==
    LET i == New  o == Append(ops, Op("write", c, v, x[1], x[2]))
        d == [k \in 1 .. x[2] |-> i]
        p == WriteChunk(c, x[1], d, FALSE, <<>>)
    IN
    /\ Accepts("write")
    /\ IF Present(c) THEN v \in {mChunkTable[c].vers, mChunkTable[c].vers - 1} \ {0}
                     ELSE v = 1
    /\ busy => IsChunkMetadataLoaded(c) /\ p.do # "fail"
    /\ OpenFails(c, busy)
    /\ \/ /\ ~IsChunkMetadataLoaded(c)
          /\ ops' = Submitted(o, i, ELEASEEXPIRED)
          /\ UNCHANGED <<store, disk, io, run, up, faults, crashes, history>>
       \/ /\ IsChunkMetadataLoaded(c) /\ (p.do = "fail" \/ (p.do = "write" /\ busy))
          /\ ops' = Submitted(o, i, IF busy THEN ESERVERBUSY ELSE p.status)
          /\ Faulted(busy)
          /\ UNCHANGED <<store, disk, io, run, up, crashes, history>>
       \/ /\ IsChunkMetadataLoaded(c) /\ p.do = "write" /\ ~busy
          /\ ops' = o /\ ScheduleWrite(i, c, x[1], d, p.sums, io)
          /\ UNCHANGED <<disk, run, up, faults, crashes>>
       \/ /\ IsChunkMetadataLoaded(c) /\ p.do = "read" /\ ~busy /\ v = mChunkTable[c].vers
          /\ ops' = [o EXCEPT ![i].rop = "reading"]
          /\ ScheduleRead(i, c, OffsetToChecksumBlockStart(x[1]), BlockSize)
          /\ UNCHANGED <<mUsedSpace, mNumChunks, disk, run, up, faults, crashes,
                         want, dirty, cut, corrupt>>
       \/ \* the read fails at once: the write resumes and frees the read, whose
          \* status is then looked at: it is freed twice or the write is lost
          /\ IsChunkMetadataLoaded(c) /\ p.do = "read" /\ (busy \/ v # mChunkTable[c].vers)
          /\ \/ Abort
             \/ /\ ops' = [o EXCEPT ![i].st = "hung"] /\ Faulted(busy)
                /\ UNCHANGED <<store, disk, io, run, up, crashes, history>>

\* The descriptor is closed unless more than one connection is on it; rest is
\* the I/O left, and own the connections of operations that are ending.  An
\* I/O still in flight then is left with a closed descriptor.
CloseChunk(c, rest, own) ==
    LET others == {j \in DOMAIN rest : rest[j].ino = dir[c].ino /\ ~rest[j].closed} IN
    IF Present(c) /\ mChunkTable[c].fd /\ Cardinality(others) + own <= 1
    THEN /\ mChunkTable' = [mChunkTable EXCEPT ![c] = Release(@)]
         /\ io' = [j \in DOMAIN rest |-> [rest[j] EXCEPT !.closed = @ \/ j \in others]]
         /\ excused' = excused \cup ({dir[c].ino} \cap dirty)
    ELSE io' = rest /\ UNCHANGED <<mChunkTable, excused>>

\* A sync that ends closes a chunk that is full.
SyncEnds(c, rest, own) ==
    IF Present(c) /\ mChunkTable[c].size >= CHUNKSIZE
    THEN CloseChunk(c, rest, own)
    ELSE io' = rest /\ UNCHANGED <<mChunkTable, excused>>

\* The local part of a write sync: the header is written.  The size that is
\* looked at when the chunk is gone is an uninitialized variable.
WriteSyncOp(c, garbage, busy) ==
    LET i == New  o == Append(ops, Op("sync", c, 0, 0, 0))
        full == IF Present(c) THEN mChunkTable[c].size >= CHUNKSIZE ELSE garbage
    IN
    /\ Accepts("sync")
    /\ garbage => ~Present(c)
    /\ busy => IsChunkMetadataLoaded(c)
    /\ OpenFails(c, busy)
    /\ \/ /\ ~IsChunkMetadataLoaded(c)
          /\ ops' = Submitted(o, i, IF full THEN 0 ELSE ELEASEEXPIRED)
          /\ SyncEnds(c, io, 0)
          /\ UNCHANGED <<mUsedSpace, mNumChunks, disk, run, up, faults, crashes,
                         want, dirty, cut, corrupt>>
       \/ /\ IsChunkMetadataLoaded(c) /\ ~busy
          /\ ops' = o
          /\ mChunkTable' = [mChunkTable EXCEPT ![c].fd = TRUE]
          /\ io' = io @@ (i :> IO("m", c, dir[c].ino, 0, 1, <<>>, mChunkTable[c].sums))
          /\ UNCHANGED <<mUsedSpace, mNumChunks, disk, run, up, faults, crashes, history>>
       \/ busy /\ Abort

(***************************************************************************)
(* The disk performs an I/O.  One whose descriptor was closed fails, or    *)
(* meets the file that was given the same descriptor since.                *)
(***************************************************************************)
Targets(x) == IF x.closed THEN {dir[c].ino : c \in {k \in DOMAIN mChunkTable : mChunkTable[k].fd}}
                          ELSE {x.ino}

PerformOn(i, f) ==
    LET x == io[i] IN
    /\ io' = [io EXCEPT ![i] =
                 IF x.kind = "h" THEN [x EXCEPT !.done = "ok", !.has = files[f].hdr.has,
                                                !.sums = files[f].hdr.sums]
                 ELSE IF x.kind = "r" THEN [x EXCEPT !.done = "ok",
                                                     !.data = Part(files[f].data, x.off, x.n)]
                 ELSE [x EXCEPT !.done = "ok"]]
    /\ files' = [files EXCEPT ![f] =
                    CASE x.kind = "m" -> [@ EXCEPT !.hdr = [has |-> TRUE, sums |-> x.sums]]
                      [] x.kind = "w" -> [@ EXCEPT !.data = Splice(@, x.data, x.off)]
                      [] x.kind \in {"h", "r"} -> @]
    /\ dirty' = IF x.kind # "m" THEN dirty
                ELSE IF x.fresh THEN dirty \ {f} ELSE dirty \cup {f}
    /\ excused' = IF x.closed THEN excused \cup {f, x.ino} ELSE excused
    /\ UNCHANGED <<dir, faults>>

Perform(i) ==
    /\ i \in DOMAIN io /\ io[i].done = "no"
    /\ \/ \E f \in Targets(io[i]) : PerformOn(i, f)
       \/ /\ io[i].closed \/ faults < MaxFaults
          /\ Faulted(~io[i].closed)
          /\ io' = [io EXCEPT ![i].done = "fail"]
          /\ UNCHANGED <<disk, dirty, excused>>
    /\ UNCHANGED <<store, ops, run, up, crashes, want, cut, corrupt>>

(***************************************************************************)
(* The completion of an I/O is reaped.                                     *)
(***************************************************************************)
Reaped(i, k) == up /\ run = <<>> /\ i \in DOMAIN io /\ io[i].kind = k /\ io[i].done # "no"

\* SetChunkMetadata and ReadChunkMetadataDone.
ReadChunkMetadataDone(e, ok, sums) ==
    [e EXCEPT !.reading = 0, !.loaded = @ \/ ok, !.sums = IF ok THEN sums ELSE @]

\* A mutant: those who waited are not told.
NotifiesOwner(i, waiters, res) == <<<<i, res>>>>

\* The operation that reads the header is called back, then those waiting.
Notified(i, waiters, res) ==
    <<<<i, res>>>> \o [k \in DOMAIN waiters |-> <<waiters[k], res>>]

\* The header is taken for that of the chunk as it is now.
ReadChunkMetaOp_HandleDone(i) ==
    LET x == io[i]  c == x.c  ok == x.done = "ok" /\ x.has
        res == IF ~ok THEN EINVAL ELSE IF ~Present(c) THEN EBADF ELSE 0
    IN  /\ Reaped(i, "h")
        /\ mChunkTable' = IF ~Present(c) THEN mChunkTable
                          ELSE [mChunkTable EXCEPT ![c] = ReadChunkMetadataDone(@, ok, x.sums)]
        /\ run' = Notified(i, x.waiters, res)
        /\ io' = Without(io, i)
        /\ UNCHANGED <<mUsedSpace, mNumChunks, disk, ops, up, faults, crashes, history>>

\* A mutant: the start of the block is not trimmed.
AdjustDataTail(b, x, o, n) == Part(b, 0, Min({n, x.n - (o - x.off)}))

\* The outcome of reading at offset o: x is the I/O, n the cells asked for.
AdjustDataRead(b, x, o, n) == Part(b, o - x.off, Min({n, x.n - (o - x.off)}))

\* The block numbers that are verified start at the offset of the first block,
\* not at its number.
FirstVerified(o) == OffsetToChecksumBlockStart(o)

Mismatch(b, o, sums) ==
    \E k \in DOMAIN ComputeChecksums(b) :
        LET blk == FirstVerified(o) + k - 1 IN
        blk < NumBlocks /\ sums[blk] # Unset /\ sums[blk] # ComputeChecksums(b)[k]

ReadAborts(x, v) ==
    /\ Present(x.c) /\ mChunkTable[x.c].vers = v
    /\ x.data = <<>> \/ ~mChunkTable[x.c].loaded

ReadChunkDone(x, v, o, n) ==
    LET e == mChunkTable[x.c]  b == ZeroPad(x.data) IN
    IF x.done = "fail" THEN [status |-> -1, data |-> <<>>]
    ELSE IF ~Present(x.c) \/ (Present(x.c) /\ e.vers # v)
    THEN [status |-> EBADVERS, data |-> AdjustDataRead(x.data, x, o, n)]
    ELSE IF Mismatch(b, o, e.sums) THEN [status |-> EBADCKSUM, data |-> b]
    ELSE [status |-> 0, data |-> AdjustDataRead(b, x, o, n)]

\* The chunk is declared corrupt and goes to the stale directory.
StaleChunk(c) ==
    /\ DeleteChunk(c)
    /\ corrupt' = corrupt \cup {dir[c].ino}

\* What is read is what was written and acknowledged, and holes after it when
\* a write further on is on its way.
Agrees(data, expect) ==
    Len(data) >= Len(expect) /\ data = Resize(expect, Len(data))

ReadOp_HandleDone(i) ==
    LET x == io[i]  y == ops[i]  c == x.c
        r == ReadChunkDone(x, y.vers, y.off, y.n)
        got == IF x.done = "fail" THEN y.n ELSE Len(r.data)
    IN
    /\ Reaped(i, "r") /\ y.kind = "read"
    /\ \/ x.done = "ok" /\ ReadAborts(x, y.vers) /\ Abort
       \/ /\ ~(x.done = "ok" /\ ReadAborts(x, y.vers))
          /\ ops' = [Submitted(ops, i, IF r.status = 0 THEN Len(r.data) ELSE r.status)
                        EXCEPT ![i].wrong = IF r.status = 0 /\ ~Agrees(r.data, x.expect)
                                            THEN x.ino ELSE 0]
          /\ \/ /\ r.status = EBADCKSUM
                /\ StaleChunk(c) /\ io' = Without(io, i)
                /\ UNCHANGED excused
             \/ /\ r.status # EBADCKSUM
                /\ IF Present(c) /\ mChunkTable[c].size > 0 /\ y.off + got >= mChunkTable[c].size
                   THEN CloseChunk(c, Without(io, i), 1)
                   ELSE io' = Without(io, i) /\ UNCHANGED <<mChunkTable, excused>>
                /\ UNCHANGED <<mUsedSpace, mNumChunks, disk, corrupt>>
          /\ UNCHANGED <<run, up, faults, crashes, want, dirty, cut>>

\* The block that a write needs was read, and the write is resumed.  The data
\* read must be used: it must not be there when the write is destroyed.
WriteResumes(i) ==
    LET x == io[i]  y == ops[i]  c == x.c  start == OffsetToChecksumBlockStart(y.off)
        r == ReadChunkDone(x, y.vers, start, BlockSize)
        p == WriteChunk(c, y.off, Payload(i), TRUE, r.data)
        held == x.done = "ok"
        beyond == Present(c) /\ start >= mChunkTable[c].size
    IN
    /\ Reaped(i, "r") /\ y.kind = "write"
    /\ \/ /\ held
          /\ \/ ReadAborts(x, y.vers) \/ p.do \in {"fail", "abort"}
             \/ r.status = EBADCKSUM            \* the chunk is gone by then
          /\ Abort
       \/ /\ ~held /\ p.do = "abort" /\ Abort
       \/ /\ ~held /\ p.do = "fail"
          /\ ops' = Submitted(ops, i, p.status) /\ io' = Without(io, i)
          /\ UNCHANGED <<store, disk, run, up, faults, crashes, history>>
       \/ /\ p.do = "write" /\ r.status < 0 /\ r.status # EBADCKSUM /\ ~beyond
          /\ ops' = [ops EXCEPT ![i].st = "hung"] /\ io' = Without(io, i)
          /\ UNCHANGED <<store, disk, run, up, faults, crashes, history>>
       \/ /\ p.do = "write" /\ ~(held /\ ReadAborts(x, y.vers))
          /\ r.status = 0 \/ (beyond /\ r.status # EBADCKSUM)
          /\ ops' = [ops EXCEPT ![i].rop = IF held /\ beyond THEN "held" ELSE "used"]
          /\ ScheduleWrite(i, c, y.off, Payload(i), p.sums, Without(io, i))
          /\ UNCHANGED <<disk, run, up, faults, crashes>>

WriteOp_HandleWriteDone(i) ==
    LET x == io[i]  ok == x.done = "ok" IN
    /\ Reaped(i, "w") /\ ops[i].kind = "write"
    /\ \/ ops[i].rop = "held" /\ Abort
       \/ /\ ops[i].rop # "held"
          /\ ops' = Submitted(ops, i, IF ok THEN x.n ELSE -1)
          /\ want' = IF ok THEN [want EXCEPT ![x.ino] = Splice(@, x.data, x.off)] ELSE want
          /\ excused' = IF ok THEN excused ELSE excused \cup {x.ino}
          /\ io' = Without(io, i)
          /\ UNCHANGED <<store, disk, run, up, faults, crashes, dirty, cut, corrupt>>

\* The header was written, or was not: the operation ends well either way.
WriteChunkMetaOp_HandleDone(i, own) ==
    /\ Reaped(i, "m")
    /\ ops' = Submitted(ops, i, 0)
    /\ IF ops[i].kind = "sync" THEN SyncEnds(io[i].c, Without(io, i), own)
       ELSE own = 0 /\ io' = Without(io, i) /\ UNCHANGED <<mChunkTable, excused>>
    /\ UNCHANGED <<mUsedSpace, mNumChunks, disk, run, up, faults, crashes,
                   want, dirty, cut, corrupt>>

\* A chunk on which nothing happens for a while is closed.
CleanupInactiveFds(c) ==
    /\ up /\ run = <<>> /\ Present(c)
    /\ mChunkTable[c].fd /\ ~mChunkTable[c].repl /\ Holders(c) = {}
    /\ mChunkTable' = [mChunkTable EXCEPT ![c] = Release(@)]
    /\ excused' = excused \cup ({dir[c].ino} \cap dirty)
    /\ UNCHANGED <<mUsedSpace, mNumChunks, disk, io, ops, run, up, faults, crashes,
                   want, dirty, cut, corrupt>>

(***************************************************************************)
(* The Replicator copies a chunk from another server: it asks for the size *)
(* and version, then fetches and writes pieces, and at the end gives the   *)
(* copy its version and writes its header.  Its stage is the st of the op, *)
(* its mOffset the off.                                                    *)
(***************************************************************************)
ReplicateChunkOp(c, peer) ==
    LET o == Append(ops, Op("replicate", c, 1, 0, 0)) IN
    /\ Accepts("replicate") /\ ~Present(c)
    /\ ops' = IF peer THEN [o EXCEPT ![New].st = "peer"] ELSE Submitted(o, New, -1)
    /\ UNCHANGED <<store, disk, io, run, up, faults, crashes, history>>

At(i, s) == up /\ run = <<>> /\ i \in DOMAIN ops /\ ops[i].kind = "replicate" /\ ops[i].st = s

\* The copy is given up, and what there is of the chunk deleted.
GivesUp(i, rest) ==
    /\ ops' = Submitted(ops, i, -1) /\ io' = rest
    /\ IF Present(ops[i].c) THEN DeleteChunk(ops[i].c) ELSE UNCHANGED <<store, disk>>
    /\ UNCHANGED <<run, up, crashes>>

\* The answer to the first question comes, or the peer cannot be reached.
\* The chunk has version 0 while it is copied.
Replicator_HandleStartDone(i, ok, busy) ==
    LET c == ops[i].c IN
    /\ At(i, "peer")
    /\ busy => ok /\ ~Present(c) /\ faults < MaxFaults
    /\ Faulted(busy)
    /\ \/ (~ok \/ busy) /\ GivesUp(i, io) /\ UNCHANGED history
       \/ /\ ok /\ ~busy
          /\ IF Present(c)
             THEN /\ mChunkTable' = [mChunkTable EXCEPT ![c].vers = 0]
                  /\ ChangeChunkVers(c, 0) /\ UNCHANGED history
             ELSE /\ mChunkTable' = mChunkTable @@ (c :> NewEntry(0, TRUE))
                  /\ CreateFile(c, 0)
          /\ ops' = [ops EXCEPT ![i].st = "fetch"]
          /\ UNCHANGED <<io, run, up, crashes>>

\* Of what was fetched whole blocks are written, or the rest of the chunk.
ToWrite(o) == LET n == SrcSize - o IN IF n >= BlockSize THEN BlockSize * (n \div BlockSize) ELSE n

Replicator_HandleReadDone(i, ok, busy) ==
    LET c == ops[i].c  o == ops[i].off
        d == [k \in 1 .. ToWrite(o) |-> Source]
        p == WriteChunk(c, o, d, FALSE, <<>>)
    IN
    /\ At(i, "fetch")
    /\ OpenFails(c, busy) /\ (busy => ok /\ p.do = "write")
    /\ \/ /\ ~ok \/ p.do = "fail" \/ busy
          /\ Faulted(busy) /\ GivesUp(i, io) /\ UNCHANGED history
       \/ ok /\ p.do \in {"abort", "read"} /\ Abort
       \/ /\ ok /\ p.do = "write" /\ ~busy
          /\ ScheduleWrite(i, c, o, d, p.sums, io)
          /\ ops' = [ops EXCEPT ![i].st = "write", ![i].n = Len(d)]
          /\ UNCHANGED <<disk, run, up, faults, crashes>>

\* Everything was copied: the chunk gets its version and its header.
Finishes(i, rest, busy) ==
    LET c == ops[i].c IN
    /\ busy => Present(c)
    /\ OpenFails(c, busy)
    /\ IF ~Present(c) \/ busy
       THEN Faulted(busy) /\ GivesUp(i, rest)
       ELSE /\ mChunkTable' = [mChunkTable EXCEPT ![c].vers = ops[i].vers, ![c].repl = FALSE,
                                                  ![c].fd = TRUE]
            /\ ChangeChunkVers(c, ops[i].vers)
            /\ io' = rest @@ (i :> IO("m", c, dir[c].ino, 0, 1, <<>>, mChunkTable[c].sums))
            /\ ops' = [ops EXCEPT ![i].st = "wait"]
            /\ UNCHANGED <<run, up, faults, crashes>>

\* A write that failed ends the server: only the two good codes are expected.
Replicator_HandleWriteDone(i, busy) ==
    LET x == io[i]  off == ops[i].off + x.n IN
    /\ Reaped(i, "w") /\ ops[i].kind = "replicate"
    /\ \/ x.done = "fail" /\ ~busy /\ Abort
       \/ /\ x.done = "ok" /\ off >= SrcSize /\ Present(x.c) /\ ~mChunkTable[x.c].loaded
          /\ ~busy /\ Abort
       \/ /\ x.done = "ok"
          /\ \/ /\ off >= SrcSize /\ (Present(x.c) => mChunkTable[x.c].loaded)
                /\ Finishes(i, Without(io, i), busy)
             \/ /\ off < SrcSize /\ ~busy
                /\ ops' = [ops EXCEPT ![i].st = "fetch", ![i].off = off]
                /\ io' = Without(io, i)
                /\ UNCHANGED <<store, disk, run, up, faults, crashes>>
          /\ want' = [want EXCEPT ![x.ino] = Splice(@, x.data, x.off)]
          /\ UNCHANGED <<dirty, excused, cut, corrupt>>

(***************************************************************************)
(* The specification.  The store is empty, or holds chunks as it finds     *)
(* them when it starts.                                                    *)
(***************************************************************************)
Full == [k \in 1 .. CHUNKSIZE - 1 |-> Original]

Init ==
    /\ \E held \in SUBSET Chunks :
         LET list == SetToSeq(held) IN
         /\ files = [k \in DOMAIN list |-> [hdr |-> [has |-> TRUE, sums |-> SumsOf(Full)],
                                            data |-> Full]]
         /\ want = [k \in DOMAIN list |-> Full]
         /\ dir = [c \in held |-> [vers |-> 1, ino |-> CHOOSE k \in DOMAIN list : list[k] = c]]
         /\ mChunkTable = [c \in held |->
                [NewEntry(1, FALSE) EXCEPT !.size = Len(Full), !.loaded = FALSE]]
         /\ mNumChunks = Cardinality(held)
         /\ mUsedSpace = Len(Full) * Cardinality(held)
    /\ io = Empty /\ ops = <<>> /\ run = <<>> /\ up = TRUE /\ faults = 0 /\ crashes = 0
    /\ dirty = {} /\ excused = {} /\ cut = {} /\ corrupt = {}

Submits(c) ==
    \/ \E b \in BOOLEAN : \/ AllocChunkOp(c, b) \/ ChangeChunkVersOp(c, b)
                          \/ GetChunkMetadataOp(c, b)
                          \/ \E n \in Truncs : TruncateChunkOp(c, n, b)
                          \/ \E x \in Reads : ReadOp(c, x, b)
                          \/ \E x \in Writes, v \in 0 .. MaxVers : WritePrepareOp(c, x, v, b)
                          \/ \E g \in BOOLEAN : WriteSyncOp(c, g, b)
                          \/ ReplicateChunkOp(c, b)
    \/ DeleteChunkOp(c) \/ StaleChunksOp(c)

CallBack ==
    \E b \in BOOLEAN : \/ AllocChunkOp_HandleChunkMetaReadDone(b)
                       \/ ChangeChunkVersOp_HandleChunkMetaReadDone(b)
                       \/ TruncateChunkOp_HandleChunkMetaReadDone(b)
                       \/ ReadOp_HandleChunkMetaReadDone(b)
                       \/ ~b /\ GetChunkMetadataOp_HandleChunkMetaReadDone

Completes(i) ==
    \/ ReadChunkMetaOp_HandleDone(i) \/ ReadOp_HandleDone(i) \/ WriteResumes(i)
    \/ WriteOp_HandleWriteDone(i)
    \/ \E own \in {0, 1} : WriteChunkMetaOp_HandleDone(i, own)
    \/ \E b \in BOOLEAN : Replicator_HandleWriteDone(i, b)

PeerAnswers(i) ==
    \E ok, b \in BOOLEAN : \/ Replicator_HandleStartDone(i, ok, b)
                           \/ Replicator_HandleReadDone(i, ok, b)

Next ==
    \/ \E c \in Chunks : Submits(c) \/ CleanupInactiveFds(c)
    \/ CallBack
    \/ \E i \in OpIds : Perform(i) \/ Completes(i) \/ PeerAnswers(i)
    \/ Crash \/ RestoreV2

Spec == Init /\ [][Next]_vars

(***************************************************************************)
(* Properties.                                                             *)
(***************************************************************************)
\* Types.
TypeOK ==
    /\ DOMAIN mChunkTable \subseteq Chunks /\ (up => DOMAIN mChunkTable = DOMAIN dir)
    /\ \A c \in DOMAIN mChunkTable :
         /\ mChunkTable[c].vers = dir[c].vers /\ mChunkTable[c].size \in 0 .. CHUNKSIZE
         /\ mChunkTable[c].reading \in {0} \cup OpIds
         /\ mChunkTable[c].reading # 0 => mChunkTable[c].reading \in DOMAIN io
    /\ \A i \in DOMAIN io : io[i].ino \in DOMAIN files /\ i \in DOMAIN ops
    /\ \A i \in DOMAIN ops : ops[i].st \in {"wait", "peer", "fetch", "write", "done", "lost", "hung"}
    /\ \A k \in DOMAIN run : ops[run[k][1]].st = "wait"
    /\ DOMAIN want = DOMAIN files

\* mUsedSpace and mNumChunks, which the heartbeat reports and on which writes
\* are refused, are those of the chunks in the table.
SpaceAccounted == mUsedSpace = Space(mChunkTable) /\ mNumChunks = Cardinality(DOMAIN mChunkTable)

\* A read that succeeds returns what was written and acknowledged (across
\* restarts, reads before writes, deletions and replications), unless the
\* chunk was truncated or its file had one of the accidents below.
ReadsReturnWritten ==
    \A i \in DOMAIN ops : ops[i].wrong # 0 => ops[i].wrong \in excused \cup cut

\* A chunk is declared corrupt, and moved away, only if something happened to
\* its file that checksums cannot follow: overlapping I/Os on a block, a crash
\* or a close before the header was written, a failed write, a truncation.
NoFalseCorruption == corrupt \subseteq excused \cup cut

\* No operation is forgotten: one that has not ended has an I/O in flight,
\* waits with another for a header, is about to be called back or waits for a
\* peer, unless it is a write whose block could not be read (WriteChunk).
NothingForgotten ==
    \A i \in DOMAIN ops :
        ops[i].st \in {"wait", "write"} =>
            \/ i \in DOMAIN io
            \/ \E j \in DOMAIN io : Contains(io[j].waiters, i)
            \/ \E k \in DOMAIN run : run[k][1] = i
=============================================================================

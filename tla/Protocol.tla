------------------------------ MODULE Protocol ------------------------------
(***************************************************************************)
(* One connection between two KFS processes and the RPCs on it: how        *)
(* requests and answers are written, framed, read, matched, timed out and  *)
(* retried.  The two ends of a connection are written in different         *)
(* programs (ClientOps, MetaOps, ChunkOps) that agree on header names by   *)
(* convention alone.  Streams are sequences of tokens: a header, followed  *)
(* by the units of its body.                                               *)
(***************************************************************************)
EXTENDS Integers, Sequences, FiniteSets, SequencesExt

CONSTANTS
    MaxOps,      \* RPCs built on the connection
    MaxPipeline, \* RPCs built when all are reads or writes in a pipeline
    MaxRetries,  \* reconnections of DoMetaOpWithRetry
    MaxBreaks,   \* broken connections
    BodyLen      \* units in a body, at least 2 so that a part can arrive

ASSUME BoundsAssumption ==
    /\ {MaxOps, MaxPipeline, MaxRetries, MaxBreaks, BodyLen} \subseteq Nat
    /\ BodyLen >= 2

C == INSTANCE ClientOps
M == INSTANCE MetaOps
K == INSTANCE ChunkOps
W == INSTANCE Wire

(***************************************************************************)
(* The RPCs of each kind of connection.  `names` pairs a sender's field    *)
(* with the receiver's field it is meant for where the two classes call it *)
(* differently; it is read off how each side uses the field.               *)
(***************************************************************************)
Rpc(cls, request, parse, obj, response, read, names) ==
    [cls |-> cls, request |-> request, parse |-> parse, obj |-> obj,
     response |-> response, read |-> read, names |-> names]

\* A response and the records of its body are one set of headers here.
With(a, b) == W!Message(a.always \cup b.always, a.sometimes \cup b.sometimes, TRUE)

DirEntry == {<<"parentFid", "dir">>, <<"filename", "name">>, <<"dirname", "name">>}
Attrs    == {<<"id", "fileId">>, <<"type", "isDirectory">>,
             <<"chunkcount", "chunkCount">>, <<"filesize", "fileSize">>}
Servers  == {<<"locations", "chunkServers">>, <<"offset", "fileOffset">>}

ClientMeta ==
    [LOOKUP |-> Rpc(C!LookupOp, C!LookupOp_Request, M!parseHandlerLookup,
        M!MetaLookup, M!MetaLookup_response, C!LookupOp_ParseResponseHeader,
        DirEntry \cup Attrs),
     LOOKUP_PATH |-> Rpc(C!LookupPathOp, C!LookupPathOp_Request,
        M!parseHandlerLookupPath, M!MetaLookupPath, M!MetaLookupPath_response,
        C!LookupPathOp_ParseResponseHeader,
        {<<"rootFid", "root">>, <<"filename", "path">>} \cup Attrs),
     CREATE |-> Rpc(C!CreateOp, C!CreateOp_Request, M!parseHandlerCreate,
        M!MetaCreate, M!MetaCreate_response, C!CreateOp_ParseResponseHeader,
        DirEntry \cup {<<"fid", "fileId">>}),
     REMOVE |-> Rpc(C!RemoveOp, C!RemoveOp_Request, M!parseHandlerRemove,
        M!MetaRemove, M!MetaRemove_response, C!KfsOp_ParseResponseHeader, DirEntry),
     MKDIR |-> Rpc(C!MkdirOp, C!MkdirOp_Request, M!parseHandlerMkdir,
        M!MetaMkdir, M!MetaMkdir_response, C!MkdirOp_ParseResponseHeader,
        DirEntry \cup {<<"fid", "fileId">>}),
     RMDIR |-> Rpc(C!RmdirOp, C!RmdirOp_Request, M!parseHandlerRmdir,
        M!MetaRmdir, M!MetaRmdir_response, C!KfsOp_ParseResponseHeader, DirEntry),
     READDIR |-> Rpc(C!ReaddirOp, C!ReaddirOp_Request, M!parseHandlerReaddir,
        M!MetaReaddir, M!MetaReaddir_response, C!ReaddirOp_ParseResponseHeader,
        {<<"fid", "dir">>}),
     READDIRPLUS |-> Rpc(C!ReaddirPlusOp, C!ReaddirPlusOp_Request,
        M!parseHandlerReaddirPlus, M!MetaReaddirPlus,
        With(M!MetaReaddirPlus_response, M!EnumerateReaddirPlusInfo),
        C!ReaddirPlusOp_ParseResponseHeader \cup C!ReaddirPlus_Entry,
        {<<"fid", "dir">>, <<"name", "filename">>, <<"offset", "lastChunkOffset">>,
         <<"locations", "chunkServerLoc">>} \cup Attrs),
     GETALLOC |-> Rpc(C!GetAllocOp, C!GetAllocOp_Request, M!parseHandlerGetalloc,
        M!MetaGetalloc, M!MetaGetalloc_response, C!GetAllocOp_ParseResponseHeader,
        {<<"fileOffset", "offset">>} \cup Servers),
     GETLAYOUT |-> Rpc(C!GetLayoutOp, C!GetLayoutOp_Request,
        M!parseHandlerGetlayout, M!MetaGetlayout,
        With(M!MetaGetlayout_response, M!ChunkLayoutInfo_toString),
        C!GetLayoutOp_ParseResponseHeader \cup C!GetLayoutOp_ParseLayoutInfo,
        Servers),
     ALLOCATE |-> Rpc(C!AllocateOp, C!AllocateOp_Request, M!parseHandlerAllocate,
        M!MetaAllocate, M!MetaAllocate_response, C!AllocateOp_ParseResponseHeader,
        {<<"hostname", "clientHost">>, <<"fileOffset", "offset">>,
         <<"master", "masterServer">>, <<"servers", "chunkServers">>}),
     TRUNCATE |-> Rpc(C!TruncateOp, C!TruncateOp_Request, M!parseHandlerTruncate,
        M!MetaTruncate, M!MetaTruncate_response, C!KfsOp_ParseResponseHeader,
        {<<"fileOffset", "offset">>}),
     RENAME |-> Rpc(C!RenameOp, C!RenameOp_Request, M!parseHandlerRename,
        M!MetaRename, M!MetaRename_response, C!KfsOp_ParseResponseHeader,
        DirEntry \cup {<<"newpath", "newname">>}),
     CHANGE_FILE_REPLICATION |-> Rpc(C!ChangeFileReplicationOp,
        C!ChangeFileReplicationOp_Request, M!parseHandlerChangeFileReplication,
        M!MetaChangeFileReplication, M!MetaChangeFileReplication_response,
        C!ChangeFileReplicationOp_ParseResponseHeader, {}),
     LEASE_ACQUIRE |-> Rpc(C!LeaseAcquireOp, C!LeaseAcquireOp_Request,
        M!parseHandlerLeaseAcquire, M!MetaLeaseAcquire, M!MetaLeaseAcquire_response,
        C!LeaseAcquireOp_ParseResponseHeader, {}),
     LEASE_RENEW |-> Rpc(C!LeaseRenewOp, C!LeaseRenewOp_Request,
        M!parseHandlerLeaseRenew, M!MetaLeaseRenew, M!MetaLeaseRenew_response,
        C!KfsOp_ParseResponseHeader, {}),
     PING |-> Rpc(C!MetaPingOp, C!MetaPingOp_Request, M!parseHandlerPing,
        M!MetaPing, M!MetaPing_response, C!MetaPingOp_ParseResponse,
        {<<"servers", "upServers">>}),
     STATS |-> Rpc({}, C!MetaStatsOp_Request, M!parseHandlerStats,
        M!MetaStats, M!MetaStats_response, C!MetaStatsOp_ParseResponse, {}),
     RETIRE_CHUNKSERVER |-> Rpc(C!RetireChunkserverOp,
        C!RetireChunkserverOp_Request, M!parseHandlerRetireChunkserver,
        M!MetaRetireChunkserver, M!MetaRetireChunkserver_response,
        C!RetireChunkserverOp_ParseResponse, {<<"downtime", "nSecsDown">>})]

WriteServers == {<<"chunkServerLoc", "servers">>, <<"writeInfo", "servers">>}

ClientChunk ==
    [OPEN |-> Rpc(C!OpenOp, C!OpenOp_Request, K!parseHandlerOpen, K!OpenOp,
        K!KfsOp_Response, C!KfsOp_ParseResponseHeader, {}),
     CLOSE |-> Rpc(C!CloseOp, C!CloseOp_Request, K!parseHandlerClose, K!CloseOp,
        K!KfsOp_Response, C!KfsOp_ParseResponseHeader, {}),
     SIZE |-> Rpc(C!SizeOp, C!SizeOp_Request, K!parseHandlerSize, K!SizeOp,
        K!SizeOp_Response, C!SizeOp_ParseResponseHeader, {}),
     READ |-> Rpc(C!ReadOp, C!ReadOp_Request, K!parseHandlerRead, K!ReadOp,
        K!ReadOp_Response, C!ReadOp_ParseResponseHeader, {}),
     GET_CHUNK_METADATA |-> Rpc(C!GetChunkMetadataOp, C!GetChunkMetadataOp_Request,
        K!parseHandlerGetChunkMetadata, K!GetChunkMetadataOp,
        K!GetChunkMetadataOp_Response, C!KfsOp_ParseResponseHeader, {}),
     WRITE_ID_ALLOC |-> Rpc(C!WriteIdAllocOp, C!WriteIdAllocOp_Request,
        K!parseHandlerWriteIdAlloc, K!WriteIdAllocOp, K!WriteIdAllocOp_Response,
        C!WriteIdAllocOp_ParseResponseHeader, WriteServers),
     WRITE_PREPARE |-> Rpc(C!WritePrepareOp, C!WritePrepareOp_Request,
        K!parseHandlerWritePrepare, K!WritePrepareOp, K!KfsOp_Response,
        C!KfsOp_ParseResponseHeader, WriteServers),
     WRITE_SYNC |-> Rpc(C!WriteSyncOp, C!WriteSyncOp_Request,
        K!parseHandlerWriteSync, K!WriteSyncOp, K!WriteSyncOp_Response,
        C!KfsOp_ParseResponseHeader, WriteServers),
     PING |-> Rpc(C!ChunkPingOp, C!ChunkPingOp_Request, K!parseHandlerPing,
        K!PingOp, K!PingOp_Response, C!ChunkPingOp_ParseResponse, {}),
     STATS |-> Rpc({}, C!ChunkStatsOp_Request, K!parseHandlerStats, K!StatsOp,
        K!StatsOp_Response, C!ChunkStatsOp_ParseResponse, {})]

MetaChunk ==
    [ALLOCATE |-> Rpc(M!MetaChunkAllocate, M!MetaChunkAllocate_request,
        K!parseHandlerAllocChunk, K!AllocChunkOp, K!AllocChunkOp_Response, {},
        {<<"fid", "fileId">>}),
     DELETE |-> Rpc(M!MetaChunkDelete, M!MetaChunkDelete_request,
        K!parseHandlerDeleteChunk, K!DeleteChunkOp, K!KfsOp_Response, {}, {}),
     TRUNCATE |-> Rpc(M!MetaChunkTruncate, M!MetaChunkTruncate_request,
        K!parseHandlerTruncateChunk, K!TruncateChunkOp, K!KfsOp_Response, {}, {}),
     REPLICATE |-> Rpc(M!MetaChunkReplicate, M!MetaChunkReplicate_request,
        K!parseHandlerReplicateChunk, K!ReplicateChunkOp,
        K!ReplicateChunkOp_Response, M!HandleReply.REPLICATE,
        {<<"srcLocation", "location">>}),
     SIZE |-> Rpc(M!MetaChunkSize, M!MetaChunkSize_request, K!parseHandlerSize,
        K!SizeOp, K!SizeOp_Response, M!HandleReply.SIZE, {<<"size", "chunkSize">>}),
     HEARTBEAT |-> Rpc(M!MetaChunkHeartbeat, M!MetaChunkHeartbeat_request,
        K!parseHandlerHeartbeat, K!HeartbeatOp, K!HeartbeatOp_Response,
        M!HandleReply.HEARTBEAT, {}),
     STALE_CHUNKS |-> Rpc(M!MetaChunkStaleNotify, M!MetaChunkStaleNotify_request,
        K!parseHandlerStaleChunks, K!StaleChunksOp, K!StaleChunksOp_Response, {},
        {<<"numChunks", "numStaleChunks">>}),
     CHUNK_VERS_CHANGE |-> Rpc(M!MetaChunkVersChange, M!MetaChunkVersChange_request,
        K!parseHandlerChangeChunkVers, K!ChangeChunkVersOp, K!KfsOp_Response, {},
        {<<"fid", "fileId">>}),
     RETIRE |-> Rpc(M!MetaChunkRetire, M!MetaChunkRetire_request,
        K!parseHandlerRetire, K!RetireOp, K!KfsOp_Response, {}, {})]

ChunkMeta ==
    [HELLO |-> Rpc(K!HelloMetaOp, K!HelloMetaOp_Request,
        M!parseHandlerHello \cup M!HandleHelloMsg_Chunks, M!MetaHello,
        M!MetaHello_response, {}, {}),
     LEASE_RENEW |-> Rpc(K!LeaseRenewOp, K!LeaseRenewOp_Request,
        M!parseHandlerLeaseRenew, M!MetaLeaseRenew, M!MetaLeaseRenew_response,
        {}, {}),
     CORRUPT_CHUNK |-> Rpc(K!CorruptChunkOp, K!CorruptChunkOp_Request,
        M!parseHandlerChunkCorrupt, M!MetaChunkCorrupt,
        M!MetaChunkCorrupt_response, {}, {})]

ChunkChunk ==
    [WRITE_ID_ALLOC |-> Rpc(K!WriteIdAllocOp, K!WriteIdAllocOp_Request,
        K!parseHandlerWriteIdAlloc, K!WriteIdAllocOp, K!WriteIdAllocOp_Response,
        K!RemoteSync_Reads.WRITE_ID_ALLOC, {}),
     WRITE_PREPARE |-> Rpc(K!WritePrepareFwdOp, K!WritePrepareFwdOp_Request,
        K!parseHandlerWritePrepare, K!WritePrepareOp, K!KfsOp_Response, {}, {}),
     WRITE_SYNC |-> Rpc(K!WriteSyncOp, K!WriteSyncOp_Request,
        K!parseHandlerWriteSync, K!WriteSyncOp, K!WriteSyncOp_Response, {}, {}),
     READ |-> Rpc(K!ReadOp, K!ReadOp_Request, K!parseHandlerRead, K!ReadOp,
        K!ReadOp_Response, {}, {}),
     GET_CHUNK_METADATA |-> Rpc(K!GetChunkMetadataOp, K!GetChunkMetadataOp_Request,
        K!parseHandlerGetChunkMetadata, K!GetChunkMetadataOp,
        K!GetChunkMetadataOp_Response, K!RemoteSync_Reads.GET_CHUNK_METADATA, {})]

Rpcs == [client_meta |-> ClientMeta, client_chunk |-> ClientChunk,
         meta_chunk |-> MetaChunk, chunk_meta |-> ChunkMeta,
         chunk_chunk |-> ChunkChunk]

Links == DOMAIN Rpcs

-----------------------------------------------------------------------------
VARIABLES
    link,         \* the two programs on this connection
    ops,          \* the RPCs the requester has built, in order
    waiting,      \* those it still expects an answer to, in the order sent
    seqno,        \* nextSeq()
    req,          \* sent to the responder and not yet read by it
    buf,          \* the responder's input buffer
    rsp,          \* sent by the responder and not yet read by the requester
    mOps,         \* chunk ClientSM: ops to answer, in order of arrival
    mPendingOps,  \* chunk ClientSM: <<write, the WRITE_SYNC held back for it>>
    mOp,          \* meta ClientSM: the op being served, 0 for NULL
    submitted,    \* ops the responder is executing
    asserted,     \* the metaserver failed assert(op == mOp)
    discarded,    \* the op whose answer the last step threw away, 0 if none
    retries,      \* reconnections so far
    breaks        \* broken connections so far

sides == <<mOps, mPendingOps, mOp, submitted>>
wires == <<req, buf, rsp>>
vars == <<link, ops, waiting, seqno, wires, sides, asserted, discarded,
          retries, breaks>>

None == <<>>

Cmds == DOMAIN Rpcs[link]
RpcOf(i) == Rpcs[link][ops[i].cmd]

IsClient == link \in {"client_meta", "client_chunk"}
\* Served by the chunkserver's ClientSM.
ToClientSM == link \in {"client_chunk", "chunk_chunk"}

\* WritePrepareOp::Response writes nothing; the WRITE_SYNC stands for it.
Unanswered(cmd) == cmd = "WRITE_PREPARE"

\* Go through DoMetaOpWithRetry; LOOKUP, LEASE_ACQUIRE and LEASE_RENEW call
\* DoOpCommon on the shared socket themselves, and the tools never retry.
Retried(cmd) ==
    /\ link = "client_meta"
    /\ cmd \notin {"LOOKUP", "LEASE_ACQUIRE", "LEASE_RENEW", "PING", "STATS",
                   "RETIRE_CHUNKSERVER"}

\* The header of op i, and its body.
Data(i) == [head |-> FALSE, op |-> i]
RequestText(i, op) ==
    LET r == Rpcs[link][op.cmd]
        n == IF r.request.body THEN BodyLen ELSE 0
    IN  <<[head |-> TRUE, op |-> i, seq |-> op.seq, len |-> n, status |-> 0,
           hdrs |-> W!Headers(r.request, W!Object(r.cls, op.variant), op.variant)]>>
        \o [j \in 1..n |-> Data(i)]

\* MetaXXX::response and XXXOp::Response, with what SendResponse appends: an
\* answer to a failed request has no headers of its own and no body.
ResponseText(i, ok) ==
    LET r == RpcOf(i)
        n == IF ok /\ r.response.body THEN BodyLen ELSE 0
    IN  IF Unanswered(ops[i].cmd) THEN <<>>
        ELSE <<[head |-> TRUE, op |-> i, seq |-> ops[i].seq, len |-> n,
                status |-> IF ok THEN 0 ELSE -1,
                hdrs |-> IF ok THEN W!Headers(r.response,
                                   W!Object(r.obj, ops[i].variant), ops[i].variant)
                         ELSE <<>>]>>
             \o [j \in 1..n |-> Data(i)]

Init ==
    /\ link \in Links
    /\ ops = <<>> /\ waiting = <<>> /\ seqno = 1
    /\ req = <<>> /\ buf = <<>> /\ rsp = <<>>
    /\ mOps = <<>> /\ mPendingOps = <<>> /\ mOp = 0 /\ submitted = {}
    /\ asserted = FALSE /\ discarded = 0 /\ retries = 0 /\ breaks = 0

-----------------------------------------------------------------------------
(***************************************************************************)
(* The requester.                                                          *)
(***************************************************************************)
\* The client waits for an answer before it sends the next request, except
\* for DoPipelinedRead and for DoPipelinedWrite, which has at most two
\* WRITE_SYNCs out.  The servers never wait.
MaySend(cmd) ==
    LET out == {ops[i].cmd : i \in ToSet(waiting)}
    IN  \/ ~IsClient
        \/ waiting = <<>>
        \/ out \cup {cmd} = {"READ"}
        \/ /\ out \cup {cmd} \subseteq {"WRITE_SYNC", "WRITE_PREPARE"}
           /\ Len(waiting) < 2

Pipelined == {"READ", "WRITE_PREPARE", "WRITE_SYNC"}

\* The bound on the number of RPCs.
Bounded(cmd, variant) ==
    \/ Len(ops) < MaxOps
    \/ /\ Len(ops) < MaxPipeline /\ ToClientSM
       /\ {cmd} \cup {op.cmd : op \in ToSet(ops)} \subseteq Pipelined
       /\ {variant} \cup {op.variant : op \in ToSet(ops)} = {"small"}

\* DoOpSend, ChunkServer::Enqueue and Dispatch, MetaServerSM::DispatchOps,
\* RemoteSyncSM::Enqueue.
Send(cmd, variant) ==
    LET i  == Len(ops) + 1
        op == [cmd |-> cmd, variant |-> variant, seq |-> seqno,
               phase |-> "sent", refused |-> FALSE, heard |-> None,
               told |-> None, by |-> 0, data |-> 0]
    IN  /\ Bounded(cmd, variant)
        /\ MaySend(cmd)
        /\ ops' = Append(ops, op)
        /\ waiting' = IF Unanswered(cmd) THEN waiting ELSE Append(waiting, i)
        /\ seqno' = seqno + 1
        /\ req' = req \o RequestText(i, op)
        /\ discarded' = 0
        /\ UNCHANGED <<link, buf, rsp, sides, asserted, retries, breaks>>

\* The text the next answer starts at: GetResponse looks for the end of a
\* header from wherever the stream stands.
NextHead == SelectInSeq(rsp, LAMBDA t : t.head)

\* The requester parses answer m, of which n units of the body arrived.
Answered(op, m, n) ==
    [op EXCEPT !.phase = IF m.status < 0 THEN "failed" ELSE "ok",
               !.told = IF m.status < 0 THEN None
                        ELSE <<W!Parsed(Rpcs[link][op.cmd].read, m.hdrs)>>,
               !.by = m.op, !.data = n]

\* A mutant: the first answer that comes is taken.
TakesAny(m, i) == TRUE

\* resSeq == op->seq.
IsAnswerTo(m, i) == m.seq = ops[i].seq

\* DoOpResponse: answers with another sequence number are thrown away, body
\* included.
SkipResponse ==
    /\ IsClient /\ waiting # <<>> /\ NextHead # 0
    /\ LET m == rsp[NextHead]
       IN  /\ ~IsAnswerTo(m, Head(waiting))
           /\ discarded' = m.op
           /\ rsp' = SubSeq(rsp, NextHead + m.len + 1, Len(rsp))
    /\ UNCHANGED <<link, ops, waiting, seqno, req, buf, sides, asserted, retries,
                   breaks>>

DoOpResponse ==
    /\ IsClient /\ waiting # <<>> /\ NextHead # 0
    /\ LET i == Head(waiting)
           m == rsp[NextHead]
       IN  /\ IsAnswerTo(m, i)
           /\ ops' = [ops EXCEPT ![i] = Answered(@, m, m.len)]
           /\ rsp' = SubSeq(rsp, NextHead + m.len + 1, Len(rsp))
    /\ waiting' = Tail(waiting)
    /\ discarded' = 0
    /\ UNCHANGED <<link, seqno, req, buf, sides, asserted, retries, breaks>>

\* DoSynchRecv times out in the body: with nothing read the op timed out
\* (TimesOut says what follows for the ops that then get a new connection),
\* with a part of it the op counts as answered.  Either way the rest of the
\* body stays in the socket.
BodyTimesOut(n) ==
    /\ IsClient /\ waiting # <<>> /\ NextHead # 0
    /\ LET i == Head(waiting)
           m == rsp[NextHead]
       IN  /\ IsAnswerTo(m, i) /\ n < m.len
           /\ n = 0 => ~Retried(ops[i].cmd) /\ ops[i].cmd # "READ"
           /\ ops' = [ops EXCEPT ![i] =
                         IF n = 0 THEN [@ EXCEPT !.phase = "timedout"]
                         ELSE Answered(@, m, n)]
           /\ rsp' = SubSeq(rsp, NextHead + n + 1, Len(rsp))
    /\ waiting' = Tail(waiting)
    /\ discarded' = 0
    /\ UNCHANGED <<link, seqno, req, buf, sides, asserted, retries, breaks>>

NewConnection(text) ==
    /\ req' = text /\ buf' = <<>> /\ rsp' = <<>>
    /\ mOps' = <<>> /\ mPendingOps' = <<>> /\ mOp' = 0 /\ submitted' = {}

\* attempt < NUM_RETRIES_PER_OP.
AttemptsLeft == retries < MaxRetries

\* DoMetaOpWithRetry after ETIMEDOUT or EHOSTUNREACH: reconnect and send the
\* op again under a new sequence number, whatever the metaserver did with
\* the first one.
Retry ==
    /\ waiting # <<>> /\ Retried(ops[Head(waiting)].cmd)
    /\ AttemptsLeft
    /\ LET i  == Head(waiting)
           op == [ops[i] EXCEPT !.seq = seqno]
       IN  /\ ops' = [ops EXCEPT ![i] = op]
           /\ NewConnection(RequestText(i, op))
    /\ seqno' = seqno + 1
    /\ retries' = retries + 1
    /\ discarded' = 0
    /\ UNCHANGED <<link, waiting, asserted, breaks>>

\* No header within gDefaultTimeout.  A read gives up all that is in its
\* pipeline and the caller opens the chunk anew, DoMetaOpWithRetry ends with
\* a reconnection; every other caller goes on with the same socket.
TimesOut ==
    /\ IsClient /\ waiting # <<>>
    /\ LET i == Head(waiting)
           anew == Retried(ops[i].cmd) \/ ops[i].cmd = "READ"
           gone == IF anew THEN ToSet(waiting) ELSE {i}
       IN  /\ Retried(ops[i].cmd) => ~AttemptsLeft
           /\ ops' = [j \in DOMAIN ops |->
                         IF j \in gone THEN [ops[j] EXCEPT !.phase = "timedout"]
                         ELSE ops[j]]
           /\ waiting' = IF anew THEN <<>> ELSE Tail(waiting)
           /\ IF anew THEN NewConnection(<<>>) ELSE UNCHANGED <<wires, sides>>
    /\ discarded' = 0
    /\ UNCHANGED <<link, seqno, asserted, retries, breaks>>

\* The connection breaks: the ops out on it fail (EHOSTUNREACH in the client,
\* FailAllOps and FailPendingOps in the servers).
Break ==
    /\ breaks < MaxBreaks
    /\ \A i \in ToSet(waiting) : ~Retried(ops[i].cmd)
    /\ ops' = [i \in DOMAIN ops |-> IF i \in ToSet(waiting)
                                    THEN [ops[i] EXCEPT !.phase = "unreachable"]
                                    ELSE ops[i]]
    /\ waiting' = <<>>
    /\ NewConnection(<<>>)
    /\ breaks' = breaks + 1
    /\ discarded' = 0
    /\ UNCHANGED <<link, seqno, asserted, retries>>

\* ChunkServer::HandleReply, MetaServerSM::HandleReply and
\* RemoteSyncSM::HandleResponse match answers by sequence number.
HandleReply ==
    /\ ~IsClient /\ rsp # <<>>
    /\ LET m == Head(rsp)
       IN  \E i \in ToSet(waiting) :
               /\ ops[i].seq = m.seq
               /\ ops' = [ops EXCEPT ![i] = Answered(@, m, m.len)]
               /\ waiting' = SelectSeq(waiting, LAMBDA j : j # i)
               /\ rsp' = SubSeq(rsp, m.len + 2, Len(rsp))
    /\ discarded' = 0
    /\ UNCHANGED <<link, seqno, req, buf, sides, asserted, retries, breaks>>

-----------------------------------------------------------------------------
(***************************************************************************)
(* The responder.                                                          *)
(***************************************************************************)
\* How much of the input is whole messages.
WholeLen(b) ==
    Max({0} \cup {n \in 1..Len(b) : \E h \in 1..n : b[h].head /\ h + b[h].len = n})

\* ParseCommand on a header: the object it fills, or nothing.
ParseCommand(op, m) ==
    LET reads == Rpcs[link][op.cmd].parse
    IN  IF W!Refused(reads, m.hdrs) THEN [op EXCEPT !.refused = TRUE]
        ELSE [op EXCEPT !.heard = <<W!Parsed(reads, m.hdrs)>>]

\* A mutant: a sync is not held back.
HoldsNothing(s) == <<>>

\* The writes among the ops still to be answered.
WritesAhead(s) ==
    SelectSeq(s.mOps, LAMBDA o : s.ops[o.op].cmd = "WRITE_PREPARE")

\* The chunkserver's ClientSM::HandleClientCmd: a WRITE_SYNC is held back
\* behind the last write that is still to be answered.
HandleClientCmd(s, m) ==
    LET heard == [s.ops EXCEPT ![m.op] = ParseCommand(@, m)]
    IN  IF s.ops[m.op].cmd = "WRITE_SYNC" /\ WritesAhead(s) # <<>>
        THEN [s EXCEPT !.ops = heard,
                       !.mPendingOps = Append(@, <<Last(WritesAhead(s)).op, m.op>>)]
        ELSE [s EXCEPT !.ops = heard,
                       !.mOps = Append(@, [op |-> m.op, st |-> "running"]),
                       !.submitted = @ \cup {m.op}]

\* ClientSM::HandleRequest(EVENT_NET_READ) in the chunkserver: every command
\* that has arrived with its data.
ChunkNetRead(n) ==
    /\ ToClientSM /\ n \in 1..Len(req)
    /\ LET b == buf \o SubSeq(req, 1, n)
           s == FoldLeft(HandleClientCmd,
                    [ops |-> ops, mOps |-> mOps, mPendingOps |-> mPendingOps,
                     submitted |-> submitted],
                    SelectSeq(SubSeq(b, 1, WholeLen(b)), LAMBDA t : t.head))
       IN  /\ buf' = SubSeq(b, WholeLen(b) + 1, Len(b))
           /\ ops' = s.ops /\ mOps' = s.mOps /\ mPendingOps' = s.mPendingOps
           /\ submitted' = s.submitted
    /\ req' = SubSeq(req, n + 1, Len(req))
    /\ discarded' = 0
    /\ UNCHANGED <<link, waiting, seqno, rsp, mOp, asserted, retries, breaks>>

\* ClientSM::HandleRequest(EVENT_NET_READ) in the metaserver: one command
\* per event, which takes the place of the one being served.
MetaNetRead(n) ==
    /\ link = "client_meta" /\ ~asserted /\ n \in 1..Len(req)
    /\ LET b == buf \o SubSeq(req, 1, n)
           m == Head(b)
       IN  /\ ops' = [ops EXCEPT ![m.op] = ParseCommand(@, m)]
           /\ buf' = Tail(b)
           /\ IF ops'[m.op].refused THEN UNCHANGED <<mOp, submitted>>
              ELSE mOp' = m.op /\ submitted' = submitted \cup {m.op}
    /\ req' = SubSeq(req, n + 1, Len(req))
    /\ discarded' = 0
    /\ UNCHANGED <<link, waiting, seqno, rsp, mOps, mPendingOps, asserted,
                   retries, breaks>>

\* ChunkServer::HandleMsg, MetaServerSM::HandleMsg: every message that has
\* arrived whole, each answered when it is done.
PeerNetRead(n) ==
    /\ ~IsClient /\ ~ToClientSM /\ n \in 1..Len(req)
    /\ LET b == buf \o SubSeq(req, 1, n)
           ms == SelectSeq(SubSeq(b, 1, WholeLen(b)), LAMBDA t : t.head)
       IN  /\ buf' = SubSeq(b, WholeLen(b) + 1, Len(b))
           /\ ops' = FoldLeft(LAMBDA os, m : [os EXCEPT ![m.op] = ParseCommand(@, m)],
                              ops, ms)
           /\ submitted' = submitted \cup {m.op : m \in ToSet(ms)}
    /\ req' = SubSeq(req, n + 1, Len(req))
    /\ discarded' = 0
    /\ UNCHANGED <<link, waiting, seqno, rsp, mOps, mPendingOps, mOp, asserted,
                   retries, breaks>>

\* ClientSM::OpFinished: the syncs at the front of the pending list that wait
\* for op q are submitted.
OpFinished(s, q) ==
    LET n == Max({k \in 0..Len(s.pending) :
                     \A j \in 1..k : s.pending[j][1] = q.op})
        freed == SubSeq(s.pending, 1, n)
    IN  [pending |-> SubSeq(s.pending, n + 1, Len(s.pending)),
         mOps |-> s.mOps \o [j \in 1..n |-> [op |-> freed[j][2], st |-> "running"]],
         submitted |-> s.submitted \cup {freed[j][2] : j \in 1..n}]

\* A mutant: whatever is finished is answered.
FinishedAnywhere(q) == SelectSeq(q, LAMBDA o : o.st # "running")

\* The finished ops at the front of the queue.
FinishedInFront(q) ==
    SubSeq(q, 1, Max({k \in 0..Len(q) : \A j \in 1..k : q[j].st # "running"}))

\* HandleRequest(EVENT_CMD_DONE) in the chunkserver's ClientSM: the finished
\* ops at the front of mOps are answered, in order.
ChunkCmdDone(i, ok) ==
    /\ ToClientSM /\ i \in submitted
    /\ LET marked == [j \in DOMAIN mOps |->
                        IF mOps[j].op = i
                        THEN [op |-> i, st |-> IF ok THEN "ok" ELSE "failed"]
                        ELSE mOps[j]]
           done == FinishedInFront(marked)
           s == FoldLeft(OpFinished,
                    [pending |-> mPendingOps,
                     mOps |-> SelectSeq(marked, LAMBDA o : o \notin ToSet(done)),
                     submitted |-> submitted \ {i}], done)
       IN  /\ mOps' = s.mOps /\ mPendingOps' = s.pending
           /\ submitted' = s.submitted
           /\ rsp' = FoldLeft(LAMBDA r, q : r \o ResponseText(q.op, q.st = "ok"),
                              rsp, done)
    /\ discarded' = 0
    /\ UNCHANGED <<link, ops, waiting, seqno, req, buf, mOp, asserted, retries,
                   breaks>>

\* HandleRequest(EVENT_CMD_DONE) in the metaserver's ClientSM.
MetaCmdDone(i, ok) ==
    /\ link = "client_meta" /\ ~asserted /\ i \in submitted
    /\ submitted' = submitted \ {i}
    /\ IF i = mOp
       THEN /\ rsp' = rsp \o ResponseText(i, ok)
            /\ mOp' = 0
            /\ UNCHANGED asserted
       ELSE asserted' = TRUE /\ UNCHANGED <<rsp, mOp>>
    /\ discarded' = 0
    /\ UNCHANGED <<link, ops, waiting, seqno, req, buf, mOps, mPendingOps,
                   retries, breaks>>

PeerCmdDone(i, ok) ==
    /\ ~IsClient /\ ~ToClientSM /\ i \in submitted
    /\ submitted' = submitted \ {i}
    /\ rsp' = rsp \o ResponseText(i, ok)
    /\ discarded' = 0
    /\ UNCHANGED <<link, ops, waiting, seqno, req, buf, mOps, mPendingOps, mOp,
                   asserted, retries, breaks>>

Next ==
    \/ \E cmd \in Cmds, v \in W!Variants : Send(cmd, v)
    \/ SkipResponse
    \/ DoOpResponse
    \/ \E n \in 0 .. BodyLen - 1 : BodyTimesOut(n)
    \/ Retry
    \/ TimesOut
    \/ Break
    \/ HandleReply
    \/ \E n \in 1..Len(req) : ChunkNetRead(n)
    \/ \E n \in 1..Len(req) : MetaNetRead(n)
    \/ \E n \in 1..Len(req) : PeerNetRead(n)
    \/ \E i \in submitted, ok \in BOOLEAN : ChunkCmdDone(i, ok)
    \/ \E i \in submitted, ok \in BOOLEAN : MetaCmdDone(i, ok)
    \/ \E i \in submitted, ok \in BOOLEAN : PeerCmdDone(i, ok)

Spec == Init /\ [][Next]_vars

-----------------------------------------------------------------------------
(***************************************************************************)
(* Properties.                                                             *)
(***************************************************************************)
\* The types of the variables: every stream holds headers and body units of
\* ops that exist, and what either side waits for are such ops.
TypeOK ==
    /\ link \in Links
    /\ \A i \in DOMAIN ops :
          /\ ops[i].cmd \in Cmds /\ ops[i].seq \in 1 .. seqno - 1
          /\ ops[i].phase \in {"sent", "ok", "failed", "timedout", "unreachable"}
    /\ \A t \in ToSet(req) \cup ToSet(buf) \cup ToSet(rsp) : t.op \in DOMAIN ops
    /\ ToSet(waiting) \cup submitted \cup {o.op : o \in ToSet(mOps)} \subseteq DOMAIN ops
    /\ mOp \in {0} \cup DOMAIN ops
    /\ {asserted} \subseteq BOOLEAN /\ discarded \in {0} \cup DOMAIN ops
    /\ retries \in 0..MaxRetries /\ breaks \in 0..MaxBreaks

Meant(s, f, names) == s = f \/ <<s, f>> \in names

\* Every field of the object d got the value of the field it is meant for; a
\* field is left at its default only if no header for it was written.
Conveyed(d, msg, obj, variant, names, except) ==
    LET sent == {h[2] : h \in msg.always \cup
                              (IF variant = "large" THEN msg.sometimes ELSE {})}
    IN  \A f \in DOMAIN d \ except :
            \/ /\ d[f][2] = "default"
               /\ \A s \in sent : ~Meant(s, f, names)
            \/ \E s \in sent : /\ Meant(s, f, names)
                              /\ \/ d[f] = obj[s]
                                 \/ obj[s][2] = W!Copy /\ d[f] = <<s, "cap">>

\* What one program's Request() writes the other program's parse handler
\* accepts and reads into the fields it was meant for, at full width: the
\* header names agree, nothing mandatory is missing, nothing is narrowed.
RequestsUnderstood ==
    \A i \in DOMAIN ops :
        LET r == RpcOf(i)
        IN  /\ ~ops[i].refused
            /\ ops[i].heard # None =>
                  Conveyed(ops[i].heard[1], r.request,
                           W!Object(r.cls, ops[i].variant), ops[i].variant,
                           r.names, {})

\* Fields read with an int default although their value may need 64 bits
\* (KfsClient.cc:823 and 850, RemoteSyncSM.cc:316).
Narrowed ==
    [l \in Links |->
        CASE l = "client_meta" -> [READDIRPLUS |-> {"fileId", "lastChunkOffset"}]
          [] l = "chunk_chunk" -> [GET_CHUNK_METADATA |-> {"chunkVersion"}]
          [] OTHER -> [NONE |-> {}]]

\* What response() writes to a successful request its sender reads into the
\* fields it was meant for, at full width except for three fields that are
\* read as int.
ResponsesUnderstood ==
    \A i \in DOMAIN ops :
        LET r == RpcOf(i)
        IN  ops[i].told # None =>
              Conveyed(ops[i].told[1], r.response,
                       W!Object(r.obj, ops[i].variant), ops[i].variant, r.names,
                       IF ops[i].cmd \in DOMAIN Narrowed[link]
                       THEN Narrowed[link][ops[i].cmd] ELSE {})

\* The programs understand each other: no request is refused for how it is
\* written, and requests and responses convey the fields of the op.
MessagesUnderstood == RequestsUnderstood /\ ResponsesUnderstood

\* An op is answered by the answer to itself and never by a late answer to
\* an op that was given up before it on the same connection, even when a
\* body was cut off and its rest is still in the socket (DoOpResponse,
\* FindMatchingRequest, RemoteSyncSM::HandleResponse).
AnswersOwn ==
    \A i \in DOMAIN ops : ops[i].phase \in {"ok", "failed"} => ops[i].by = i

\* A client that skips an answer with an unexpected sequence number skips
\* only answers to ops it has given up: the chunkserver answers a pipeline in
\* the order in which the client waits for it, although it finishes ops in
\* any order and holds WRITE_SYNCs back (ClientSM::mOps, mPendingOps).
NoLiveAnswerDiscarded ==
    [][discarded' # 0 => discarded' \notin ToSet(waiting)]_vars

\* The chunkserver executes a WRITE_SYNC only when every WRITE_PREPARE that
\* was sent before it on the connection has finished (ClientSM.cc:330, "make
\* the write sync depend on a previous write").
SyncFollowsPrepares ==
    \A s \in submitted : ops[s].cmd = "WRITE_SYNC" =>
        \A w \in submitted : ops[w].cmd = "WRITE_PREPARE" => ops[w].seq > ops[s].seq
=============================================================================

------------------------------ MODULE ChunkOps ------------------------------
(***************************************************************************)
(* The chunkserver's side of its RPCs (chunk/KfsOps.h, KfsOps.cc): for     *)
(* each op class the fields its messages are written from, what its parse  *)
(* handler reads, what Response() writes once the op succeeded, and what   *)
(* Request() writes to the metaserver or to another chunkserver.           *)
(***************************************************************************)
EXTENDS Wire

AllocChunkOp      == {}
ChangeChunkVersOp == {}
DeleteChunkOp     == {}
TruncateChunkOp   == {}
ReplicateChunkOp  == {<<"fid", I64>>, <<"chunkVersion", I64>>}
HeartbeatOp       == {<<"totalSpace", I64>>, <<"usedSpace", I64>>,
                      <<"numChunks", I32>>}
StaleChunksOp     == {}
RetireOp          == {}
OpenOp            == {}
CloseOp           == {}
WriteIdAllocOp    == {<<"chunkId", I64>>, <<"chunkVersion", I64>>,
                      <<"offset", I64>>, <<"numBytes", I64>>,
                      <<"numServers", I32>>, <<"servers", Text>>,
                      <<"writeIdStr", Text>>}
WritePrepareOp    == {}
WritePrepareFwdOp == {<<"chunkId", I64>>, <<"chunkVersion", I64>>,
                      <<"offset", I64>>, <<"numBytes", I64>>,
                      <<"checksum", U32>>, <<"numServers", I32>>,
                      <<"servers", Text>>}
WriteSyncOp       == {<<"chunkId", I64>>, <<"chunkVersion", I64>>,
                      <<"numServers", I32>>, <<"servers", Text>>}
ReadOp            == {<<"chunkId", I64>>, <<"chunkVersion", I64>>,
                      <<"offset", I64>>, <<"numBytes", I64>>,
                      <<"checksum", U32>>}
SizeOp            == {<<"chunkId", I64>>, <<"chunkVersion", I64>>,
                      <<"size", I32>>}
GetChunkMetadataOp == {<<"chunkId", I64>>, <<"chunkVersion", I64>>,
                       <<"chunkSize", I32>>}
PingOp            == {<<"hostname", Text>>, <<"port", I32>>,
                      <<"totalSpace", I64>>, <<"usedSpace", I64>>}
StatsOp           == {<<"stats", Text>>}
LeaseRenewOp      == {<<"chunkId", I64>>, <<"leaseId", I64>>,
                      <<"leaseType", "WRITE_LEASE">>}
HelloMetaOp       == {<<"hostname", Text>>, <<"port", I32>>,
                      <<"clusterKey", Text>>, <<"rackId", I32>>,
                      <<"totalSpace", I64>>, <<"usedSpace", I64>>,
                      <<"numChunks", I32>>, <<"fileId", I64>>,
                      <<"chunkId", I64>>, <<"chunkVersion", I64>>}
CorruptChunkOp    == {<<"fid", I64>>, <<"chunkId", I64>>}

-----------------------------------------------------------------------------
(***************************************************************************)
(* The parse handlers.  None of them refuses a message.                    *)
(***************************************************************************)
\* The intent is read and ignored: every open is O_RDWR.
parseHandlerOpen  == {Atoll("Chunk-handle", "chunkId")}

parseHandlerClose == {Atoll("Chunk-handle", "chunkId")}

parseHandlerRead ==
    {Atoll("Chunk-handle", "chunkId"), Atoll("Chunk-version", "chunkVersion"),
     Atoll("Offset", "offset"), Atoll("Num-bytes", "numBytes")}

parseHandlerWriteIdAlloc ==
    {Atoll("Chunk-handle", "chunkId"), Atoll("Chunk-version", "chunkVersion"),
     Atoll("Offset", "offset"), Atoll("Num-bytes", "numBytes"),
     Atoi("Num-servers", "numServers"), Str("Servers", "servers")}

parseHandlerWritePrepare ==
    {Atoll("Chunk-handle", "chunkId"), Atoll("Chunk-version", "chunkVersion"),
     Atoll("Offset", "offset"), Atoll("Num-bytes", "numBytes"),
     Atoi("Num-servers", "numServers"), Str("Servers", "servers"),
     Atoll("Checksum", "checksum")}

parseHandlerWriteSync ==
    {Atoll("Chunk-handle", "chunkId"), Atoll("Chunk-version", "chunkVersion"),
     Atoi("Num-servers", "numServers"), Str("Servers", "servers")}

parseHandlerSize ==
    {Atoll("Chunk-handle", "chunkId"), Atoll("Chunk-version", "chunkVersion")}

parseHandlerGetChunkMetadata == {Atoll("Chunk-handle", "chunkId")}

parseHandlerAllocChunk ==
    {Atoll("File-handle", "fileId"), Atoll("Chunk-handle", "chunkId"),
     Atoll("Chunk-version", "chunkVersion"), Atoll("Lease-id", "leaseId")}

parseHandlerDeleteChunk == {Atoll("Chunk-handle", "chunkId")}

parseHandlerTruncateChunk ==
    {Atoll("Chunk-handle", "chunkId"), Atoll("Chunk-size", "chunkSize")}

parseHandlerReplicateChunk ==
    {Atoll("File-handle", "fid"), Atoll("Chunk-handle", "chunkId"),
     Atoll("Chunk-version", "chunkVersion"), Str("Chunk-location", "location")}

parseHandlerChangeChunkVers ==
    {Atoll("File-handle", "fileId"), Atoll("Chunk-handle", "chunkId"),
     Atoll("Chunk-version", "chunkVersion")}

parseHandlerHeartbeat == {}

parseHandlerRetire    == {}

parseHandlerStaleChunks ==
    {Atoi("Num-chunks", "numStaleChunks"), Atoll("[id]", "staleChunkIds")}

parseHandlerPing  == {}

parseHandlerStats == {}

-----------------------------------------------------------------------------
(***************************************************************************)
(* The answers.                                                            *)
(***************************************************************************)
KfsOp_Response  == Message({}, {}, FALSE)

SizeOp_Response == Message({<<"Size", "size">>}, {}, FALSE)

GetChunkMetadataOp_Response ==
    Message({<<"Chunk-handle", "chunkId">>, <<"Chunk-version", "chunkVersion">>,
             <<"Size", "chunkSize">>}, {}, TRUE)

ReadOp_Response == Message({<<"Checksum", "checksum">>}, {}, TRUE)

WriteIdAllocOp_Response == Message({<<"Write-id", "writeIdStr">>}, {}, FALSE)

WriteSyncOp_Response   == Message({}, {}, FALSE)

AllocChunkOp_Response  == Message({}, {}, FALSE)

HeartbeatOp_Response ==
    Message({<<"Total-space", "totalSpace">>, <<"Used-space", "usedSpace">>,
             <<"Num-chunks", "numChunks">>}, {}, FALSE)

StaleChunksOp_Response == Message({}, {}, FALSE)

ReplicateChunkOp_Response ==
    Message({<<"File-handle", "fid">>, <<"Chunk-version", "chunkVersion">>},
            {}, FALSE)

PingOp_Response ==
    Message({<<"Meta-server-host", "hostname">>, <<"Meta-server-port", "port">>,
             <<"Total-space", "totalSpace">>, <<"Used-space", "usedSpace">>},
            {}, FALSE)

StatsOp_Response == Message({<<"stats", "stats">>}, {}, FALSE)

-----------------------------------------------------------------------------
(***************************************************************************)
(* The RPCs a chunkserver sends.                                           *)
(***************************************************************************)
GetChunkMetadataOp_Request == Message({<<"Chunk-handle", "chunkId">>}, {}, FALSE)

ReadOp_Request ==
    Message({<<"Chunk-handle", "chunkId">>, <<"Chunk-version", "chunkVersion">>,
             <<"Offset", "offset">>, <<"Num-bytes", "numBytes">>}, {}, FALSE)

WriteIdAllocOp_Request ==
    Message({<<"Chunk-handle", "chunkId">>, <<"Chunk-version", "chunkVersion">>,
             <<"Offset", "offset">>, <<"Num-bytes", "numBytes">>,
             <<"Num-servers", "numServers">>, <<"Servers", "servers">>},
            {}, FALSE)

\* Sent as WRITE_PREPARE, from the fields of the prepare it forwards.
WritePrepareFwdOp_Request ==
    Message({<<"Chunk-handle", "chunkId">>, <<"Chunk-version", "chunkVersion">>,
             <<"Offset", "offset">>, <<"Num-bytes", "numBytes">>,
             <<"Checksum", "checksum">>, <<"Num-servers", "numServers">>,
             <<"Servers", "servers">>}, {}, TRUE)

WriteSyncOp_Request ==
    Message({<<"Chunk-handle", "chunkId">>, <<"Chunk-version", "chunkVersion">>,
             <<"Num-servers", "numServers">>, <<"Servers", "servers">>},
            {}, FALSE)

LeaseRenewOp_Request ==
    Message({<<"Chunk-handle", "chunkId">>, <<"Lease-id", "leaseId">>,
             <<"Lease-type", "leaseType">>}, {}, FALSE)

CorruptChunkOp_Request ==
    Message({<<"File-handle", "fid">>, <<"Chunk-handle", "chunkId">>}, {}, FALSE)

HelloMetaOp_Request ==
    Message({<<"Chunk-server-name", "hostname">>, <<"Chunk-server-port", "port">>,
             <<"Cluster-key", "clusterKey">>, <<"Rack-id", "rackId">>,
             <<"Total-space", "totalSpace">>, <<"Used-space", "usedSpace">>,
             <<"Num-chunks", "numChunks">>, <<"[fileId]", "fileId">>,
             <<"[chunkId]", "chunkId">>, <<"[chunkVersion]", "chunkVersion">>},
            {}, TRUE)

\* RemoteSyncSM::HandleResponse: the size and the version of a chunk's
\* metadata are read with int defaults.
RemoteSync_Reads ==
    [WRITE_ID_ALLOC     |-> {Str("Write-id", "writeIdStr")},
     GET_CHUNK_METADATA |-> {Atoi("Chunk-version", "chunkVersion"),
                             Atoi("Size", "chunkSize")}]
=============================================================================

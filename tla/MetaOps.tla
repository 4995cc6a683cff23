------------------------------ MODULE MetaOps ------------------------------
(***************************************************************************)
(* The metaserver's side of its RPCs (meta/request.h, request.cc): for     *)
(* each request class the fields its messages are written from, what its   *)
(* parse handler reads and insists on, what response() writes once the     *)
(* request succeeded, and what request() writes to a chunkserver.          *)
(***************************************************************************)
EXTENDS Wire

MetaLookup == {<<"id", I64>>, <<"type", Text>>, <<"chunkcount", I32>>,
    <<"filesize", I64>>, <<"numReplicas", I32>>, <<"mtime", Text>>,
    <<"ctime", Text>>, <<"crtime", Text>>}
MetaLookupPath == {<<"id", I64>>, <<"type", Text>>, <<"chunkcount", I32>>,
    <<"filesize", I64>>, <<"numReplicas", I32>>, <<"mtime", Text>>,
    <<"ctime", Text>>, <<"crtime", Text>>}
MetaCreate == {<<"fid", I64>>}
MetaMkdir  == {<<"fid", I64>>}
MetaRemove == {}
MetaRmdir  == {}
MetaReaddir == {<<"numEntries", I32>>}
MetaReaddirPlus == {<<"numEntries", I32>>, <<"name", Text>>, <<"id", I64>>,
    <<"type", Text>>, <<"mtime", Text>>, <<"ctime", Text>>, <<"crtime", Text>>,
    <<"chunkcount", I32>>, <<"filesize", I64>>, <<"numReplicas", I32>>,
    <<"offset", I64>>, <<"chunkId", I64>>, <<"chunkVersion", I64>>,
    <<"locations", Text>>}
MetaGetalloc == {<<"chunkId", I64>>, <<"chunkVersion", I64>>,
    <<"locations", Text>>}
MetaGetlayout == {<<"numChunks", I32>>, <<"offset", I64>>, <<"chunkId", I64>>,
    <<"chunkVersion", I64>>, <<"locations", Text>>}
MetaAllocate == {<<"chunkId", I64>>, <<"chunkVersion", I64>>,
    <<"master", Text>>, <<"servers", Text>>}
MetaTruncate == {}
MetaRename   == {}
MetaChangeFileReplication == {<<"numReplicas", I32>>}
MetaRetireChunkserver == {}
MetaHello        == {}
MetaLeaseAcquire == {<<"leaseId", I64>>}
MetaLeaseRenew   == {}
MetaChunkCorrupt == {}
MetaPing  == {<<"systemInfo", Text>>, <<"servers", Text>>,
    <<"retiringServers", Text>>, <<"downServers", Text>>}
MetaStats == {<<"stats", Text>>}

MetaChunkAllocate == {<<"fid", I64>>, <<"chunkId", I64>>,
    <<"chunkVersion", I64>>, <<"leaseId", I64>>, <<"numServers", I32>>,
    <<"servers", Text>>}
MetaChunkDelete == {<<"chunkId", I64>>}
MetaChunkTruncate == {<<"chunkId", I64>>, <<"chunkSize", I64>>}
MetaChunkHeartbeat == {}
MetaChunkStaleNotify == {<<"numChunks", I32>>, <<"staleChunkIds", I64>>}
MetaChunkRetire == {}
MetaChunkVersChange == {<<"fid", I64>>, <<"chunkId", I64>>,
    <<"chunkVersion", I64>>}
MetaChunkReplicate == {<<"fid", I64>>, <<"chunkId", I64>>,
    <<"chunkVersion", I64>>, <<"srcLocation", Text>>}
MetaChunkSize == {<<"fid", I64>>, <<"chunkId", I64>>}

-----------------------------------------------------------------------------
(***************************************************************************)
(* The parse handlers.                                                     *)
(***************************************************************************)
parseHandlerLookup ==
    {Must(Atoll("Parent File-handle", "dir")), Must(Str("Filename", "name"))}

parseHandlerLookupPath ==
    {Must(Atoll("Root File-handle", "root")), Must(Str("Pathname", "path"))}

parseHandlerCreate ==
    {Must(Atoll("Parent File-handle", "dir")), Must(Str("Filename", "name")),
     Copies("Num-replicas", "numReplicas"), Atoi("Exclusive", "exclusive")}

parseHandlerRemove ==
    {Must(Atoll("Parent File-handle", "dir")), Must(Str("Filename", "name"))}

parseHandlerMkdir ==
    {Must(Atoll("Parent File-handle", "dir")), Must(Str("Directory", "name"))}

parseHandlerRmdir ==
    {Must(Atoll("Parent File-handle", "dir")), Must(Str("Directory", "name"))}

parseHandlerReaddir     == {Must(Atoll("Directory File-handle", "dir"))}

parseHandlerReaddirPlus == {Must(Atoll("Directory File-handle", "dir"))}

parseHandlerGetalloc ==
    {Must(Atoll("File-handle", "fid")), Must(Atoll("Chunk-offset", "offset"))}

parseHandlerGetlayout == {Must(Atoll("File-handle", "fid"))}

parseHandlerAllocate ==
    {Must(Atoll("File-handle", "fid")), Must(Atoll("Chunk-offset", "offset")),
     Str("Client-host", "clientHost")}

parseHandlerTruncate ==
    {Must(Atoll("File-handle", "fid")), Must(Atoll("Offset", "offset"))}

parseHandlerRename ==
    {Must(Atoll("Parent File-handle", "dir")), Must(Str("Old-name", "oldname")),
     Must(Str("New-path", "newname")), Atoi("Overwrite", "overwrite")}

parseHandlerChangeFileReplication ==
    {Atoll("File-handle", "fid"), Copies("Num-replicas", "numReplicas")}

parseHandlerRetireChunkserver ==
    {Must(Str("Chunk-server-name", "hostname")),
     Must(Atoi("Chunk-server-port", "port")), Atoi("Downtime", "nSecsDown")}

parseHandlerHello ==
    {Must(Str("Chunk-server-name", "hostname")),
     Must(Atoi("Chunk-server-port", "port")), Str("Cluster-key", "clusterKey"),
     Atoll("Total-space", "totalSpace"), Atoll("Used-space", "usedSpace"),
     Atoi("Rack-id", "rackId"), Atoi("Num-chunks", "numChunks")}

\* ChunkServer::HandleHelloMsg: the chunks listed in the body.
HandleHelloMsg_Chunks ==
    {Atoll("[fileId]", "fileId"), Atoll("[chunkId]", "chunkId"),
     Atoll("[chunkVersion]", "chunkVersion")}

parseHandlerLeaseAcquire == {Atoll("Chunk-handle", "chunkId")}

parseHandlerLeaseRenew ==
    {Atoll("Chunk-handle", "chunkId"), Atoll("Lease-id", "leaseId"),
     Str("Lease-type", "leaseType")}

parseHandlerChunkCorrupt ==
    {Atoll("File-handle", "fid"), Atoll("Chunk-handle", "chunkId")}

parseHandlerPing  == {}

parseHandlerStats == {}

-----------------------------------------------------------------------------
(***************************************************************************)
(* The answers.  Each starts with OK, the request's Cseq and its status; a *)
(* failed request's answer ends there.                                     *)
(***************************************************************************)
MetaLookup_response ==
    Message({<<"File-handle", "id">>, <<"Type", "type">>,
             <<"Chunk-count", "chunkcount">>, <<"File-size", "filesize">>,
             <<"Replication", "numReplicas">>, <<"M-Time", "mtime">>,
             <<"C-Time", "ctime">>, <<"CR-Time", "crtime">>}, {}, FALSE)

MetaLookupPath_response ==
    Message({<<"File-handle", "id">>, <<"Type", "type">>,
             <<"Chunk-count", "chunkcount">>, <<"File-size", "filesize">>,
             <<"Replication", "numReplicas">>, <<"M-Time", "mtime">>,
             <<"C-Time", "ctime">>, <<"CR-Time", "crtime">>}, {}, FALSE)

MetaCreate_response  == Message({<<"File-handle", "fid">>}, {}, FALSE)

MetaRemove_response  == Message({}, {}, FALSE)

MetaMkdir_response   == Message({<<"File-handle", "fid">>}, {}, FALSE)

MetaRmdir_response   == Message({}, {}, FALSE)

MetaReaddir_response == Message({<<"Num-Entries", "numEntries">>}, {}, TRUE)

MetaReaddirPlus_response == Message({<<"Num-Entries", "numEntries">>}, {}, TRUE)

\* EnumerateReaddirPlusInfo writes one record per directory entry; the last
\* chunk's headers are there only for a file that has a chunk with a live
\* server.
EnumerateReaddirPlusInfo ==
    Message({<<"[Name]", "name">>, <<"[File-handle]", "id">>,
             <<"[Type]", "type">>, <<"[M-Time]", "mtime">>,
             <<"[C-Time]", "ctime">>, <<"[CR-Time]", "crtime">>},
            {<<"[Chunk-count]", "chunkcount">>, <<"[File-size]", "filesize">>,
             <<"[Replication]", "numReplicas">>, <<"[Chunk-offset]", "offset">>,
             <<"[Chunk-handle]", "chunkId">>,
             <<"[Chunk-version]", "chunkVersion">>,
             <<"[Replicas]", "locations">>}, TRUE)

MetaRename_response   == Message({}, {}, FALSE)

MetaGetalloc_response ==
    Message({<<"Chunk-handle", "chunkId">>, <<"Chunk-version", "chunkVersion">>,
             <<"Replicas", "locations">>}, {}, FALSE)

MetaGetlayout_response == Message({<<"Num-chunks", "numChunks">>}, {}, TRUE)

\* ChunkLayoutInfo::toString.
ChunkLayoutInfo_toString ==
    Message({<<"[offset]", "offset">>, <<"[id]", "chunkId">>,
             <<"[version]", "chunkVersion">>, <<"[replicas]", "locations">>},
            {}, TRUE)

MetaAllocate_response ==
    Message({<<"Chunk-handle", "chunkId">>, <<"Chunk-version", "chunkVersion">>,
             <<"Master", "master">>, <<"Replicas", "servers">>}, {}, FALSE)

MetaLeaseAcquire_response == Message({<<"Lease-id", "leaseId">>}, {}, FALSE)

MetaLeaseRenew_response   == Message({}, {}, FALSE)

MetaHello_response        == Message({}, {}, FALSE)

MetaChunkCorrupt_response == Message({}, {}, FALSE)

MetaTruncate_response     == Message({}, {}, FALSE)

MetaChangeFileReplication_response ==
    Message({<<"Num-replicas", "numReplicas">>}, {}, FALSE)

MetaRetireChunkserver_response == Message({}, {}, FALSE)

MetaPing_response ==
    Message({<<"System Info", "systemInfo">>, <<"Servers", "servers">>,
             <<"Retiring Servers", "retiringServers">>,
             <<"Down Servers", "downServers">>}, {}, FALSE)

MetaStats_response == Message({<<"stats", "stats">>}, {}, FALSE)

-----------------------------------------------------------------------------
(***************************************************************************)
(* The RPCs to chunkservers, and what HandleReply reads from the answers.  *)
(***************************************************************************)
\* The lease goes to the master alone.
MetaChunkAllocate_request ==
    Message({<<"File-handle", "fid">>, <<"Chunk-handle", "chunkId">>,
             <<"Chunk-version", "chunkVersion">>, <<"Num-servers", "numServers">>,
             <<"Servers", "servers">>},
            {<<"Lease-id", "leaseId">>}, FALSE)

MetaChunkDelete_request == Message({<<"Chunk-handle", "chunkId">>}, {}, FALSE)

MetaChunkTruncate_request ==
    Message({<<"Chunk-handle", "chunkId">>, <<"Chunk-size", "chunkSize">>},
            {}, FALSE)

MetaChunkHeartbeat_request == Message({}, {}, FALSE)

MetaChunkStaleNotify_request ==
    Message({<<"Num-chunks", "numChunks">>, <<"[id]", "staleChunkIds">>}, {}, TRUE)

MetaChunkRetire_request == Message({}, {}, FALSE)

MetaChunkVersChange_request ==
    Message({<<"File-handle", "fid">>, <<"Chunk-handle", "chunkId">>,
             <<"Chunk-version", "chunkVersion">>}, {}, FALSE)

MetaChunkReplicate_request ==
    Message({<<"File-handle", "fid">>, <<"Chunk-handle", "chunkId">>,
             <<"Chunk-version", "chunkVersion">>,
             <<"Chunk-location", "srcLocation">>}, {}, FALSE)

MetaChunkSize_request ==
    Message({<<"File-handle", "fid">>, <<"Chunk-handle", "chunkId">>}, {}, FALSE)

HandleReply ==
    [HEARTBEAT |-> {Atoll("Total-space", "totalSpace"),
                    Atoll("Used-space", "usedSpace"),
                    Atoi("Num-chunks", "numChunks")},
     REPLICATE |-> {Atoll("File-handle", "fid"),
                    Atoll("Chunk-version", "chunkVersion")},
     SIZE      |-> {Atoll("Size", "chunkSize")}]
=============================================================================

----------------------------- MODULE ClientOps -----------------------------
(***************************************************************************)
(* The client library's RPCs (libkfsClient/KfsOps.h, KfsOps.cc) and those  *)
(* of the monitoring tools (tools/MonUtils.cc): for each class the fields  *)
(* its request is written from, what Request() writes, and what            *)
(* ParseResponseHeader() reads from the answer.  Cseq, Version, Status and *)
(* Content-length travel in every message and are Protocol's business.     *)
(***************************************************************************)
EXTENDS Wire

CreateOp   == {<<"parentFid", I64>>, <<"filename", Text>>,
               <<"numReplicas", Copy>>, <<"exclusive", I32>>}
RemoveOp   == {<<"parentFid", I64>>, <<"filename", Text>>}
MkdirOp    == {<<"parentFid", I64>>, <<"dirname", Text>>}
RmdirOp    == {<<"parentFid", I64>>, <<"dirname", Text>>}
RenameOp   == {<<"parentFid", I64>>, <<"oldname", Text>>,
               <<"newpath", Text>>, <<"overwrite", I32>>}
ReaddirOp     == {<<"fid", I64>>}
ReaddirPlusOp == {<<"fid", I64>>}
LookupOp      == {<<"parentFid", I64>>, <<"filename", Text>>}
LookupPathOp  == {<<"rootFid", I64>>, <<"filename", Text>>}
GetAllocOp    == {<<"fid", I64>>, <<"fileOffset", I64>>}
GetLayoutOp   == {<<"fid", I64>>}
GetChunkMetadataOp == {<<"chunkId", I64>>}
AllocateOp    == {<<"hostname", Text>>, <<"fid", I64>>, <<"fileOffset", I64>>}
TruncateOp    == {<<"fid", I64>>, <<"fileOffset", I64>>}
OpenOp        == {<<"chunkId", I64>>, <<"openFlags", Text>>}
CloseOp       == {<<"chunkId", I64>>}
SizeOp        == {<<"chunkId", I64>>, <<"chunkVersion", I64>>}
ReadOp        == {<<"chunkId", I64>>, <<"chunkVersion", I64>>,
                  <<"offset", I64>>, <<"numBytes", I64>>}
WriteIdAllocOp == {<<"chunkId", I64>>, <<"chunkVersion", I64>>,
                   <<"offset", I64>>, <<"numBytes", I64>>,
                   <<"numServers", I32>>, <<"chunkServerLoc", Text>>}
WritePrepareOp == {<<"chunkId", I64>>, <<"chunkVersion", I64>>,
                   <<"offset", I64>>, <<"numBytes", I64>>, <<"checksum", U32>>,
                   <<"numServers", I32>>, <<"writeInfo", Text>>}
WriteSyncOp    == {<<"chunkId", I64>>, <<"chunkVersion", I64>>,
                   <<"numServers", I32>>, <<"writeInfo", Text>>}
LeaseAcquireOp == {<<"chunkId", I64>>}
LeaseRenewOp   == {<<"chunkId", I64>>, <<"leaseId", I64>>,
                   <<"leaseType", "READ_LEASE">>}
ChangeFileReplicationOp == {<<"fid", I64>>, <<"numReplicas", Copy>>}

-----------------------------------------------------------------------------
(***************************************************************************)
(* The requests.                                                           *)
(***************************************************************************)
CreateOp_Request ==
    Message({<<"Parent File-handle", "parentFid">>, <<"Filename", "filename">>,
             <<"Num-replicas", "numReplicas">>, <<"Exclusive", "exclusive">>},
            {}, FALSE)

MkdirOp_Request ==
    Message({<<"Parent File-handle", "parentFid">>, <<"Directory", "dirname">>},
            {}, FALSE)

RmdirOp_Request ==
    Message({<<"Parent File-handle", "parentFid">>, <<"Directory", "dirname">>},
            {}, FALSE)

\* A mutant: the header the metaserver looks for is called New-path.
RenameOp_RequestNewName ==
    Message({<<"Parent File-handle", "parentFid">>, <<"Old-name", "oldname">>,
             <<"New-name", "newpath">>, <<"Overwrite", "overwrite">>},
            {}, FALSE)

RenameOp_Request ==
    Message({<<"Parent File-handle", "parentFid">>, <<"Old-name", "oldname">>,
             <<"New-path", "newpath">>, <<"Overwrite", "overwrite">>},
            {}, FALSE)

ReaddirOp_Request     == Message({<<"Directory File-handle", "fid">>}, {}, FALSE)

ReaddirPlusOp_Request == Message({<<"Directory File-handle", "fid">>}, {}, FALSE)

RemoveOp_Request ==
    Message({<<"Parent File-handle", "parentFid">>, <<"Filename", "filename">>},
            {}, FALSE)

LookupOp_Request ==
    Message({<<"Parent File-handle", "parentFid">>, <<"Filename", "filename">>},
            {}, FALSE)

LookupPathOp_Request ==
    Message({<<"Root File-handle", "rootFid">>, <<"Pathname", "filename">>},
            {}, FALSE)

GetAllocOp_Request ==
    Message({<<"File-handle", "fid">>, <<"Chunk-offset", "fileOffset">>},
            {}, FALSE)

GetLayoutOp_Request == Message({<<"File-handle", "fid">>}, {}, FALSE)

GetChunkMetadataOp_Request == Message({<<"Chunk-handle", "chunkId">>}, {}, FALSE)

AllocateOp_Request ==
    Message({<<"Client-host", "hostname">>, <<"File-handle", "fid">>,
             <<"Chunk-offset", "fileOffset">>}, {}, FALSE)

TruncateOp_Request ==
    Message({<<"File-handle", "fid">>, <<"Offset", "fileOffset">>}, {}, FALSE)

OpenOp_Request ==
    Message({<<"Chunk-handle", "chunkId">>, <<"Intent", "openFlags">>}, {}, FALSE)

CloseOp_Request == Message({<<"Chunk-handle", "chunkId">>}, {}, FALSE)

ReadOp_Request ==
    Message({<<"Chunk-handle", "chunkId">>, <<"Chunk-version", "chunkVersion">>,
             <<"Offset", "offset">>, <<"Num-bytes", "numBytes">>}, {}, FALSE)

\* The servers are listed only when there is more than one.
WriteIdAllocOp_Request ==
    Message({<<"Chunk-handle", "chunkId">>, <<"Chunk-version", "chunkVersion">>,
             <<"Offset", "offset">>, <<"Num-bytes", "numBytes">>},
            {<<"Num-servers", "numServers">>, <<"Servers", "chunkServerLoc">>},
            FALSE)

WritePrepareOp_Request ==
    Message({<<"Chunk-handle", "chunkId">>, <<"Chunk-version", "chunkVersion">>,
             <<"Offset", "offset">>, <<"Num-bytes", "numBytes">>,
             <<"Checksum", "checksum">>, <<"Num-servers", "numServers">>,
             <<"Servers", "writeInfo">>}, {}, TRUE)

WriteSyncOp_Request ==
    Message({<<"Chunk-handle", "chunkId">>, <<"Chunk-version", "chunkVersion">>,
             <<"Num-servers", "numServers">>, <<"Servers", "writeInfo">>},
            {}, FALSE)

SizeOp_Request ==
    Message({<<"Chunk-handle", "chunkId">>, <<"Chunk-version", "chunkVersion">>},
            {}, FALSE)

LeaseAcquireOp_Request == Message({<<"Chunk-handle", "chunkId">>}, {}, FALSE)

LeaseRenewOp_Request ==
    Message({<<"Chunk-handle", "chunkId">>, <<"Lease-id", "leaseId">>,
             <<"Lease-type", "leaseType">>}, {}, FALSE)

ChangeFileReplicationOp_Request ==
    Message({<<"File-handle", "fid">>, <<"Num-replicas", "numReplicas">>},
            {}, FALSE)

-----------------------------------------------------------------------------
(***************************************************************************)
(* What is read from the answers.  An answer's body is a list of records;  *)
(* a key in brackets is a field of such a record.                          *)
(***************************************************************************)
\* KfsOp::ParseResponseHeader: the status alone.
KfsOp_ParseResponseHeader == {}

CreateOp_ParseResponseHeader      == {Atoll("File-handle", "fileId")}

ReaddirOp_ParseResponseHeader     == {Atoi("Num-Entries", "numEntries")}

ReaddirPlusOp_ParseResponseHeader == {Atoi("Num-Entries", "numEntries")}

\* KfsClientImpl::ReaddirPlus: the file's id and the offset of its last
\* chunk are read with int defaults.
ReaddirPlus_Entry ==
    {Str("[Name]", "filename"), Atoi("[File-handle]", "fileId"),
     Str("[Type]", "isDirectory"), Str("[M-Time]", "mtime"),
     Str("[C-Time]", "ctime"), Str("[CR-Time]", "crtime"),
     Atoi("[Replication]", "numReplicas"), Atoll("[File-size]", "fileSize"),
     Atoi("[Chunk-offset]", "lastChunkOffset"), Atoi("[Chunk-count]", "chunkCount"),
     Atoll("[Chunk-handle]", "chunkId"), Atoll("[Chunk-version]", "chunkVersion"),
     Str("[Replicas]", "chunkServerLoc")}

MkdirOp_ParseResponseHeader       == {Atoll("File-handle", "fileId")}

LookupOp_ParseResponseHeader ==
    {Atoll("File-handle", "fileId"), Str("Type", "isDirectory"),
     Atoi("Chunk-count", "chunkCount"), Atoll("File-size", "fileSize"),
     Atoi("Replication", "numReplicas"), Str("M-Time", "mtime"),
     Str("C-Time", "ctime"), Str("CR-Time", "crtime")}

LookupPathOp_ParseResponseHeader ==
    {Atoll("File-handle", "fileId"), Str("Type", "isDirectory"),
     Atoi("Chunk-count", "chunkCount"), Atoll("File-size", "fileSize"),
     Atoi("Replication", "numReplicas"), Str("M-Time", "mtime"),
     Str("C-Time", "ctime"), Str("CR-Time", "crtime")}

\* The master and the replicas become one list, the master first.
AllocateOp_ParseResponseHeader ==
    {Atoll("Chunk-handle", "chunkId"), Atoll("Chunk-version", "chunkVersion"),
     Str("Master", "masterServer"), Str("Replicas", "chunkServers")}

GetAllocOp_ParseResponseHeader ==
    {Atoll("Chunk-handle", "chunkId"), Atoll("Chunk-version", "chunkVersion"),
     Str("Replicas", "chunkServers")}

GetLayoutOp_ParseResponseHeader == {Atoi("Num-chunks", "numChunks")}

\* GetLayoutOp::ParseLayoutInfo: >> into fields of their own types.
GetLayoutOp_ParseLayoutInfo ==
    {Atoll("[offset]", "fileOffset"), Atoll("[id]", "chunkId"),
     Atoll("[version]", "chunkVersion"), Str("[replicas]", "chunkServers")}

SizeOp_ParseResponseHeader == {Atoll("Size", "size")}

ReadOp_ParseResponseHeader == {Atoi("Checksum", "checksum")}

WriteIdAllocOp_ParseResponseHeader == {Str("Write-id", "writeIdStr")}

LeaseAcquireOp_ParseResponseHeader == {Atoll("Lease-id", "leaseId")}

ChangeFileReplicationOp_ParseResponseHeader == {Atoi("Num-replicas", "numReplicas")}

-----------------------------------------------------------------------------
(***************************************************************************)
(* The monitoring tools.                                                   *)
(***************************************************************************)
MetaPingOp == {}

MetaPingOp_Request == Message({}, {}, FALSE)

MetaPingOp_ParseResponse ==
    {Str("Servers", "upServers"), Str("Down Servers", "downServers")}

ChunkPingOp == {}

ChunkPingOp_Request == Message({}, {}, FALSE)

ChunkPingOp_ParseResponse ==
    {Str("Meta-server-host", "hostname"), Atoi("Meta-server-port", "port"),
     Atoll("Total-space", "totalSpace"), Atoll("Used-space", "usedSpace")}

MetaStatsOp_Request == Message({}, {}, FALSE)

ChunkStatsOp_Request == Message({}, {}, FALSE)

\* ParseResponseCommon(respStr, stats) keeps every header.
MetaStatsOp_ParseResponse == {Str("stats", "stats")}

ChunkStatsOp_ParseResponse == {Str("stats", "stats")}

RetireChunkserverOp ==
    {<<"downtime", I32>>, <<"hostname", Text>>, <<"port", I32>>}

RetireChunkserverOp_Request ==
    Message({<<"Downtime", "downtime">>, <<"Chunk-server-name", "hostname">>,
             <<"Chunk-server-port", "port">>}, {}, FALSE)

RetireChunkserverOp_ParseResponse == {}
=============================================================================

SPECIFICATION Spec
CONSTANTS
    WormMode = FALSE
    TmpNames = {}
    MaxFiles = 3
    ValidTime = 1
    ListMax = 4
    Trees <- MCTrees
    Paths <- MCPaths
    Kinds = {"open", "stat", "mkdirs", "rmdirs", "remove", "rename", "readdirplus", "readdir", "replication"}
    OpenFlags <- MCOpenFlags
    MaxCalls = 3
    MaxPeer = 1
    MaxTime = 1
INVARIANTS
    HandleKeepsFile
    PathCacheMatches
    
    TreeWellFormed
    LeasedFilesKept
PROPERTY ExclusiveKeepsOthers
CHECK_DEADLOCK FALSE

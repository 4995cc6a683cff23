SPECIFICATION Spec
CONSTANTS
  Chunks = {1}
  NumBlocks = 2
  BlockSize = 2
  Kinds = {"alloc", "truncate", "vers", "meta", "read", "write", "sync", "delete", "stale", "replicate"}
  Reads <- MCReads
  Writes <- MCWrites
  Truncs = {2}
  SrcSize = 3
  TotalSpace = 9
  MaxOps = 3
  MaxVers = 2
  MaxFaults = 1
  MaxCrashes = 1
INVARIANTS SpaceAccounted ReadsReturnWritten NoFalseCorruption 
CHECK_DEADLOCK FALSE

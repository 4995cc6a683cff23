CONSTANTS
    N = 2
    CHUNKSIZE = 2
    NumChunks = 2
    MaxFaults = 2
    BUF_SIZE = 2
    MinOps = 1
    NUM_RETRIES_PER_OP = 2
    Calls <- TheCalls
    MaxCalls = 3
SPECIFICATION Spec
INVARIANTS  ReadOwnWrites WrittenOrDirty DirtyInCurrentChunk AwaitedIsComing

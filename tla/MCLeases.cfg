SPECIFICATION FairSpec
CONSTANTS
  s1 = s1
  s2 = s2
  Servers = {s1}
  NumChunks = 1
  LeaseInterval = 2
  ExpireWindow = 1
  MinChunkservers = 1
  MaxDelay = 1
  MaxLeases = 2
  MaxCrashes = 1
INVARIANTS  WriteLeaseExclusive HolderIsCovered
PROPERTIES GrantAfterHoldersLapse DumpsterReclaimed

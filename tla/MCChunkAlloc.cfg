SPECIFICATION FairSpec
CONSTANTS
  s1 = s1
  s2 = s2
  Servers <- MCServers
  NumIds = 1
  MaxReqs = 2
  Kinds = {"allocate", "truncate"}
  MaxBreaks = 1
  MaxFails = 1
  MaxCrashes = 1
  MaxFaults = 2
  MaxWrites = 1
INVARIANTS  HostsHaveChunk 
PROPERTY AllocatesAnswered
CHECK_DEADLOCK FALSE

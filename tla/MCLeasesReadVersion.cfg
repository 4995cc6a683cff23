SPECIFICATION Spec
CONSTANTS
  s1 = s1
  s2 = s2
  Servers <- MCServers
  NumChunks = 1
  LeaseInterval = 2
  ExpireWindow = 1
  MinChunkservers = 1
  MaxDelay = 1
  MaxLeases = 3
  MaxCrashes = 0
PROPERTIES ReadLeaseKeepsVersion

SPECIFICATION Spec
CONSTANTS
  s1 = s1
  s2 = s2
  Servers <- MCServers
  NumIds = 1
  MaxReqs = 3
  Kinds = {"allocate"}
  MaxBreaks = 1
  MaxFails = 0
  MaxCrashes = 0
  MaxFaults = 2
  MaxWrites = 1
INVARIANT StaleDetected
SYMMETRY Symmetry
CHECK_DEADLOCK FALSE

SPECIFICATION FairSpec
CONSTANTS
  MaxConns = 2
  MaxRPCs = 1
  MaxOps = 1
  MaxBeats = 1
  MaxBreaks = 1
INVARIANTS RPCInOnePlace
PROPERTIES RPCsReturn Rejoins
CHECK_DEADLOCK FALSE

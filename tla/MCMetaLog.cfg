SPECIFICATION FairSpec
CONSTANTS
  MaxOps = 3
  MaxCrashes = 2
  MaxLogs = 4
  Unlogged <- AllLogged
  RolloverWindow = FALSE
  LinkWindow = FALSE
INVARIANT ReplayRebuildsTree
 
PROPERTY DurableStoreSpec
PROPERTY RequestsLeave
PROPERTY TimerReturns

SPECIFICATION Spec
CONSTANTS
  MaxOps = 3
  MaxCrashes = 2
  MaxLogs = 3
  Unlogged <- AllLogged
  RolloverWindow = FALSE
  LinkWindow = TRUE
INVARIANT KnownSurvives

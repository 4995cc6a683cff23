SPECIFICATION Spec
CONSTANTS
  MaxOps = 2
  MaxPipeline = 4
  MaxRetries = 1
  MaxBreaks = 1
  BodyLen = 2
INVARIANTS
  MessagesUnderstood
  AnswersOwn
  SyncFollowsPrepares
PROPERTIES
  NoLiveAnswerDiscarded
CHECK_DEADLOCK FALSE

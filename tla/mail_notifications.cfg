SPECIFICATION NotifyFairSpec
CONSTANTS
  Dispatchers = {d1, d2}
  Responsive = {d1}
  NumEvents = 2
  MaxAttempts = 2
  Logger = TRUE
  MaxUid = 2
INVARIANTS
  NotifyTypeOK
  RetryBudget
  LossLeavesTrace
  CopiesBounded
PROPERTIES
  EveryMessageNotified
CHECK_DEADLOCK FALSE

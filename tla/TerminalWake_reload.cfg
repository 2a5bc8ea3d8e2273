SPECIFICATION FairSpec
CONSTANTS
  t1 = t1
  t2 = t2
  NoTask = NoTask
  Tasks <- MCTasks
  MaxLoads = 2
  MaxAttempts = 2
  Backoff <- MCBackoff
  MaxPerTick = 1
  MaxCrashes = 1
  MaxDbErrors = 1
  JoinMayTimeOut = FALSE
INVARIANTS
  LiveDispatchNeverUncertain
PROPERTIES
  ClaimsAreDue
  WakeResolves

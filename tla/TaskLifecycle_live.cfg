SPECIFICATION FairSpec
CONSTANTS
  MaxGens = 2
  MaxVerifiers = 1
  ResumeBusy = FALSE
  Budgets <- Interrupted
CHECK_DEADLOCK FALSE
PROPERTIES
  SettledIsWoken
  DeadProcessIsNoticed
  InterruptedIsRecovered
  CrashIsWoken

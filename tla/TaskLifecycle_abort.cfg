SPECIFICATION FairSpec
CONSTANTS
  MaxGens = 1
  MaxVerifiers = 1
  ResumeBusy = FALSE
  Budgets <- Aborted
CHECK_DEADLOCK FALSE
INVARIANTS
  AbortHolds

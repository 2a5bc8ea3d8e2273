SPECIFICATION FairSpec
CONSTANTS
  MaxGens = 1
  MaxVerifiers = 1
  ResumeBusy = FALSE
  Budgets <- Undisturbed
CHECK_DEADLOCK FALSE
PROPERTIES
  DisposalIsNotACrash

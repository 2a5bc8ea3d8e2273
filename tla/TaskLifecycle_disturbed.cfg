SPECIFICATION Spec
CONSTANTS
  MaxGens = 2
  MaxVerifiers = 1
  ResumeBusy = FALSE
  Budgets <- Disturbed
CHECK_DEADLOCK FALSE
INVARIANTS
  TypeOK
  DoneIsEarned
  NoticeBeforeWake
  SecondAgentIsStray
PROPERTIES
  ReaderKeepsFinal

SPECIFICATION Spec
CONSTANTS
  Heartbeat = 2
  RpcTimeout = 1
  Waiting = 1
  SoftStall = 4
  ToolStall = 6
  Grace = 4
  Interval = 2
  Window = 3
  HasCap = TRUE
  MayFail = TRUE
CHECK_DEADLOCK FALSE
INVARIANTS
  TypeOK
  StallIsDetected
  SteadyIsLeftAlone
  IdleIsLabelled
PROPERTIES
  OnlyAnIgnoredAbortStalls

SPECIFICATION Spec
CONSTANTS
  Heartbeat = 2
  RpcTimeout = 1
  Waiting = 1
  SoftStall = 4
  ToolStall = 6
  Grace = 4
  Interval = 2
  Window = 1
  HasCap = FALSE
  MayFail = FALSE
CHECK_DEADLOCK FALSE
PROPERTIES
  SettledInGraceIsKept

SPECIFICATION FairSpec
CONSTANTS
  Fds = {f1, f2}
  Clients = {c1, c2}
  NoFd = NoFd
  NULL = NULL
  Absent = Absent
  InitMayFail = TRUE
  MaxConns = 1
PROPERTIES
  ClosedIsFreed
  BreakObeyed
  StopObeyed
CHECK_DEADLOCK FALSE

SPECIFICATION FairSpec
CONSTANTS
  Fds = {f1, f2}
  Clients = {c1, c2}
  NoFd = NoFd
  NULL = NULL
  Absent = Absent
  InitMayFail = FALSE
  MaxConns = 1
PROPERTIES
  SweepEnds
CHECK_DEADLOCK FALSE

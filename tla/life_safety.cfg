SPECIFICATION Spec
CONSTANTS
  Fds = {f1, f2}
  Clients = {c1, c2, c3}
  NoFd = NoFd
  NULL = NULL
  Absent = Absent
  InitMayFail = TRUE
  MaxConns = 2
SYMMETRY Symmetry
INVARIANTS
  TypeOK
  MapNoDangling
  FdOwnership
  CleanExit
CHECK_DEADLOCK FALSE

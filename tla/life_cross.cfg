SPECIFICATION Spec
CONSTANTS
  Fds = {f1, f2, f3}
  Clients = {c1, c2, c3, c4}
  NoFd = NoFd
  NULL = NULL
  Absent = Absent
  InitMayFail = FALSE
  MaxConns = 2
SYMMETRY Symmetry
INVARIANTS
  SessionsSeparate
CHECK_DEADLOCK FALSE

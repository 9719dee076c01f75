SPECIFICATION FairSpec
CONSTANTS
  DEF_SOCKET_BUF_SIZE = 2
  Sizes = {1, 2, 3}
  MaxBytes = 5
INVARIANTS
  TypeOK
  OneTurn
  NothingDropped
PROPERTIES
  DrainedAtClose
CHECK_DEADLOCK FALSE

SPECIFICATION FairSpec
CONSTANTS
  Tasks = {t1, t2, t3}
  Workers = {w1, w2}
  NULL = NULL
INVARIANTS
  TypeOK
  NullOnlyWhenStopped
  OvertakingBounded
PROPERTIES
  LineSpec
  SeatIsServed
  WorkersEnd
CHECK_DEADLOCK FALSE

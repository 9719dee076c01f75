SPECIFICATION Spec
CONSTANTS
  Tasks = {t1, t2, t3}
  Workers = {w1, w2}
  NULL = NULL
INVARIANTS
  SeatOrder
CHECK_DEADLOCK FALSE

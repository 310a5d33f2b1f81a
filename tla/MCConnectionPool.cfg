\* Three threads of the executor; one name more than the pool should ever need.
SPECIFICATION Spec
CONSTANTS
  Thread = {t1, t2, t3}
  Conn = {c1, c2, c3, c4}
INVARIANTS TypeOK ConnectionExclusive ConnectionsBounded AllClosed
CHECK_DEADLOCK FALSE

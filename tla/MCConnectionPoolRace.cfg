\* Two threads and the one connection the cache was read with.
SPECIFICATION Spec
CONSTANTS
  Thread = {t1, t2}
  Conn = {c1, c2}
INVARIANT PopNeverRaises
CHECK_DEADLOCK FALSE

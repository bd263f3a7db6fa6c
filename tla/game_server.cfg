SPECIFICATION Spec
CONSTANTS
  Conns = {c1}
  NoSocket = noSocket
  Windows <- TwoLimits
  Threads = {t1, t2}
  Callers = {a1, a2}
  Nobody = nobody
  MaxMsgs = 3
INVARIANTS
  OneKey
  SemaphoreCounts
PROPERTIES
  PoppedInOrder
  Served
CHECK_DEADLOCK FALSE

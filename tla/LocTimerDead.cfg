SPECIFICATION Spec
CONSTANTS
  t1 = t1
  t2 = t2
  None = None
  Timer = {t1, t2}
  Delays = {1, 2}
  MaxStarts = 2
  MaxTime = 3
  Stops = TRUE
  Deletes = TRUE
INVARIANTS NoDeadClient
CHECK_DEADLOCK FALSE

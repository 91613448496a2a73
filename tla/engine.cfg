SPECIFICATION Spec
CONSTANTS
  Threads = {t1, t2, t3}
  IterationCount = 3
  MaxBlock = 2
  StartLimit = 0
  ThrottleLimit = 0
  MaySuspend = 1
  MayThrow = TRUE
CHECK_DEADLOCK FALSE
INVARIANTS
  EngineSane
  ReducesInTurn
  Accounted
  AllReduced
PROPERTIES
  Finishes

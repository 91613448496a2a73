SPECIFICATION Spec
CONSTANTS
  Threads = {t1, t2}
  IterationCount = 3
  MaxBlock = 2
  StartLimit = 3
  ThrottleLimit = 3
  MaySuspend = 1
  MayThrow = FALSE
CHECK_DEADLOCK FALSE
INVARIANTS
  MapsEverything

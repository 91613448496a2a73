\* Four threads, three levels of recursion, timers and spurious wake-ups.
SPECIFICATION Spec
CONSTANTS
  Threads = {t1, t2, t3, t4}
  NoThread = NoThread
  MaxDepth = 3
INVARIANTS
  MutualExclusion
PROPERTIES
  NoStuckWaiter
  Refinement

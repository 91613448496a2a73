SPECIFICATION Spec
CONSTANTS
  Procs = {p1, p2}
  Inodes = {1, 2, 3, 4, 5}
  Levels = 3
  MaxCrashes = 2
  MaxFull = 1
  Slow = FALSE
CHECK_DEADLOCK FALSE
INVARIANTS
  LocksSane
PROPERTIES
  NoForeignRemoval
  LockReturns

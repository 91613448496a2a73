SPECIFICATION Spec
CONSTANTS
  Procs = {p1, p2, p3}
  Inodes = {1, 2, 3, 4, 5}
  Levels = 2
  MaxCrashes = 0
  MaxFull = 0
  Slow = TRUE
PROPERTIES
  NoForeignRemoval
CHECK_DEADLOCK FALSE

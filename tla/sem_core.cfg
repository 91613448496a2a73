SPECIFICATION SemSpec
CONSTANTS
  Clients = {t1, t2, t3}
  Amounts = {1, 2}
  Initial = 1
  MaxAvail = 2
  IntMax = 7
INVARIANTS
  NoStrandedToken
PROPERTIES
  NoStuckSingle
  SemRefinement

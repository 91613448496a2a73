SPECIFICATION Spec
CONSTANTS
  Clients = {c1, c2}
  Workers = {w1, w2, w3, w4}
  Tasks = {a, b, c}
  NoTask = NoTask
  Priorities = {0, 1}
  Limits = {1, 2}
  Reserved = {0, 1}
  PageSize = 2
  IntMax = 9
  Reuse = TRUE
SYMMETRY Interchangeable
INVARIANTS
  PoolSane
  TasksAccounted
  WorkConserving
PROPERTIES
  PoolSteps

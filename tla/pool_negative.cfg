SPECIFICATION Spec
CONSTANTS
  Clients = {c1}
  Workers = {w1, w2}
  Tasks = {a, b, c}
  NoTask = NoTask
  Priorities <- Negative
  Limits = {1, 2}
  Reserved = {0, 1}
  PageSize = 2
  IntMax = 9
  Reuse = TRUE
SYMMETRY Interchangeable
INVARIANTS
  TasksAccounted

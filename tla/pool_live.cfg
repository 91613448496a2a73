\* Reservations may be negative, pages hold one runnable, no symmetry: liveness.
SPECIFICATION Spec
CONSTANTS
  Clients = {c1}
  Workers = {w1, w2, w3}
  Tasks = {a, b, c}
  NoTask = NoTask
  Priorities = {0, 1}
  Limits = {1, 2}
  Reserved <- Signed
  PageSize = 1
  IntMax = 9
  Reuse = FALSE
PROPERTIES
  TasksLeave
  WaitersReturn

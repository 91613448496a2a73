\* A handler sends the events of one receiver only, then another thread posts.
SPECIFICATION Spec
CONSTANTS
  t1 = t1
  a = a  b = b  c = c  r1 = r1  r2 = r2
  Threads = {t1}
  Events = {a, b, c}
  Receiver <- MCReceiver
  Priority <- MCPriority
  All = All
  Nested = {"send"}
  MaxHandlers = 2
  MaxList = 3
PROPERTIES
  PriorityOrder

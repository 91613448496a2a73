SPECIFICATION Spec
CONSTANTS
  t1 = t1
  a = a  b = b  c = c  r1 = r1  r2 = r2
  Threads = {t1}
  Events = {a, b, c}
  Receiver <- MCReceiver
  Priority <- MCPriority
  All = All
  Nested = {"exec", "process", "send"}
  MaxHandlers = 2
  MaxList = 3
INVARIANTS
  LoopSane
PROPERTIES
  PostedInOrder
  PostedLeaves
  ExitReturnsUnlessNested

\* One thread, alone: a handler tells the loop to exit, another one calls
\* processEvents().
SPECIFICATION Spec
CONSTANTS
  t1 = t1
  a = a  b = b  c = c  r1 = r1  r2 = r2
  Threads = {}
  Events = {a, b, c}
  Receiver <- MCReceiver
  Priority <- MCPriority
  All = All
  Nested = {"process"}
  MaxHandlers = 2
  MaxList = 3
PROPERTIES
  ExitReturns

SPECIFICATION Spec
CHECK_DEADLOCK FALSE
CONSTANTS
  Workers = {w1, w2}
  Waiters = {c1}
  Watchers = {o1}
  Count = 3
  MaxBlock = 2
  Awaited = {1, All, End}
  All = All
  End = End
  MaxSuspend = 1
PROPERTY
  WaitsEnd

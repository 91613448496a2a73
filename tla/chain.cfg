SPECIFICATION Spec
CONSTANTS
  Last = 2
  Owner = owner
  Builder = builder
  Pool = pool
  Cancellers = {c1}
CHECK_DEADLOCK FALSE
INVARIANTS
  ChainSane
  InputReady
  CancelStops
PROPERTIES
  AllFulfilled

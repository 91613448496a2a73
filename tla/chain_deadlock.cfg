SPECIFICATION Spec
CHECK_DEADLOCK FALSE
CONSTANTS
  Last = 2
  Owner = owner
  Builder = builder
  Pool = pool
  Cancellers = {c1, c2}
INVARIANT
  NoCircle

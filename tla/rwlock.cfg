\* Three threads, and a private for each.
SPECIFICATION Spec
CONSTANTS
  Threads = {t1, t2, t3}
  Privates = {p1, p2, p3}
  NoPrivate = NoPrivate
INVARIANTS
  LockSane
  PrivatesAccounted
PROPERTIES
  WritersFirst
  NoStuckWaiter

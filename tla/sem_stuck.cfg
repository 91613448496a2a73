\* A liveness question on three threads: a waiter for two tokens, one with a
\* timer, and the thread that releases.
SPECIFICATION SemSpec
CONSTANTS
  Clients = {t1, t2, t3}
  Amounts = {1, 2}
  Initial = 1
  MaxAvail = 2
  IntMax = 7
PROPERTIES
  NoStuckThread

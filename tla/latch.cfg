\* Both builds, all interleavings of three threads, three counts.
SPECIFICATION LatchSpec
CONSTANTS
  Users = {t1, t2, t3}
  Expected = 3
  Builds = {TRUE, FALSE}
INVARIANTS
  NoEarlyRelease
PROPERTIES
  AllReleased

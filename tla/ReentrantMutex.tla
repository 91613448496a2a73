--------------------------- MODULE ReentrantMutex ---------------------------
(***************************************************************************)
(* What QRecursiveMutex promises (src/corelib/thread/qmutex.cpp, the class *)
(* documentation and that of lock(), tryLock() and unlock()): one thread   *)
(* at a time has locked it, any number of times, and another gets it only  *)
(* after as many calls of unlock().                                        *)
(***************************************************************************)
EXTENDS Naturals

CONSTANTS Threads, MaxDepth   \* bound: how often a thread locks

VARIABLES
  depth,    \* depth[t]: how often t has locked the mutex
  blocked   \* blocked[t]: "lock" or "timed" while t is in a call that waits

vars == <<depth, blocked>>

Init ==
  /\ depth = [t \in Threads |-> 0]
  /\ blocked = [t \in Threads |-> "no"]

Block(t) ==
  /\ depth[t] = 0 /\ blocked[t] = "no"
  /\ \E k \in {"lock", "timed"} : blocked' = [blocked EXCEPT ![t] = k]
  /\ UNCHANGED depth

\* Locked by nobody else: once more for this thread.
Lock(t) ==
  /\ \A v \in Threads \ {t} : depth[v] = 0
  /\ depth[t] < MaxDepth
  /\ depth' = [depth EXCEPT ![t] = @ + 1]
  /\ blocked' = [blocked EXCEPT ![t] = "no"]

\* Only a call with a timer returns without the mutex.
Refuse(t) ==
  /\ blocked[t] = "timed"
  /\ blocked' = [blocked EXCEPT ![t] = "no"]
  /\ UNCHANGED depth

Unlock(t) ==
  /\ depth[t] > 0
  /\ depth' = [depth EXCEPT ![t] = @ - 1]
  /\ UNCHANGED blocked

Next == \E t \in Threads : Block(t) \/ Lock(t) \/ Refuse(t) \/ Unlock(t)

Spec == Init /\ [][Next]_vars

=============================================================================

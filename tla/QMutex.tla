------------------------------- MODULE QMutex -------------------------------
(***************************************************************************)
(* QMutex and QBasicMutex where futexes are available (qmutex.h, and the   *)
(* futex half of qmutex.cpp, in src/corelib/thread).  The word d_ptr is    *)
(* null (0), dummyLocked (1) or dummyFutexValue (3), "locked, and somebody *)
(* may wait".                                                              *)
(*                                                                         *)
(* One action per atomic access to the word or futex call.  fastTryLock()  *)
(* is one access: its load spares a compare-and-swap that would fail.      *)
(* Memory is sequentially consistent.  A timer may expire whenever the     *)
(* code looks at it.  Only the thread that holds the mutex unlocks it.     *)
(***************************************************************************)
EXTENDS Integers, FiniteSets

CONSTANT Threads

VARIABLES
  d_ptr,   \* QBasicMutex::d_ptr
  pc,      \* where each thread is in the mutex's code
  timed    \* has its tryLock() a timer? (1 or 0)

mutexVars == <<d_ptr, pc, timed>>

Words == {"null", "dummyLocked", "dummyFutexValue"}

\* exchange: about to store dummyFutexValue for the first time, woken: about
\* to do so again; held: the call has returned true; wake: unlocked, about to
\* call futexWakeOne().
Locations == {"idle", "exchange", "futexWait", "asleep", "woken", "held", "wake"}

MutexInit ==
  /\ d_ptr = "null"
  /\ pc = [t \in Threads |-> "idle"]
  /\ timed = [t \in Threads |-> 0]

Goto(t, there) == pc' = [pc EXCEPT ![t] = there]

Return(t, there) == Goto(t, there) /\ timed' = [timed EXCEPT ![t] = 0]

-----------------------------------------------------------------------------
(* lock(), tryLock(), tryLock(timer)                                       *)

\* fastTryLock() succeeds; when it fails in tryLock() nothing has changed.
FastLock(t) ==
  /\ pc[t] = "idle"
  /\ d_ptr = "null"
  /\ d_ptr' = "dummyLocked"
  /\ Goto(t, "held")
  /\ UNCHANGED timed

\* It fails, and lockInternal() is entered with no timer or one that runs.
SlowLock(t) ==
  /\ pc[t] = "idle"
  /\ d_ptr # "null"
  /\ Goto(t, "exchange")
  /\ \E x \in 0..1 : timed' = [timed EXCEPT ![t] = x]
  /\ UNCHANGED d_ptr

\* A mistaken Take: a thread that was woken believes to hold the mutex.
TakeUnchecked(t) ==
  /\ pc[t] \in {"exchange", "woken"}
  /\ d_ptr = "null" \/ pc[t] = "woken"
  /\ d_ptr' = "dummyFutexValue"
  /\ Return(t, "held")

\* fetchAndStoreAcquire(dummyFutexValue()) finds the mutex unlocked ...
Take(t) ==
  /\ pc[t] \in {"exchange", "woken"}
  /\ d_ptr = "null"
  /\ d_ptr' = "dummyFutexValue"
  /\ Return(t, "held")

\* ... or locked, and now marked as waited for.
Mark(t) ==
  /\ pc[t] \in {"exchange", "woken"}
  /\ d_ptr # "null"
  /\ d_ptr' = "dummyFutexValue"
  /\ Goto(t, "futexWait")
  /\ UNCHANGED timed

\* In the loop the timer is looked at after that: lockInternal() gives up.
GiveUp(t) ==
  /\ pc[t] = "woken" /\ timed[t] = 1
  /\ d_ptr # "null"
  /\ d_ptr' = "dummyFutexValue"
  /\ Return(t, "idle")

\* A mistaken FutexWait: sleeping without comparing the word.
FutexWaitUnchecked(t) ==
  /\ pc[t] = "futexWait"
  /\ Goto(t, "asleep")
  /\ UNCHANGED <<d_ptr, timed>>

FutexWait(t) ==
  /\ pc[t] = "futexWait"
  /\ Goto(t, IF d_ptr = "dummyFutexValue" THEN "asleep" ELSE "woken")
  /\ UNCHANGED <<d_ptr, timed>>

SpuriousWake(t) ==
  /\ pc[t] = "asleep"
  /\ Goto(t, "woken")
  /\ UNCHANGED <<d_ptr, timed>>

Timeout(t) ==
  /\ pc[t] = "asleep" /\ timed[t] = 1
  /\ Return(t, "idle")
  /\ UNCHANGED d_ptr

-----------------------------------------------------------------------------
(* unlock()                                                                *)

Unlock(t) ==
  /\ pc[t] = "held"
  /\ d_ptr' = "null"
  /\ Goto(t, IF d_ptr = "dummyLocked" THEN "idle" ELSE "wake")
  /\ UNCHANGED timed

\* futexWakeOne(): one sleeper, the kernel's choice, if there is any.
WakeOne(t) ==
  /\ pc[t] = "wake"
  /\ \/ \E v \in Threads :
          pc[v] = "asleep" /\ pc' = [pc EXCEPT ![t] = "idle", ![v] = "woken"]
     \/ (\A v \in Threads : pc[v] # "asleep") /\ Goto(t, "idle")
  /\ UNCHANGED <<d_ptr, timed>>

-----------------------------------------------------------------------------
\* The steps a thread inside the mutex takes by itself.
MutexStep(t) ==
  \/ Take(t) \/ Mark(t) \/ GiveUp(t) \/ FutexWait(t) \/ Timeout(t)
  \/ WakeOne(t)

MutexNext ==
  \E t \in Threads :
    FastLock(t) \/ SlowLock(t) \/ Unlock(t) \/ MutexStep(t) \/ SpuriousWake(t)

MutexSpec == MutexInit /\ [][MutexNext]_mutexVars

-----------------------------------------------------------------------------
MutexTypeOK ==
  /\ d_ptr \in Words
  /\ pc \in [Threads -> Locations]
  /\ timed \in [Threads -> 0..1]

\* The word is null exactly while nobody holds the mutex, and no two threads
\* hold it, although the holder unlocks without having looked at the word.
MutualExclusion ==
  /\ d_ptr = "null" <=> \A t \in Threads : pc[t] # "held"
  /\ \A t, v \in Threads : pc[t] = "held" /\ pc[v] = "held" => t = v

\* While somebody sleeps the next unlock() enters the kernel, or somebody is
\* on the way: an unlock() to its futexWakeOne(), or a woken thread that will
\* mark the word again even if its own timer has expired.
NoLostWakeUp ==
  (\E t \in Threads : pc[t] = "asleep") =>
    \/ d_ptr = "dummyFutexValue"
    \/ \E t \in Threads : pc[t] \in {"wake", "woken"}

=============================================================================

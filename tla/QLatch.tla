------------------------------- MODULE QLatch -------------------------------
(***************************************************************************)
(* QLatch (src/corelib/thread/qlatch_p.h, qlatch.cpp): a one-shot count    *)
(* down built on one 32-bit word and a futex.  The word holds the pending  *)
(* count in its low 31 bits and, in bit 31, "nobody waits yet"; a thread   *)
(* that is about to sleep clears that bit, so that the countDown() that    *)
(* reaches zero knows whether it must enter the kernel.                    *)
(*                                                                         *)
(* One action per atomic access to the word, plus the futex of the kernel  *)
(* (external): a wait that sleeps only if the word still has the expected  *)
(* value, a wake of everybody, and a return for no reason (EINTR, or the   *)
(* wake of an earlier user of the address).  Memory is sequentially        *)
(* consistent: every access to the word is a single atomic one.            *)
(***************************************************************************)
EXTENDS Integers

CONSTANTS
  Users,      \* the threads that hold a reference to the latch
  Expected,   \* the argument of the constructor
  Builds      \* the values of __has_builtin(__atomic_and_fetch) to consider

ASSUME LatchAssumption ==
  /\ Expected \in Nat \ {0}
  /\ Builds \subseteq BOOLEAN

VARIABLES
  counter,   \* QLatch::counter, its two bit fields apart
  place,     \* where each thread is in the latch's code
  current,   \* the local `current` of wait() and waitInternal()
  released,  \* history: the threads for which some wait returned
  build      \* has this build the builtin?  Never changes

latchVars == <<counter, place, current, released, build>>

Word == [count : 0..Expected, noWaiters : BOOLEAN]
IsZero(w) == w.count = 0 /\ ~w.noWaiters
Bare(n)   == [count |-> n, noWaiters |-> FALSE]

LatchPlaces == {"idle", "wakeUp", "wakeUpAndWait", "wait", "mark", "markLoad",
              "futexWait", "asleep", "reload"}

\* The locations of a thread that has called wait() and not returned.
Waiting == {"wait", "mark", "markLoad", "futexWait", "asleep", "reload"}

LatchInit ==
  /\ counter  = [count |-> Expected, noWaiters |-> TRUE]
  /\ place    = [t \in Users |-> "idle"]
  /\ current  = [t \in Users |-> 0]
  /\ released = {}
  /\ build \in Builds

Move(t, there) == place' = [place EXCEPT ![t] = there]

Leave(t) ==
  /\ Move(t, "idle")
  /\ released' = released \cup {t}

-----------------------------------------------------------------------------
(* countDown(n).  Counting down by more than is pending is undefined by    *)
(* contract, so callers do not do it.                                      *)

\* The atomic subtraction; `wake` if it took the word to zero, else `next`.
Decrement(t, n, wake, next) ==
  /\ place[t] = "idle"
  /\ n <= counter.count
  /\ counter' = [counter EXCEPT !.count = @ - n]
  /\ Move(t, IF counter = Bare(n) THEN wake ELSE next)
  /\ UNCHANGED <<current, released, build>>

CountDown(t) == \E n \in 1..Expected : Decrement(t, n, "wakeUp", "idle")

ArriveAndWait(t) ==
  \E n \in 1..Expected : Decrement(t, n, "wakeUpAndWait", "wait")

\* A mistaken WakeUp: futexWakeOne() in the place of futexWakeAll().
WakeUpOne(t) ==
  /\ place[t] \in {"wakeUp", "wakeUpAndWait"}
  /\ LET there == IF place[t] = "wakeUp" THEN "idle" ELSE "wait"
     IN  \/ \E u \in Users :
              /\ place[u] = "asleep"
              /\ place' = [place EXCEPT ![t] = there, ![u] = "reload"]
         \/ /\ \A u \in Users : place[u] # "asleep"
            /\ Move(t, there)
  /\ UNCHANGED <<counter, current, released, build>>

\* futexWakeAll(counter)
WakeUp(t) ==
  /\ place[t] \in {"wakeUp", "wakeUpAndWait"}
  /\ place' = [u \in Users |->
              IF u = t THEN (IF place[t] = "wakeUp" THEN "idle" ELSE "wait")
              ELSE IF place[u] = "asleep" THEN "reload"
              ELSE place[u]]
  /\ UNCHANGED <<counter, current, released, build>>

-----------------------------------------------------------------------------
(* tryWait(), wait() and waitInternal()                                    *)

TryWait(t) ==
  /\ place[t] = "idle"
  /\ counter.count = 0
  /\ Leave(t)
  /\ UNCHANGED <<counter, current, build>>

CallWait(t) ==
  /\ place[t] = "idle"
  /\ Move(t, "wait")
  /\ UNCHANGED <<counter, current, released, build>>

\* The first load of wait().
WaitLoad(t) ==
  /\ place[t] = "wait"
  /\ current' = [current EXCEPT ![t] = counter.count]
  /\ \/ counter.count = 0 /\ Leave(t)
     \/ counter.count # 0 /\ counter.noWaiters /\ Move(t, "mark")
        /\ UNCHANGED released
     \/ counter.count # 0 /\ ~counter.noWaiters /\ Move(t, "futexWait")
        /\ UNCHANGED released
  /\ UNCHANGED <<counter, build>>

\* Clear the bit; `current` stays the value of the first load.
MarkWaiter(t) ==
  /\ place[t] = "mark"
  /\ counter' = [counter EXCEPT !.noWaiters = FALSE]
  /\ \/ build /\ counter.count = 0 /\ Leave(t)
     \/ build /\ counter.count # 0 /\ Move(t, "futexWait")
        /\ UNCHANGED released
     \/ ~build /\ Move(t, "markLoad") /\ UNCHANGED released
  /\ UNCHANGED <<current, build>>

MarkLoad(t) ==
  /\ place[t] = "markLoad"
  /\ \/ IsZero(counter) /\ Leave(t)
     \/ ~IsZero(counter) /\ Move(t, "futexWait") /\ UNCHANGED released
  /\ UNCHANGED <<counter, current, build>>

LatchFutexWait(t) ==
  /\ place[t] = "futexWait"
  /\ Move(t, IF counter = Bare(current[t]) THEN "asleep" ELSE "reload")
  /\ UNCHANGED <<counter, current, released, build>>

SpuriousReturn(t) ==
  /\ place[t] = "asleep"
  /\ Move(t, "reload")
  /\ UNCHANGED <<counter, current, released, build>>

\* A mistaken Reload: taking any return of futexWait() for the wake-up.
ReloadForgotten(t) ==
  /\ place[t] = "reload"
  /\ Leave(t)
  /\ UNCHANGED <<counter, current, build>>

Reload(t) ==
  /\ place[t] = "reload"
  /\ current' = [current EXCEPT ![t] = counter.count]
  /\ \/ IsZero(counter) /\ Leave(t)
     \/ ~IsZero(counter) /\ Move(t, "futexWait") /\ UNCHANGED released
  /\ UNCHANGED <<counter, build>>

-----------------------------------------------------------------------------
Call(t) == CountDown(t) \/ ArriveAndWait(t) \/ TryWait(t) \/ CallWait(t)

\* The steps a thread inside the latch takes by itself.
LatchStep(t) ==
  \/ WakeUp(t) \/ WaitLoad(t) \/ MarkWaiter(t) \/ MarkLoad(t)
  \/ LatchFutexWait(t) \/ Reload(t)

LatchNext == \E t \in Users : Call(t) \/ LatchStep(t) \/ SpuriousReturn(t)

\* A runnable thread is scheduled eventually.  Nothing is assumed of the
\* callers, nor that a sleeper is ever woken for no reason.
LatchFairness == \A t \in Users : WF_latchVars(LatchStep(t))

LatchSpec == LatchInit /\ [][LatchNext]_latchVars /\ LatchFairness

-----------------------------------------------------------------------------
LatchTypeOK ==
  /\ counter \in Word
  /\ place \in [Users -> LatchPlaces]
  /\ current \in [Users -> 0..Expected]
  /\ released \subseteq Users

\* No wait returns before the count is down to zero, whatever spurious
\* returns the futex makes and whichever word value waitInternal() slept on.
NoEarlyRelease == released # {} => counter.count = 0

\* Once the count is zero nobody stays asleep unless the countDown() that
\* got there is still about to call futexWakeAll(): the waiter bit is never
\* missed between the mark, the sleep and the last decrement.
NoMissedSleeper ==
  (counter.count = 0 /\ \E t \in Users : place[t] = "asleep")
    => \E t \in Users : place[t] \in {"wakeUp", "wakeUpAndWait"}

\* Every thread inside wait() returns once the count has reached zero.
AllReleased ==
  \A t \in Users :
    (counter.count = 0 /\ place[t] \in Waiting) ~> place[t] \notin Waiting

=============================================================================

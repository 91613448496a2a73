--------------------------- MODULE QRecursiveMutex ---------------------------
(***************************************************************************)
(* QRecursiveMutex (src/corelib/thread/qmutex.cpp): a QMutex, the thread   *)
(* that owns it, and how often that thread has locked it once more.  The   *)
(* owner is stored after the QMutex was locked and cleared before it is    *)
(* unlocked, by separate relaxed stores that other threads read without    *)
(* holding anything.  The read is part of the action that acts on it: only *)
(* the reading thread itself ever stores its own handle.                   *)
(***************************************************************************)
EXTENDS QMutex

CONSTANTS
  NoThread,   \* the null Qt::HANDLE
  MaxDepth    \* bound: how often a thread locks

ASSUME RecursiveMutexAssumption ==
  /\ NoThread \notin Threads
  /\ MaxDepth \in Nat \ {0}

VARIABLES
  owner,     \* QRecursiveMutex::owner
  count,     \* QRecursiveMutex::count
  leaving    \* the threads in unlock(), between the store and mutex.unlock()

ownVars == <<owner, count, leaving>>
vars    == <<mutexVars, ownVars>>

Init == MutexInit /\ owner = NoThread /\ count = 0 /\ leaving = {}

-----------------------------------------------------------------------------
\* tryLock(timeout) by the owner.
Relock(t) ==
  /\ owner = t
  /\ count + 1 < MaxDepth
  /\ count' = count + 1
  /\ UNCHANGED <<mutexVars, owner, leaving>>

\* tryLock(timeout) by anybody else goes on to lock the QMutex ...
LockMutex(t) ==
  /\ owner # t
  /\ FastLock(t) \/ SlowLock(t)
  /\ UNCHANGED ownVars

\* ... and has locked it.
StoreOwner(t) ==
  /\ pc[t] = "held" /\ owner # t /\ t \notin leaving
  /\ owner' = t
  /\ UNCHANGED <<mutexVars, count, leaving>>

\* A mistaken UnlockLevel: one unlock() undoes all calls of lock() but the first.
UnlockLevelAll(t) ==
  /\ owner = t
  /\ count > 0
  /\ count' = 0
  /\ UNCHANGED <<mutexVars, owner, leaving>>

\* unlock(), called by the owner: one level less ...
UnlockLevel(t) ==
  /\ owner = t
  /\ count > 0
  /\ count' = count - 1
  /\ UNCHANGED <<mutexVars, owner, leaving>>

\* ... or, at the last, the owner is cleared ...
ClearOwner(t) ==
  /\ owner = t
  /\ count = 0
  /\ owner' = NoThread
  /\ leaving' = leaving \cup {t}
  /\ UNCHANGED <<mutexVars, count>>

\* ... and the QMutex unlocked.
UnlockMutex(t) ==
  /\ t \in leaving
  /\ Unlock(t)
  /\ leaving' = leaving \ {t}
  /\ UNCHANGED <<owner, count>>

-----------------------------------------------------------------------------
\* What a thread does in the QMutex while it waits for it or leaves it.
InMutex(t) == MutexStep(t) /\ UNCHANGED ownVars

Step(t) == InMutex(t) \/ StoreOwner(t) \/ UnlockMutex(t)

Next ==
  \E t \in Threads :
    \/ Relock(t) \/ LockMutex(t) \/ UnlockLevel(t) \/ ClearOwner(t)
    \/ Step(t)
    \/ SpuriousWake(t) /\ UNCHANGED ownVars

\* A runnable thread is scheduled eventually and a timer expires eventually.
\* Nobody has to call anything, not even unlock().
Fairness == \A t \in Threads : WF_vars(Step(t))

Spec == Init /\ [][Next]_vars /\ Fairness

-----------------------------------------------------------------------------
TypeOK ==
  /\ MutexTypeOK
  /\ owner \in Threads \cup {NoThread}
  /\ count \in 0..(MaxDepth - 1)
  /\ leaving \subseteq Threads

\* The owner holds the QMutex and is not leaving it, and the count of a mutex
\* nobody owns is zero: the next owner starts afresh whatever the order in
\* which the stores of the old and the new owner come.
OwnerHolds ==
  /\ owner # NoThread => pc[owner] = "held" /\ owner \notin leaving
  /\ owner = NoThread => count = 0

\* A thread does not sleep for ever while the mutex is unlocked: whatever the
\* timers of other waiters do, a wake-up reaches somebody who passes it on.
NoStuckWaiter ==
  \A t \in Threads : []<>~(pc[t] = "asleep" /\ d_ptr = "null")

\* How often each thread has locked the mutex, and how it waits for it.
Depth == [t \in Threads |->
            IF pc[t] # "held" \/ t \in leaving THEN 0
            ELSE IF owner = t THEN count + 1 ELSE 1]

Blocked == [t \in Threads |->
              IF pc[t] \notin {"exchange", "futexWait", "asleep", "woken"}
              THEN "no" ELSE IF timed[t] = 1 THEN "timed" ELSE "lock"]

Abstract == INSTANCE ReentrantMutex WITH depth <- Depth, blocked <- Blocked

\* The promise, with QMutex underneath: a reentrant mutex.
Refinement == Abstract!Spec

=============================================================================

---------------------------- MODULE Futex_proofs ----------------------------
(***************************************************************************)
(* TLAPS proofs about the classes that wait on a futex word: QLatch, the   *)
(* futex QMutex and QRecursiveMutex on top of it, and the 64-bit QSemaphore;*)
(* for any set of threads, any initial count, any depth of recursion and   *)
(* any amounts.                                                            *)
(*                                                                         *)
(* QLatch releases no waiter early and misses none.  The invariant of      *)
(* QMutex is proved for its own next-state relation; the recursive mutex   *)
(* inherits it because its steps use the QMutex by its contract.  Of the   *)
(* semaphore the types are proved without condition, and as long as tokens *)
(* plus waiters fit the 31 bits that hold their sum: the accounting of the *)
(* waiters, the protection of the sleeping multi-token waiters, that no token*)
(* is left with a sleeper, and that it implements CountingSemaphore.  The  *)
(* specifications share no variable and are proved apart.                  *)
(***************************************************************************)
EXTENDS QRecursiveMutex, QLatch, QSemaphore, FiniteSetTheorems, TLAPS

-----------------------------------------------------------------------------
(* QLatch                                                                  *)

\* The waiter bit is down while a thread may sleep, and no thread ever asks
\* to sleep on a count of zero: without these two facts the last countDown()
\* could skip the kernel while somebody sleeps.
WaitersMarked ==
  \A t \in Users :
    place[t] \in {"markLoad", "futexWait", "asleep", "reload"}
      => ~counter.noWaiters

SleepsOnNonZero ==
  \A t \in Users :
    place[t] \in {"mark", "markLoad", "futexWait"} => current[t] # 0

LatchInv ==
  /\ LatchTypeOK
  /\ WaitersMarked
  /\ SleepsOnNonZero
  /\ NoEarlyRelease
  /\ NoMissedSleeper

LEMMA LatchInitInv == LatchInit => LatchInv
  BY LatchAssumption
  DEF LatchInit, LatchInv, LatchTypeOK, WaitersMarked, SleepsOnNonZero, NoEarlyRelease,
      NoMissedSleeper, Word, LatchPlaces

LEMMA LatchNextInv == LatchInv /\ [LatchNext]_latchVars => LatchInv'
<1> SUFFICES ASSUME LatchInv, [LatchNext]_latchVars PROVE LatchInv'
  OBVIOUS
<1> USE LatchAssumption
    DEF LatchInv, LatchTypeOK, WaitersMarked, SleepsOnNonZero, NoEarlyRelease,
        NoMissedSleeper, Word, LatchPlaces, Move, Leave, Bare, IsZero
<1>1. ASSUME NEW t \in Users, NEW n \in 1..Expected,
             NEW next \in {"idle", "wait"},
             NEW wake \in {"wakeUp", "wakeUpAndWait"},
             Decrement(t, n, wake, next)
      PROVE  LatchInv'
  BY <1>1 DEF Decrement
<1>2. ASSUME NEW t \in Users, WakeUp(t) PROVE LatchInv'
  BY <1>2 DEF WakeUp
<1>3. ASSUME NEW t \in Users, TryWait(t) \/ CallWait(t) PROVE LatchInv'
  BY <1>3 DEF TryWait, CallWait
<1>4. ASSUME NEW t \in Users, WaitLoad(t) PROVE LatchInv'
  BY <1>4 DEF WaitLoad
<1>5. ASSUME NEW t \in Users, MarkWaiter(t) PROVE LatchInv'
  BY <1>5 DEF MarkWaiter
<1>6. ASSUME NEW t \in Users, MarkLoad(t) PROVE LatchInv'
  BY <1>6 DEF MarkLoad
<1>7. ASSUME NEW t \in Users, LatchFutexWait(t) PROVE LatchInv'
  BY <1>7 DEF LatchFutexWait
<1>8. ASSUME NEW t \in Users, SpuriousReturn(t) PROVE LatchInv'
  BY <1>8 DEF SpuriousReturn
<1>9. ASSUME NEW t \in Users, Reload(t) PROVE LatchInv'
  BY <1>9 DEF Reload
<1>10. CASE UNCHANGED latchVars
  BY <1>10 DEF latchVars
<1> QED
  BY <1>1, <1>2, <1>3, <1>4, <1>5, <1>6, <1>7, <1>8, <1>9, <1>10
  DEF LatchNext, Call, LatchStep, CountDown, ArriveAndWait

LEMMA LatchSpecInv == LatchSpec => []LatchInv
  BY LatchInitInv, LatchNextInv, PTL DEF LatchSpec

\* Type correctness of the latch.
THEOREM LatchTypeCorrect == LatchSpec => []LatchTypeOK
  BY LatchSpecInv, PTL DEF LatchInv

\* QLatch::wait() and tryWait() never report a latch that is still counting.
THEOREM NoEarlyReleaseHolds == LatchSpec => []NoEarlyRelease
  BY LatchSpecInv, PTL DEF LatchInv

\* countDown() to zero never leaves a sleeper behind.
THEOREM NoMissedSleeperHolds == LatchSpec => []NoMissedSleeper
  BY LatchSpecInv, PTL DEF LatchInv

-----------------------------------------------------------------------------
(* QMutex                                                                  *)

MutexInv == MutexTypeOK /\ MutualExclusion /\ NoLostWakeUp

LEMMA MutexInitInv == MutexInit => MutexInv
  BY DEF MutexInit, MutexInv, MutexTypeOK, MutualExclusion, NoLostWakeUp,
         Words, Locations

LEMMA MutexNextInv == MutexInv /\ [MutexNext]_mutexVars => MutexInv'
<1> SUFFICES ASSUME MutexInv, [MutexNext]_mutexVars PROVE MutexInv'
  OBVIOUS
<1> USE DEF MutexInv, MutexTypeOK, MutualExclusion, NoLostWakeUp, Words,
            Locations, Goto, Return
<1>1. ASSUME NEW t \in Threads, FastLock(t) PROVE MutexInv'
  BY <1>1 DEF FastLock
<1>2. ASSUME NEW t \in Threads, SlowLock(t) PROVE MutexInv'
  BY <1>2 DEF SlowLock
<1>3. ASSUME NEW t \in Threads, Unlock(t) PROVE MutexInv'
  BY <1>3 DEF Unlock
<1>4. ASSUME NEW t \in Threads, Take(t) PROVE MutexInv'
  BY <1>4 DEF Take
<1>5. ASSUME NEW t \in Threads, Mark(t) \/ GiveUp(t) PROVE MutexInv'
  BY <1>5 DEF Mark, GiveUp
<1>6. ASSUME NEW t \in Threads, FutexWait(t) PROVE MutexInv'
  BY <1>6 DEF FutexWait
<1>7. ASSUME NEW t \in Threads, Timeout(t) \/ SpuriousWake(t) PROVE MutexInv'
  BY <1>7 DEF Timeout, SpuriousWake
<1>8. ASSUME NEW t \in Threads, WakeOne(t) PROVE MutexInv'
  BY <1>8 DEF WakeOne
<1>9. CASE UNCHANGED mutexVars
  BY <1>9 DEF mutexVars
<1> QED
  BY <1>1, <1>2, <1>3, <1>4, <1>5, <1>6, <1>7, <1>8, <1>9
  DEF MutexNext, MutexStep

\* No two threads hold a QMutex.
THEOREM MutexExcludes == MutexSpec => []MutualExclusion
<1>1. MutexSpec => []MutexInv
  BY MutexInitInv, MutexNextInv, PTL DEF MutexSpec
<1> QED
  BY <1>1, PTL DEF MutexInv

\* unlock() of a QMutex never leaves the last wake-up to nobody.
THEOREM MutexLosesNoWakeUp == MutexSpec => []NoLostWakeUp
<1>1. MutexSpec => []MutexInv
  BY MutexInitInv, MutexNextInv, PTL DEF MutexSpec
<1> QED
  BY <1>1, PTL DEF MutexInv

-----------------------------------------------------------------------------
\* Every step of the recursive mutex is a step of its QMutex or leaves it.
LEMMA UsesMutex == [Next]_vars => [MutexNext]_mutexVars
  BY DEF Next, Step, InMutex, Relock, LockMutex, UnlockLevel, ClearOwner,
         StoreOwner, UnlockMutex, MutexNext, vars

\* A thread in unlock() holds the QMutex still.
LeaversHold == \A t \in leaving : pc[t] = "held"

IInv == MutexInv /\ TypeOK /\ OwnerHolds /\ LeaversHold

LEMMA InitIInv == Init => IInv
  BY MutexInitInv, RecursiveMutexAssumption
  DEF Init, IInv, MutexInv, TypeOK, OwnerHolds, LeaversHold

\* The QMutex may change hands while the owner and the count stay as they
\* are, as long as the owner and the leaving threads keep it.
LEMMA OwnerKeeps ==
  ASSUME IInv, MutexInv', UNCHANGED ownVars,
         \A t \in Threads : pc[t] = "held" => pc'[t] = "held"
  PROVE  IInv'
  BY RecursiveMutexAssumption
  DEF IInv, MutexInv, TypeOK, OwnerHolds, LeaversHold, ownVars

LEMMA NextIInv == IInv /\ [Next]_vars => IInv'
<1> SUFFICES ASSUME IInv, [Next]_vars PROVE IInv'
  OBVIOUS
<1>a. MutexInv'
  BY UsesMutex, MutexNextInv DEF IInv
<1>b. pc \in [Threads -> Locations] /\ MaxDepth \in Nat /\ count \in 0..(MaxDepth - 1)
  BY RecursiveMutexAssumption DEF IInv, TypeOK, MutexTypeOK
<1>1. ASSUME NEW t \in Threads, LockMutex(t) PROVE IInv'
  <2>1. \A v \in Threads : pc[v] = "held" => pc'[v] = "held"
    BY <1>1, <1>b DEF LockMutex, FastLock, SlowLock, Goto
  <2> QED
    BY <1>1, <1>a, <2>1, OwnerKeeps DEF LockMutex
<1>2. ASSUME NEW t \in Threads, InMutex(t) PROVE IInv'
  <2>1. \A v \in Threads : pc[v] = "held" => pc'[v] = "held"
    BY <1>2, <1>b
    DEF InMutex, MutexStep, Take, Mark, GiveUp, FutexWait, Timeout, WakeOne,
        Goto, Return
  <2> QED
    BY <1>2, <1>a, <2>1, OwnerKeeps DEF InMutex
<1>3. ASSUME NEW t \in Threads, SpuriousWake(t), UNCHANGED ownVars
      PROVE  IInv'
  <2>1. \A v \in Threads : pc[v] = "held" => pc'[v] = "held"
    BY <1>3, <1>b DEF SpuriousWake, Goto
  <2> QED
    BY <1>3, <1>a, <2>1, OwnerKeeps
<1>4. ASSUME NEW t \in Threads, Relock(t) \/ UnlockLevel(t) PROVE IInv'
  <2>1. count' \in 0..(MaxDepth - 1)
    BY <1>4, <1>b DEF Relock, UnlockLevel
  <2>2. owner = t /\ UNCHANGED <<mutexVars, owner, leaving>>
    BY <1>4 DEF Relock, UnlockLevel
  <2> QED
    BY <1>a, <2>1, <2>2, RecursiveMutexAssumption
    DEF IInv, MutexInv, TypeOK, OwnerHolds, LeaversHold, mutexVars
<1>5. ASSUME NEW t \in Threads, StoreOwner(t) PROVE IInv'
  <2>1. owner = NoThread
    BY <1>5 DEF StoreOwner, IInv, MutexInv, MutualExclusion, OwnerHolds, TypeOK
  <2> QED
    BY <1>5, <1>a, <2>1, RecursiveMutexAssumption
    DEF StoreOwner, IInv, MutexInv, TypeOK, OwnerHolds, LeaversHold, mutexVars
<1>6. ASSUME NEW t \in Threads, ClearOwner(t) PROVE IInv'
  BY <1>6, <1>a, RecursiveMutexAssumption
  DEF ClearOwner, IInv, MutexInv, TypeOK, OwnerHolds, LeaversHold, mutexVars
<1>7. ASSUME NEW t \in Threads, UnlockMutex(t) PROVE IInv'
  <2>1. owner = NoThread
    BY <1>7
    DEF UnlockMutex, Unlock, IInv, MutexInv, MutualExclusion, OwnerHolds, TypeOK
  <2>2. \A v \in leaving' : pc'[v] = "held"
    BY <1>7, <1>b
    DEF UnlockMutex, Unlock, Goto, IInv, LeaversHold, TypeOK
  <2> QED
    BY <1>7, <1>a, <2>1, <2>2, RecursiveMutexAssumption
    DEF UnlockMutex, IInv, MutexInv, TypeOK, OwnerHolds, LeaversHold
<1>8. CASE UNCHANGED vars
  BY <1>8, <1>a
  DEF vars, mutexVars, ownVars, IInv, MutexInv, TypeOK, OwnerHolds, LeaversHold
<1> QED
  BY <1>1, <1>2, <1>3, <1>4, <1>5, <1>6, <1>7, <1>8 DEF Next, Step

LEMMA SpecIInv == Spec => []IInv
  BY InitIInv, NextIInv, PTL DEF Spec

\* Type correctness of the recursive mutex.
THEOREM TypeCorrect == Spec => []TypeOK
  BY SpecIInv, PTL DEF IInv

\* The recursive mutex excludes.
THEOREM MutualExclusionHolds == Spec => []MutualExclusion
  BY SpecIInv, PTL DEF IInv, MutexInv

\* The recursive mutex loses no wake-up of its QMutex.
THEOREM NoLostWakeUpHolds == Spec => []NoLostWakeUp
  BY SpecIInv, PTL DEF IInv, MutexInv

\* owner and count say who has locked the recursive mutex, and that a mutex
\* nobody owns starts at no recursion.
THEOREM OwnerHoldsAlways == Spec => []OwnerHolds
  BY SpecIInv, PTL DEF IInv

-----------------------------------------------------------------------------
(* The refinement of ReentrantMutex                                        *)

LEMMA InitRefines == Init => Abstract!Init
  BY DEF Init, MutexInit, Abstract!Init, Depth, Blocked

LEMMA DepthDomain ==
  DOMAIN Depth = Threads /\ Depth' = [v \in Threads |-> Depth'[v]]
  BY DEF Depth

\* Whoever locks, nobody else has locked.
LEMMA FreeForLock ==
  ASSUME IInv, d_ptr = "null"
  PROVE  \A v \in Threads : Depth[v] = 0
  BY DEF IInv, MutexInv, MutualExclusion, Depth

LEMMA NextRefines ==
  IInv /\ IInv' /\ [Next]_vars => [Abstract!Next]_(Abstract!vars)
<1> SUFFICES ASSUME IInv, IInv', [Next]_vars
             PROVE  Abstract!Next \/ (Depth' = Depth /\ Blocked' = Blocked)
  BY DEF Abstract!vars, Depth, Blocked
<1>a. /\ pc \in [Threads -> Locations] /\ timed \in [Threads -> 0..1]
      /\ MaxDepth \in Nat \ {0} /\ count \in 0..(MaxDepth - 1)
      /\ owner \in Threads \cup {NoThread} /\ NoThread \notin Threads
  BY RecursiveMutexAssumption DEF IInv, TypeOK, MutexTypeOK
<1>b. \A t \in Threads : pc[t] # "held" => owner # t /\ t \notin leaving
  BY <1>a DEF IInv, OwnerHolds, LeaversHold
<1>c. \A t, v \in Threads : pc[t] = "held" /\ v # t => Depth[v] = 0
  BY DEF IInv, MutexInv, MutualExclusion, Depth
<1>1. ASSUME NEW t \in Threads, d_ptr = "null", pc[t] # "held",
             pc' = [pc EXCEPT ![t] = "held"],
             timed' \in {timed, [timed EXCEPT ![t] = 0]},
             UNCHANGED ownVars
      PROVE  Abstract!Next
  <2>1. Depth' = [Depth EXCEPT ![t] = Depth[t] + 1]
    <3>1. Depth[t] = 0 /\ Depth'[t] = 1
      BY <1>1, <1>a, <1>b, FreeForLock DEF Depth, ownVars
    <3>2. \A v \in Threads \ {t} : Depth'[v] = Depth[v]
      BY <1>1, <1>a DEF Depth, ownVars
    <3> QED
      BY <3>1, <3>2, DepthDomain
  <2>2. Blocked' = [Blocked EXCEPT ![t] = "no"]
    <3>1. Blocked'[t] = "no"
      BY <1>1, <1>a DEF Blocked
    <3>2. \A v \in Threads \ {t} : Blocked'[v] = Blocked[v]
      BY <1>1, <1>a DEF Blocked
    <3> QED
      BY <3>1, <3>2 DEF Blocked
  <2>3. Abstract!Lock(t)
    BY <1>1, <1>a, <2>1, <2>2, FreeForLock DEF Abstract!Lock, Depth, Blocked
  <2> QED
    BY <2>3 DEF Abstract!Next
<1>2. ASSUME NEW t \in Threads, FastLock(t), UNCHANGED ownVars
      PROVE  Abstract!Next
  BY <1>1, <1>2 DEF FastLock, Goto
<1>3. ASSUME NEW t \in Threads, Take(t), UNCHANGED ownVars
      PROVE  Abstract!Next
  BY <1>1, <1>3 DEF Take, Return, Goto
<1>4. ASSUME NEW t \in Threads, SlowLock(t), UNCHANGED ownVars
      PROVE  Abstract!Next
  <2>1. PICK x \in 0..1 : timed' = [timed EXCEPT ![t] = x]
    BY <1>4 DEF SlowLock
  <2>2. Depth' = Depth
    BY <1>4, <1>a, <1>b DEF SlowLock, Goto, Depth, ownVars
  <2>3. Blocked' = [Blocked EXCEPT ![t] = IF x = 1 THEN "timed" ELSE "lock"]
    BY <1>4, <1>a, <2>1 DEF SlowLock, Goto, Blocked
  <2>4. Depth[t] = 0 /\ Blocked[t] = "no"
    BY <1>4 DEF SlowLock, Depth, Blocked
  <2>5. Abstract!Block(t)
    BY <2>2, <2>3, <2>4 DEF Abstract!Block, Depth, Blocked
  <2> QED
    BY <2>5 DEF Abstract!Next
<1>5. ASSUME NEW t \in Threads, GiveUp(t) \/ Timeout(t), UNCHANGED ownVars
      PROVE  Abstract!Next
  <2>1. /\ pc[t] \in {"woken", "asleep"} /\ timed[t] = 1
        /\ pc' = [pc EXCEPT ![t] = "idle"]
        /\ timed' = [timed EXCEPT ![t] = 0]
    BY <1>5 DEF GiveUp, Timeout, Return, Goto
  <2>2. Depth' = Depth
    BY <1>5, <2>1, <1>a, <1>b DEF Depth, ownVars
  <2>3. Blocked' = [Blocked EXCEPT ![t] = "no"] /\ Blocked[t] = "timed"
    BY <2>1, <1>a DEF Blocked
  <2>4. Abstract!Refuse(t)
    BY <2>2, <2>3 DEF Abstract!Refuse, Depth, Blocked
  <2> QED
    BY <2>4 DEF Abstract!Next
<1>6. ASSUME NEW t \in Threads,
             Mark(t) \/ FutexWait(t) \/ SpuriousWake(t) \/ WakeOne(t),
             UNCHANGED ownVars
      PROVE  Depth' = Depth /\ Blocked' = Blocked
  <2>1. \A v \in Threads : pc[v] = "held" <=> pc'[v] = "held"
    BY <1>6, <1>a DEF Mark, FutexWait, SpuriousWake, WakeOne, Goto
  <2>2. \A v \in Threads :
          pc[v] \in {"exchange", "futexWait", "asleep", "woken"}
            <=> pc'[v] \in {"exchange", "futexWait", "asleep", "woken"}
    BY <1>6, <1>a DEF Mark, FutexWait, SpuriousWake, WakeOne, Goto
  <2>3. timed' = timed
    BY <1>6 DEF Mark, FutexWait, SpuriousWake, WakeOne
  <2> QED
    BY <1>6, <2>1, <2>2, <2>3 DEF Depth, Blocked, ownVars
<1>7. ASSUME NEW t \in Threads, Relock(t) PROVE Abstract!Next
  <2>1. pc[t] = "held" /\ t \notin leaving
    BY <1>7, <1>b, <1>a DEF Relock, IInv, OwnerHolds
  <2>2. Depth' = [Depth EXCEPT ![t] = Depth[t] + 1] /\ Depth[t] < MaxDepth
    BY <1>7, <1>a, <2>1 DEF Relock, Depth, mutexVars
  <2>3. Blocked' = [Blocked EXCEPT ![t] = "no"]
    BY <1>7, <2>1 DEF Relock, Blocked, mutexVars
  <2>4. Abstract!Lock(t)
    BY <2>1, <2>2, <2>3, <1>c DEF Abstract!Lock, Depth, Blocked
  <2> QED
    BY <2>4 DEF Abstract!Next
<1>8. ASSUME NEW t \in Threads, StoreOwner(t)
      PROVE  Depth' = Depth /\ Blocked' = Blocked
  <2>1. owner = NoThread /\ count = 0
    BY <1>8, <1>a DEF StoreOwner, IInv, MutexInv, MutualExclusion, OwnerHolds
  <2> QED
    BY <1>8, <1>a, <2>1 DEF StoreOwner, Depth, Blocked, mutexVars
<1>9. ASSUME NEW t \in Threads, UnlockLevel(t) \/ ClearOwner(t)
      PROVE  Abstract!Next
  <2>1. pc[t] = "held" /\ t \notin leaving /\ owner = t
    BY <1>9, <1>a DEF UnlockLevel, ClearOwner, IInv, OwnerHolds
  <2>2. Depth' = [Depth EXCEPT ![t] = Depth[t] - 1] /\ Depth[t] > 0
    <3>1. Depth[t] = count + 1 /\ Depth'[t] = count
      <4>1. CASE UnlockLevel(t)
        BY <4>1, <1>a, <2>1 DEF UnlockLevel, Depth, mutexVars
      <4>2. CASE ClearOwner(t)
        BY <4>2, <1>a, <2>1 DEF ClearOwner, Depth, mutexVars
      <4> QED
        BY <1>9, <4>1, <4>2
    <3>2. \A v \in Threads \ {t} : Depth[v] = 0 /\ Depth'[v] = 0
      <4>1. pc' = pc
        BY <1>9 DEF UnlockLevel, ClearOwner, mutexVars
      <4> QED
        BY <4>1, <2>1, <1>c DEF Depth, IInv, MutexInv, MutualExclusion
    <3>3. [Depth EXCEPT ![t] = Depth[t] - 1]
            = [v \in Threads |-> IF v = t THEN Depth[t] - 1 ELSE Depth[v]]
      BY DepthDomain
    <3> QED
      BY <3>1, <3>2, <3>3, DepthDomain, <1>a
  <2>3. Blocked' = Blocked
    BY <1>9 DEF UnlockLevel, ClearOwner, Blocked, mutexVars
  <2>4. Abstract!Unlock(t)
    BY <2>2, <2>3 DEF Abstract!Unlock, Depth, Blocked
  <2> QED
    BY <2>4 DEF Abstract!Next
<1>10. ASSUME NEW t \in Threads, UnlockMutex(t)
       PROVE  Depth' = Depth /\ Blocked' = Blocked
  <2>1. \A v \in Threads : Depth[v] = 0 /\ Depth'[v] = 0
    BY <1>10, <1>a, <1>c
    DEF UnlockMutex, Unlock, Goto, Depth, IInv, MutexInv, MutualExclusion
  <2>2. Blocked' = Blocked
    BY <1>10, <1>a DEF UnlockMutex, Unlock, Goto, Blocked
  <2> QED
    BY <2>1, <2>2 DEF Depth
<1>11. CASE UNCHANGED vars
  BY <1>11 DEF vars, mutexVars, ownVars, Depth, Blocked
<1> QED
  BY <1>2, <1>3, <1>4, <1>5, <1>6, <1>7, <1>8, <1>9, <1>10, <1>11
  DEF Next, Step, InMutex, LockMutex, MutexStep

\* QRecursiveMutex implements the reentrant mutex.
THEOREM Implements == Spec => Refinement
  BY SpecIInv, InitRefines, NextRefines, PTL
  DEF Spec, Refinement, Abstract!Spec

-----------------------------------------------------------------------------
(* QSemaphore                                                              *)

\* Tokens plus waiters never overflow the field that holds their sum.
NoWrap == MaxAvail + Cardinality(Clients) <= IntMax

\* What a thread's locals are at each of its locations.
LocalsOf(t) ==
  /\ (kind[t] = "none") <=> (at[t] \in {"idle", "wakeOp"})
  /\ at[t] # "idle" => amount[t] \in Amounts
  /\ at[t] = "enlist" /\ amount[t] > 1 => cur[t] < IntMax
  /\ at[t] = "unlist" => kind[t] = "timed"

Locals == \A t \in Clients : LocalsOf(t)

TInv == SemTypeOK /\ Locals

-----------------------------------------------------------------------------
\* What the arithmetic on the word returns, whatever the carry.
LEMMA WordClosed ==
  ASSUME u \in SemWord, NEW k \in -IntMax..IntMax, NEW w \in -1..1,
         u.low + k \in 0..IntMax
  PROVE  Added(k, w) \in SemWord /\ Added(k, w).low = u.low + k
  BY SemaphoreAssumption DEF SemWord, Added, Packed

\* Taking tokens that are there, and leaving the waiters or not.
LEMMA TakeClosed ==
  ASSUME TInv, NEW t \in Clients, at[t] # "idle", u.low >= amount[t],
         NEW w \in -1..0
  PROVE  /\ Added(-amount[t], w) \in SemWord
         /\ Added(-amount[t], w).low = u.low - amount[t]
         /\ Added(-amount[t], w).low \in 0..MaxAvail
<1>1. amount[t] \in 1..IntMax
  BY SemaphoreAssumption DEF TInv, Locals, LocalsOf
<1>2. u \in SemWord /\ u.low \in 0..MaxAvail /\ MaxAvail \in 0..IntMax
  BY SemaphoreAssumption DEF TInv, SemTypeOK, SemWord
<1>3. -amount[t] \in -IntMax..IntMax /\ u.low + (-amount[t]) \in 0..IntMax
  BY <1>1, <1>2, SemaphoreAssumption
<1>4. /\ Added(-amount[t], w) \in SemWord
      /\ Added(-amount[t], w).low = u.low + (-amount[t])
  BY <1>2, <1>3, WordClosed
<1> QED
  BY <1>1, <1>2, <1>4

LEMMA InitTInv == SemInit => TInv
  BY SemaphoreAssumption
  DEF SemInit, TInv, SemTypeOK, Locals, LocalsOf, SemWord, Kinds, SemPlaces

LEMMA NextTInv == TInv /\ [SemNext]_semVars => TInv'
<1> SUFFICES ASSUME TInv, [SemNext]_semVars PROVE TInv'
  OBVIOUS
<1> USE SemaphoreAssumption
    DEF TInv, SemTypeOK, Locals, LocalsOf, Kinds, SemPlaces, Jump, Finish, Half,
        BeforeWait, Adjusted
<1>u. u \in SemWord /\ u.low \in 0..MaxAvail /\ u.high \in 0..IntMax
  BY DEF SemWord
<1>1. ASSUME NEW t \in Clients, Ask(t) PROVE TInv'
  BY <1>1 DEF Ask
<1>2. ASSUME NEW t \in Clients, Release(t) PROVE TInv'
  <2>1. PICK n \in Amounts :
          /\ u.low + n <= MaxAvail
          /\ u' = [Added(n, 0) EXCEPT !.wakeAll = 0]
          /\ amount' = [amount EXCEPT ![t] = IF NeedsWake(u) THEN n ELSE 0]
    BY <1>2 DEF Release
  <2>2. u' \in SemWord /\ u'.low = u.low + n
    BY <2>1, <1>u, WordClosed DEF SemWord
  <2> QED
    BY <1>2, <2>1, <2>2 DEF Release
<1>3. ASSUME NEW t \in Clients, TakeAtOnce(t) PROVE TInv'
  <2>1. at[t] # "idle" /\ u.low >= amount[t] /\ u' = Added(-amount[t], 0)
    BY <1>3 DEF TakeAtOnce
  <2>2. u' \in SemWord /\ u'.low <= MaxAvail
    BY <2>1, TakeClosed
  <2> QED
    BY <1>3, <2>2 DEF TakeAtOnce
<1>4. ASSUME NEW t \in Clients, GiveUpAtOnce(t) PROVE TInv'
  BY <1>4 DEF GiveUpAtOnce
<1>5. ASSUME NEW t \in Clients, MustWait(t) PROVE TInv'
  BY <1>5, <1>u DEF MustWait
<1>6. ASSUME NEW t \in Clients, Enlist(t) PROVE TInv'
  <2>1. u' \in SemWord /\ u'.low = u.low
    BY <1>6, <1>u, WordClosed DEF Enlist
  <2> QED
    BY <1>6, <2>1 DEF Enlist
<1>7. ASSUME NEW t \in Clients, Flag(t) PROVE TInv'
  BY <1>7, <1>u DEF Flag, SemWord
<1>8. ASSUME NEW t \in Clients, WaitOnHalf(t) PROVE TInv'
  BY <1>8 DEF WaitOnHalf
<1>9. ASSUME NEW t \in Clients, WakeUnasked(t) \/ TimerEnds(t) \/ Expire(t)
      PROVE  TInv'
  BY <1>9 DEF WakeUnasked, TimerEnds, Expire
<1>10. ASSUME NEW t \in Clients, TakeAfterWait(t) PROVE TInv'
  <2>1. at[t] # "idle" /\ u.low >= amount[t] /\ u' = Added(-amount[t], -1)
    BY <1>10 DEF TakeAfterWait
  <2>2. u' \in SemWord /\ u'.low <= MaxAvail
    BY <2>1, TakeClosed
  <2> QED
    BY <1>10, <2>2 DEF TakeAfterWait
<1>11. ASSUME NEW t \in Clients, WaitAgain(t) PROVE TInv'
  BY <1>11, <1>u DEF WaitAgain
<1>12. ASSUME NEW t \in Clients, Unlist(t) PROVE TInv'
  <2>1. u' \in SemWord /\ u'.low = u.low
    BY <1>12, <1>u, WordClosed DEF Unlist
  <2> QED
    BY <1>12, <2>1 DEF Unlist
<1>13. ASSUME NEW t \in Clients, WakeOp(t) PROVE TInv'
  BY <1>13 DEF WakeOp, WakeAndReturn, AsleepOnLow, AsleepOnHigh
<1>14. CASE UNCHANGED semVars
  BY <1>14 DEF semVars
<1> QED
  BY <1>1, <1>2, <1>3, <1>4, <1>5, <1>6, <1>7, <1>8, <1>9, <1>10, <1>11,
     <1>12, <1>13, <1>14 DEF SemNext, Work

\* Every variable keeps its type, even when the sum of tokens and waiters
\* overflows its field: in particular available() is never negative.
THEOREM SemTypeCorrect == SemSpec => []SemTypeOK
<1>1. TInv => SemTypeOK
  BY DEF TInv
<1> QED
  BY <1>1, InitTInv, NextTInv, PTL DEF SemSpec

-----------------------------------------------------------------------------
(* The accounting.  It needs NoWrap, and what it says is stronger than     *)
(* WaitersAccounted: the high half is the sum, with no modulus.            *)

Accounted == u.high = u.low + Cardinality(Waiters)

SemInv == TInv /\ Accounted /\ BitCoversSleepers

\* One thread more, one thread less, or the same threads, in the waiters.
LEMMA WaitersCount ==
  ASSUME SemTypeOK, NEW t \in Clients
  PROVE  /\ Cardinality(Waiters) \in 0..Cardinality(Clients)
         /\ t \in Waiters => Cardinality(Waiters) > 0
         /\ t \notin Waiters => Cardinality(Waiters) < Cardinality(Clients)
         /\ (Waiters' = Waiters \cup {t} /\ t \notin Waiters)
              => Cardinality(Waiters') = Cardinality(Waiters) + 1
         /\ (Waiters' = Waiters \ {t} /\ t \in Waiters)
              => Cardinality(Waiters') = Cardinality(Waiters) - 1
<1>1. /\ IsFiniteSet(Waiters) /\ Cardinality(Waiters) \in Nat
      /\ IsFiniteSet(Clients) /\ Cardinality(Clients) \in Nat
      /\ Cardinality(Waiters) <= Cardinality(Clients)
      /\ Cardinality(Waiters) = Cardinality(Clients) => Waiters = Clients
  BY SemaphoreAssumption, FS_Subset, FS_CardinalityType DEF Waiters
<1>2. Cardinality(Waiters) = 0 <=> Waiters = {}
  BY <1>1, FS_EmptySet
<1>3. Cardinality(Waiters \cup {t}) =
        IF t \in Waiters THEN Cardinality(Waiters) ELSE Cardinality(Waiters) + 1
  BY <1>1, FS_AddElement
<1>4. Cardinality(Waiters \ {t}) =
        IF t \in Waiters THEN Cardinality(Waiters) - 1 ELSE Cardinality(Waiters)
  BY <1>1, FS_RemoveElement
<1>5. t \in Waiters => Cardinality(Waiters) > 0
  BY <1>1, <1>2
<1>6. t \notin Waiters => Cardinality(Waiters) < Cardinality(Clients)
  BY <1>1
<1>7. (Waiters' = Waiters \cup {t} /\ t \notin Waiters)
        => Cardinality(Waiters') = Cardinality(Waiters) + 1
  BY <1>3
<1>8. (Waiters' = Waiters \ {t} /\ t \in Waiters)
        => Cardinality(Waiters') = Cardinality(Waiters) - 1
  BY <1>4
<1> QED
  BY <1>1, <1>5, <1>6, <1>7, <1>8

\* Without a carry the arithmetic on the word is plain addition.
LEMMA NoCarry ==
  ASSUME u \in SemWord, NEW k \in Int, NEW w \in Int,
         u.high + k + w \in 0..IntMax
  PROVE  Added(k, w) = [low |-> u.low + k, high |-> u.high + k + w,
                        wakeAll |-> u.wakeAll]
  BY SemaphoreAssumption DEF SemWord, Added, Packed

LEMMA InitSemInv == SemInit => SemInv
<1> SUFFICES ASSUME SemInit PROVE SemInv
  OBVIOUS
<1>1. Waiters = {} /\ AsleepOnHigh = {}
  BY DEF SemInit, Waiters, Enlisted, AsleepOnHigh
<1>2. Accounted
  BY <1>1, FS_EmptySet, SemaphoreAssumption DEF SemInit, Accounted
<1> QED
  BY <1>1, <1>2, InitTInv DEF SemInv, BitCoversSleepers

\* While anybody is enlisted the high half is not zero, so FUTEX_WAKE_OP wakes
\* every sleeper on it.
LEMMA WakeOpWakesAll ==
  ASSUME SemInv, NEW t \in Clients, WakeOp(t)
  PROVE  AsleepOnHigh' = {}
<1>a. SemTypeOK /\ Accounted
  BY DEF SemInv, TInv
<1>1. AsleepOnHigh' \subseteq AsleepOnHigh
  BY <1>a DEF WakeOp, WakeAndReturn, AsleepOnHigh, AsleepOnLow, SemTypeOK
<1>2. ASSUME NEW s \in AsleepOnHigh PROVE s \notin AsleepOnHigh'
  <2>1. s \in Clients /\ s \in Waiters
    BY <1>2 DEF AsleepOnHigh, Waiters, Enlisted
  <2>2. Cardinality(Waiters) > 0 /\ Cardinality(Waiters) \in Nat
    BY <2>1, <1>a, WaitersCount
  <2>3. ~HighIsZero(u)
    BY <2>2, <1>a DEF HighIsZero, Accounted, SemTypeOK, SemWord
  <2> QED
    BY <2>3, <1>2, <1>a DEF WakeOp, WakeAndReturn, AsleepOnHigh, SemTypeOK
<1> QED
  BY <1>1, <1>2

LEMMA NextSemInv ==
  ASSUME NoWrap, SemInv, [SemNext]_semVars
  PROVE  Accounted' /\ BitCoversSleepers'
<1> DEFINE W == Cardinality(Waiters)
<1>a. SemTypeOK /\ Locals /\ Accounted /\ BitCoversSleepers
  BY DEF SemInv, TInv
<1>u. /\ u \in SemWord /\ u.low \in 0..MaxAvail /\ u.high \in 0..IntMax
      /\ MaxAvail \in Nat /\ IntMax \in Nat /\ u.wakeAll \in 0..1
      /\ u.high = u.low + W
  BY <1>a, SemaphoreAssumption DEF SemTypeOK, SemWord, Accounted
<1>w. /\ W \in Nat /\ Cardinality(Clients) \in Nat
      /\ W <= Cardinality(Clients)
  BY <1>a, SemaphoreAssumption, FS_Subset, FS_CardinalityType DEF Waiters
<1>n. MaxAvail + Cardinality(Clients) <= IntMax
  BY DEF NoWrap
<1>m. \A t \in Clients : at[t] # "idle" => amount[t] \in 1..IntMax
  BY <1>a, SemaphoreAssumption DEF Locals, LocalsOf
<1> USE DEF Jump, Finish, Enlisted, SemTypeOK, SemPlaces
<1>1. ASSUME UNCHANGED u, Waiters' = Waiters,
             AsleepOnHigh' \subseteq AsleepOnHigh,
             \A t \in Clients : at[t] = "wakeOp" => at'[t] = "wakeOp"
      PROVE  Accounted' /\ BitCoversSleepers'
  BY <1>1, <1>a DEF Accounted, BitCoversSleepers
<1>2. ASSUME NEW t \in Clients,
             Ask(t) \/ GiveUpAtOnce(t) \/ WakeUnasked(t) \/ TimerEnds(t)
               \/ WaitAgain(t) \/ Expire(t) \/ MustWait(t)
      PROVE  Accounted' /\ BitCoversSleepers'
  <2>1. UNCHANGED u /\ Waiters' = Waiters
    BY <1>2, <1>a DEF Ask, GiveUpAtOnce, WakeUnasked, TimerEnds, WaitAgain,
                      Expire, MustWait, Waiters, BeforeWait
  <2>2. AsleepOnHigh' \subseteq AsleepOnHigh
    BY <1>2, <1>a DEF Ask, GiveUpAtOnce, WakeUnasked, TimerEnds, WaitAgain,
                      Expire, MustWait, AsleepOnHigh, BeforeWait
  <2>3. \A v \in Clients : at[v] = "wakeOp" => at'[v] = "wakeOp"
    BY <1>2, <1>a DEF Ask, GiveUpAtOnce, WakeUnasked, TimerEnds, WaitAgain,
                      Expire, MustWait
  <2> QED
    BY <1>1, <2>1, <2>2, <2>3
<1>3. ASSUME NEW t \in Clients, NEW k \in Int, NEW w \in Int,
             u' = Added(k, w),
             u.low + k \in 0..MaxAvail,
             Cardinality(Waiters') = W + w,
             Cardinality(Waiters') \in 0..Cardinality(Clients),
             AsleepOnHigh' \subseteq AsleepOnHigh,
             \A v \in Clients : at[v] = "wakeOp" => at'[v] = "wakeOp"
      PROVE  Accounted' /\ BitCoversSleepers'
  <2>1. u' = [low |-> u.low + k, high |-> u.high + k + w,
              wakeAll |-> u.wakeAll]
    <3>1. u.high + k + w \in 0..IntMax
      BY <1>3, <1>u, <1>w, <1>n
    <3> QED
      BY <3>1, <1>3, <1>u, NoCarry
  <2>2. Accounted'
    BY <2>1, <1>3, <1>u, <1>w DEF Accounted
  <2>3. BitCoversSleepers'
    BY <2>1, <1>3, <1>a DEF BitCoversSleepers
  <2> QED
    BY <2>2, <2>3
<1>4. ASSUME NEW t \in Clients, TakeAtOnce(t)
      PROVE  Accounted' /\ BitCoversSleepers'
  <2>1. Waiters' = Waiters /\ AsleepOnHigh' \subseteq AsleepOnHigh
    BY <1>4, <1>a DEF TakeAtOnce, Waiters, AsleepOnHigh
  <2>2. amount[t] \in Nat /\ u.low >= amount[t] /\ u' = Added(-amount[t], 0)
    <3>1. at[t] # "idle" /\ u.low >= amount[t] /\ u' = Added(-amount[t], 0)
      BY <1>4 DEF TakeAtOnce
    <3> QED
      BY <3>1, <1>m, <1>u
  <2>3. \A v \in Clients : at[v] = "wakeOp" => at'[v] = "wakeOp"
    BY <1>4, <1>a DEF TakeAtOnce
  <2>4. -amount[t] \in Int /\ u.low + (-amount[t]) \in 0..MaxAvail
    BY <2>2, <1>u
  <2> QED
    BY <1>3, <1>w, <2>1, <2>2, <2>3, <2>4
<1>5. ASSUME NEW t \in Clients, TakeAfterWait(t) \/ Unlist(t)
      PROVE  Accounted' /\ BitCoversSleepers'
  <2>1. /\ Waiters' = Waiters \ {t} /\ t \in Waiters
        /\ AsleepOnHigh' \subseteq AsleepOnHigh
    BY <1>5, <1>a DEF TakeAfterWait, Unlist, Waiters, AsleepOnHigh
  <2>2. PICK k \in Int : u' = Added(k, -1) /\ u.low + k \in 0..MaxAvail
    <3>1. CASE TakeAfterWait(t)
      <4>1. /\ amount[t] \in Nat /\ u.low >= amount[t]
            /\ u' = Added(-amount[t], -1)
        <5>1. /\ at[t] # "idle" /\ u.low >= amount[t]
              /\ u' = Added(-amount[t], -1)
          BY <3>1 DEF TakeAfterWait
        <5> QED
          BY <5>1, <1>m, <1>u
      <4>2. -amount[t] \in Int /\ u.low + (-amount[t]) \in 0..MaxAvail
        BY <4>1, <1>u
      <4> QED
        BY <4>1, <4>2
    <3>2. CASE Unlist(t)
      BY <3>2, <1>u DEF Unlist
    <3> QED
      BY <1>5, <3>1, <3>2
  <2>3. \A v \in Clients : at[v] = "wakeOp" => at'[v] = "wakeOp"
    BY <1>5, <1>a DEF TakeAfterWait, Unlist
  <2>4. Cardinality(Waiters') = W + (-1) /\ W > 0
    BY <2>1, <1>a, <1>w, WaitersCount
  <2>5. Cardinality(Waiters') \in 0..Cardinality(Clients)
    BY <2>4, <1>w
  <2> QED
    BY <1>3, <2>1, <2>2, <2>3, <2>4, <2>5
<1>6. ASSUME NEW t \in Clients, Enlist(t)
      PROVE  Accounted' /\ BitCoversSleepers'
  <2>1. /\ Waiters' = Waiters \cup {t} /\ t \notin Waiters
        /\ AsleepOnHigh' \subseteq AsleepOnHigh
    BY <1>6, <1>a DEF Enlist, Waiters, AsleepOnHigh, BeforeWait
  <2>2. u' = Added(0, 1) /\ u.low + 0 \in 0..MaxAvail
    BY <1>6, <1>u DEF Enlist
  <2>3. \A v \in Clients : at[v] = "wakeOp" => at'[v] = "wakeOp"
    BY <1>6, <1>a DEF Enlist
  <2>4. Cardinality(Waiters') = W + 1 /\ W < Cardinality(Clients)
    BY <2>1, <1>a, <1>w, WaitersCount
  <2>5. Cardinality(Waiters') \in 0..Cardinality(Clients)
    BY <2>4, <1>w
  <2> QED
    BY <1>3, <2>1, <2>2, <2>3, <2>4, <2>5
<1>7. ASSUME NEW t \in Clients, Flag(t)
      PROVE  Accounted' /\ BitCoversSleepers'
  <2>1. /\ Waiters' = Waiters
        /\ u'.low = u.low /\ u'.high = u.high /\ u'.wakeAll = 1
    BY <1>7, <1>a, <1>u DEF Flag, Waiters, SemWord
  <2> QED
    BY <2>1, <1>u DEF Accounted, BitCoversSleepers
<1>8. ASSUME NEW t \in Clients, WaitOnHalf(t)
      PROVE  Accounted' /\ BitCoversSleepers'
  <2>1. Waiters' = Waiters /\ UNCHANGED u
    BY <1>8, <1>a DEF WaitOnHalf, Waiters
  <2>2. \/ AsleepOnHigh' \subseteq AsleepOnHigh
        \/ u.wakeAll = 1
    BY <1>8, <1>a DEF WaitOnHalf, AsleepOnHigh, Unchanged
  <2>3. \A v \in Clients : at[v] = "wakeOp" => at'[v] = "wakeOp"
    BY <1>8, <1>a DEF WaitOnHalf
  <2> QED
    BY <1>1, <2>1, <2>2, <2>3, <1>a DEF Accounted, BitCoversSleepers
<1>9. ASSUME NEW t \in Clients, Release(t)
      PROVE  Accounted' /\ BitCoversSleepers'
  <2>1. PICK n \in Amounts :
          /\ u.low + n <= MaxAvail
          /\ u' = [Added(n, 0) EXCEPT !.wakeAll = 0]
    BY <1>9 DEF Release
  <2>2. n \in Nat /\ u.high + n + 0 \in 0..IntMax
    BY <2>1, <1>u, <1>w, <1>n, SemaphoreAssumption
  <2>3. u'.low = u.low + n /\ u'.high = u.high + n
    BY <2>1, <2>2, <1>u, NoCarry
  <2>4. Waiters' = Waiters /\ AsleepOnHigh' \subseteq AsleepOnHigh
    BY <1>9, <1>a DEF Release, Waiters, AsleepOnHigh
  <2>5. ASSUME NEW s \in AsleepOnHigh' PROVE at'[t] = "wakeOp"
    <3>1. s \in Clients /\ s \in Waiters
      BY <2>4, <2>5 DEF AsleepOnHigh, Waiters
    <3>2. W > 0
      BY <3>1, <1>a, WaitersCount
    <3>3. NeedsWake(u)
      BY <3>2, <1>u, <1>w DEF NeedsWake
    <3> QED
      BY <3>3, <1>9, <1>a DEF Release
  <2> QED
    BY <2>2, <2>3, <2>4, <2>5, <1>u, <1>w DEF Accounted, BitCoversSleepers
<1>10. ASSUME NEW t \in Clients, WakeOp(t)
       PROVE  Accounted' /\ BitCoversSleepers'
  <2>1. Waiters' = Waiters /\ UNCHANGED u
    BY <1>10, <1>a DEF WakeOp, WakeAndReturn, Waiters, AsleepOnHigh, AsleepOnLow
  <2>2. AsleepOnHigh' = {}
    BY <1>10, WakeOpWakesAll
  <2> QED
    BY <2>1, <2>2, <1>a DEF Accounted, BitCoversSleepers
<1>11. CASE UNCHANGED semVars
  BY <1>11, <1>1 DEF semVars, Waiters, AsleepOnHigh
<1> QED
  BY <1>2, <1>4, <1>5, <1>6, <1>7, <1>8, <1>9, <1>10, <1>11 DEF SemNext, Work

LEMMA SemInvHolds == ASSUME NoWrap PROVE SemSpec => []SemInv
<1>1. SemInv /\ [SemNext]_semVars => SemInv'
  BY NextTInv, NextSemInv DEF SemInv
<1> QED
  BY <1>1, InitSemInv, PTL DEF SemSpec

\* The high half of the word counts tokens and enlisted threads, whatever the
\* order of timeouts, successes and releases (the fetchAndAdd and the three
\* places that subtract oneWaiter).
THEOREM WaitersAccountedHolds == ASSUME NoWrap PROVE SemSpec => []WaitersAccounted
<1>1. SemInv => WaitersAccounted
  <2> SUFFICES ASSUME SemInv PROVE WaitersAccounted
    OBVIOUS
  <2>1. u.high \in Nat /\ u.low \in Nat /\ IntMax \in Nat
    BY SemaphoreAssumption DEF SemInv, TInv, SemTypeOK, SemWord
  <2>2. Cardinality(Waiters) \in Nat
    BY SemaphoreAssumption, FS_Subset, FS_CardinalityType DEF Waiters
  <2>3. u.high - u.low - Cardinality(Waiters) = 0
    BY <2>1, <2>2 DEF SemInv, Accounted
  <2>4. 0 % (IntMax + 1) = 0
    BY <2>1
  <2> QED
    BY <2>3, <2>4 DEF WaitersAccounted
<1> QED
  BY <1>1, SemInvHolds, PTL

\* A sleeping multi-token waiter is never without bit 63 or a release() on
\* its way to the kernel.
THEOREM BitCoversSleepersHolds ==
  ASSUME NoWrap PROVE SemSpec => []BitCoversSleepers
<1>1. SemInv => BitCoversSleepers
  BY DEF SemInv
<1> QED
  BY <1>1, SemInvHolds, PTL

\* "We tell the kernel to wake up n single-token threads and all of the
\* multi-token ones": a release() that entered the kernel leaves none asleep.
THEOREM WakesAllMultiHolds == ASSUME NoWrap PROVE SemSpec => WakesAllMulti
<1> DEFINE Leaves(t) == at[t] = "wakeOp" /\ at'[t] = "idle"
<1>1. ASSUME SemInv, SemNext
      PROVE  \A t \in Clients : Leaves(t) => AsleepOnHigh' = {}
  <2> SUFFICES ASSUME NEW t \in Clients, Leaves(t)
               PROVE  AsleepOnHigh' = {}
    OBVIOUS
  <2>1. PICK v \in Clients : Ask(v) \/ Release(v) \/ Work(v) \/ WakeUnasked(v)
    BY <1>1 DEF SemNext
  <2>2. CASE WakeOp(v)
    BY <2>2, <1>1, WakeOpWakesAll
  <2>3. CASE ~WakeOp(v)
    <3>1. at'[t] = at[t] \/ at[t] # "wakeOp"
      BY <2>1, <2>3, <1>1
         DEF SemInv, TInv, SemTypeOK, Work, Ask, Release, WakeUnasked, TakeAtOnce,
             GiveUpAtOnce, MustWait, Enlist, Flag, WaitOnHalf, TimerEnds,
             TakeAfterWait, WaitAgain, Expire, Unlist, Jump, Finish
    <3> QED
      BY <3>1
  <2> QED
    BY <2>2, <2>3
<1>2. SemInv /\ [SemNext]_semVars
        => [\A t \in Clients : Leaves(t) => AsleepOnHigh' = {}]_semVars
  BY <1>1
<1> QED
  BY <1>2, SemInvHolds, PTL DEF SemSpec, WakesAllMulti

-----------------------------------------------------------------------------
(* No token is left with a sleeper.  A single-token waiter has seen a word *)
(* without tokens, so that it only falls asleep while there are none.      *)

SeenNone ==
  \A t \in Clients :
    /\ at[t] = "mark" => amount[t] > 1
    /\ at[t] \in {"enlist", "futexWait"} /\ amount[t] = 1 => cur[t] = 0

SInv == SemInv /\ SeenNone /\ NoStrandedToken

Counts ==
  /\ IsFiniteSet(Promised) /\ Cardinality(Promised) \in Nat
  /\ IsFiniteSet(Looking) /\ Cardinality(Looking) \in Nat
  /\ IsFiniteSet(AsleepOnLow) /\ Cardinality(AsleepOnLow) \in Nat

LEMMA CountsAreFinite == Counts
<1>1. IsFiniteSet(1..IntMax)
  BY SemaphoreAssumption, FS_Interval
<1>2. IsFiniteSet(Clients \X (1..IntMax))
  BY <1>1, SemaphoreAssumption, FS_Product
<1>3. /\ Promised \subseteq Clients \X (1..IntMax)
      /\ Looking \subseteq Clients /\ AsleepOnLow \subseteq Clients
  BY DEF Promised, Looking, AsleepOnLow
<1> QED
  BY <1>2, <1>3, SemaphoreAssumption, FS_Subset, FS_CardinalityType DEF Counts

\* What one release() promises is its amount.
LEMMA OnePromise ==
  ASSUME NEW t \in Clients, NEW n \in 1..IntMax
  PROVE  IsFiniteSet({t} \X (1..n)) /\ Cardinality({t} \X (1..n)) = n
<1>1. n \in Nat /\ 1 <= n
  BY SemaphoreAssumption
<1>2. IsFiniteSet(1..n) /\ Cardinality(1..n) = n
  BY <1>1, FS_Interval
<1>3. IsFiniteSet({t}) /\ Cardinality({t}) = 1
  BY FS_Singleton
<1> QED
  BY <1>1, <1>2, <1>3, FS_Product

\* The sums of two sets that do not meet.
LEMMA Disjoint ==
  ASSUME NEW S, NEW T, IsFiniteSet(S), IsFiniteSet(T), S \cap T = {}
  PROVE  Cardinality(S \cup T) = Cardinality(S) + Cardinality(T)
<1>1. Cardinality(S \cup T)
        = Cardinality(S) + Cardinality(T) - Cardinality(S \cap T)
  BY FS_Union
<1>2. Cardinality(S \cap T) = 0
  BY FS_EmptySet
<1>3. Cardinality(S) \in Nat /\ Cardinality(T) \in Nat
  BY FS_CardinalityType
<1> QED
  BY <1>1, <1>2, <1>3

\* A step that adds no sleeper and no token and takes nothing from the wake-ups
\* on their way or the threads about to look, leaves no token stranded.
LEMMA StillClaimed ==
  ASSUME NoStrandedToken, u.low \in Nat, u'.low \in Nat,
         AsleepOnLow' # {} => AsleepOnLow # {},
         u'.low <= u.low, Promised \subseteq Promised', Looking \subseteq Looking'
  PROVE  NoStrandedToken'
<1>0. Counts /\ Counts'
  BY CountsAreFinite, PTL
<1>1. /\ Cardinality(Promised) <= Cardinality(Promised')
      /\ Cardinality(Looking) <= Cardinality(Looking')
  BY <1>0, FS_Subset DEF Counts
<1>2. /\ Cardinality(Promised) \in Nat /\ Cardinality(Promised') \in Nat
      /\ Cardinality(Looking) \in Nat /\ Cardinality(Looking') \in Nat
  BY <1>0 DEF Counts
<1> QED
  BY <1>1, <1>2 DEF NoStrandedToken


\* The case of no token at all.
LEMMA NothingToStrand ==
  ASSUME u'.low = 0 PROVE NoStrandedToken'
<1>1. Counts'
  BY CountsAreFinite, PTL
<1> QED
  BY <1>1 DEF NoStrandedToken, Counts

LEMMA NextSeenNone ==
  ASSUME SemInv, SeenNone, [SemNext]_semVars PROVE SeenNone'
<1>a. SemTypeOK /\ Locals
  BY DEF SemInv, TInv
<1>u. u.low \in Nat /\ u'.low \in Nat
  BY NextTInv, SemaphoreAssumption DEF SemInv, TInv, SemTypeOK, SemWord
<1>m. \A t \in Clients : at[t] # "idle" => amount[t] \in Nat \ {0}
  <2>1. \A n \in Amounts : n \in Nat \ {0}
    BY SemaphoreAssumption
  <2> QED
    BY <2>1, <1>a DEF Locals, LocalsOf
<1> USE DEF SeenNone, Jump, Finish, SemTypeOK, Half, BeforeWait, Adjusted
<1>1. ASSUME NEW t \in Clients, Ask(t) \/ Release(t)
      PROVE  SeenNone'
  BY <1>1, <1>a DEF Ask, Release
<1>2. ASSUME NEW t \in Clients, TakeAtOnce(t) \/ GiveUpAtOnce(t) \/ Flag(t)
               \/ WaitOnHalf(t) \/ TimerEnds(t) \/ WakeUnasked(t)
               \/ TakeAfterWait(t) \/ Expire(t) \/ Unlist(t)
      PROVE  SeenNone'
  <2>1. CASE Flag(t)
    <3>1. amount[t] # 1
      BY <2>1, <1>a, <1>m DEF Flag
    <3> QED
      BY <2>1, <1>a, <3>1 DEF Flag
  <2> QED
    BY <1>2, <2>1, <1>a DEF TakeAtOnce, GiveUpAtOnce, WaitOnHalf, TimerEnds,
             WakeUnasked, TakeAfterWait, Expire, Unlist
<1>3. ASSUME NEW t \in Clients, MustWait(t) \/ WaitAgain(t)
      PROVE  SeenNone'
  <2>1. at[t] # "idle" /\ u.low < amount[t]
    BY <1>3 DEF MustWait, WaitAgain
  <2>2. amount[t] = 1 => Half(t) = 0
    BY <2>1, <1>u
  <2> HIDE DEF Half
  <2> QED
    BY <1>3, <2>2, <1>a DEF MustWait, WaitAgain
<1>4. ASSUME NEW t \in Clients, Enlist(t) PROVE SeenNone'
  BY <1>4, <1>a DEF Enlist
<1>5. ASSUME NEW t \in Clients, WakeOp(t) PROVE SeenNone'
  BY <1>5, <1>a DEF WakeOp, WakeAndReturn, AsleepOnLow, AsleepOnHigh
<1>6. CASE UNCHANGED semVars
  BY <1>6 DEF semVars
<1> QED
  BY <1>1, <1>2, <1>3, <1>4, <1>5, <1>6 DEF SemNext, Work


\* A single-token sleeper is a waiter, so that the next release() sees it.
LEMMA SleeperIsSeen ==
  ASSUME SemInv, AsleepOnLow # {} PROVE NeedsWake(u)
<1>1. PICK s \in Clients : at[s] = "asleep"
  BY DEF AsleepOnLow
<1>2. s \in Waiters
  BY <1>1 DEF Waiters, Enlisted
<1>3. Cardinality(Waiters) > 0 /\ Cardinality(Waiters) \in Nat
  BY <1>2, WaitersCount, SemaphoreAssumption, FS_CardinalityType
     DEF SemInv, TInv
<1>4. u.low \in Nat /\ u.high \in Nat
  BY SemaphoreAssumption DEF SemInv, TInv, SemTypeOK, SemWord
<1> QED
  BY <1>3, <1>4 DEF NeedsWake, SemInv, Accounted

\* A release() that sees a sleeper promises as many wake-ups as it adds tokens.
LEMMA ReleaseKeepsClaims ==
  ASSUME NoWrap, SInv, NEW t \in Clients, Release(t), TInv'
  PROVE  NoStrandedToken'
<1>a. SemTypeOK /\ Locals /\ NoStrandedToken
  BY DEF SInv, SemInv, TInv
<1>c. Counts /\ Counts'
  BY CountsAreFinite, PTL
<1> SUFFICES ASSUME AsleepOnLow' # {}
             PROVE  u'.low <= Cardinality(Promised') + Cardinality(Looking')
  BY DEF NoStrandedToken
<1>1. PICK n \in Amounts :
        /\ u.low + n <= MaxAvail
        /\ u' = [Added(n, 0) EXCEPT !.wakeAll = 0]
        /\ amount' = [amount EXCEPT ![t] = IF NeedsWake(u) THEN n ELSE 0]
  BY DEF Release
<1>n. n \in 1..IntMax /\ n \in Nat
  BY SemaphoreAssumption
<1>u. u \in SemWord /\ u.low \in Nat /\ u.low + n \in 0..IntMax
  BY <1>a, <1>1, <1>n, SemaphoreAssumption DEF SemTypeOK, SemWord
<1>2. u'.low = u.low + n
  <2>1. n \in -IntMax..IntMax
    BY <1>n, SemaphoreAssumption
  <2>2. Added(n, 0) \in SemWord /\ Added(n, 0).low = u.low + n
    BY <2>1, <1>u, WordClosed
  <2> QED
    BY <2>2, <1>1 DEF SemWord
<1>3. at[t] = "idle" /\ AsleepOnLow # {}
  BY <1>a DEF Release, AsleepOnLow, SemTypeOK, Jump
<1>4. NeedsWake(u)
  BY <1>3, SleeperIsSeen DEF SInv
<1>5. at' = [at EXCEPT ![t] = "wakeOp"] /\ amount' = [amount EXCEPT ![t] = n]
  BY <1>1, <1>4 DEF Release, Jump
<1>6. Looking' = Looking
  BY <1>5, <1>3, <1>a DEF Looking, SemTypeOK
<1>7. /\ Promised' = Promised \cup ({t} \X (1..n))
      /\ Promised \cap ({t} \X (1..n)) = {}
  <2>1. \A i \in Int : i \in 1..n <=> i \in 1..IntMax /\ i <= n
    BY <1>n, SemaphoreAssumption
  <2>2. ASSUME NEW p \in Clients \X (1..IntMax)
        PROVE  p \in Promised' <=> p \in Promised \/ p \in {t} \X (1..n)
    BY <2>1, <1>5, <1>3, <1>a DEF Promised, SemTypeOK
  <2>3. \A p : p \in {t} \X (1..n) => p \in Clients \X (1..IntMax)
    BY <2>1
  <2>4. \A p \in {t} \X (1..n) : p \notin Promised
    BY <1>3 DEF Promised
  <2> QED
    BY <2>2, <2>3, <2>4 DEF Promised
<1>8. Cardinality(Promised') = Cardinality(Promised) + n
  <2>1. IsFiniteSet({t} \X (1..n)) /\ Cardinality({t} \X (1..n)) = n
    BY <1>n, OnePromise
  <2>2. IsFiniteSet(Promised)
    BY <1>c DEF Counts
  <2>3. Cardinality(Promised \cup ({t} \X (1..n)))
          = Cardinality(Promised) + Cardinality({t} \X (1..n))
    BY <2>1, <2>2, <1>7, Disjoint
  <2> QED
    BY <2>1, <2>3, <1>7
<1>9. u.low <= Cardinality(Promised) + Cardinality(Looking)
  BY <1>3, <1>a DEF NoStrandedToken
<1> QED
  BY <1>2, <1>6, <1>8, <1>9, <1>c, <1>u, <1>n DEF Counts

\* FUTEX_WAKE_OP wakes what was promised, or everybody.
LEMMA WakeOpKeepsClaims ==
  ASSUME SInv, NEW t \in Clients, WakeOp(t)
  PROVE  NoStrandedToken'
<1>a. SemTypeOK /\ Locals /\ NoStrandedToken
  BY DEF SInv, SemInv, TInv
<1>c. Counts /\ Counts'
  BY CountsAreFinite, PTL
<1> SUFFICES ASSUME AsleepOnLow' # {}
             PROVE  u'.low <= Cardinality(Promised') + Cardinality(Looking')
  BY DEF NoStrandedToken
<1> DEFINE n == amount[t]
<1>n. n \in 1..IntMax /\ n \in Nat /\ at[t] = "wakeOp"
  <2>1. n \in Amounts /\ at[t] = "wakeOp"
    BY <1>a DEF WakeOp, Locals, LocalsOf
  <2>2. \A k \in Amounts : k \in 1..IntMax /\ k \in Nat
    BY SemaphoreAssumption
  <2> QED
    BY <2>1, <2>2
<1>u. u.low \in Nat /\ u' = u
  BY <1>a, SemaphoreAssumption DEF SemTypeOK, SemWord, WakeOp, WakeAndReturn
<1>1. PICK S \in SUBSET AsleepOnLow :
        /\ Cardinality(S) = Min({n, Cardinality(AsleepOnLow)})
        /\ WakeAndReturn(t, S \cup IF HighIsZero(u) THEN {} ELSE AsleepOnHigh)
  BY DEF WakeOp
<1> HIDE DEF n
<1> DEFINE H == IF HighIsZero(u) THEN {} ELSE AsleepOnHigh
<1>h. \A v \in H : v \in Clients /\ at[v] = "asleep" /\ amount[v] > 1
  BY DEF AsleepOnHigh
<1>2. /\ at' = [v \in Clients |-> IF v = t THEN "idle"
                                  ELSE IF v \in S \cup H THEN "retry" ELSE at[v]]
      /\ amount' = [amount EXCEPT ![t] = 0]
  BY <1>1 DEF WakeAndReturn
<1> HIDE DEF H
<1>s. \A v \in S : v \in Clients /\ at[v] = "asleep" /\ amount[v] = 1 /\ v # t
  BY <1>n DEF AsleepOnLow
<1>3. AsleepOnLow' \subseteq AsleepOnLow \ S
  BY <1>2, <1>a DEF AsleepOnLow, SemTypeOK
<1>4. S # AsleepOnLow /\ AsleepOnLow # {}
  BY <1>3
<1>5. Cardinality(S) = n
  <2>1. Cardinality(S) # Cardinality(AsleepOnLow)
    BY <1>4, <1>c, FS_Subset DEF Counts
  <2>2. Min({n, Cardinality(AsleepOnLow)}) \in {n, Cardinality(AsleepOnLow)}
    <3> DEFINE b == Cardinality(AsleepOnLow)
    <3>1. b \in Nat
      BY <1>c DEF Counts
    <3> HIDE DEF b
    <3>2. \E x \in {n, b} : \A y \in {n, b} : x <= y
      BY <3>1, <1>n
    <3> QED
      BY <3>2 DEF Min, b
  <2> QED
    BY <2>1, <2>2, <1>1
<1>6. Looking' = Looking \cup S /\ Looking \cap S = {}
  <2>1. ASSUME NEW v \in Clients
        PROVE  v \in Looking' <=> v \in Looking \/ v \in S
    <3>1. CASE v = t
      BY <3>1, <1>2, <1>n, <1>s, <1>a DEF Looking, SemTypeOK
    <3>2. CASE v # t /\ v \in S
      BY <3>2, <1>2, <1>s, <1>a DEF Looking, SemTypeOK
    <3>3. CASE v # t /\ v \notin S /\ v \in H
      <4>1. amount'[v] = amount[v] /\ amount[v] > 1
        BY <3>3, <1>2, <1>h, <1>a DEF SemTypeOK
      <4>2. amount[v] # 1
        BY <4>1
      <4> QED
        BY <4>1, <4>2, <3>3 DEF Looking
    <3>4. CASE v # t /\ v \notin S /\ v \notin H
      BY <3>4, <1>2, <1>a DEF Looking, SemTypeOK
    <3> QED
      BY <3>1, <3>2, <3>3, <3>4
  <2>2. \A v \in S : v \notin Looking
    BY <1>s DEF Looking
  <2> QED
    BY <2>1, <2>2, <1>s DEF Looking
<1>7. IsFiniteSet(S)
  BY <1>c, FS_Subset DEF Counts
<1>8. Cardinality(Looking') = Cardinality(Looking) + n
  BY <1>5, <1>6, <1>7, <1>c, Disjoint DEF Counts
<1>9. /\ Promised = Promised' \cup ({t} \X (1..n))
      /\ Promised' \cap ({t} \X (1..n)) = {}
  <2>1. \A i \in Int : i \in 1..n <=> i \in 1..IntMax /\ i <= n
    BY <1>n, SemaphoreAssumption
  <2>p. \A v \in Clients : v # t => /\ at'[v] = "wakeOp" <=> at[v] = "wakeOp"
                                    /\ amount'[v] = amount[v]
    BY <1>2, <1>s, <1>h, <1>a DEF SemTypeOK
  <2>q. at'[t] = "idle"
    BY <1>2
  <2>2. ASSUME NEW p \in Clients \X (1..IntMax)
        PROVE  p \in Promised <=> p \in Promised' \/ p \in {t} \X (1..n)
    BY <2>1, <2>p, <2>q, <1>n DEF Promised, n
  <2>3. \A p : p \in {t} \X (1..n) => p \in Clients \X (1..IntMax)
    BY <2>1
  <2>4. \A p \in {t} \X (1..n) : p \notin Promised'
    BY <2>q DEF Promised
  <2> QED
    BY <2>2, <2>3, <2>4 DEF Promised
<1>10. Cardinality(Promised) = Cardinality(Promised') + n
  <2>1. IsFiniteSet({t} \X (1..n)) /\ Cardinality({t} \X (1..n)) = n
    BY <1>n, OnePromise
  <2>2. IsFiniteSet(Promised')
    BY <1>c DEF Counts
  <2>3. Cardinality(Promised' \cup ({t} \X (1..n)))
          = Cardinality(Promised') + Cardinality({t} \X (1..n))
    BY <2>1, <2>2, <1>9, Disjoint
  <2> QED
    BY <2>1, <2>3, <1>9
<1>11. u.low <= Cardinality(Promised) + Cardinality(Looking)
  BY <1>4, <1>a DEF NoStrandedToken
<1> QED
  BY <1>8, <1>10, <1>11, <1>c, <1>u, <1>n DEF Counts


LEMMA NextNoStranded ==
  ASSUME NoWrap, SInv, [SemNext]_semVars PROVE NoStrandedToken'
<1>a. SemTypeOK /\ Locals /\ SeenNone /\ NoStrandedToken
  BY DEF SInv, SemInv, TInv
<1>t. TInv'
  BY NextTInv DEF SInv, SemInv
<1>u. u.low \in Nat /\ u'.low \in Nat
  BY <1>a, <1>t, SemaphoreAssumption DEF TInv, SemTypeOK, SemWord
<1>c. Counts /\ Counts'
  BY CountsAreFinite, PTL
<1>m. \A t \in Clients : at[t] # "idle" => amount[t] \in Nat \ {0}
  <2>1. \A n \in Amounts : n \in Nat \ {0}
    BY SemaphoreAssumption
  <2> QED
    BY <2>1, <1>a DEF Locals, LocalsOf
<1> USE DEF Jump, Finish, SemTypeOK
\* The steps of a thread that is none of those counted, and becomes none but
\* one that looks.
<1>1. ASSUME NEW t \in Clients, u'.low <= u.low,
             \A v \in Clients \ {t} : at'[v] = at[v] /\ amount'[v] = amount[v],
             at[t] # "wakeOp", at[t] = "retry" => amount[t] # 1,
             ~(at'[t] = "asleep" /\ amount'[t] = 1)
      PROVE  NoStrandedToken'
  <2>1. AsleepOnLow' \subseteq AsleepOnLow
    BY <1>1 DEF AsleepOnLow
  <2>2. Looking \subseteq Looking'
    BY <1>1 DEF Looking
  <2>3. Promised \subseteq Promised'
    <3>1. \A p \in Promised : p \in Clients \X (1..IntMax) /\ p[1] # t
      BY <1>1 DEF Promised
    <3>2. \A p \in Promised : /\ at'[p[1]] = "wakeOp" /\ p[2] <= amount'[p[1]]
                              /\ p \in Clients \X (1..IntMax)
      BY <3>1, <1>1 DEF Promised
    <3> QED
      BY <3>2 DEF Promised
  <2>4. AsleepOnLow' # {} => AsleepOnLow # {}
    BY <2>1
  <2> QED
    BY <2>2, <2>3, <2>4, <1>1, <1>a, <1>u, StillClaimed
<1>2. ASSUME NEW t \in Clients,
             Ask(t) \/ GiveUpAtOnce(t) \/ MustWait(t) \/ TimerEnds(t)
               \/ WakeUnasked(t)
      PROVE  NoStrandedToken'
  <2>1. /\ at[t] \notin {"wakeOp", "retry"} /\ at'[t] # "asleep" /\ u' = u
        /\ \A v \in Clients \ {t} : at'[v] = at[v] /\ amount'[v] = amount[v]
    BY <1>2, <1>a DEF Ask, GiveUpAtOnce, MustWait, TimerEnds, WakeUnasked
  <2>2. u'.low <= u.low
    BY <2>1, <1>u
  <2> QED
    BY <2>1, <2>2, <1>1
<1>3. ASSUME NEW t \in Clients, Enlist(t) \/ Flag(t) \/ Unlist(t)
      PROVE  NoStrandedToken'
  <2>1. /\ at[t] \notin {"wakeOp", "retry"} /\ at'[t] # "asleep"
        /\ \A v \in Clients \ {t} : at'[v] = at[v] /\ amount'[v] = amount[v]
    BY <1>3, <1>a DEF Enlist, Flag, Unlist, BeforeWait
  <2>2. u \in SemWord /\ u.low \in 0..IntMax
    BY <1>a DEF SemWord
  <2>3. u'.low <= u.low
    <3>1. CASE Enlist(t)
      BY <3>1, <2>2, <1>u, WordClosed, SemaphoreAssumption DEF Enlist
    <3>2. CASE Unlist(t)
      BY <3>2, <2>2, <1>u, WordClosed, SemaphoreAssumption DEF Unlist
    <3>3. CASE Flag(t)
      BY <3>3, <2>2, <1>u DEF Flag, SemWord
    <3> QED
      BY <1>3, <3>1, <3>2, <3>3
  <2> QED
    BY <2>1, <2>3, <1>1
<1>4. ASSUME NEW t \in Clients, TakeAtOnce(t) PROVE NoStrandedToken'
  <2>1. /\ at[t] = "try" /\ at'[t] = "idle"
        /\ u.low >= amount[t] /\ u' = Added(-amount[t], 0)
        /\ \A v \in Clients \ {t} : at'[v] = at[v] /\ amount'[v] = amount[v]
    BY <1>4, <1>a DEF TakeAtOnce
  <2>2. u'.low = u.low - amount[t]
    BY <2>1, TakeClosed DEF SInv, SemInv
  <2>3. u'.low <= u.low
    BY <2>1, <2>2, <1>u, <1>m
  <2> QED
    BY <2>1, <2>3, <1>1
<1>5. ASSUME NEW t \in Clients, TakeAfterWait(t) PROVE NoStrandedToken'
  <2>1. /\ at[t] = "retry" /\ at' = [at EXCEPT ![t] = "idle"]
        /\ amount' = [amount EXCEPT ![t] = 0]
        /\ u.low >= amount[t] /\ u' = Added(-amount[t], -1)
    BY <1>5, <1>a DEF TakeAfterWait
  <2>2. u'.low = u.low - amount[t] /\ amount[t] \in Nat \ {0}
    BY <2>1, <1>m, TakeClosed DEF SInv, SemInv
  <2>3. CASE amount[t] # 1
    <3>1. u'.low <= u.low
      BY <2>2, <1>u
    <3> QED
      BY <2>1, <2>3, <3>1, <1>a, <1>1
  <2>4. CASE amount[t] = 1
    <3>1. Looking' = Looking \ {t} /\ t \in Looking
      BY <2>1, <2>4, <1>a DEF Looking
    <3>2. Cardinality(Looking') = Cardinality(Looking) - 1
      BY <3>1, <1>c, FS_RemoveElement DEF Counts
    <3>3. Promised' = Promised
      <4>1. \A v \in Clients : /\ at'[v] = "wakeOp" <=> at[v] = "wakeOp"
                               /\ at[v] = "wakeOp" => amount'[v] = amount[v]
        BY <2>1, <1>a
      <4> QED
        BY <4>1 DEF Promised
    <3>4. AsleepOnLow' \subseteq AsleepOnLow
      BY <2>1, <1>a DEF AsleepOnLow
    <3>5. u'.low = u.low - 1
      BY <2>2, <2>4
    <3> SUFFICES ASSUME AsleepOnLow' # {}
                 PROVE  u'.low <= Cardinality(Promised') + Cardinality(Looking')
      BY DEF NoStrandedToken
    <3>6. u.low <= Cardinality(Promised) + Cardinality(Looking)
      BY <3>4, <1>a DEF NoStrandedToken
    <3> QED
      BY <3>2, <3>3, <3>5, <3>6, <1>u, <1>c DEF Counts
  <2> QED
    BY <2>3, <2>4
<1>6. ASSUME NEW t \in Clients, WaitAgain(t) \/ Expire(t)
      PROVE  NoStrandedToken'
  <2>1. /\ at[t] = "retry" /\ at'[t] # "asleep" /\ u' = u /\ u.low < amount[t]
        /\ \A v \in Clients \ {t} : at'[v] = at[v] /\ amount'[v] = amount[v]
    BY <1>6, <1>a DEF WaitAgain, Expire, BeforeWait
  <2>2. CASE amount[t] = 1
    <3>1. u'.low = 0
      BY <2>1, <2>2, <1>u
    <3> QED
      BY <3>1, NothingToStrand
  <2>3. CASE amount[t] # 1
    <3>1. u'.low <= u.low
      BY <2>1, <1>u
    <3> QED
      BY <2>1, <2>3, <3>1, <1>1
  <2> QED
    BY <2>2, <2>3
<1>7. ASSUME NEW t \in Clients, WaitOnHalf(t) PROVE NoStrandedToken'
  <2>1. /\ at[t] = "futexWait" /\ u' = u /\ amount' = amount
        /\ \A v \in Clients \ {t} : at'[v] = at[v]
        /\ at'[t] = IF Unchanged(t) THEN "asleep" ELSE "retry"
    BY <1>7, <1>a DEF WaitOnHalf
  <2>2. CASE amount[t] = 1 /\ Unchanged(t)
    <3>1. u.low = cur[t] /\ cur[t] = 0
      BY <2>1, <2>2, <1>a DEF Unchanged, Half, SeenNone
    <3> QED
      BY <2>1, <3>1, NothingToStrand
  <2>3. CASE ~(amount[t] = 1 /\ Unchanged(t))
    <3>1. u'.low <= u.low
      BY <2>1, <1>u
    <3> QED
      BY <2>1, <2>3, <3>1, <1>1
  <2> QED
    BY <2>2, <2>3
<1>8. ASSUME NEW t \in Clients, Release(t) PROVE NoStrandedToken'
  BY <1>8, <1>t, ReleaseKeepsClaims
<1>9. ASSUME NEW t \in Clients, WakeOp(t) PROVE NoStrandedToken'
  BY <1>9, WakeOpKeepsClaims
<1>10. CASE UNCHANGED semVars
  <2>1. UNCHANGED <<AsleepOnLow, Looking, Promised, u>>
    BY <1>10 DEF semVars, AsleepOnLow, Looking, Promised
  <2> QED
    BY <2>1, <1>a DEF NoStrandedToken
<1> QED
  BY <1>2, <1>3, <1>4, <1>5, <1>6, <1>7, <1>8, <1>9, <1>10 DEF SemNext, Work

\* No token stays with a sleeper: while a single-token waiter sleeps, a
\* release() on its way to the kernel or a woken waiter accounts for every
\* available token, whatever is stolen, times out or wakes for no reason.
THEOREM NoStrandedTokenHolds == ASSUME NoWrap PROVE SemSpec => []NoStrandedToken
<1>1. SemInit => SInv
  <2> SUFFICES ASSUME SemInit PROVE SInv
    OBVIOUS
  <2>1. AsleepOnLow = {} /\ SeenNone
    BY DEF SemInit, AsleepOnLow, SeenNone
  <2> QED
    BY <2>1, InitSemInv DEF SInv, NoStrandedToken
<1>2. SInv /\ [SemNext]_semVars => SInv'
  <2> SUFFICES ASSUME SInv, [SemNext]_semVars PROVE SInv'
    OBVIOUS
  <2>1. SemInv'
    BY NextTInv, NextSemInv DEF SInv, SemInv
  <2> QED
    BY <2>1, NextSeenNone, NextNoStranded DEF SInv
<1>3. SInv => NoStrandedToken
  BY DEF SInv
<1> QED
  BY <1>1, <1>2, <1>3, PTL DEF SemSpec

-----------------------------------------------------------------------------
(* The refinement.                                                         *)

LEMMA InitAbstract == SemInit => Counting!Init
  BY DEF SemInit, Counting!Init, Counting!NoRequest

LEMMA NextAbstract ==
  ASSUME NoWrap, SemInv, [SemNext]_semVars
  PROVE  [Counting!Next]_(Counting!vars)
<1> DEFINE request == [t \in Clients |->
                         [kind   |-> kind[t],
                          amount |-> IF kind[t] = "none" THEN 0 ELSE amount[t]]]
<1>a. SemTypeOK /\ Locals /\ Accounted
  BY DEF SemInv, TInv
<1>l. u.low \in Nat
  BY <1>a, SemaphoreAssumption DEF SemTypeOK, SemWord
<1>m. \A t \in Clients : at[t] # "idle" => amount[t] \in 1..IntMax
  BY <1>a, SemaphoreAssumption DEF Locals, LocalsOf
<1>b. /\ u.low \in Nat
      /\ \A t \in Clients : at[t] # "idle" => amount[t] \in Nat \ {0}
  <2>1. \A n \in 1..IntMax : n \in Nat \ {0}
    BY SemaphoreAssumption
  <2> QED
    BY <1>l, <1>m, <2>1
<1> USE DEF Jump, Finish, SemTypeOK, SemPlaces, Counting!vars
<1>1. ASSUME u'.low = u.low, kind' = kind,
             \A t \in Clients : kind[t] # "none" => amount'[t] = amount[t]
      PROVE  UNCHANGED Counting!vars
  <2>1. request' = request
    BY <1>1
  <2> QED
    BY <2>1, <1>1
<1>2. ASSUME NEW t \in Clients, Ask(t) PROVE Counting!Next
  <2>1. PICK k \in Kinds, n \in Amounts :
          /\ kind' = [kind EXCEPT ![t] = k]
          /\ amount' = [amount EXCEPT ![t] = n]
    BY <1>2 DEF Ask
  <2>2. kind[t] = "none" /\ u' = u
    BY <1>2, <1>a DEF Ask, Locals, LocalsOf
  <2>3. request' = [request EXCEPT ![t] = [kind |-> k, amount |-> n]]
    BY <2>1, <2>2, <1>a DEF Kinds
  <2> QED
    BY <2>1, <2>2, <2>3 DEF Counting!Next, Counting!Ask, Counting!NoRequest,
                            Counting!Kinds, Kinds
<1>3. ASSUME NEW t \in Clients, kind[t] # "none", Finish(t)
      PROVE  /\ request[t] = [kind |-> kind[t], amount |-> amount[t]]
             /\ request' = [request EXCEPT ![t] = Counting!NoRequest]
  BY <1>3, <1>a DEF Counting!NoRequest
<1>4. ASSUME NEW t \in Clients, TakeAtOnce(t) \/ TakeAfterWait(t)
      PROVE  Counting!Next
  <2>1. /\ at[t] # "idle" /\ kind[t] # "none" /\ u.low >= amount[t] /\ Finish(t)
        /\ \E w \in -1..0 : u' = Added(-amount[t], w)
    BY <1>4, <1>a DEF TakeAtOnce, TakeAfterWait, Locals, LocalsOf
  <2>2. u'.low = u.low - amount[t]
    BY <2>1, TakeClosed DEF SemInv
  <2>3. amount[t] \in Nat \ {0} /\ u.low \in Nat
    BY <2>1, <1>b
  <2> QED
    BY <2>1, <2>2, <2>3, <1>3 DEF Counting!Next, Counting!Grant, Counting!NoRequest
<1>5. ASSUME NEW t \in Clients, GiveUpAtOnce(t) PROVE Counting!Next
  <2>1. /\ u.low < amount[t] /\ kind[t] \in {"try", "timed"} /\ Finish(t)
        /\ UNCHANGED u
    BY <1>5, <1>a DEF GiveUpAtOnce, Locals, LocalsOf, Kinds
  <2> QED
    BY <2>1, <1>3 DEF Counting!Next, Counting!Refuse
<1>6. ASSUME NEW t \in Clients, MustWait(t) PROVE UNCHANGED Counting!vars
  <2>1. t \notin Waiters
    BY <1>6, <1>a DEF MustWait, Waiters, Enlisted
  <2>2. u.high # IntMax
    BY <2>1, <1>a, <1>b, WaitersCount, SemaphoreAssumption, FS_CardinalityType
       DEF Accounted, NoWrap, SemWord
  <2> QED
    BY <1>6, <1>1, <2>2 DEF MustWait
<1>7. ASSUME NEW t \in Clients,
             Flag(t) \/ WaitOnHalf(t) \/ WakeUnasked(t) \/ TimerEnds(t)
               \/ WaitAgain(t) \/ Expire(t)
      PROVE  UNCHANGED Counting!vars
  <2>1. u'.low = u.low
    BY <1>7, <1>a DEF Flag, WaitOnHalf, WakeUnasked, TimerEnds, WaitAgain,
                      Expire, SemWord
  <2>2. kind' = kind /\ amount' = amount
    BY <1>7 DEF Flag, WaitOnHalf, WakeUnasked, TimerEnds, WaitAgain, Expire
  <2> QED
    BY <2>1, <2>2, <1>1
<1>8. ASSUME NEW t \in Clients, Enlist(t) PROVE UNCHANGED Counting!vars
  <2>1. u'.low = u.low
    BY <1>8, <1>a, WordClosed, SemaphoreAssumption DEF Enlist, SemWord
  <2> QED
    BY <2>1, <1>8, <1>1 DEF Enlist
<1>9. ASSUME NEW t \in Clients, Unlist(t) PROVE Counting!Next
  <2>1. u'.low = u.low
    BY <1>9, <1>a, WordClosed, SemaphoreAssumption DEF Unlist, SemWord
  <2>2. kind[t] = "timed" /\ Finish(t)
    BY <1>9, <1>a DEF Unlist, Locals, LocalsOf
  <2> QED
    BY <2>1, <2>2, <1>3 DEF Counting!Next, Counting!Refuse
<1>10. ASSUME NEW t \in Clients, Release(t) PROVE Counting!Next
  <2>1. PICK n \in Amounts :
          /\ u.low + n <= MaxAvail
          /\ u' = [Added(n, 0) EXCEPT !.wakeAll = 0]
          /\ amount' = [amount EXCEPT ![t] = IF NeedsWake(u) THEN n ELSE 0]
    BY <1>10 DEF Release
  <2>2. Added(n, 0) \in SemWord /\ Added(n, 0).low = u.low + n
    BY <2>1, <1>a, WordClosed, SemaphoreAssumption DEF SemWord
  <2>3. u'.low = u.low + n
    BY <2>1, <2>2 DEF SemWord
  <2>4. kind[t] = "none" /\ kind' = kind
    BY <1>10, <1>a DEF Release, Locals, LocalsOf
  <2>5. request' = request /\ request[t] = Counting!NoRequest
    BY <2>1, <2>4, <1>a DEF Counting!NoRequest
  <2> QED
    BY <2>1, <2>3, <2>5 DEF Counting!Next, Counting!Release
<1>11. ASSUME NEW t \in Clients, WakeOp(t) PROVE UNCHANGED Counting!vars
  <2>1. kind[t] = "none" /\ amount' = [amount EXCEPT ![t] = 0] /\ kind' = kind
        /\ UNCHANGED u
    BY <1>11, <1>a DEF WakeOp, WakeAndReturn, Locals, LocalsOf
  <2> QED
    BY <2>1, <1>a, <1>1
<1>12. CASE UNCHANGED semVars
  BY <1>12, <1>1 DEF semVars
<1> QED
  BY <1>2, <1>4, <1>5, <1>6, <1>7, <1>8, <1>9, <1>10, <1>11, <1>12 DEF SemNext, Work

\* Every behaviour of the futex code is one of the counting semaphore: tokens
\* are taken in one step and only when they are there, acquire() is never
\* refused, tryAcquire(n) only when there are too few.
THEOREM SemImplements == ASSUME NoWrap PROVE SemSpec => SemRefinement
<1>1. SemInv /\ [SemNext]_semVars => [Counting!Next]_(Counting!vars)
  BY NextAbstract
<1> QED
  BY <1>1, InitAbstract, SemInvHolds, PTL DEF SemSpec, SemRefinement, Counting!Spec

=============================================================================

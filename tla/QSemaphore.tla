----------------------------- MODULE QSemaphore -----------------------------
(***************************************************************************)
(* QSemaphore on 64-bit Linux (src/corelib/thread/qsemaphore.cpp): one     *)
(* 64-bit word and a futex.  The low half holds the available tokens, the  *)
(* low 31 bits of the high half hold tokens PLUS waiters, and bit 63 says  *)
(* that a waiter for several tokens wants the next release to wake it.     *)
(* Waiters for one token sleep on the low half, the others on the high     *)
(* half; release(n) wakes n of the former and all of the latter with one   *)
(* FUTEX_WAKE_OP.                                                          *)
(*                                                                         *)
(* One action per successful atomic access to the word or futex call: the  *)
(* compare-and-swap loops retry until they act on the current value, so    *)
(* each is one atomic conditional update.  Memory is sequentially          *)
(* consistent.  A timer may expire whenever the code looks at it.          *)
(*                                                                         *)
(* Names that the mutexes' modules use are others here, since Futex_proofs *)
(* extends both.                                                           *)
(***************************************************************************)
EXTENDS Integers, FiniteSets, FiniteSetsExt

CONSTANTS
  Clients,    \* the threads that share the semaphore
  Amounts,    \* the arguments n they call with
  Initial,    \* the constructor's argument
  MaxAvail,   \* contract: callers never raise available() above this
  IntMax      \* INT_MAX: the largest value of a 31-bit field

ASSUME SemaphoreAssumption ==
  /\ IsFiniteSet(Clients)
  /\ IntMax \in Nat \ {0}
  /\ MaxAvail \in 0..IntMax
  /\ Initial \in 0..MaxAvail
  /\ Amounts \subseteq 1..IntMax

VARIABLES
  u,        \* QSemaphore::u
  at,       \* where each thread is in the semaphore's code
  kind,     \* which call it is in: acquire(n), tryAcquire(n), ... (n, timer)
  amount,   \* the n of that call
  cur       \* the half of the local curValue that futexWait() compares

semVars == <<u, at, kind, amount, cur>>

SemWord == [low : 0..IntMax, high : 0..IntMax, wakeAll : 0..1]
Kinds == {"acquire", "try", "timed"}     \* release() has the kind "none"

SemPlaces == {"idle", "try", "enlist", "mark", "futexWait", "asleep", "retry",
              "unlist", "wakeOp"}

\* The threads counted in the high half.
Enlisted == {"mark", "futexWait", "asleep", "retry", "unlist"}
Waiters  == {t \in Clients : at[t] \in Enlisted}

-----------------------------------------------------------------------------
(* Arithmetic on the word: a carry out of the 31 bits of the sum, or a     *)
(* borrow into them, flips bit 63.                                         *)

Packed(low, high, bit) ==
  IF high > IntMax
  THEN [low |-> low, high |-> high - (IntMax + 1), wakeAll |-> 1 - bit]
  ELSE IF high < 0
  THEN [low |-> low, high |-> high + (IntMax + 1), wakeAll |-> 1 - bit]
  ELSE [low |-> low, high |-> high, wakeAll |-> bit]

\* u with that many tokens and that many waiters more.
Added(tokens, waiters) ==
  Packed(u.low + tokens, u.high + tokens + waiters, u.wakeAll)

\* futexNeedsWake(): the whole high half, bit 63 included, against the low.
NeedsWake(w) == w.wakeAll = 1 \/ w.high > w.low

\* A word whose high half is all zero.
HighIsZero(w) == w.high = 0 /\ w.wakeAll = 0

-----------------------------------------------------------------------------
SemInit ==
  /\ u      = [low |-> Initial, high |-> Initial, wakeAll |-> 0]
  /\ at     = [t \in Clients |-> "idle"]
  /\ kind   = [t \in Clients |-> "none"]
  /\ amount = [t \in Clients |-> 0]
  /\ cur    = [t \in Clients |-> 0]

Jump(t, there) == at' = [at EXCEPT ![t] = there]

\* The half of the word that t sleeps on: bit 63 is ORed into the copy of the
\* high half before it is compared, so the copy need not hold it.
Half(t) == IF amount[t] > 1 THEN u.high ELSE u.low

\* The call ends and its locals go out of scope.
Finish(t) ==
  /\ Jump(t, "idle")
  /\ kind'   = [kind EXCEPT ![t] = "none"]
  /\ amount' = [amount EXCEPT ![t] = 0]
  /\ cur'    = [cur EXCEPT ![t] = 0]

-----------------------------------------------------------------------------
(* acquire(n), tryAcquire(n), tryAcquire(n, timer)                         *)

Ask(t) ==
  /\ at[t] = "idle"
  /\ \E k \in Kinds, n \in Amounts :
       /\ kind' = [kind EXCEPT ![t] = k]
       /\ amount' = [amount EXCEPT ![t] = n]
  /\ Jump(t, "try")
  /\ UNCHANGED <<u, cur>>

\* futexSemaphoreTryAcquire(): the first loop succeeds ...
TakeAtOnce(t) ==
  /\ at[t] = "try"
  /\ u.low >= amount[t]
  /\ u' = Added(-amount[t], 0)
  /\ Finish(t)

\* ... or reads a word with too few tokens and the call may not wait ...
GiveUpAtOnce(t) ==
  /\ at[t] = "try"
  /\ u.low < amount[t]
  /\ kind[t] # "acquire"
  /\ Finish(t)
  /\ UNCHANGED u

\* ... or has to wait, unless the high half it read is full: that is reported
\* as an overflow of the waiter count, although it holds tokens plus waiters.
MustWait(t) ==
  /\ at[t] = "try"
  /\ u.low < amount[t]
  /\ kind[t] # "try"
  /\ IF u.high = IntMax
     THEN Finish(t)
     ELSE /\ cur' = [cur EXCEPT ![t] = Half(t)]
          /\ Jump(t, "enlist")
          /\ UNCHANGED <<kind, amount>>
  /\ UNCHANGED u

\* Waiters for several tokens first publish bit 63.
BeforeWait(t) == IF amount[t] > 1 THEN "mark" ELSE "futexWait"

\* The local copy is adjusted for the new waiter, it is not read again.
Adjusted(t) == IF amount[t] > 1 THEN cur[t] + 1 ELSE cur[t]

\* u.fetchAndAdd(oneWaiter)
Enlist(t) ==
  /\ at[t] = "enlist"
  /\ u' = Added(0, 1)
  /\ cur' = [cur EXCEPT ![t] = Adjusted(t)]
  /\ Jump(t, BeforeWait(t))
  /\ UNCHANGED <<kind, amount>>

-----------------------------------------------------------------------------
(* futexSemaphoreTryAcquire_loop()                                         *)

Flag(t) ==
  /\ at[t] = "mark"
  /\ u' = [u EXCEPT !.wakeAll = 1]
  /\ Jump(t, "futexWait")
  /\ UNCHANGED <<kind, amount, cur>>

\* The half of the word the thread sleeps on is the one it last saw.
Unchanged(t) == Half(t) = cur[t] /\ (amount[t] > 1 => u.wakeAll = 1)

\* A mistaken WaitOnHalf: sleeping without comparing the word.
WaitOnHalfUnchecked(t) ==
  /\ at[t] = "futexWait"
  /\ Jump(t, "asleep")
  /\ cur' = [cur EXCEPT ![t] = 0]
  /\ UNCHANGED <<u, kind, amount>>

WaitOnHalf(t) ==
  /\ at[t] = "futexWait"
  /\ Jump(t, IF Unchanged(t) THEN "asleep" ELSE "retry")
  /\ cur' = [cur EXCEPT ![t] = 0]
  /\ UNCHANGED <<u, kind, amount>>

WakeUnasked(t) ==
  /\ at[t] = "asleep"
  /\ Jump(t, "retry")
  /\ UNCHANGED <<u, kind, amount, cur>>

TimerEnds(t) ==
  /\ at[t] = "asleep"
  /\ kind[t] = "timed"
  /\ Jump(t, "unlist")
  /\ UNCHANGED <<u, kind, amount, cur>>

\* The word is read again: take the tokens and leave the waiters at once ...
TakeAfterWait(t) ==
  /\ at[t] = "retry"
  /\ u.low >= amount[t]
  /\ u' = Added(-amount[t], -1)
  /\ Finish(t)

\* ... or wait again ...
WaitAgain(t) ==
  /\ at[t] = "retry"
  /\ u.low < amount[t]
  /\ cur' = [cur EXCEPT ![t] = Half(t)]
  /\ Jump(t, BeforeWait(t))
  /\ UNCHANGED <<u, kind, amount>>

\* A mistaken Expire: any waiter, with a timer or without one.
ExpireAny(t) ==
  /\ at[t] = "retry"
  /\ u.low < amount[t]
  /\ Jump(t, "unlist")
  /\ UNCHANGED <<u, kind, amount, cur>>

\* ... or find the timer expired.
Expire(t) ==
  /\ at[t] = "retry"
  /\ u.low < amount[t]
  /\ kind[t] = "timed"
  /\ Jump(t, "unlist")
  /\ UNCHANGED <<u, kind, amount, cur>>

Unlist(t) ==
  /\ at[t] = "unlist"
  /\ u' = Added(0, -1)
  /\ Finish(t)

-----------------------------------------------------------------------------
(* release(n)                                                              *)

\* Add the tokens to both halves and clear bit 63; go on to the kernel if
\* the word replaced had waiters in it.
Release(t) ==
  /\ at[t] = "idle"
  /\ \E n \in Amounts :
       /\ u.low + n <= MaxAvail
       /\ u' = [Added(n, 0) EXCEPT !.wakeAll = 0]
       /\ amount' = [amount EXCEPT ![t] = IF NeedsWake(u) THEN n ELSE 0]
  /\ Jump(t, IF NeedsWake(u) THEN "wakeOp" ELSE "idle")
  /\ UNCHANGED <<kind, cur>>

AsleepOnLow  == {t \in Clients : at[t] = "asleep" /\ amount[t] = 1}
AsleepOnHigh == {t \in Clients : at[t] = "asleep" /\ amount[t] > 1}

\* Wake the sleepers S and return.
WakeAndReturn(t, S) ==
  /\ at' = [v \in Clients |-> IF v = t THEN "idle"
                              ELSE IF v \in S THEN "retry" ELSE at[v]]
  /\ amount' = [amount EXCEPT ![t] = 0]
  /\ UNCHANGED <<u, kind, cur>>

\* A mistaken WakeOp: one single-token waiter woken, whatever the amount.
WakeOpOne(t) ==
  /\ at[t] = "wakeOp"
  /\ \E S \in SUBSET AsleepOnLow :
       /\ Cardinality(S) = Min({1, Cardinality(AsleepOnLow)})
       /\ WakeAndReturn(t, S \cup AsleepOnHigh)

\* FUTEX_WAKE_OP: up to n of the sleepers on the low half, the kernel's
\* choice, and, unless the high half is zero, all of those on the high half.
WakeOp(t) ==
  /\ at[t] = "wakeOp"
  /\ \E S \in SUBSET AsleepOnLow :
       /\ Cardinality(S) = Min({amount[t], Cardinality(AsleepOnLow)})
       /\ WakeAndReturn(t, S \cup IF HighIsZero(u) THEN {} ELSE AsleepOnHigh)

-----------------------------------------------------------------------------
\* The steps a thread inside the semaphore takes by itself.
Work(t) ==
  \/ TakeAtOnce(t) \/ GiveUpAtOnce(t) \/ MustWait(t)
  \/ Enlist(t) \/ Flag(t) \/ WaitOnHalf(t) \/ TimerEnds(t)
  \/ TakeAfterWait(t) \/ WaitAgain(t) \/ Expire(t) \/ Unlist(t)
  \/ WakeOp(t)

SemNext == \E t \in Clients : Ask(t) \/ Release(t) \/ Work(t) \/ WakeUnasked(t)

\* A runnable thread is scheduled eventually and a timer expires eventually.
\* Nobody has to call anything, and no sleeper is woken for no reason.
SemFairness == \A t \in Clients : WF_semVars(Work(t))

SemSpec == SemInit /\ [][SemNext]_semVars /\ SemFairness

-----------------------------------------------------------------------------
SemTypeOK ==
  /\ u \in SemWord
  /\ u.low <= MaxAvail
  /\ at \in [Clients -> SemPlaces]
  /\ kind \in [Clients -> Kinds \cup {"none"}]
  /\ amount \in [Clients -> Amounts \cup {0}]
  /\ cur \in [Clients -> 0..IntMax]

\* The high half counts the tokens and every enlisted thread exactly once,
\* through racing timeouts, successes and releases, modulo its 31 bits.
WaitersAccounted ==
  (u.high - u.low - Cardinality(Waiters)) % (IntMax + 1) = 0

\* The wake-ups that releases on their way to the kernel will ask for, and the
\* single-token waiters about to look at the word again.
Promised == {p \in Clients \X (1..IntMax) :
               at[p[1]] = "wakeOp" /\ p[2] <= amount[p[1]]}
Looking  == {t \in Clients : at[t] = "retry" /\ amount[t] = 1}

\* While a single-token waiter sleeps, every available token is already
\* somebody's business: a release about to enter the kernel will wake a
\* sleeper for it, or a woken thread is about to look.  No sequence of
\* timeouts, steals and spurious wake-ups leaves a token with a sleeper.
NoStrandedToken ==
  AsleepOnLow # {} => u.low <= Cardinality(Promised) + Cardinality(Looking)

\* The next release() enters the kernel for a sleeping multi-token waiter:
\* bit 63 is still set, or a release that cleared it is about to wake it.
BitCoversSleepers ==
  AsleepOnHigh # {} => u.wakeAll = 1 \/ \E t \in Clients : at[t] = "wakeOp"

\* "We tell the kernel to wake up n single-token threads and all of the
\* multi-token ones": a release that entered the kernel leaves none asleep.
WakesAllMulti ==
  [][\A t \in Clients :
       (at[t] = "wakeOp" /\ at'[t] = "idle") => AsleepOnHigh' = {}]_semVars

\* "This call will block until enough resources are available": a thread
\* does not stay in acquire() or tryAcquire() while they are.
NoStuckThread ==
  \A t \in Clients :
    []<>~(kind[t] # "none" /\ u.low >= amount[t])

\* The same for the waiters for one token, which sleep on the tokens alone:
\* whatever the other waiters, timeouts and releases do, they get to look.
NoStuckSingle ==
  \A t \in Clients :
    []<>~(kind[t] # "none" /\ amount[t] = 1 /\ u.low >= 1)

\* The promise: requests are granted atomically, one at a time, never beyond
\* what is available, and only tryAcquire() is refused.
Counting == INSTANCE CountingSemaphore WITH
  Threads <- Clients,
  avail   <- u.low,
  request <- [t \in Clients |->
                [kind |-> kind[t],
                 amount |-> IF kind[t] = "none" THEN 0 ELSE amount[t]]]

SemRefinement == Counting!Spec

=============================================================================

-------------------------- MODULE CountingSemaphore --------------------------
(***************************************************************************)
(* What QSemaphore promises (src/corelib/thread/qsemaphore.cpp, the class  *)
(* documentation and the comments of acquire(), release(), tryAcquire()):  *)
(* a number of available resources, requests that are granted in one step  *)
(* when enough of them are available, and requests that may be refused.    *)
(***************************************************************************)
EXTENDS Naturals

CONSTANTS
  Threads,     \* the callers
  Amounts,     \* the arguments n that callers use
  Initial,     \* the constructor's argument
  MaxAvail     \* callers never raise available() above this

VARIABLES
  avail,       \* available()
  request      \* request[t]: the call t is in, or NoRequest

vars == <<avail, request>>

\* acquire(n) waits for ever, tryAcquire(n) never, tryAcquire(n, timer) until
\* the timer expires.
Kinds     == {"acquire", "try", "timed"}
NoRequest == [kind |-> "none", amount |-> 0]

Init ==
  /\ avail = Initial
  /\ request = [t \in Threads |-> NoRequest]

Ask(t) ==
  /\ request[t] = NoRequest
  /\ \E k \in Kinds, n \in Amounts :
       request' = [request EXCEPT ![t] = [kind |-> k, amount |-> n]]
  /\ UNCHANGED avail

Grant(t) ==
  /\ request[t] # NoRequest
  /\ request[t].amount <= avail
  /\ avail' = avail - request[t].amount
  /\ request' = [request EXCEPT ![t] = NoRequest]

\* Only tryAcquire() may return empty-handed, and the form without a timer
\* only while there is not enough.
Refuse(t) ==
  /\ \/ request[t].kind = "timed"
     \/ request[t].kind = "try" /\ avail < request[t].amount
  /\ request' = [request EXCEPT ![t] = NoRequest]
  /\ UNCHANGED avail

Release(t) ==
  /\ request[t] = NoRequest
  /\ \E n \in Amounts :
       /\ avail + n <= MaxAvail
       /\ avail' = avail + n
  /\ UNCHANGED request

Next == \E t \in Threads : Ask(t) \/ Grant(t) \/ Refuse(t) \/ Release(t)

Spec == Init /\ [][Next]_vars

=============================================================================

----------------------------- MODULE FutureChain -----------------------------
(***************************************************************************)
(* The continuations of QFuture: setContinuation(), runContinuation(),     *)
(* cleanContinuation(), cancel() and cancelChain() of QFutureInterfaceBase *)
(* (src/corelib/thread/qfutureinterface.cpp), and the handlers of then(),  *)
(* onFailed() and onCanceled() that run them (qfuture_impl.h).             *)
(*                                                                         *)
(* Future 0 is fulfilled by a thread of its own, future f + 1 is what      *)
(* future f's continuation fulfils.  A builder attaches the continuations  *)
(* while future 0 may be finishing, other threads cancel a future or the   *)
(* chain above it, and a pool runs the asynchronous continuations.         *)
(*                                                                         *)
(* Each future has two mutexes, m_mutex and continuationMutex.  Only       *)
(* cancel() and cancelChain() hold one while they lock another; who holds  *)
(* what follows from where they are.  Every other critical section is one  *)
(* step, for which the mutex must be free.  Of the rest of a future's      *)
(* state (see QFutureInterface) only the outcome is kept.                  *)
(***************************************************************************)
EXTENDS Integers, Sequences, FiniteSets

CONSTANTS
  Last,        \* the chain is 0..Last
  Owner,       \* the thread that fulfils future 0
  Builder,     \* the thread that attaches the continuations
  Pool,        \* a thread for asynchronous continuations
  Cancellers   \* threads that call cancel() or cancelChain() once

Futures == 0..Last
Threads == {Owner, Builder, Pool} \cup Cancellers

ASSUME ChainAssumption ==
  /\ Last \in Nat \ {0}
  /\ Owner # Builder /\ Owner # Pool /\ Builder # Pool
  /\ {Owner, Builder, Pool} \cap Cancellers = {}

VARIABLES
  kind,       \* of each continuation: then(), onFailed(), onCanceled().  Never changes
  async,      \* is a then() launched in the pool?  Never changes
  promised,   \* is future 0 fulfilled by a QPromise?  Never changes
  future,     \* the outcome of each future
  link,       \* its continuation
  stack,      \* the calls of each thread, the innermost first
  queue,      \* the asynchronous continuations handed to the pool
  built,      \* how many futures there are behind future 0
  jobs,       \* history: how often the continuation of a future was run
  called,     \* history: how often its function was called
  takers,     \* history: functions that take a QFuture, met by an exception
  stopped     \* history: functions that a completed cancel() should have stopped

fixed   == <<kind, async, promised>>
history == <<jobs, called, takers, stopped>>
vars    == <<fixed, future, link, stack, queue, built, history>>

Kinds  == {"then", "onFailed", "onCanceled"}
Nobody == -1

\* The two modes of cancelImpl() with CancelContinuations.
Cancels == {"cancel", "cancelAndFinish"}

\* finished and canceled are bits of the state; a result or an exception is stored or not.
NoOutcome == [finished |-> FALSE, canceled |-> FALSE, exception |-> FALSE, result |-> FALSE]

\* QFutureInterfaceBasePrivate: continuation, continuationExecuted and
\* continuationState; whether continuationData points to the next future and
\* nonConcludedParent to the previous one; continuationType.
NoLink == [stored |-> FALSE, executed |-> FALSE, state |-> "Default",
           data |-> FALSE, parent |-> FALSE, type |-> "Unknown"]

Frame(op, f, pc) == [op |-> op, f |-> f, pc |-> pc, other |-> Nobody]

Init ==
  /\ kind \in [1..Last -> Kinds]
  /\ async \in {a \in [1..Last -> BOOLEAN] : \A f \in 1..Last : a[f] => kind[f] = "then"}
  /\ promised \in BOOLEAN
  /\ future = [f \in Futures |-> NoOutcome]
  /\ link = [f \in Futures |-> NoLink]
  /\ stack = [t \in Threads |-> CASE t = Owner        -> <<Frame("job", 0, "call")>>
                                [] t \in Cancellers -> <<Frame("client", 0, "out")>>
                                [] OTHER            -> <<>>]
  /\ queue = {} /\ built = 0
  /\ jobs = [f \in Futures |-> 0] /\ called = [f \in Futures |-> 0]
  /\ takers = {} /\ stopped = {}

-----------------------------------------------------------------------------
Top(t)      == Head(stack[t])
At(t, op, pc) == stack[t] # <<>> /\ Top(t).op = op /\ Top(t).pc = pc

Return(t)   == stack' = [stack EXCEPT ![t] = Tail(@)]
Goto(t, pc) == stack' = [stack EXCEPT ![t] = <<[Head(@) EXCEPT !.pc = pc]>> \o Tail(@)]
GoOnAt(t, pc, other) ==
  stack' = [stack EXCEPT ![t] = <<[Head(@) EXCEPT !.pc = pc, !.other = other]>> \o Tail(@)]
\* The innermost call goes on at pc after it has called what the frame says.
Call(t, pc, frame) ==
  stack' = [stack EXCEPT ![t] = <<frame, [Head(@) EXCEPT !.pc = pc]>> \o Tail(@)]
Become(t, frame) == stack' = [stack EXCEPT ![t] = <<frame>> \o Tail(@)]

\* Who holds the m_mutex of f, and its continuationMutex, from one step to the next.
HoldsState(t, f) == stack[t] # <<>> /\ Top(t).f = f
                    /\ Top(t).op \in Cancels /\ Top(t).pc \in {"links", "walk"}
HoldsLinks(t, f) == stack[t] # <<>> /\ Top(t).f = f
                    /\ \/ Top(t).op \in Cancels /\ Top(t).pc = "walk"
                       \/ Top(t).op = "cancelChain" /\ Top(t).pc \in {"up", "next"}

StateFree(f) == \A t \in Threads : ~HoldsState(t, f)
LinksFree(f) == \A t \in Threads : ~HoldsLinks(t, f)

-----------------------------------------------------------------------------
(* Fulfilling a future, and the job that does it for a continuation.       *)

IsChainCanceled(f) == future[f].canceled \/ link[f].state = "Canceled"

\* Mutant of Verdict: asks for a cancellation of the chain, not of the parent.
VerdictOfChain(f, takesFuture) ==
  LET parent == future[f - 1]
      canceled == link[f - 1].state = "Canceled"
  IN
  CASE kind[f] = "then" ->
         IF ~canceled \/ (parent.exception /\ takesFuture) THEN "call"
         ELSE IF parent.exception THEN "raise" ELSE "cancel"
    [] kind[f] = "onFailed" ->
         IF parent.exception THEN "call" ELSE IF canceled THEN "cancel" ELSE "pass"
    [] kind[f] = "onCanceled" ->
         IF ~parent.canceled THEN "pass" ELSE IF parent.exception THEN "raise" ELSE "call"

\* What a continuation does with its parent's outcome: call its function, pass
\* the parent's result or exception on, or cancel.  A then() whose function takes
\* the QFuture is called with an exception, too, also in a canceled chain.
Verdict(f, takesFuture) ==
  LET parent == future[f - 1] IN
  CASE kind[f] = "then" ->
         IF ~IsChainCanceled(f - 1) \/ (parent.exception /\ takesFuture) THEN "call"
         ELSE IF parent.exception THEN "raise" ELSE "cancel"
    [] kind[f] = "onFailed" ->
         IF parent.exception THEN "call" ELSE IF IsChainCanceled(f - 1) THEN "cancel" ELSE "pass"
    [] kind[f] = "onCanceled" ->
         IF ~parent.canceled THEN "pass" ELSE IF parent.exception THEN "raise" ELSE "call"

\* CompactContinuation::execute(), FailureHandler::run(), CanceledHandler::run().
\* An asynchronous function is left to the pool.  What the function of a then()
\* takes, the parent's result or the QFuture, matters only if there is an
\* exception, and is left open until then.
Decide(t) ==
  /\ At(t, "job", "check")
  /\ LET f == Top(t).f IN
     /\ jobs' = [jobs EXCEPT ![f] = @ + 1]
     /\ \E takesFuture \in {FALSE, kind[f] = "then" /\ future[f - 1].exception} :
          /\ takers' = IF takesFuture THEN takers \cup {f} ELSE takers
          /\ IF async[f] /\ Verdict(f, takesFuture) = "call"
             THEN queue' = queue \cup {f} /\ Return(t)
             ELSE Goto(t, Verdict(f, takesFuture)) /\ UNCHANGED queue
  /\ UNCHANGED <<fixed, future, link, built, called, stopped>>

PoolTakes ==
  /\ stack[Pool] = <<>>
  /\ \E f \in queue :
       /\ queue' = queue \ {f}
       /\ stack' = [stack EXCEPT ![Pool] = <<Frame("job", f, "call")>>]
  /\ UNCHANGED <<fixed, future, link, built, history>>

\* reportResult() and reportException(): nothing comes after cancellation.
Report(f, what) ==
  IF future[f].canceled \/ future[f].finished THEN UNCHANGED future
  ELSE IF what = "exception"
  THEN future' = [future EXCEPT ![f].exception = TRUE, ![f].canceled = TRUE]
  ELSE future' = [future EXCEPT ![f].result = TRUE]

\* The function or the handler is called; it returns or throws.
CallFunction(t) ==
  /\ At(t, "job", "call") /\ StateFree(Top(t).f)
  /\ \E what \in {"result", "exception"} : Report(Top(t).f, what)
  /\ called' = [called EXCEPT ![Top(t).f] = @ + 1]
  /\ Goto(t, "finish")
  /\ UNCHANGED <<fixed, link, queue, built, jobs, takers, stopped>>

PassOn(t) ==
  /\ At(t, "job", "pass") \/ At(t, "job", "raise")
  /\ StateFree(Top(t).f)
  /\ Report(Top(t).f, IF Top(t).pc = "raise" THEN "exception" ELSE "result")
  /\ Goto(t, "finish")
  /\ UNCHANGED <<fixed, link, queue, built, history>>

\* promise.future().cancel()
CancelOwn(t) ==
  /\ At(t, "job", "cancel")
  /\ Call(t, "finish", Frame("cancel", Top(t).f, "lock"))
  /\ UNCHANGED <<fixed, future, link, queue, built, history>>

\* A QPromise that is destroyed unfinished: cancelAndFinish().
Abandon(t) ==
  /\ At(t, "job", "call") /\ Top(t).f = 0 /\ promised
  /\ Call(t, "destroyed", Frame("cancelAndFinish", 0, "lock"))
  /\ UNCHANGED <<fixed, future, link, queue, built, history>>

\* reportFinished(), then runContinuation().
Finish(t) ==
  /\ At(t, "job", "finish") /\ StateFree(Top(t).f)
  /\ future' = [future EXCEPT ![Top(t).f].finished = TRUE]
  /\ Goto(t, "destroyed")
  /\ UNCHANGED <<fixed, link, queue, built, history>>

RunsContinuation(t) ==
  /\ At(t, "job", "destroyed")
  /\ Call(t, "clean", Frame("run", Top(t).f, "enter"))
  /\ UNCHANGED <<fixed, future, link, queue, built, history>>

\* ~QPromise ends with cleanContinuation(), whoever ran the continuation.
CleanContinuation(t) ==
  /\ At(t, "job", "clean") /\ LinksFree(Top(t).f)
  /\ link' = IF Top(t).f = 0 /\ ~promised THEN link
             ELSE [link EXCEPT ![Top(t).f].stored = FALSE, ![Top(t).f].state = "Cleaned",
                               ![Top(t).f].data = FALSE]
  /\ Return(t)
  /\ UNCHANGED <<fixed, future, queue, built, history>>

-----------------------------------------------------------------------------
(* Attaching and running continuations.                                    *)

StoreContinuation(f) ==
  link' = [link EXCEPT ![f].stored = TRUE, ![f].data = TRUE,
                       ![f + 1].type = kind[f + 1], ![f + 1].parent = TRUE]

\* then() and the others: future built + 1 comes into being with its continuation.
Attach ==
  /\ stack[Builder] = <<>> /\ built < Last
  /\ stack' = [stack EXCEPT ![Builder] = <<Frame("set", built, "enter")>>]
  /\ UNCHANGED <<fixed, future, link, queue, built, history>>

\* Mutant of SetContinuation: marks the continuation as run in either case.
SetContinuationMarks(t) ==
  /\ At(t, "set", "enter") /\ LinksFree(Top(t).f)
  /\ LET f == Top(t).f IN
     IF future[f].finished
     THEN /\ link' = [link EXCEPT ![f].executed = TRUE]
          /\ Call(t, "store", Frame("job", f + 1, "check"))
          /\ UNCHANGED built
     ELSE /\ link' = [link EXCEPT ![f].stored = TRUE, ![f].data = TRUE, ![f].executed = TRUE,
                                  ![f + 1].type = kind[f + 1], ![f + 1].parent = TRUE]
          /\ Return(t) /\ built' = built + 1
  /\ UNCHANGED <<fixed, future, queue, history>>

SetContinuation(t) ==
  /\ At(t, "set", "enter") /\ LinksFree(Top(t).f)
  /\ LET f == Top(t).f IN
     IF future[f].finished
     THEN /\ link' = [link EXCEPT ![f].executed = TRUE]
          /\ Call(t, "store", Frame("job", f + 1, "check"))
          /\ UNCHANGED built
     ELSE StoreContinuation(f) /\ Return(t) /\ built' = built + 1
  /\ UNCHANGED <<fixed, future, queue, history>>

\* The continuation was run at once; it is kept for the sake of the data it holds.
SetContinuationReturns(t) ==
  /\ At(t, "set", "store") /\ LinksFree(Top(t).f)
  /\ IF link[Top(t).f].state = "Cleaned" THEN UNCHANGED link ELSE StoreContinuation(Top(t).f)
  /\ built' = built + 1
  /\ Return(t)
  /\ UNCHANGED <<fixed, future, queue, history>>

\* Mutant of RunContinuation: does not ask whether setContinuation() ran it.
RunContinuationAnyway(t) ==
  /\ At(t, "run", "enter") /\ LinksFree(Top(t).f)
  /\ LET f == Top(t).f IN
     IF link[f].stored
     THEN /\ link' = [link EXCEPT ![f].executed = TRUE, ![f].stored = FALSE,
                                  ![f + 1].parent = FALSE]
          /\ Call(t, "leave", Frame("job", f + 1, "check"))
     ELSE UNCHANGED link /\ Return(t)
  /\ UNCHANGED <<fixed, future, queue, built, history>>

RunContinuation(t) ==
  /\ At(t, "run", "enter") /\ LinksFree(Top(t).f)
  /\ LET f == Top(t).f IN
     IF link[f].stored /\ ~link[f].executed
     THEN /\ link' = [link EXCEPT ![f].executed = TRUE, ![f].stored = FALSE,
                                  ![f + 1].parent = FALSE]
          /\ Call(t, "leave", Frame("job", f + 1, "check"))
     ELSE UNCHANGED link /\ Return(t)
  /\ UNCHANGED <<fixed, future, queue, built, history>>

RunContinuationReturns(t) ==
  /\ At(t, "run", "leave") /\ LinksFree(Top(t).f)
  /\ link' = IF link[Top(t).f].state = "Cleaned" THEN link
             ELSE [link EXCEPT ![Top(t).f].stored = TRUE]
  /\ Return(t)
  /\ UNCHANGED <<fixed, future, queue, built, history>>

-----------------------------------------------------------------------------
(* Cancelling.  cancelImpl() holds m_mutex throughout, and continuationMutex *)
(* while it walks down the chain, locking that of each future it comes to. *)

AtCancel(t, pc) == \E op \in Cancels : At(t, op, pc)

CancelFuture(f, finish) ==
  future' = [future EXCEPT ![f].canceled = TRUE, ![f].finished = @ \/ finish]

\* The functions that a cancel() of f should stop: those of the then()s linked
\* below f whose turn has not come yet.
Below(f) ==
  {g \in f+1..Last : /\ \A h \in f+1..g : kind[h] = "then" /\ link[h - 1].data
                    /\ jobs[g] = 0}

CancelReturns(t) ==
  /\ Return(t)
  /\ stopped' = stopped \cup Below(Top(t).f)

\* Nothing is done for a future that is canceled already.  This stops nothing if
\* it is finished too, since cancelChain() also cancels finished futures, or has
\* been canceled by its exception, which a function that takes a QFuture may handle.
NothingToCancel(t) ==
  /\ Return(t)
  /\ stopped' = IF future[Top(t).f].finished \/ future[Top(t).f].exception THEN stopped
                ELSE stopped \cup Below(Top(t).f)

CancelState(t) ==
  /\ AtCancel(t, "lock") /\ StateFree(Top(t).f)
  /\ LET finish == Top(t).op = "cancelAndFinish"
         old    == future[Top(t).f]
     IN  IF old.canceled /\ (finish => old.finished)
         THEN NothingToCancel(t) /\ UNCHANGED future
         ELSE CancelFuture(Top(t).f, finish) /\ Goto(t, "links") /\ UNCHANGED stopped
  /\ UNCHANGED <<fixed, link, queue, built, jobs, called, takers>>

\* Mutant of CancelLinks: leaves the continuations alone.
CancelAlone(t) ==
  /\ AtCancel(t, "links") /\ LinksFree(Top(t).f)
  /\ CancelReturns(t)
  /\ UNCHANGED <<fixed, future, link, queue, built, jobs, called, takers>>

CancelLinks(t) ==
  /\ AtCancel(t, "links") /\ LinksFree(Top(t).f)
  /\ IF link[Top(t).f].data THEN GoOnAt(t, "walk", Top(t).f + 1) /\ UNCHANGED stopped
                            ELSE CancelReturns(t)
  /\ UNCHANGED <<fixed, future, link, queue, built, jobs, called, takers>>

\* The walk ends behind the last future, and at one that is not a then().
CancelWalk(t) ==
  /\ AtCancel(t, "walk") /\ LinksFree(Top(t).other)
  /\ LET next == Top(t).other
         then == link[next].type = "then"
     IN  /\ link' = IF then THEN [link EXCEPT ![next].state = "Canceled"] ELSE link
         /\ IF then /\ link[next].data THEN GoOnAt(t, "walk", next + 1) /\ UNCHANGED stopped
                                       ELSE CancelReturns(t)
  /\ UNCHANGED <<fixed, future, queue, built, jobs, called, takers>>

\* cancelChain() cancels the futures above f, while it holds the
\* continuationMutex of f, and then f itself.
GoUp(t, from, pc) ==
  IF link[from].parent THEN GoOnAt(t, pc, from - 1) ELSE Become(t, Frame("cancel", Top(t).f, "lock"))

ChainLinks(t) ==
  /\ At(t, "cancelChain", "lock") /\ LinksFree(Top(t).f)
  /\ GoUp(t, Top(t).f, "up")
  /\ UNCHANGED <<fixed, future, link, queue, built, history>>

ChainCancel(t) ==
  /\ At(t, "cancelChain", "up") /\ StateFree(Top(t).other)
  /\ CancelFuture(Top(t).other, FALSE)
  /\ Goto(t, "next")
  /\ UNCHANGED <<fixed, link, queue, built, history>>

ChainUp(t) ==
  /\ At(t, "cancelChain", "next") /\ LinksFree(Top(t).other)
  /\ GoUp(t, Top(t).other, "up")
  /\ UNCHANGED <<fixed, future, link, queue, built, history>>

\* A client cancels one of the futures there are.
ClientCancels(t) ==
  /\ At(t, "client", "out")
  /\ \E f \in 0..built, op \in {"cancel", "cancelChain"} : Become(t, Frame(op, f, "lock"))
  /\ UNCHANGED <<fixed, future, link, queue, built, history>>

-----------------------------------------------------------------------------
Step(t) ==
  \/ Decide(t) \/ CallFunction(t) \/ PassOn(t) \/ CancelOwn(t) \/ Finish(t)
  \/ RunsContinuation(t) \/ CleanContinuation(t)
  \/ SetContinuation(t) \/ SetContinuationReturns(t)
  \/ RunContinuation(t) \/ RunContinuationReturns(t)
  \/ CancelState(t) \/ CancelLinks(t) \/ CancelWalk(t)
  \/ ChainLinks(t) \/ ChainCancel(t) \/ ChainUp(t)

Next == Attach \/ PoolTakes \/ \E t \in Threads : Step(t) \/ Abandon(t) \/ ClientCancels(t)

\* Some thread goes on as long as one can; functions return.  Since no call goes
\* on for ever, each of them gets as far as it can.
Fairness == WF_vars(PoolTakes \/ \E t \in Threads : Step(t))

Spec == Init /\ [][Next]_vars /\ Fairness

-----------------------------------------------------------------------------
(* Properties.                                                             *)

\* Everything has its type; in particular a call that goes along the chain
\* never comes to a future that is not there.
TypeOK ==
  /\ kind \in [1..Last -> Kinds] /\ async \in [1..Last -> BOOLEAN] /\ promised \in BOOLEAN
  /\ future \in [Futures -> [finished : BOOLEAN, canceled : BOOLEAN,
                             exception : BOOLEAN, result : BOOLEAN]]
  /\ link \in [Futures -> [stored : BOOLEAN, executed : BOOLEAN,
                           state : {"Default", "Canceled", "Cleaned"},
                           data : BOOLEAN, parent : BOOLEAN, type : Kinds \cup {"Unknown"}]]
  /\ queue \subseteq 1..Last /\ built \in 0..Last
  /\ jobs \in [Futures -> Nat] /\ called \in [Futures -> Nat]
  /\ takers \subseteq 1..Last /\ stopped \subseteq 1..Last
  /\ \A t \in Threads : stack[t] # <<>> =>
       /\ Top(t).f \in Futures
       /\ Top(t).pc \in {"walk", "up", "next"} => Top(t).other \in Futures

Running(op, f, pcs) ==
  \E t \in Threads : \E i \in 1..Len(stack[t]) :
    stack[t][i].op = op /\ stack[t][i].f = f /\ stack[t][i].pc \in pcs

\* However then() and the end of its parent fall together, the continuation is
\* run once: never a second time, and a finished future keeps one that was not
\* run only as long as runContinuation() is still to come for it.
RunOnce ==
  \A f \in Futures :
    /\ jobs[f] <= 1 /\ called[f] <= 1
    /\ link[f].stored /\ ~link[f].executed /\ future[f].finished
         => Running("job", f, {"destroyed"}) \/ Running("run", f, {"enter"})

\* The chain is sound, and its continuations run once.
ChainSane == TypeOK /\ RunOnce

\* The function of f is about to be called, at once or by the pool.
Launched(f) == Running("job", f, {"call"}) \/ f \in queue

\* A function that takes its parent's result, or a handler that passes it on,
\* finds one, whatever was canceled meanwhile; one that is called with the QFuture
\* of a parent that failed finds the exception.
InputReady ==
  \A f \in 1..Last :
    /\ \/ kind[f] = "then" /\ f \notin takers /\ Launched(f)
       \/ Running("job", f, {"pass"})
       => future[f - 1].finished /\ future[f - 1].result
    /\ f \in takers /\ Launched(f)
       => future[f - 1].finished /\ future[f - 1].exception

\* When cancel() has returned, no function of a then() below that future is
\* called any more, as far as the chain was linked and not looked at by then,
\* but one that takes the QFuture, if its parent ended with an exception.
\* (NothingToCancel says which calls of cancel() do not count.)
CancelStops ==
  \A f \in stopped : called[f] > 0 => f \in takers /\ future[f - 1].exception

WaitsFor(t, u) ==
  \E f \in Futures :
    \/ /\ HoldsState(u, f)
       /\ \/ AtCancel(t, "lock") /\ Top(t).f = f
          \/ At(t, "cancelChain", "up") /\ Top(t).other = f
    \/ /\ HoldsLinks(u, f)
       /\ \/ (AtCancel(t, "links") \/ At(t, "cancelChain", "lock")) /\ Top(t).f = f
          \/ (AtCancel(t, "walk") \/ At(t, "cancelChain", "next")) /\ Top(t).other = f

\* cancelChain() goes up the chain, cancel() down, each with a mutex in hand.
Circle == \E t, u \in Threads : t # u /\ WaitsFor(t, u) /\ WaitsFor(u, t)

\* A cancelChain() and a cancel() have locked each other out.
LockedOut ==
  \E t, u \in Threads : /\ WaitsFor(t, u) /\ Top(t).op = "cancelChain"
                        /\ WaitsFor(u, t) /\ Top(u).op \in Cancels

\* In the end all calls have returned and every continuation that was ever
\* attached has fulfilled its future, for good, unless two calls are locked out.
AllFulfilled ==
  <>[](\/ LockedOut
       \/ /\ \A f \in 0..built : future[f].finished
          /\ \A t \in Threads : stack[t] = <<>> \/ At(t, "client", "out"))

\* All functions of QFuture are thread-safe: no two of its calls wait for each other.
NoCircle == ~Circle

\* "All already-finished futures are unchanged", of cancelChain().
FinishedUnchanged ==
  [][\A f \in Futures : future[f].finished /\ (\E t \in Threads : ChainCancel(t))
       => future'[f] = future[f]]_vars

=============================================================================

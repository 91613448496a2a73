----------------------------- MODULE QEventLoop -----------------------------
(***************************************************************************)
(* A thread's event loops and posted events: QEventLoop, the posted event  *)
(* list of QThreadData, postEvent(), sendPostedEvents() and                *)
(* removePostedEvents() of QCoreApplication, QEventDispatcherUNIX and its  *)
(* QThreadPipe (src/corelib/kernel, src/corelib/thread/qthread_p.h).       *)
(*                                                                         *)
(* One thread runs the loops; the others post and remove events and tell   *)
(* loops to exit.  The thread's calls nest: an event handler may call      *)
(* back into any of these functions, so the thread is a stack of frames.   *)
(* What happens while postEventList.mutex is held is one action.           *)
(*                                                                         *)
(* Left out: DeferredDelete events, event types, compression of timer and  *)
(* quit events, exceptions, and QThread::exit()'s quitNow.  Timers and     *)
(* sockets only wake the poll and run a handler.                           *)
(***************************************************************************)
EXTENDS Integers, Sequences, FiniteSets, SequencesExt

CONSTANTS
  Threads,      \* the other threads
  Events,       \* the events, each with its
  Receiver,     \* receiver and its
  Priority,     \* priority
  All,          \* no receiver: all of them
  Nested,       \* the functions a handler calls: "exec", "process", "send"
  MaxHandlers,  \* bound: handlers on the stack
  MaxList       \* bound: length of the list when an event is posted

ASSUME EventLoopAssumption ==
  /\ Priority \in [Events -> Int]
  /\ DOMAIN Receiver = Events
  /\ \A e \in Events : Receiver[e] # All
  /\ Nested \subseteq {"exec", "process", "send"}
  /\ MaxHandlers \in Nat /\ MaxList \in Nat

VARIABLES
  list,             \* postEventList; a delivered entry stays, not live
  recursion,        \* its recursion, startOffset and insertionOffset
  startOffset,
  insertionOffset,
  posted,           \* QObjectPrivate::postedEvents of each receiver
  canWait,          \* QThreadData::canWait
  interrupt,        \* QEventDispatcherUNIXPrivate::interrupt
  wakeUps,          \* QThreadPipe::wakeUps
  readable,         \* the eventfd has been written to
  stack,            \* what the thread is in the middle of
  at,               \* where the other threads are in their calls
  swallowed         \* history: a nested processEvents() began after an exit()

queueVars == <<list, recursion, startOffset, insertionOffset, posted, canWait>>
pipeVars  == <<wakeUps, readable>>
vars == <<queueVars, interrupt, pipeVars, stack, at, swallowed>>

Receivers == {Receiver[e] : e \in Events}

-----------------------------------------------------------------------------
(* The stack.                                                              *)

ExecFrame == [fn |-> "exec", exit |-> FALSE]
ProcessFrame(wait) == [fn |-> "process", at |-> "begin", wait |-> wait]
SendFrame(r) == [fn |-> "send", at |-> "begin", receiver |-> r, index |-> 0]
HandlerFrame == [fn |-> "handler", used |-> FALSE]

top == stack[Len(stack)]

In(fn) == stack # <<>> /\ top.fn = fn
InAt(fn, where) == In(fn) /\ top.at = where

Pop == stack' = Front(stack)
Replace(f) == stack' = [stack EXCEPT ![Len(stack)] = f]
ReplaceAndPush(f, g) == stack' = Append([stack EXCEPT ![Len(stack)] = f], g)
Advance(where) == Replace([top EXCEPT !.at = where])

Handlers == {k \in 1..Len(stack) : stack[k].fn = "handler"}
Loops    == {k \in 1..Len(stack) : stack[k].fn = "exec"}

-----------------------------------------------------------------------------
(* The list.                                                               *)

Live(e) == \E k \in 1..Len(list) : list[k].live /\ list[k].event = e
PriorityAt(k) == Priority[list[k].event]

\* std::upper_bound from the insertion offset on.
UpperBound(p) ==
  CHOOSE k \in insertionOffset + 1 .. Len(list) + 1 :
    /\ k = Len(list) + 1 \/ PriorityAt(k) < p
    /\ \A j \in insertionOffset + 1 .. k - 1 : PriorityAt(j) >= p

\* A mistaken position: the events of the same priority are overtaken.
LowerBound(p) ==
  CHOOSE k \in insertionOffset + 1 .. Len(list) + 1 :
    /\ k = Len(list) + 1 \/ PriorityAt(k) <= p
    /\ \A j \in insertionOffset + 1 .. k - 1 : PriorityAt(j) > p

\* A mistaken Position.
PositionLower(p) ==
  IF list = <<>> \/ insertionOffset >= Len(list)
  THEN Len(list) + 1
  ELSE LowerBound(p)

\* QPostEventList::addEvent()
Position(p) ==
  IF list = <<>> \/ PriorityAt(Len(list)) >= p \/ insertionOffset >= Len(list)
  THEN Len(list) + 1
  ELSE UpperBound(p)

\* A mistaken Enqueue: the loop is not told to stay awake.
EnqueueQuietly(e) ==
  /\ ~Live(e)
  /\ Len(list) < MaxList
  /\ list' = InsertAt(list, Position(Priority[e]), [event |-> e, live |-> TRUE])
  /\ posted' = [posted EXCEPT ![Receiver[e]] = @ + 1]
  /\ UNCHANGED <<recursion, startOffset, insertionOffset, canWait>>

\* postEvent(), up to letting go of the mutex.
Enqueue(e) ==
  /\ ~Live(e)
  /\ Len(list) < MaxList
  /\ list' = InsertAt(list, Position(Priority[e]), [event |-> e, live |-> TRUE])
  /\ posted' = [posted EXCEPT ![Receiver[e]] = @ + 1]
  /\ canWait' = FALSE
  /\ UNCHANGED <<recursion, startOffset, insertionOffset>>

Of(r, x) == x.live /\ Receiver[x.event] = r

\* The numbers of S in ascending order.
Ascending(S) ==
  CHOOSE q \in [1..Cardinality(S) -> S] :
    \A i, j \in 1..Cardinality(S) : i < j => q[i] < q[j]

\* The list without the entries of r, in the order they had.
Compacted(r) ==
  LET kept == Ascending({k \in 1..Len(list) : ~Of(r, list[k])})
  IN  [n \in DOMAIN kept |-> list[kept[n]]]

\* removePostedEvents(r): the list is compacted unless a pass is under way.
RemoveEvents(r) ==
  /\ posted[r] > 0
  /\ list' = IF recursion = 0
             THEN Compacted(r)
             ELSE [k \in 1..Len(list) |->
                     IF Of(r, list[k]) THEN [list[k] EXCEPT !.live = FALSE]
                                       ELSE list[k]]
  /\ posted' = [posted EXCEPT ![r] =
                  @ - Cardinality({k \in 1..Len(list) : Of(r, list[k])})]
  /\ UNCHANGED <<recursion, startOffset, insertionOffset, canWait>>

\* QThreadPipe::wakeUp() by the thread that polls: nobody sees its two steps.
WakeSelf ==
  /\ wakeUps' = TRUE
  /\ readable' = (readable \/ ~wakeUps)

-----------------------------------------------------------------------------
(* QEventLoop::exec() and the calls that make handlers run.                *)

Init ==
  /\ list = <<>> /\ recursion = 0 /\ startOffset = 0 /\ insertionOffset = 0
  /\ posted = [r \in Receivers |-> 0]
  /\ canWait = TRUE
  /\ interrupt = FALSE /\ wakeUps = FALSE /\ readable = FALSE
  /\ stack = <<>>
  /\ at = [t \in Threads |-> "idle"]
  /\ swallowed = FALSE

Exec ==
  /\ stack = <<>>
  /\ stack' = <<ExecFrame>>
  /\ UNCHANGED <<queueVars, interrupt, pipeVars, at, swallowed>>

LoopAgain ==
  /\ In("exec") /\ ~top.exit
  /\ stack' = Append(stack, ProcessFrame(TRUE))
  /\ UNCHANGED <<queueVars, interrupt, pipeVars, at, swallowed>>

LoopEnds ==
  /\ In("exec") /\ top.exit
  /\ Pop
  /\ swallowed' = (swallowed /\ Len(stack) > 1)
  /\ UNCHANGED <<queueVars, interrupt, pipeVars, at>>

\* An event handler, called from sendPostedEvents() or by a timer or socket,
\* does one thing and returns.
HandlerPosts(e) ==
  /\ In("handler") /\ ~top.used
  /\ Enqueue(e)
  /\ WakeSelf
  /\ Replace([top EXCEPT !.used = TRUE])
  /\ UNCHANGED <<interrupt, at, swallowed>>

HandlerRemoves(r) ==
  /\ In("handler") /\ ~top.used
  /\ RemoveEvents(r)
  /\ Replace([top EXCEPT !.used = TRUE])
  /\ UNCHANGED <<interrupt, pipeVars, at, swallowed>>

\* QEventLoop::exit()
HandlerExits(k) ==
  /\ In("handler") /\ ~top.used
  /\ k \in Loops
  /\ stack' = [stack EXCEPT ![k].exit = TRUE, ![Len(stack)].used = TRUE]
  /\ interrupt' = TRUE
  /\ WakeSelf
  /\ UNCHANGED <<queueVars, at, swallowed>>

\* sendPostedEvents() counts itself before it takes the mutex.
HandlerNests(f) ==
  /\ In("handler") /\ ~top.used
  /\ Cardinality(Handlers) < MaxHandlers
  /\ f.fn \in Nested
  /\ ReplaceAndPush([top EXCEPT !.used = TRUE], f)
  /\ recursion' = IF f.fn = "send" THEN recursion + 1 ELSE recursion
  /\ UNCHANGED <<list, startOffset, insertionOffset, posted, canWait,
                 interrupt, pipeVars, at, swallowed>>

HandlerReturns ==
  /\ In("handler")
  /\ Pop
  /\ UNCHANGED <<queueVars, interrupt, pipeVars, at, swallowed>>

Callees == {ExecFrame, ProcessFrame(FALSE)}
             \cup {SendFrame(r) : r \in Receivers \cup {All}}

-----------------------------------------------------------------------------
(* QCoreApplicationPrivate::sendPostedEvents()                             *)

For(r, x) == x.live /\ (r = All \/ Receiver[x.event] = r)

\* The entry at k is taken off the list and its handler called.  The position
\* in the list is shared between nested calls for all receivers.
Deliver(k, inserting, mayWait) ==
  /\ list' = [list EXCEPT ![k].live = FALSE]
  /\ posted' = [posted EXCEPT ![Receiver[list[k].event]] = @ - 1]
  /\ canWait' = mayWait
  /\ insertionOffset' = inserting
  /\ startOffset' = IF top.receiver = All THEN k ELSE startOffset
  /\ ReplaceAndPush([top EXCEPT !.at = "loop",
                                !.index = IF top.receiver = All THEN 0 ELSE k],
                    HandlerFrame)
  /\ UNCHANGED <<recursion, pipeVars>>

\* A mistaken Finish: the position is not reset.
FinishOffsetKept(i, inserting, mayWait) ==
  /\ recursion' = recursion - 1
  /\ canWait' = mayWait
  /\ IF recursion = 1 /\ ~mayWait THEN WakeSelf ELSE UNCHANGED pipeVars
  /\ IF top.receiver = All
     THEN /\ list' = SubSeq(list, i + 1, Len(list))
          /\ insertionOffset' = inserting - i
          /\ startOffset' = i
     ELSE /\ insertionOffset' = inserting
          /\ UNCHANGED <<list, startOffset>>
  /\ Pop
  /\ UNCHANGED posted

\* CleanUp: the outermost call wakes the dispatcher for what it left behind,
\* a call for all receivers erases what was delivered.
Finish(i, inserting, mayWait) ==
  /\ recursion' = recursion - 1
  /\ canWait' = mayWait
  /\ IF recursion = 1 /\ ~mayWait THEN WakeSelf ELSE UNCHANGED pipeVars
  /\ IF top.receiver = All
     THEN /\ list' = SubSeq(list, i + 1, Len(list))
          /\ insertionOffset' = inserting - i
          /\ startOffset' = 0
     ELSE /\ insertionOffset' = inserting
          /\ UNCHANGED <<list, startOffset>>
  /\ Pop
  /\ UNCHANGED posted

\* The loop from position i on, with the mutex held, up to the next delivery
\* or the end.  Events posted since the call began lie behind the offset for
\* insertions and are left for another call, "to avoid live-lock".
SendFrom(i, inserting, mayWait) ==
  LET end    == IF inserting < Len(list) THEN inserting ELSE Len(list)
      due    == {k \in i + 1 .. end : For(top.receiver, list[k])}
      next   == CHOOSE k \in due : \A j \in due : k <= j
      last   == IF due # {} THEN next - 1 ELSE end
      passes == \E k \in i + 1 .. last : list[k].live
  IN IF due # {}
     THEN Deliver(next, inserting, mayWait /\ ~passes)
     ELSE Finish(IF i < end THEN end ELSE i, inserting, mayWait /\ ~passes)

SendNothing ==
  /\ InAt("send", "begin")
  /\ list = <<>> \/ (top.receiver # All /\ posted[top.receiver] = 0)
  /\ canWait' = (list = <<>>)
  /\ recursion' = recursion - 1
  /\ Pop
  /\ UNCHANGED <<list, startOffset, insertionOffset, posted, interrupt,
                 pipeVars, at, swallowed>>

SendBegin ==
  /\ InAt("send", "begin")
  /\ list # <<>> /\ (top.receiver # All => posted[top.receiver] > 0)
  /\ SendFrom(startOffset, Len(list), TRUE)
  /\ UNCHANGED <<interrupt, at, swallowed>>

SendAgain ==
  /\ InAt("send", "loop")
  /\ SendFrom(IF top.receiver = All THEN startOffset ELSE top.index,
              insertionOffset, canWait)
  /\ UNCHANGED <<interrupt, at, swallowed>>

-----------------------------------------------------------------------------
(* QEventDispatcherUNIX::processEvents()                                   *)

ProcessBegin ==
  /\ InAt("process", "begin")
  /\ interrupt' = FALSE
  /\ swallowed' = (swallowed \/ \E k \in Loops : stack[k].exit /\ k < Len(stack) - 1)
  /\ Advance("awake")
  /\ UNCHANGED <<queueVars, pipeVars, at>>

ProcessSends ==
  /\ InAt("process", "awake")
  /\ recursion' = recursion + 1
  /\ ReplaceAndPush([top EXCEPT !.at = "sent"], SendFrame(All))
  /\ UNCHANGED <<list, startOffset, insertionOffset, posted, canWait,
                 interrupt, pipeVars, at, swallowed>>

\* canWaitLocked()
ReadCanWait ==
  /\ InAt("process", "sent")
  /\ Replace([top EXCEPT !.at = "interrupted", !.wait = @ /\ canWait])
  /\ UNCHANGED <<queueVars, interrupt, pipeVars, at, swallowed>>

\* A mistaken ReadInterrupt.
ReadInterruptNot ==
  /\ InAt("process", "interrupted")
  /\ Advance("poll")
  /\ UNCHANGED <<queueVars, interrupt, pipeVars, at, swallowed>>

ReadInterrupt ==
  /\ InAt("process", "interrupted")
  /\ IF interrupt THEN Pop ELSE Advance("poll")
  /\ UNCHANGED <<queueVars, interrupt, pipeVars, at, swallowed>>

\* qt_safe_poll() returns at once when it may not wait, ...
PollReturns ==
  /\ InAt("process", "poll")
  /\ readable \/ ~top.wait
  /\ Advance(IF readable THEN "check" ELSE "timers")
  /\ UNCHANGED <<queueVars, interrupt, pipeVars, at, swallowed>>

\* ... or when a timer or a socket wakes it.
PollTimesOut ==
  /\ InAt("process", "poll")
  /\ ~readable /\ top.wait
  /\ Advance("timers")
  /\ UNCHANGED <<queueVars, interrupt, pipeVars, at, swallowed>>

\* QThreadPipe::check() reads the eventfd and resets wakeUps.
CheckRead ==
  /\ InAt("process", "check")
  /\ readable' = FALSE
  /\ Advance("reset")
  /\ UNCHANGED <<queueVars, interrupt, wakeUps, at, swallowed>>

CheckReset ==
  /\ InAt("process", "reset")
  /\ wakeUps' = FALSE
  /\ Advance("timers")
  /\ UNCHANGED <<queueVars, interrupt, readable, at, swallowed>>

\* activateTimers(), activateSocketNotifiers()
Activate ==
  /\ InAt("process", "timers")
  /\ Cardinality(Handlers) < MaxHandlers
  /\ ReplaceAndPush([top EXCEPT !.at = "done"], HandlerFrame)
  /\ UNCHANGED <<queueVars, interrupt, pipeVars, at, swallowed>>

ProcessEnds ==
  /\ In("process") /\ top.at \in {"timers", "done"}
  /\ Pop
  /\ UNCHANGED <<queueVars, interrupt, pipeVars, at, swallowed>>

-----------------------------------------------------------------------------
(* The other threads.                                                      *)

Goto(t, there) == at' = [at EXCEPT ![t] = there]

Post(t, e) ==
  /\ at[t] = "idle"
  /\ Enqueue(e)
  /\ Goto(t, "wakeUp")
  /\ UNCHANGED <<interrupt, pipeVars, stack, swallowed>>

RemovePosted(t, r) ==
  /\ at[t] = "idle"
  /\ RemoveEvents(r)
  /\ UNCHANGED <<interrupt, pipeVars, stack, at, swallowed>>

\* QEventLoop::exit(), QEventDispatcherUNIX::interrupt()
Exit(t, k) ==
  /\ at[t] = "idle"
  /\ k \in Loops
  /\ stack' = [stack EXCEPT ![k].exit = TRUE]
  /\ Goto(t, "interrupt")
  /\ UNCHANGED <<queueVars, interrupt, pipeVars, swallowed>>

Interrupt(t) ==
  /\ at[t] = "interrupt"
  /\ interrupt' = TRUE
  /\ Goto(t, "wakeUp")
  /\ UNCHANGED <<queueVars, pipeVars, stack, swallowed>>

\* QThreadPipe::wakeUp(): only the first of several wake-ups writes.
WakeUp(t) ==
  /\ at[t] = "wakeUp"
  /\ wakeUps' = TRUE
  /\ Goto(t, IF wakeUps THEN "idle" ELSE "write")
  /\ UNCHANGED <<queueVars, interrupt, readable, stack, swallowed>>

Write(t) ==
  /\ at[t] = "write"
  /\ readable' = TRUE
  /\ Goto(t, "idle")
  /\ UNCHANGED <<queueVars, interrupt, wakeUps, stack, swallowed>>

-----------------------------------------------------------------------------
\* The steps the thread takes by itself once it is in a call ...
Step ==
  \/ LoopAgain \/ LoopEnds \/ HandlerReturns
  \/ SendNothing \/ SendBegin \/ SendAgain
  \/ ProcessBegin \/ ProcessSends \/ ReadCanWait \/ ReadInterrupt
  \/ PollReturns \/ CheckRead \/ CheckReset \/ ProcessEnds

\* ... and those that the program makes it take.
Handle ==
  \/ \E e \in Events : HandlerPosts(e)
  \/ \E r \in Receivers : HandlerRemoves(r)
  \/ \E k \in Loops : HandlerExits(k)
  \/ \E f \in Callees : HandlerNests(f)

Finishing(t) == Interrupt(t) \/ WakeUp(t) \/ Write(t)

Other(t) ==
  \/ \E e \in Events : Post(t, e)
  \/ \E r \in Receivers : RemovePosted(t, r)
  \/ \E k \in Loops : Exit(t, k)
  \/ Finishing(t)

Next ==
  \/ Exec \/ Step \/ Handle \/ PollTimesOut \/ Activate
  \/ \E t \in Threads : Other(t)

\* Handlers return and calls that have begun go on.  No timer has to expire
\* and nobody has to post or exit anything.
Fairness ==
  /\ WF_vars(Step)
  /\ \A t \in Threads : WF_vars(Finishing(t))

Spec == Init /\ [][Next]_vars /\ Fairness

-----------------------------------------------------------------------------
Frames ==
  [fn : {"exec"}, exit : BOOLEAN]
    \cup [fn : {"process"}, wait : BOOLEAN,
          at : {"begin", "awake", "sent", "interrupted", "poll", "check", "reset",
                "timers", "done"}]
    \cup [fn : {"send"}, at : {"begin", "loop"},
          receiver : Receivers \cup {All}, index : 0..MaxList]
    \cup [fn : {"handler"}, used : BOOLEAN]

TypeOK ==
  /\ list \in Seq([event : Events, live : BOOLEAN]) /\ Len(list) <= MaxList
  /\ recursion = Cardinality({k \in 1..Len(stack) : stack[k].fn = "send"})
  /\ startOffset \in 0..MaxList
  /\ insertionOffset \in 0..MaxList     \* asserted by CleanUp
  /\ posted \in [Receivers -> Nat]
  /\ {canWait, interrupt, wakeUps, readable, swallowed} \subseteq BOOLEAN
  /\ stack \in Seq(Frames)
  /\ at \in [Threads -> {"idle", "interrupt", "wakeUp", "write"}]

\* The receivers' counts, on which sendPostedEvents() and
\* removePostedEvents() return early, count what is in the list, no event is
\* in it twice, and what lies before the position that nested calls for all
\* receivers share has been delivered or removed: none of them erases an event.
ListKept ==
  /\ \A r \in Receivers :
       posted[r] = Cardinality({k \in 1..Len(list) : Of(r, list[k])})
  /\ \A j, k \in 1..Len(list) :
       list[j].live /\ list[k].live /\ list[j].event = list[k].event => j = k
  /\ startOffset <= Len(list)
  /\ \A k \in 1..startOffset : ~list[k].live
  /\ recursion = 0 => startOffset = 0

\* "Events with equal priority will be processed in the order posted": an
\* event goes behind every one of at least its priority, the ones a pass has
\* yet to reach and those of an unfinished insertion included.
PostedInOrder ==
  [][\A j, k \in 1..Len(list') :
       ( /\ list'[j].live /\ ~Live(list'[j].event)
         /\ list'[k].live /\ list'[k].event # list'[j].event
         /\ Priority[list'[k].event] >= Priority[list'[j].event] )
       => k < j]_vars

\* The thread does not sleep in poll() while an event waits for it, unless
\* somebody is about to write to the pipe.
Asleep == InAt("process", "poll") /\ top.wait /\ ~readable

NoLostEvent ==
  Asleep /\ (\A t \in Threads : at[t] \notin {"wakeUp", "write"})
    => \A e \in Events : ~Live(e)

\* wakeUps and the pipe agree: a waker that sees the flag set may rely on a
\* write, and the failure branch of check() "is dead code".
PipeKept ==
  /\ readable \/ InAt("process", "check") \/ InAt("process", "reset")
       => wakeUps
  /\ wakeUps => \/ readable \/ InAt("process", "reset")
                \/ \E t \in Threads : at[t] = "write"

\* The list, the flags and the pipe are sound in every state, and no wake-up is lost.
LoopSane == TypeOK /\ ListKept /\ NoLostEvent /\ PipeKept

\* Nobody loses an event: while the thread runs a loop, a posted event is
\* delivered or removed, whatever nested calls the handlers make.
PostedLeaves ==
  \A e \in Events : []<>(~Live(e) \/ stack = <<>>)

\* The innermost loop has been told to exit.
ExitPending == Loops # {} /\ stack[CHOOSE k \in Loops : \A j \in Loops : j <= k].exit

\* "After this function has been called, the event loop returns from the call
\* to exec()" ...
ExitReturns == []<>~ExitPending

\* ... unless, after the loop was told, a handler's own loop or its own call to
\* processEvents() has passed: that resets interrupt and empties the pipe.
ExitReturnsUnlessNested == []<>(~ExitPending \/ swallowed)

\* "Events are sorted in descending priority order": with no pass under way
\* an event goes ahead of all those of lower priority.
PriorityOrder ==
  [][\A j, k \in 1..Len(list') :
       ( /\ recursion = 0
         /\ list'[j].live /\ ~Live(list'[j].event)
         /\ list'[k].live
         /\ Priority[list'[k].event] < Priority[list'[j].event] )
       => j < k]_vars

=============================================================================

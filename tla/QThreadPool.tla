----------------------------- MODULE QThreadPool -----------------------------
(***************************************************************************)
(* QThreadPool (src/corelib/thread/qthreadpool.cpp and qthreadpool_p.h).   *)
(*                                                                         *)
(* The pool's mutex makes each critical section one action: a worker's     *)
(* from relocking after a task to unlocking for the next, to its wait or   *)
(* to its end; a public function's from its QMutexLocker to its return.    *)
(* Two functions are several actions: tryToStartMoreThreads() is one per   *)
(* iteration, with the mutex held, and clear(), waitForDone() and reset()  *)
(* let go of the mutex on the way.                                         *)
(*                                                                         *)
(* A client is any thread that calls the pool, a task's own run()          *)
(* included.  Runnables are auto-deleting, the default.  Thread priority,  *)
(* stack size, service level and names are left out.                       *)
(***************************************************************************)
EXTENDS Integers, Sequences, FiniteSets, SequencesExt

CONSTANTS
  Clients, Workers, Tasks,
  NoTask,        \* the null QRunnable
  Priorities,    \* the priorities given to start()
  Limits,        \* the arguments of setMaxThreadCount()
  Reserved,      \* bound: the values reservedThreads may take
  PageSize,      \* QueuePage::MaxPageSize
  IntMax,        \* the priority of a task started on a reserved thread
  Reuse          \* may a task that left the pool be started again?

ASSUME PoolAssumption ==
  /\ IsFiniteSet(Workers) /\ IsFiniteSet(Tasks)
  /\ NoTask \notin Tasks
  /\ Priorities \subseteq Int /\ IntMax \in Int
  /\ Limits \subseteq Int /\ Limits # {}
  /\ Reserved \subseteq Int /\ 0 \in Reserved
  /\ PageSize \in Nat \ {0}
  /\ Reuse \in BOOLEAN

VARIABLES
  allThreads, waitingThreads, expiredThreads,   \* QThreadPoolPrivate's
  queue,              \* QThreadPoolPrivate::queue, the pages
  activeThreads, reservedThreads,
  maxThreads,         \* requestedMaxThreadCount
  pc, task,           \* QThreadPoolThread: where it is, and its runnable or r
  cpc,                \* where each client is
  page,               \* clear(): the runnables left in the page it took
  joining,            \* reset(): the threads it has still to wait for
  status              \* bookkeeping: what became of each task

pool    == <<allThreads, waitingThreads, expiredThreads>>
limits  == <<reservedThreads, maxThreads>>
clients == <<cpc, page, joining>>
vars    == <<pool, queue, activeThreads, limits, pc, task, clients, status>>

\* none: no such object; running: from start() or a pop to the relock after
\* run(); asleep: in runnableReady.wait(), woken: out of it but without the
\* mutex; finished: run() has returned.
WorkerStates == {"none", "running", "asleep", "woken", "finished"}
ClientStates == {"idle", "startMore", "clear", "waitDone", "recheck", "reset"}

\* The mutex is held between two actions only in tryToStartMoreThreads().
Locked == \E c \in Clients : cpc[c] = "startMore"

-----------------------------------------------------------------------------
(* QueuePage.  Entries taken from the middle leave holes that first() and  *)
(* pop() skip, so a page is its remaining runnables and how many have been *)
(* pushed.                                                                 *)

NewPage(t, prio) == [priority |-> prio, tasks |-> <<t>>, pushed |-> 1]
IsFull(p)        == p.pushed >= PageSize
IsFinished(p)    == p.tasks = <<>>
Push(p, t)       == [p EXCEPT !.tasks = Append(@, t), !.pushed = @ + 1]
Pop(p)           == [p EXCEPT !.tasks = Tail(@)]
First(q)         == Head(Head(q).tasks)

\* A mistaken Popped: the runnable stays in its page.
PoppedNot(q) == IF IsFinished(Pop(Head(q))) THEN Tail(q) ELSE q

\* The page popped from the front of the queue, deleted when finished.
Popped(q) == IF IsFinished(Pop(Head(q))) THEN Tail(q)
             ELSE [q EXCEPT ![1] = Pop(@)]

InQueue(q) == UNION {Range(q[i].tasks) : i \in DOMAIN q}

\* enqueueTask(): the first page of that priority with room, or a new page
\* behind all pages of at least that priority (std::upper_bound).
Enqueued(q, t, prio) ==
  LET room   == {i \in DOMAIN q : q[i].priority = prio /\ ~IsFull(q[i])}
      behind == Cardinality({i \in DOMAIN q : q[i].priority >= prio})
  IN  IF room # {}
      THEN [q EXCEPT ![Min(room)] = Push(@, t)]
      ELSE InsertAt(q, behind + 1, NewPage(t, prio))

-----------------------------------------------------------------------------
MaxThreadCount == IF maxThreads > 1 THEN maxThreads ELSE 1

\* The pool's own threads that are neither waiting nor expired.
BusyThreads == Cardinality(allThreads) - Len(expiredThreads) - Len(waitingThreads)

\* activeThreadCount(), with that many reserved threads.
ActiveThreadCount(reserved) == BusyThreads + reserved

AreAllThreadsActive(reserved) ==
  ActiveThreadCount(reserved) >= MaxThreadCount /\ BusyThreads >= 1

TooManyThreadsActive ==
  ActiveThreadCount(reservedThreads) > MaxThreadCount /\ BusyThreads > 1

Init ==
  /\ allThreads = {} /\ waitingThreads = <<>> /\ expiredThreads = <<>>
  /\ queue = <<>>
  /\ activeThreads = 0 /\ reservedThreads = 0
  /\ maxThreads \in Limits
  /\ pc = [w \in Workers |-> "none"]
  /\ task = [w \in Workers |-> NoTask]
  /\ cpc = [c \in Clients |-> "idle"]
  /\ page = [c \in Clients |-> <<>>]
  /\ joining = [c \in Clients |-> <<>>]
  /\ status = [t \in Tasks |-> "free"]

-----------------------------------------------------------------------------
(* QThreadPoolThread::run()                                                *)

Runs(w, t) ==
  /\ pc' = [pc EXCEPT ![w] = "running"]
  /\ task' = [task EXCEPT ![w] = t]

Stops(w, how) ==
  /\ pc' = [pc EXCEPT ![w] = how]
  /\ task' = [task EXCEPT ![w] = NoTask]

\* The inner loop takes the next runnable; "active" is activeThreads with
\* this thread counted.
TakeNext(w, active) ==
  /\ ~TooManyThreadsActive
  /\ queue # <<>>
  /\ Runs(w, First(queue))
  /\ queue' = Popped(queue)
  /\ activeThreads' = active
  /\ UNCHANGED <<pool, clients>>

\* A mistaken RegisterThreadInactive: nobody in waitForDone() is woken.
RegisterSilently(active) ==
  /\ activeThreads' = active - 1
  /\ UNCHANGED cpc

\* registerThreadInactive()
RegisterThreadInactive(active) ==
  /\ activeThreads' = active - 1
  /\ cpc' = IF active = 1
            THEN [c \in Clients |-> IF cpc[c] = "waitDone" THEN "recheck"
                                    ELSE cpc[c]]
            ELSE cpc

\* Or it leaves the loop: the thread ends because reset() forgot it, expires
\* because there are too many, or waits for work.
Retire(w, active) ==
  /\ TooManyThreadsActive \/ queue = <<>>
  /\ IF w \notin allThreads
     THEN Stops(w, "finished") /\ UNCHANGED <<expiredThreads, waitingThreads>>
     ELSE IF TooManyThreadsActive
     THEN /\ Stops(w, "finished")
          /\ expiredThreads' = Append(expiredThreads, w)
          /\ UNCHANGED waitingThreads
     ELSE /\ Stops(w, "asleep")
          /\ waitingThreads' = Append(waitingThreads, w)
          /\ UNCHANGED expiredThreads
  /\ RegisterThreadInactive(active)
  /\ UNCHANGED <<allThreads, queue, page, joining>>

Left(t) == [status EXCEPT ![t] = IF Reuse THEN "free" ELSE "done"]

\* r->run() returns, r is deleted and the mutex locked again.
FinishTask(w) ==
  /\ pc[w] = "running" /\ ~Locked
  /\ status' = Left(task[w])
  /\ TakeNext(w, activeThreads) \/ Retire(w, activeThreads)
  /\ UNCHANGED limits

\* runnableReady.wait() returns, woken or, from "asleep", because the expiry
\* timeout has passed, and
\*   - reset() forgot the thread: it ends;
LeaveForgotten(w) ==
  /\ pc[w] \in {"asleep", "woken"} /\ ~Locked
  /\ w \notin allThreads
  /\ Stops(w, "finished")
  /\ UNCHANGED <<pool, queue, activeThreads, limits, clients, status>>

\*   - it is still on the list of waiting threads: it expires;
Expire(w) ==
  /\ pc[w] \in {"asleep", "woken"} /\ ~Locked
  /\ w \in allThreads
  /\ \E i \in DOMAIN waitingThreads :
       waitingThreads[i] = w /\ waitingThreads' = RemoveAt(waitingThreads, i)
  /\ expiredThreads' = Append(expiredThreads, w)
  /\ Stops(w, "finished")
  /\ UNCHANGED <<allThreads, queue, activeThreads, limits, clients, status>>

\* A mistaken GoOn: a recycled thread is not counted as active.
GoOnUncounted(w) ==
  /\ pc[w] \in {"asleep", "woken"} /\ ~Locked
  /\ w \in allThreads /\ w \notin Range(waitingThreads)
  /\ TakeNext(w, activeThreads) \/ Retire(w, activeThreads + 1)
  /\ UNCHANGED <<limits, status>>

\*   - a tryStart() took it off that list: it looks for work.
GoOn(w) ==
  /\ pc[w] \in {"asleep", "woken"} /\ ~Locked
  /\ w \in allThreads /\ w \notin Range(waitingThreads)
  /\ TakeNext(w, activeThreads + 1) \/ Retire(w, activeThreads + 1)
  /\ UNCHANGED <<limits, status>>

-----------------------------------------------------------------------------
(* QThreadPoolPrivate::tryStart(), split in its test, what it does to the  *)
(* threads and what it does to the queue                                   *)

CanStart(reserved) == allThreads = {} \/ ~AreAllThreadsActive(reserved)

\* A mistaken RecycleWaiting: no wakeOne().
RecycleAsleep(t) ==
  /\ waitingThreads # <<>>
  /\ waitingThreads' = Tail(waitingThreads)
  /\ UNCHANGED <<allThreads, expiredThreads, activeThreads, pc, task>>

RecycleWaiting(t) ==
  /\ waitingThreads # <<>>
  /\ waitingThreads' = Tail(waitingThreads)
  /\ pc' = [pc EXCEPT ![Head(waitingThreads)] = "woken"]
  /\ UNCHANGED <<allThreads, expiredThreads, activeThreads, task>>

RestartExpired(t) ==
  /\ waitingThreads = <<>> /\ expiredThreads # <<>>
  /\ expiredThreads' = Tail(expiredThreads)
  /\ activeThreads' = activeThreads + 1
  /\ Runs(Head(expiredThreads), t)
  /\ UNCHANGED <<allThreads, waitingThreads>>

StartThread(t) ==
  /\ waitingThreads = <<>> /\ expiredThreads = <<>>
  /\ \E w \in Workers :
       /\ pc[w] = "none"
       /\ allThreads' = allThreads \cup {w}
       /\ Runs(w, t)
  /\ activeThreads' = activeThreads + 1
  /\ UNCHANGED <<waitingThreads, expiredThreads>>

\* On an empty set of threads the code starts one without further ado: the
\* other two lists are empty then.
GiveToThread(t) == RecycleWaiting(t) \/ RestartExpired(t) \/ StartThread(t)

\* A recycled thread gets its runnable through the queue, with priority 0.
QueueAfterStart(t) ==
  IF waitingThreads # <<>> THEN Enqueued(queue, t, 0) ELSE queue

TryStart(t, reserved) ==
  /\ CanStart(reserved)
  /\ GiveToThread(t)
  /\ queue' = QueueAfterStart(t)

-----------------------------------------------------------------------------
(* The public functions                                                    *)

Calls(c)  == cpc[c] = "idle" /\ ~Locked
Accept(t) == status[t] = "free" /\ status' = [status EXCEPT ![t] = "pool"]

\* tryStart() has failed.
Enqueue(t, prio, reserved) ==
  /\ ~CanStart(reserved)
  /\ queue' = Enqueued(queue, t, prio)
  /\ UNCHANGED <<pool, activeThreads, pc, task>>

\* start(runnable, priority)
Start(c, t, prio) ==
  /\ Calls(c)
  /\ Accept(t)
  /\ TryStart(t, reservedThreads) \/ Enqueue(t, prio, reservedThreads)
  /\ UNCHANGED <<limits, clients>>

\* tryStart(runnable); when it returns false nothing has changed.
TryStartOnly(c, t) ==
  /\ Calls(c)
  /\ Accept(t)
  /\ TryStart(t, reservedThreads)
  /\ UNCHANGED <<limits, clients>>

\* startOnReservedThread(runnable): one reservation less, then as start().
StartOnReservedThread(c, t) ==
  /\ Calls(c)
  /\ reservedThreads > 0
  /\ Accept(t)
  /\ reservedThreads' = reservedThreads - 1
  /\ \/ TryStart(t, reservedThreads - 1)
     \/ Enqueue(t, IntMax, reservedThreads - 1)
  /\ UNCHANGED <<maxThreads, clients>>

\* tryTake(runnable): out of the first page that holds it.
TryTake(c, t) ==
  /\ Calls(c)
  /\ \E i \in DOMAIN queue :
       /\ t \in Range(queue[i].tasks)
       /\ \A j \in 1..(i - 1) : t \notin Range(queue[j].tasks)
       /\ \E j \in DOMAIN queue[i].tasks :
            /\ queue[i].tasks[j] = t
            /\ LET p == [queue[i] EXCEPT !.tasks = RemoveAt(@, j)]
               IN  queue' = IF IsFinished(p) THEN RemoveAt(queue, i)
                            ELSE [queue EXCEPT ![i] = p]
  /\ status' = Left(t)
  /\ UNCHANGED <<pool, activeThreads, limits, pc, task, clients>>

\* setMaxThreadCount(), releaseThread(): go on to tryToStartMoreThreads().
SetMaxThreadCount(c, n) ==
  /\ Calls(c)
  /\ n # maxThreads
  /\ maxThreads' = n
  /\ cpc' = [cpc EXCEPT ![c] = "startMore"]
  /\ UNCHANGED <<pool, queue, activeThreads, reservedThreads, pc, task, page,
                 joining, status>>

\* A mistaken ReleaseThread: queued runnables are not started.
ReleaseThreadOnly(c) ==
  /\ Calls(c)
  /\ reservedThreads - 1 \in Reserved
  /\ reservedThreads' = reservedThreads - 1
  /\ UNCHANGED <<pool, queue, activeThreads, maxThreads, pc, task, clients,
                 status>>

ReleaseThread(c) ==
  /\ Calls(c)
  /\ reservedThreads - 1 \in Reserved
  /\ reservedThreads' = reservedThreads - 1
  /\ cpc' = [cpc EXCEPT ![c] = "startMore"]
  /\ UNCHANGED <<pool, queue, activeThreads, maxThreads, pc, task, page,
                 joining, status>>

ReserveThread(c) ==
  /\ Calls(c)
  /\ reservedThreads + 1 \in Reserved
  /\ reservedThreads' = reservedThreads + 1
  /\ UNCHANGED <<pool, queue, activeThreads, maxThreads, pc, task, clients,
                 status>>

\* One iteration of tryToStartMoreThreads(): the first runnable of the first
\* page is started, then popped from that page, wherever that page now is;
\* if it is finished, the page at the front of the queue is removed.
PopFromOldFirst(q) ==
  LET i == IF waitingThreads # <<>> /\ Head(queue).priority < 0 THEN 2 ELSE 1
      p == Pop(q[i])
  IN  IF IsFinished(p) THEN Tail([q EXCEPT ![i] = p]) ELSE [q EXCEPT ![i] = p]

StartMore(c) ==
  /\ cpc[c] = "startMore"
  /\ queue # <<>> /\ CanStart(reservedThreads)
  /\ GiveToThread(First(queue))
  /\ queue' = PopFromOldFirst(QueueAfterStart(First(queue)))
  /\ UNCHANGED <<limits, clients, status>>

StartNoMore(c) ==
  /\ cpc[c] = "startMore"
  /\ queue = <<>> \/ ~CanStart(reservedThreads)
  /\ cpc' = [cpc EXCEPT ![c] = "idle"]
  /\ UNCHANGED <<pool, queue, activeThreads, limits, pc, task, page, joining,
                 status>>

-----------------------------------------------------------------------------
(* clear(): the last page is taken off the queue, and the mutex let go for *)
(* the deletion of each of its runnables.                                  *)

Discard(c, tasks) ==
  /\ status' = Left(Head(tasks))
  /\ page' = [page EXCEPT ![c] = Tail(tasks)]
  /\ cpc' = [cpc EXCEPT ![c] = "clear"]

ClearPage(c) ==
  /\ Calls(c) \/ (cpc[c] = "clear" /\ ~Locked)
  /\ page[c] = <<>> /\ queue # <<>>
  /\ Discard(c, Last(queue).tasks)
  /\ queue' = Front(queue)
  /\ UNCHANGED <<pool, activeThreads, limits, pc, task, joining>>

ClearNext(c) ==
  /\ cpc[c] = "clear" /\ ~Locked
  /\ page[c] # <<>>
  /\ Discard(c, page[c])
  /\ UNCHANGED <<pool, queue, activeThreads, limits, pc, task, joining>>

ClearDone(c) ==
  /\ cpc[c] = "clear" /\ ~Locked
  /\ page[c] = <<>> /\ queue = <<>>
  /\ cpc' = [cpc EXCEPT ![c] = "idle"]
  /\ UNCHANGED <<pool, queue, activeThreads, limits, pc, task, page, joining,
                 status>>

-----------------------------------------------------------------------------
(* waitForDone() and reset()                                               *)

\* A mistaken AllDone: only the count of active threads is looked at.
ThreadsDone == activeThreads = 0

AllDone == queue = <<>> /\ activeThreads = 0

\* reset() up to its unlock(): the threads are forgotten and will be waited
\* for in an order that depends on the hash set.
Reset(c) ==
  /\ allThreads' = {} /\ waitingThreads' = <<>> /\ expiredThreads' = <<>>
  /\ \E order \in SetToSeqs(allThreads) :
       joining' = [joining EXCEPT ![c] = order]
  /\ cpc' = [cpc EXCEPT ![c] = "reset"]

\* waitForDone() is called, or woken: it goes on or waits (again).
WaitForDone(c) ==
  /\ cpc[c] \in {"idle", "recheck"} /\ ~Locked
  /\ IF AllDone
     THEN Reset(c)
     ELSE cpc' = [cpc EXCEPT ![c] = "waitDone"] /\ UNCHANGED <<pool, joining>>
  /\ UNCHANGED <<queue, activeThreads, limits, pc, task, page, status>>

\* Its timer expires: it returns false unless everything is done after all.
WaitForDoneExpired(c) ==
  /\ cpc[c] \in {"waitDone", "recheck"} /\ ~Locked
  /\ IF AllDone
     THEN Reset(c)
     ELSE cpc' = [cpc EXCEPT ![c] = "idle"] /\ UNCHANGED <<pool, joining>>
  /\ UNCHANGED <<queue, activeThreads, limits, pc, task, page, status>>

\* Without the mutex: wake a thread that still waits for work ...
ResetWake(c) ==
  /\ cpc[c] = "reset" /\ joining[c] # <<>>
  /\ pc[Head(joining[c])] = "asleep"
  /\ pc' = [pc EXCEPT ![Head(joining[c])] = "woken"]
  /\ UNCHANGED <<pool, queue, activeThreads, limits, task, clients, status>>

\* ... wait() for it, delete it ...
ResetDelete(c) ==
  /\ cpc[c] = "reset" /\ joining[c] # <<>>
  /\ pc[Head(joining[c])] = "finished"
  /\ pc' = [pc EXCEPT ![Head(joining[c])] = "none"]
  /\ joining' = [joining EXCEPT ![c] = Tail(@)]
  /\ UNCHANGED <<pool, queue, activeThreads, limits, task, cpc, page, status>>

\* ... lock again and return true.
ResetDone(c) ==
  /\ cpc[c] = "reset" /\ joining[c] = <<>> /\ ~Locked
  /\ cpc' = [cpc EXCEPT ![c] = "idle"]
  /\ UNCHANGED <<pool, queue, activeThreads, limits, pc, task, page, joining,
                 status>>

-----------------------------------------------------------------------------
WorkerStep(w) == FinishTask(w) \/ LeaveForgotten(w) \/ Expire(w) \/ GoOn(w)

\* What a client goes on to do once it is inside a function of the pool.
ClientStep(c) ==
  \/ StartMore(c) \/ StartNoMore(c)
  \/ cpc[c] = "clear" /\ ClearPage(c)
  \/ ClearNext(c) \/ ClearDone(c)
  \/ cpc[c] = "recheck" /\ WaitForDone(c)
  \/ ResetWake(c) \/ ResetDelete(c) \/ ResetDone(c)

ClientCall(c) ==
  \/ \E t \in Tasks : \/ \E prio \in Priorities : Start(c, t, prio)
                      \/ TryStartOnly(c, t)
                      \/ StartOnReservedThread(c, t)
                      \/ TryTake(c, t)
  \/ \E n \in Limits : SetMaxThreadCount(c, n)
  \/ ReleaseThread(c) \/ ReserveThread(c)
  \/ cpc[c] = "idle" /\ ClearPage(c)
  \/ cpc[c] = "idle" /\ WaitForDone(c)
  \/ WaitForDoneExpired(c)

Next ==
  \/ \E w \in Workers : WorkerStep(w)
  \/ \E c \in Clients : ClientStep(c) \/ ClientCall(c)

\* Every task's run() returns, a woken thread gets the mutex in the end, and
\* so does a client in the middle of a call.  No timer has to expire and
\* nobody has to call anything.
Fairness ==
  /\ \A w \in Workers : SF_vars(pc[w] # "asleep" /\ WorkerStep(w))
  /\ \A c \in Clients : SF_vars(ClientStep(c))

Spec == Init /\ [][Next]_vars /\ Fairness

-----------------------------------------------------------------------------
Pages == [priority : Int, tasks : Seq(Tasks), pushed : 0..PageSize]

TypeOK ==
  /\ allThreads \subseteq Workers
  /\ waitingThreads \in Seq(Workers) /\ expiredThreads \in Seq(Workers)
  /\ \A i \in DOMAIN queue :
       /\ queue[i].priority \in Int /\ queue[i].pushed \in 1..PageSize
       /\ queue[i].tasks \in Seq(Tasks)
  /\ activeThreads \in 0..Cardinality(Workers)
  /\ reservedThreads \in Reserved /\ maxThreads \in Limits
  /\ pc \in [Workers -> WorkerStates] /\ task \in [Workers -> Tasks \cup {NoTask}]
  /\ cpc \in [Clients -> ClientStates]
  /\ page \in [Clients -> Seq(Tasks)] /\ joining \in [Clients -> Seq(Workers)]
  /\ status \in [Tasks -> {"free", "pool", "done"}]

\* Every runnable the pool has accepted and not yet run, given back or
\* deleted is in exactly one place: once in one page of the queue, with one
\* thread, or in the page clear() is deleting.
TasksAccounted ==
  \A t \in Tasks :
    LET inQueue == Cardinality({p \in (1..Len(queue)) \X (1..PageSize) :
                                  /\ p[2] \in DOMAIN queue[p[1]].tasks
                                  /\ queue[p[1]].tasks[p[2]] = t})
        running == Cardinality({w \in Workers : task[w] = t})
        cleared == Cardinality({c \in Clients : t \in Range(page[c])})
    IN  inQueue + running + cleared = IF status[t] = "pool" THEN 1 ELSE 0

\* The queue is sorted by falling priority and holds no finished page.
QueueSane ==
  \A i \in DOMAIN queue :
    /\ ~IsFinished(queue[i])
    /\ \A j \in 1..(i - 1) : queue[j].priority >= queue[i].priority

\* A thread that was woken for work and has not got the mutex yet.
Summoned(w) == pc[w] = "woken" /\ w \in allThreads

\* The two counts of active threads, one kept by the threads themselves and
\* one computed from the lists, differ by the threads still to be heard of,
\* and a thread that runs a task is one the pool knows, and not one it
\* believes to be waiting or expired.
CountsAgree ==
  /\ activeThreads = Cardinality({w \in Workers : pc[w] = "running"})
  /\ BusyThreads = activeThreads + Cardinality({w \in Workers : Summoned(w)})
  /\ \A w \in Workers : pc[w] = "running" =>
       w \in allThreads \ (Range(waitingThreads) \cup Range(expiredThreads))

\* The pool's books are right in every state.
PoolSane == TypeOK /\ QueueSane /\ CountsAgree

\* Runnables wait in the queue only while all threads are busy, or for a
\* thread that has been woken for each of them.
WorkConserving ==
  queue # <<>> /\ ~Locked =>
    \/ AreAllThreadsActive(reservedThreads)
    \/ Cardinality(InQueue(queue)) <= Cardinality({w \in Workers : Summoned(w)})

\* No more threads become busy than maxThreadCount() and the reserved threads
\* allow, but for the first one.
LimitKept ==
  BusyThreads' > BusyThreads =>
    \/ ActiveThreadCount(reservedThreads)' <= MaxThreadCount
    \/ BusyThreads' = 1

\* When waitForDone() finds everything done no runnable is left that has not
\* been run, given back, or taken away by a clear() in progress.
DoneMeansDone ==
  \A c \in Clients :
    cpc[c] # "reset" /\ cpc'[c] = "reset" =>
      \A t \in Tasks : status[t] = "pool" => \E d \in Clients : t \in Range(page[d])

\* What a step of the pool may never do, however threads start, expire and are
\* given up meanwhile: exceed the limit, or call done what is not.
PoolSteps == [][LimitKept /\ DoneMeansDone]_vars

\* "This thread is about to be deleted, do not work or expire": the assertion
\* in QThreadPoolThread::run() that the queue is empty then.
ForgottenFindEmptyQueue ==
  [][\A w \in Workers :
       (pc[w] \in {"asleep", "woken"} /\ w \notin allThreads
          /\ pc'[w] = "finished") => queue = <<>>]_vars

\* Every runnable is run, given back or deleted in the end, whatever limits,
\* reservations and expiries happen meanwhile.
TasksLeave == \A t \in Tasks : (status[t] = "pool") ~> (status[t] # "pool")

\* waitForDone(-1) returns once the tasks have been dealt with.
WaitersReturn == \A c \in Clients : (cpc[c] # "idle") ~> (cpc[c] = "idle")

=============================================================================

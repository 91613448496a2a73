# The threading and event core, in TLA+

This directory models a part of the Qt Base fork beside it: the primitives that
threads wait on, the thread pool, the event loop with its posted events, futures
and their continuations, the engine of QtConcurrent, and lock files. The modules
are checked with TLC on small instances; for eleven of the modules
TLAPS proves the safety properties for every value of the constants. Paths below
are relative to the repository, so `src/corelib/thread/qlatch.cpp` is the latch.
`PROJECT.json` lists the same things for tools: which lines every definition
stands for, which run shows which property, which hazards are covered.

Contents: [1 The system](#1-the-system) · [2
Modules](#2-modules-and-the-code-they-stand-for) · [3 Runs](#3-runs) · [4
Fairness](#4-fairness) · [5 Proofs](#5-proofs) · [6
Findings](#6-where-the-code-and-its-documentation-disagree) · [7
Abstractions](#7-abstractions-and-what-they-leave-out) · [8 Plan](#8-plan)

## 1 The system

The repository is a class library of some twenty thousand files. Most of it is
sequential (containers, text, parsers), geometry (GUI, widgets, OpenGL) or an
adapter to something whose source is not here (SQL drivers, D-Bus, window
systems). What is hard to get right and hard to test is the concurrent core, on
which all the rest stands:

```
        QtConcurrent kernels                 QFutureWatcher
              |                                   |
        ThreadEngine ---- QFutureInterface -------+---- signals across threads
              |            |     (ResultStore)              |
        QThreadPool -------+                       QCoreApplication::postEvent
              |                                             |
           QThread  -- exec()/exit() --  QEventLoop -- QEventDispatcherUNIX
              |                                             |
      QWaitCondition, QMutex, QReadWriteLock      QThreadPipe (eventfd), timers
              |
   QSemaphore, QLatch          ------>  futex / pthread condition (kernel)
```

Inventory. "Correct" says what would make the component right; components
without a module are in the plan or out of it (section 8).

| component | state | operations | hard behaviour | correct | module |
|---|---|---|---|---|---|
| QLatch | one word: count, and "nobody waits yet" | countDown, arriveAndWait, tryWait, wait | the last decrement races the mark of a waiter and its sleep; spurious returns | no early return, no sleeper left behind | `QLatch` |
| QSemaphore | one 64-bit word: tokens; tokens + waiters; a wake-all bit | acquire, tryAcquire with and without timer, release | two kinds of sleepers on two halves of one word; expired timers against wake-ups; copies of the word that are adjusted and not read again | grants are atomic, waiters are counted, no token is stranded | `QSemaphore`, `CountingSemaphore` |
| QMutex | one word: null, locked, locked and perhaps waited for | lock, tryLock, unlock | the mark outlives the sleepers or must be put back; a wake-up consumed by an expired timer | exclusion, no lost wake-up | `QMutex` |
| QRecursiveMutex | a QMutex, owner, count | lock, tryLock, unlock | owner is stored after locking and cleared before unlocking, without ordering | a reentrant mutex | `QRecursiveMutex`, `ReentrantMutex` |
| QReadWriteLock | one word that is a count or a pointer to a private with counts and two conditions; free list of privates | lockForRead, lockForWrite, their try forms, unlock | switching between the two representations; privates given back and taken again; writers that give up in front of readers | exclusion, exact counts, writers first, nobody left behind | `QReadWriteLock` |
| QThreadPool | threads (all, waiting, expired), paged run queue, active and reserved counts, limit | start, tryStart, startOnReservedThread, tryTake, clear, waitForDone, reset, setMaxThreadCount, reserve/releaseThread | threads that expire while they are given work; reset() joins without the mutex; limits and reservations that change under a full queue | each runnable in one place, counts agree, work is not left lying, limit kept | `QThreadPool` |
| QEventLoop, posted events, QEventDispatcherUNIX | event list with a recursion count and two offsets, canWait, interrupt, eventfd flag, nested calls | exec, exit, postEvent, sendPostedEvents, removePostedEvents, processEvents, wakeUp, interrupt | handlers re-enter every function; other threads post, remove and exit at any time; decision to sleep and sleep are apart | no event lost, twice or out of order, no sleep on a pending event, exit() ends exec() | `QEventLoop` |
| QWaitCondition | waiters, wake-ups over a pthread condition | wait, wakeOne, wakeAll | a waiter that expires after its wake-up was counted | no wake-up lost or given twice | planned |
| QMutexPrivate, QFreeList | reference counts, lock-free free list with serials | lock and unlock without futex | reuse of a private under a late reader | as QMutex | planned |
| QThread | running, finished, exit flags, quitNow, loops | start, exec, exit, finish, wait | exit() before exec(); finish against wait and deletion | starts and ends once | planned |
| QFutureInterface, QPromise, ResultStore | a word of state bits, results by index, pending results of a filter, exception, output interfaces | reportStarted, reportResult(s), emplace, reportException, reportFinished, suspend, resume, cancel, wait, connect | every operation races every other on the bits; results in any order; a watcher that comes late; a promise that is destroyed | results in order, none replaced, no waiter left, a watcher in step | `QFutureInterface` |
| continuations | per future: the continuation, was it run, links to the next and the previous future | then, onFailed, onCanceled, cancel, cancelChain, ~QPromise | attaching against finishing; running with the mutex released; two directions of cancelling | each continuation once, with an input that is there; cancel() stops what is below | `FutureChain` |
| ThreadEngine and kernels | a barrier of workers, blocks of the input, intermediate results, what is being reduced | run, start and throttle threads, map, reduce, suspend, cancel | the last one out; throttled workers that leave; the mutex released during a reduce | every item once, one reducer, in order if asked for, it finishes | `ThreadEngine` |
| QLockFile | a file with a process in it, its descriptor, a flock; an .rmlock beside it | lock, tryLock, unlock, removal of stale files | crashes between any two system calls; a name is looked at, then removed | one holder; nobody removes a live file; a dead one is removed | `QLockFile` |
| QFutureWatcher | pending call-outs | events of a future as signals | throttling against cancel | every result announced | planned |
| Timers | a sorted list | register, unregister, activate | handlers that delete or re-enter | each timer once per pass | planned |
| QObject connections, QProperty bindings | connection lists, binding graph | connect, activate, evaluate | deferred removal, re-entrance | | a candidate |
| everything else | | | | | no |

How they interact. A QThreadPool hands runnables to QThreads and waits for them
on QWaitConditions under its one mutex; tasks may call the pool.
QFutureInterface sits on a QMutex and a QWaitCondition and posts call-out events
to the watcher's thread through `postEvent()`. `postEvent()` appends under
`postEventList.mutex`, then wakes the receiver thread's dispatcher through an
eventfd; that thread's loop delivers events to handlers that may call anything,
the loop itself included. `QThread::exit()` reaches the loop by
`QEventLoop::exit()`, which sets flags and interrupts the dispatcher.
ThreadEngine is a runnable that several threads of a pool run at once; it reports
into a QFutureInterface and waits in it while the future is suspended. A
continuation runs in the thread that finishes its parent, in the one that
attaches it, or in a pool. QLockFile stands apart: its actors are processes that
meet in the file system.

## 2 Modules and the code they stand for

| module | about | stands on |
|---|---|---|
| `QLatch` | the latch | - |
| `CountingSemaphore` | what a semaphore promises | - |
| `QSemaphore` | the futex code, 64 bit | implements `CountingSemaphore` |
| `QMutex` | the futex mutex | - |
| `ReentrantMutex` | what a recursive mutex promises | - |
| `QRecursiveMutex` | owner and count on top of a mutex | extends `QMutex`, implements `ReentrantMutex` |
| `QReadWriteLock` | the non-recursive lock | - |
| `QThreadPool`, `MCQThreadPool` | the pool; symmetry and negative values for TLC | - |
| `QEventLoop`, `MCQEventLoop` | loop, posted events, dispatcher; events for TLC | - |
| `ThreadEngine` | engine, iterate, map and reduce kernels | - |
| `QFutureInterface` | the state of one future and its result store | - |
| `FutureChain` | continuations and cancellation along a chain of futures | - |
| `QLockFile` | lock files of several processes | - |
| `QReadWriteLock_proofs`, `QThreadPool_proofs`, `QEventLoop_proofs`, `ThreadEngine_proofs`, `QFutureInterface_proofs`, `FutureChain_proofs`, `QLockFile_proofs` | theorems | extend the module they name |
| `Futex_proofs` | theorems about the latch, the semaphore and both mutexes | extends `QLatch`, `QSemaphore` and `QRecursiveMutex` |

Some operators are alternatives to the one that follows them, with a plausible
mistake (`TakeUnchecked`, `PoppedNot`, `SyncFirst`...). No specification
uses them. Putting one in the place of the operator it varies must make the
property named in `PROJECT.json` fail: this shows that the property is about the
code.

**QLatch.** One action per atomic access to the word and per futex call.
`Decrement` is `countDown()`'s subtraction with its test for zero, `MarkWaiter` clears
the waiter bit, `LatchFutexWait` sleeps only if the word is what was last read.
`SpuriousReturn` is EINTR or somebody else's wake on the same address. `wait()`
differs with `__has_builtin(__atomic_and_fetch)`; `build` picks one of the two.
The names of this module differ from those of the mutexes', beside which
`Futex_proofs` extends it.
The callers respect the latch's contract of not counting below zero.

**QSemaphore.** The word `u` has three fields: `low` (tokens), `high` (tokens
plus waiters) and `wakeAll` (bit 63). `Packed` and `Added` do the arithmetic on
the halves with their carry and wrap, so that the sum may overflow `IntMax`. A
compare-and-swap loop always acts on the value it finds, so it is one
conditional update: `TakeAtOnce`, `Enlist`, `Flag`, `TakeAfterWait`, `Unlist`.
`cur` is the half of the local copy that `futexWait()` compares; `Adjusted` is
the place where the code changes its copy and does not read again. `WakeOp` is
the one `FUTEX_WAKE_OP` of `release()`: so many single-token sleepers, and all
of the others if the high half says so. Its names, too, differ from those of the
mutexes' (`SemSpec`, `SemTypeOK`, `Clients`, `at`).

**QMutex and QRecursiveMutex.** The word has the three values `null`,
`dummyLocked` and `dummyFutexValue`. `FastLock` is the inline test and set,
`Take` the exchange of `lockInternal()` when it finds null, `Mark` the same
exchange when it does not get the mutex, `GiveUp` that of a woken thread whose
timer has expired; `Unlock` stores null and `WakeOne` is the futex call that
follows if the mark was there. `QRecursiveMutex` adds `owner`, `count` and,
between the clearing of the owner and the unlocking of the mutex, `leaving`.
`Relock` and `UnlockLevel` do not touch the mutex.

**QReadWriteLock.** One action per successful access to the word and one per
critical section of a private. `Allocate` fills a private with the counts of the
word that was read, `Publish` is the compare-and-swap from that word (and
`Discard` its failure), `Follow` reads a pointer to a private and `Stale` finds
under its mutex that the word no longer points there. `ReadLock`, `ReadWait`,
`ReadTimeout` and the same for writers are the rounds of the two waiting loops.
`UnlockAndNotify` is `unlock()` with its choice of whom to wake,
`UnlockAndRelease` the one that returns the private.

**QThreadPool.** The pool's mutex makes each critical section one action. A
worker's goes from relocking after a task to the next task, the wait or the end:
`FinishTask`, `Expire`, `GoOn`. `GiveToThread` is `tryStart()` with its three
ways (a waiting thread, through the queue; an expired one; a new one).
`tryToStartMoreThreads()` is one action per iteration (`StartMore`), with the
mutex held (`Locked`). `clear()`, `waitForDone()` and `reset()` let go of the
mutex and are several actions, in between which anything may happen. A client is
any thread, one that runs a task included. `status` remembers which runnables
the pool has.

**QEventLoop.** One thread runs the loops; its calls nest, so its state is a
stack of frames: `exec` (with its exit flag), `process` (`processEvents()`, with
a place in it), `send` (`sendPostedEvents()`, with its index) and `handler`. A
handler, called from a frame below it, does one thing - it posts, removes, exits
one of the loops on the stack, calls one of the three functions - and returns.
What happens with `postEventList.mutex` held is one action: `Enqueue` with the
upper bound from `insertionOffset`, `Deliver`, `Finish` with the erasure and the
offsets of the CleanUp object. `ProcessBegin`, `ReadCanWait`, `ReadInterrupt`,
`PollReturns`, `CheckRead`, `CheckReset` and `Activate` are `processEvents()` in
order; the two halves of `check()` are apart since a waker may come between the
read of the eventfd and the reset of `wakeUps`. Other threads' calls are split
in the same way, after the mutex or the store, before the `interrupt`, the
test-and-set of `wakeUps`, and the write.

**ThreadEngine.** The threads are those of a pool that happens to have some to
spare (`TryStart`, `TryStartFails`), or not. `ConsiderThread` and `Onward` are
`startThreads()`; `ForLook`, `ForReserve` and `After` are one round of
`forThreadFunction()`, which reads `currentIndex`, adds to it and looks at the
sum in separate steps; `WhileEnter` and `WhileAdvance` are the other mode, whose
iterator one thread has at a time. The functor itself is nothing (or `Throw`).
`BeginReduce`, `ReduceStored` and `ReduceNext` are the critical sections of
`runReduce()`; in between the thread reduces what it has in `hand`.
`ThrottleExit`, `ThrottleStay` and `ThreadExit` are the three ways to the barrier,
`Finish` and `Report` what the last one does. `Suspend`, `Resume` and `Cancel` are
the client's.

**QFutureInterface.** Nearly every operation is one critical section of `m_mutex`
and one action of the same name. The set `state` holds the bits that are on. The
store's functions are operators on a record: `InsertItem` with `SyncPendingResults`
(the loop as a recursive function) and `AddResults` return the store afterwards.
`mode` says who reports: a map kernel and a filter kernel report each block of
the input once, in any order; a promise reports at an index or behind the last.
`setException()` of a promise is two steps, since it clears the store before it
takes the mutex; so are the two halves of the waiting functions, which let go of
the mutex to steal the runnable. `told` is what the call-outs have said to each
output interface since it connected.

**FutureChain.** A thread has a stack of calls: a `job` fulfils a future, a `run`
is `runContinuation()`, which calls the job of the next future, `set` is
`setContinuation()`, `cancel` and `cancelChain` are what they say. A step is a
critical section of `m_mutex` or of `continuationMutex`; only the two cancelling
functions keep a mutex from one step to the next (`HoldsState`, `HoldsLinks`), and
everything else has to wait for it. `Verdict` is what the three kinds of
continuation make of their parent's outcome; the function of a `then()` may take the
parent's result or its QFuture, and in the second case it is called also when the
parent ended with an exception, in a canceled chain, too (`takers` remembers these).
Of what `QFutureInterface` says of a
future only the outcome is left. `stopped` remembers the functions that a `cancel()`
which has returned should have stopped. A `cancel()` that finds its future canceled
leaves without looking at the continuations; if that future is finished, too, or was
canceled by its exception, it stops nothing (`NothingToCancel`), see the remarks in
section 6.

**QLockFile.** One action per system call: `Create`, `Flock`, `Write` of a new file;
`Check` and `Recheck` (`isApparentlyStale()` before and after the `.rmlock` is taken);
`OpenStale`, `FlockStale`, `UnlinkStale`, `CloseStale`; `Unlock` and `Close`. The
`.rmlock` is a QLockFile itself and may be left behind like any other, so locks
have levels and a process has a stack of calls, one per level. The file system
is external: names, inodes that live as long as a name or a descriptor does,
advisory locks that vanish with their process. `Unused` inodes are
all alike, so a new file takes the first of them. `Crash` may come between any two
calls; `Restart` gives the identifier to a new process of the same program.

## 3 Runs

All runs visit every reachable state of their instance. Sizes are of distinct
states.

| run | instance | size | shows |
|---|---|---|---|
| `latch` | 3 threads, count 3, both builds | 23 k | `NoEarlyRelease`, `AllReleased` (liveness) |
| `sem_core` | 3 threads, amounts 1 and 2, at most 2 tokens, 3-bit fields | 391 k | `NoStrandedToken`, `NoStuckSingle` (liveness), `SemRefinement` |
| `mutex` | 4 threads, 3 levels | 41 k | `MutualExclusion`, `NoStuckWaiter` (liveness), `Refinement` |
| `rwlock` | 3 threads, 3 privates | 71 k | `LockSane`, `PrivatesAccounted`, `WritersFirst`, `NoStuckWaiter` (liveness) |
| `pool_core` | 2 clients, 4 workers, 3 tasks, 2 priorities, limits 1 and 2, up to 1 reservation, pages of 2 | 172 k | `PoolSane`, `TasksAccounted`, `WorkConserving`, `PoolSteps` |
| `pool_live` | 1 client, 3 workers, 3 tasks, reservations -1 to 1, pages of 1 | 25 k | `TasksLeave`, `WaitersReturn` (liveness) |
| `loop` | one other thread, 3 events for 2 receivers, 2 handlers deep | 627 k | `LoopSane`, `PostedInOrder`, `PostedLeaves` and `ExitReturnsUnlessNested` (liveness) |
| `engine` | 3 threads, 3 elements, blocks up to 2, both iteration modes and both reductions, limits 0, 1 suspension, exceptions | 1.1 M | `EngineSane`, `ReducesInTurn`, `Accounted`, `AllReduced`, `Finishes` (liveness) |
| `future` | 2 workers, 1 waiter, 1 watcher, 3 inputs, 1 suspension, map, filter and promise | 462 k | `StoreSane`, `NoLostWaiter`, `WatchersKnow`, `ResultsStand`, `QuietAfterEnd`, `WaitersReturn` (liveness) |
| `future_pending` | same | | a violation of `WaitsEnd`, see section 6 |
| `chain` | 3 futures, all kinds of continuations, 1 canceller | 769 k | `ChainSane`, `InputReady`, `CancelStops`, `AllFulfilled` (liveness) |
| `lockfile` | 2 processes, 3 levels, 2 crashes, 1 full disk | 194 k | `LocksSane`, `NoForeignRemoval`, `LockReturns` (liveness) |

`...Sane` is the conjunction of a module's type invariant with the invariants
that say its parts agree: `LockSane` of `Exclusion`, `HoldersCounted` and
`NoLostWakeUp`; `PoolSane` of `QueueSane` and `CountsAgree`; `LoopSane` of `ListKept`,
`NoLostEvent` and `PipeKept`; `EngineSane` of `LastOneOut` and `SuspendedMeansQuiet`;
`StoreSane` of `ResultsInOrder`; `ChainSane` of `RunOnce`; `LocksSane` of `Exclusion`.
`ReducesInTurn` is `OneReducer` and `InOrder`, `WatchersKnow` is `WatcherInSync` and
`AnnouncedOnce`, `PoolSteps` is `LimitKept` and `DoneMeansDone`. What is proved and
follows from no run is listed in section 5: the type invariants and counts of the
latch, the semaphore and the mutexes are theorems and are not run again.

TLC looks for deadlocks in the runs of the latch, the semaphore, the mutexes, the
locks, the pool and the loop and finds none. The other four stop when everything
is done; that they do not stop before is what their liveness properties say.

### What the properties are for

*Waiting without losing a wake-up.* All primitives decide to sleep on a value
that may be old when they do. `NoMissedSleeper` (latch), `NoLostWakeUp` (mutex, lock),
`BitCoversSleepers`, `WakesAllMulti` and `NoLostEvent` say that for every
sleeper whose condition holds a wake-up is on the way; the liveness properties
say that it arrives, whatever timers, newcomers and spurious returns do
meanwhile. `NoStrandedToken` is the delicate one of the semaphore: a wake-up may
go to a thread whose timer has just expired, and the token it was for must not
stay with a sleeper.

*Two representations of one thing.* `WaitersAccounted` (a sum in half a word and
the threads that wait), `HoldersCounted` and `PrivatesAccounted` (a word or a
private and the threads that hold and wait), `CountsAgree` (an active count kept
by the threads and one computed from three lists), `ListKept` (counts on which
functions return early, and the list; the offset that nested passes share, and
what is left in front of it), `PipeKept` (a flag and an eventfd).

*Nothing falls between two steps.* `TasksAccounted`, `WorkConserving`,
`DoneMeansDone` and `TasksLeave` follow a runnable through a pool in which
threads expire, limits change, `clear()` takes pages and `reset()` takes the
threads. `PostedLeaves` and `PostedInOrder` follow an event through nested
passes.

*Out of order, and once.* `Accounted` and `AllReduced` follow every element of the
input through blocks, the map of results and the hands of the reducer;
`ReducesInTurn` says that a mutex released around each reduce still lets one
thread reduce, in order. `StoreSane` compares the store with what was reported,
however the blocks of a filter came in. `ChainSane` says that a continuation
attached while its parent finishes is run by exactly one of the two.

*What others were told.* `WatchersKnow` compares the bits and results of a future
with what a watcher heard since it connected, late or early; `QuietAfterEnd` says
that nothing comes after Canceled or Finished. `InputReady` and `CancelStops` are
about continuations, which look at their parent without a mutex: none reads a result
that is not there, and none that `cancel()` should have stopped is called, unless
it takes the QFuture of a parent that ended with an exception.

*Who finishes.* `EngineSane`: workers leave throttled or for good, the last one
finishes alone, and only when it is true is the engine Suspended. `Finishes`,
`WaitersReturn` and `AllFulfilled` say that somebody always goes on. `AllFulfilled` is
about all continuations that are ever attached, also behind futures that ended long
before, since it asks for a state of rest that lasts (`<>[]`).

*Crashes.* `LocksSane`, `NoForeignRemoval` and `LockReturns`: a process may stop
between any two system calls, and its files stay behind, also the file under
which it was removing another one. Whoever then holds the lock has the file it
created under its name, and a call of `lock()` returns in the end.

*The promise.* `SemRefinement` of `sem_core` and `Refinement` of `mutex` say that every behaviour
of the lock-free code is one of the two abstract modules: for a semaphore, that
tokens are granted in one step, never more than there are, and that only a
`tryAcquire()` is refused, without a timer only for want of tokens; for a
recursive mutex, that one thread at a time has it and another one gets it after
as many unlocks.

### The bounds, and why they are enough

- *Threads.* Three in the primitives: one that sleeps, one that takes its chance
  away (a newcomer, an expired timer) and one that releases. The mutex has four,
  to have two sleepers behind a thread that gives up while another unlocks.
  `Privates = 3` lets every thread have a private of its own at once.
- *Semaphore.* Amounts 1 and 2 are the two kinds of waiters; `MaxAvail` 2 allows
  "one token too few" and "one release that makes do for both". `IntMax = 7`
  keeps tokens plus waiters (at most 5) below the overflow, which is what the
  proofs assume (`NoWrap`).
- *MaxDepth* 3 has a relock that is neither first nor last.
- *Pool.* Four workers with a limit of 2 leave room for a thread beyond the
  limit (a reserved one) and for a thread that `reset()` has forgotten and that
  is still on its way out; two clients overlap `reset()`, `clear()` or
  `tryToStartMoreThreads()` with a call of another thread. Pages of 2 and three
  tasks give full, partly popped and single pages, and pages of equal priority.
  Runnables come back in `pool_core` (`Reuse`), and do not in `pool_live`, where
  a task that always comes back would make "in the end" empty. `Reserved` bounds
  the reservations; below zero they are what `releaseThread()` without a
  reservation leaves. `IntMax = 9` is any number above the other priorities.
- *Loop.* `MaxHandlers = 2`: a handler, and one in a nested loop or pass of the
  first; the third level adds no new kind of frame. `MaxList = 3` with two
  receivers: an entry before, at and behind any position. The three events have
  the priorities and receivers of `MCQEventLoop`: two of one receiver that
  differ in priority, and one of another receiver with a priority of the first
  two. One other thread is enough since the others' calls meet only in `wakeUps`
  and the list, where they are single steps; the loop's own thread is the second
  actor.
- *Engine.* Three threads: one that reduces, one that leaves its results, one that
  is being started or leaves. Three elements in blocks of one or two give blocks
  out of order, a shortened last block, and more than one in the map. With both
  limits at 0 every result in the map throttles, so that workers leave and come
  back all the time. One suspension meets all of that.
- *Future.* `Count = 3` and lists of up to two: an early block, a late one, and one
  in the middle that is filtered away. A promise may use indices 0 to 2 and what
  follows them, in any order, twice as well. `Awaited` has a single result, all of
  them, and the end. Watchers do not see each other, one is enough; the same holds
  for threads that wait.
- *Chain.* `Last = 2`: a future with a parent and a child. All nine pairs of
  kinds are among the initial states, and all choices of asynchronous ones. One canceller beside the three threads that
  cancel themselves or finish; with two of them cancelling against each other
  becomes possible (section 6).
- *Lock files.* Two crashes can leave two files of different levels behind, so the
  third level is never left behind (`LockFileAssumption`). Two processes that are
  started again stand for any number, one of which is alive per identifier.
  `Inodes` has one more than can be in use. `Slow` is `FALSE`: no process takes longer
  than the staleLockTime within a call or while it holds the lock.

## 4 Fairness

| module | fairness | why the code has it |
|---|---|---|
| QLatch | each thread's steps inside a call, weakly | the kernel schedules a runnable thread; a call is never blocked except asleep |
| QSemaphore, QMutex, QReadWriteLock | the same; a timer that a call has expires | `QDeadlineTimer` is looked at in every round, and the kernel's timeout ends a sleep |
| QThreadPool | each worker's and client's steps inside a call, strongly | a mutex that is free again and again is got in the end; a task's `run()` returns. The expiry timer of a waiting thread need not fire |
| ThreadEngine | some thread, or the pool with the queued engine, goes on as long as one can, weakly; a client that suspends resumes | functors return; the pool's own promise is `TasksLeave` |
| QFutureInterface | begun work is finished or its promise destroyed, the client resumes, woken threads run, weakly | a QPromise is destroyed in the end (~QPromise); an engine finishes (`Finishes`) |
| FutureChain | some thread goes on as long as one can, weakly | functions return; no call goes on for ever, so each gets as far as it can |
| QLockFile | each running process goes on, also in what it does with the lock; files get old, weakly | processes are scheduled, time passes; nobody has to crash, start or give up |
| QEventLoop | the loop thread's own steps and the rest of a call that another thread has begun, weakly | handlers return, threads are scheduled. `poll()` ends only when the pipe is written: no timer has to expire |

In the primitives, the pool and the loop no caller is obliged to call anything,
to unlock or to release, and nowhere is a spurious return relied upon. Strong fairness for the pool's threads
is more than POSIX promises of a mutex; without it a thread may lose every race
for the mutex for ever, which is so for any code with a mutex.

## 5 Proofs

`TLAPS` checks every theorem to its leaves. What is proved holds for all values
of the constants that satisfy the module's named assumption (`LatchAssumption`,
`SemaphoreAssumption`, `EngineAssumption` and so on): any number of threads,
processes or futures, any count, amount, depth or input. Each invariant a run
checks is proved from a stronger one, `IInv`, that every step keeps. That of
`FutureChain` is the longest; TLC has checked it, too, on the instance of section 3,
with two cancelling threads (9.6 M states) and with four futures (24.1 M).

**QLatch** (`Futex_proofs`). `LatchTypeCorrect`, `NoEarlyReleaseHolds`,
`NoMissedSleeperHolds`. The two properties are not inductive. `LatchInv` adds
`WaitersMarked` (from its mark to its return a waiter finds "nobody waits yet"
cleared, so the last decrement enters the kernel) and `SleepsOnNonZero` (a
thread on its way to `futexWait()` never expects a count of zero, so the futex
refuses it once the count is there).

**QSemaphore** (`Futex_proofs`). `SemTypeCorrect` holds without condition,
overflow included. The rest is proved as long as the sum of tokens and waiters
fits its 31 bits, `NoWrap == MaxAvail + Cardinality(Threads) <= IntMax`, which
is the premise of each theorem: `WaitersAccountedHolds`,
`BitCoversSleepersHolds`, `WakesAllMultiHolds`, `NoStrandedTokenHolds` and
`SemImplements` (the code refines `CountingSemaphore`). `TInv` is the type invariant
with what each place says of `kind` and `amount`; `SemInv` adds the exact count
`Accounted` (`high = low +` waiters, stronger than the congruence the run checks)
and `BitCoversSleepers`. `NoStrandedToken` compares the tokens with two sets,
`Promised` (a pair for each wake-up that a release on its way to the kernel will
ask for) and `Looking` (single-token waiters about to look again). It is inductive
with `SemInv` and `SeenNone` (who goes to sleep on the tokens saw none): a `release()`
adds its amount to both sides, its futex call turns promises into woken waiters or
leaves no sleeper, and a thread leaves `Looking` by taking a token or by finding
none. `NoWrap` is needed: see what section 6
says of `INT_MAX`.

**QMutex, QRecursiveMutex** (`Futex_proofs`). `MutexExcludes` and
`MutexLosesNoWakeUp` for `QMutex` alone (`MutexSpec`); `TypeCorrect`,
`OwnerHoldsAlways` and `Implements` (it refines `ReentrantMutex`) for
`QRecursiveMutex`. `MutexInv`, the conjunction of type, exclusion and wake-up,
is inductive by itself. `IInv` adds that the stored owner and a thread that is
leaving hold the mutex; with exclusion they are the same thread or none, which
is why the unordered stores of `owner` do no harm.

**QReadWriteLock** (`QReadWriteLock_proofs`). `LockIsSane`,
`PrivatesAreAccounted` and `WritersComeFirst`, for any number of threads and
privates. `IInv` says that the word, or the private it points to, counts the
holders (`Counted`); that a private counts its waiters, and that the word points to
it as long as one of them sleeps or has been woken (`Queues`, why nobody releases
a private under a waiter); that a private belongs to the lock, or to one thread
that publishes it with the counts of the word it has read, or is free and clean
(`Belongings`, why a compare-and-swap that finds an old value again does no harm);
and that a writer sleeps behind a holder or a woken writer, a reader behind a
writer (`Behind`, which is the reason that nobody is left asleep alone).

**ThreadEngine** (`ThreadEngine_proofs`). `EngineIsSane`, `ReducerTakesTurns`,
`NothingIsLost` and `RangeIsReduced`, for any threads, input, block size and
limits; `EngineAssumption` asks for a finite number of threads and at least one.
The barrier is the number of threads inside, being started or queued (`Barrier`), so
the one that finishes is alone. Each index below `currentIndex` is in exactly one of
four places (`Placed`: a block being mapped, the hands of the reducer, the map, or
reduced), unless a functor threw. Who reduces is one thread, and in an ordered
reduction has the block at `progress` (`Turns`); what is reduced is the prefix below
`progress` (`Prefix`). `Distinct` and `Sizes` say that blocks do not overlap, so that
`resultsMapSize` counts them. For `AllReduced` the proof needs that nobody leaves
before the range is used up (`Exits`); `Overshoot` bounds `currentIndex`: each thread
goes beyond the end once, by one block.

**QFutureInterface** (`QFutureInterface_proofs`). `SoundStore`, `NobodySleepsOn`,
`WatchersInformed`, `ResultsNeverChange` and `NothingAfterTheEnd`: all safety properties
of the run `future`, for any number of workers, waiters and watchers, any input and any
filter. `FutureAssumption` asks for an input and blocks that are not empty and for two
tokens apart from the indices.
`NoLostWaiter` and `WatchersKnow` are parts of `IInv`; what they need beside themselves is
`Course` (what the bits say of the one who reports, that an exception comes with
Canceled and an empty store, and that who is not connected was told nothing) and, for the
results that are announced, that the store is sound. `StoreSane` is far from inductive.
For a map and a promise the store is `Plain`: nothing is held back and `resultCount` is
its first gap; a promise has used no more indices than it has reported inputs
(`PromiseStore`), so that they do not run out. The store of a filter is `Resting`. Its
pending items are tiles on the input (`Tiled`): they do not overlap, nor cover what is
not reported, and from `Turn`, the sum of `resultCount` and `filteredResults`, on they
cover all that is. An item with results holds exactly what was kept of its block
(`Held`), one without is a block of which nothing was kept, or the rest of the block
before it (`Blank`): `addResults()` makes two items of a block of which something was
filtered away. That is why the proof goes block by block and not item by item:
between the two insertions, and between two rounds of `syncPendingResults()`, the store
has the results of a block whose end is pending still (`Half`). The loop is a recursive
function: that it has a value for any number of rounds, and what the last round returns,
follows from the least number of rounds for which it would not (`LoopExists`, `Least`),
since the library's induction theorems cannot be used. A round that finds an item at the
turn keeps `Filtered` and takes the item away, one that finds none leaves the store
`Resting`, and there are no more rounds than pending items.
`Stands` says of each insertion that what is in the
store stays as it is (`ResultsNeverChange`). That a reporter looks at Canceled and Finished under
the mutex before it announces anything (`Over`) is all that `NothingAfterTheEnd` needs
beyond `IInv`.

**FutureChain** (`FutureChain_proofs`). `ChainIsSane`, `InputIsReady` and
`CancelHasStopped`, for a chain of any length and any number of cancelling threads.
The calls of a thread are numbered from the outermost (`depth`, `frame`), so that a
call keeps its number; `Flat` translates every action into what it does to the
innermost calls. `Shape` says what may call what. There is one job for each future
(`OneJob`), it has begun only if the continuation is marked as executed, and then
has been counted or is about to be (`Executed`, `JobCounts`): that is why the
continuation is run once. One that is stored and not executed when its future has
finished is about to be looked at (`NoneForgotten`). `Results` says that the futures
finish in order and with a result or canceled, and which functions take the QFuture of
a failed parent; a verdict then relies on both (`Progress`). `CancelStops` needs to
know what a `cancel()` leaves behind (`StopOk`). Above a stopped future `g` that has
not begun there is a future `p` with only `then()`s from `p` down to `g`. Either
`cancel()` went down from `p`: then every link below `p` whose continuation has not
begun is marked (`Swept`), and an exception in between changes nothing below the
function that handles it. Or it found `p` canceled, without an exception, and did not
go down: then each future cancels the next one (`Hushed`). Both hold until `g` begins,
and its verdict is "call" only for a function that takes the QFuture. Attempts at this
proof failed for a reason: with two cancelling threads, and for a `cancel()` that
finds an exception, the property was false as it stood, see section 6.

**QLockFile** (`QLockFile_proofs`). `LocksAreSane` and `FilesAreRemovedByOwners`,
for any number of processes, levels, crashes and full disks, as long as no process
is held up for longer than the staleLockTime (`~Slow` is the premise; `lockfile_slow`
shows that it is needed). `IInv`: a file has one name and one owner, whose name for
it stays until the owner removes it (`OneName`, `OneOwner`, `NamedWhileOpen`); a file
of a running process says so and is not old (`Stamped`), so what looks stale is an
orphan, left behind by a crash (`Removers`); and there are at most as many levels at
which somebody meets an orphan as there were crashes, which is why the levels of
`.rmlock` do not run out.

**QEventLoop** (`QEventLoop_proofs`). `Invariance`, `SoundLoop` and `OrderKept`: all safety
properties of the run `loop`, for any threads, events, receivers and priorities and any
depth of nesting. `IInv` has eight parts. `Stacked` gives the stack its shape: which
call may stand under which (`Under`), and that `recursion` is the number of calls of
`sendPostedEvents()` on it. `Held` is about the list alone (`Queue`): up to `startOffset`
everything is delivered or removed, behind the insertion offset (which is never less) the
priorities fall, no event is in it twice, and `posted` counts the live entries of a receiver.
`Counted` says that the shared `startOffset` is beyond the beginning only while a pass for
all receivers is under way, so an outermost call starts at 0. For the sleep of the thread:
`Promised` (`canWait` says that nothing live lies behind the insertion offset), `Sent`
(after a complete pass it says so of the whole list), and `Woken` (a thread that is about
to sleep has nothing live in the list, or a wake-up is coming). `OneToken` is why the
wake-up arrives: the flag `wakeUps` is set if the pipe is readable, or its reader is
between the read and the reset, or one other thread is about to write, and it is only
one of the three. `PostedInOrder` follows from `Held`: whatever lies in front of the
insertion offset is in front of a new event, too, and on the sorted rest `upper_bound`
finds a place behind all entries of at least its priority.
`removePostedEvents()` compacts the list by an operator of its own (`Compacted`), since
what `SelectSeq` returns is an induction over the list.

**QThreadPool** (`QThreadPool_proofs`). `PoolSaneHolds`, `TasksAccountedHolds`,
`WorkConservingHolds` and `PoolStepsHold`, for any number of threads, clients and
runnables, any limits and page size; `PoolAssumption` asks that the threads and the
runnables are finitely many. `NonNegative`, the premise of each theorem, says that no
priority is negative: with one the code does lose a runnable (`pool_negative`,
section 6). `PoolInv` has four parts beside the types. `Threads`: the lists of waiting
and expired threads are the threads that sleep and that have ended (`Lists`), so that
`activeThreadCount()`, computed from the lists, and `activeThreads` differ by the
woken threads (`Counted`); what `reset()` still has to join is no thread of the pool
and is joined by one client only (`Joined`). `Full`: pages by falling priority, none
finished and no runnable twice; insertion behind `std::upper_bound()` keeps the order
because the pages of at least a priority are a prefix (`BehindIs`), and the pop that
`tryToStartMoreThreads()` makes after `tryStart()` has queued its runnable is the
same as one made before it (`PushPopIs`, `RequeuedIs`), which is what a negative priority breaks.
`Homes`: a runnable is the pool's while it is in the queue, with a thread, or with a
`clear()`, and in one of these only. The last part is `WorkConserving` itself: a thread
that is woken is one more for what has been queued for it, a woken thread that goes to
work takes one of them with it, and whoever leaves one behind has seen all threads
active. What a step does to threads, queue and runnables is stated once
each (`Recycled`, `PoppedIs`, `HandedOver` and their neighbours), and an action's
lemma combines these.

Proved and in no run: `NoMissedSleeper` of the latch, `NoLostWakeUp` of the mutex, `WaitersAccounted`,
`BitCoversSleepers`, `WakesAllMulti`, `OwnerHolds` and the type invariants of the
latch, the semaphore and the mutexes. Proved and run: `NoEarlyRelease`,
`NoStrandedToken`, `MutualExclusion`, `SemRefinement`, `Refinement`, and all safety properties of
the runs `pool_core`, `loop`, `rwlock`, `engine`, `future`, `chain` and `lockfile`.

Only model-checked: the liveness properties. Liveness under fairness and
ENABLED are out of the prover's reach and stay with TLC; so the `Implements` and
`SemImplements` theorems are about the safety specification, which is what the two
abstract modules state.

## 6 Where the code and its documentation disagree

One is a run of the project. The others are configurations beside it, which are
started by hand (`tlc -config sem_stuck.cfg QSemaphore`, and so on; the module is
named in brackets) and end in the counterexample described.

1. **A promise destroyed before it was started leaves `waitForResult()` asleep**
   (`future_pending`). A future that `then()` creates is Pending. `cancelAndFinish()`
   of `~QPromise` takes Running away and not Pending, and after it `reportStarted()`
   returns at once; but `waitForResult()` sleeps while the future is running *or
   pending*. `qpromise.qdoc:28` promises that whoever waits is notified "whenever
   the promise is destroyed". `WaitersReturn` says that this is the only wait that
   does not end, and `waitForFinished()` always does. A continuation that is
   cancelled before it starts stays Pending in the same way when its promise is
   only finished.
2. **A semaphore's waiter for several tokens may sleep although they are
   available** (`sem_stuck`, QSemaphore). Such a waiter sleeps on the high half, the
   *sum* of tokens and waiters. If between its read and its sleep another waiter
   takes its token and leaves (-2) and somebody releases two (+2), the sum is what
   it was and `futexWait()` does not refuse. `qsemaphore.cpp:227` says that it
   would. Waiters for one token sleep on the tokens alone, and are safe
   (`NoStuckSingle`).
3. **A runnable is lost with negative priorities** (`pool_negative`,
   MCQThreadPool). `tryToStartMoreThreads()` remembers the first page, but
   `tryStart()` may put its runnable in front of that page, with priority 0
   (`qthreadpool.cpp:162`); then the new page is taken off the queue instead of the
   finished one.
4. **A thread forgotten by `reset()` may find the queue non-empty**
   (`pool_forgotten`, MCQThreadPool), against the assertion at
   `qthreadpool.cpp:122`: while `reset()` joins, others may start a new thread and
   queue behind it.
5. **`exit()` may be lost to a nested `processEvents()`** (`loop_exit`,
   MCQEventLoop). The nested call resets `interrupt` and empties the pipe, and the
   loop that was told to exit sleeps until something else happens.
   `ExitReturnsUnlessNested` says this is the only way: unless a nested call began
   after it, `exit()` ends the loop.
6. **Priorities are not kept after `sendPostedEvents()` for one receiver**
   (`loop_order`, MCQEventLoop): it leaves `insertionOffset` at the end of the list,
   and later events queue behind that, whatever their priority.
7. **A suspended map over a list without random access may end early**
   (`engine_while`, ThreadEngine). A worker that finds the iterator taken leaves
   for good. While it is on its way out, the one that had the iterator has done its
   item, is throttled because of the suspension and leaves, not being the last;
   then the first one is the last out and finishes with input left, against "Calls
   mapFunction once for each item" (`qtconcurrentmap.cpp`). With random access
   `AllReduced` holds.
8. **A suspension may never be reported as in effect** (`engine_suspend`,
   ThreadEngine). A worker that is stopped in `waitForResume()` with its block does
   not report Suspended; if it is the only one, nobody does (`qfuture.qdoc:331`).
9. **`cancelChain()` and `cancel()` may lock each other out** (`chain_deadlock`,
   FutureChain). One holds the continuationMutex of a child and asks for the
   m_mutex of its parent, the other holds both of the parent's and asks for the
   child's continuationMutex. `qfuture.qdoc:6` calls all functions thread-safe.
   `AllFulfilled` excepts just this circle.
10. **`cancelChain()` cancels a future that has finished** (`chain_finished`,
    FutureChain), although `qfuture.qdoc:204` says that finished futures are
    unchanged: a parent may finish after the child's link to it was read.
11. **`setException()` after `cancel()` has an effect** (`future_exception`,
    QFutureInterface): it clears the results before it looks at the state, without
    the mutex; `qpromise.qdoc:167` says that it has none. `ResultsStand` excepts every
    clearing of the store by an exception, so it does not see this.
12. **A new lock file can be removed by another process** (`lockfile_slow`,
    QLockFile), against "Ensure nobody else can delete the file while we have it"
    (`qlockfile_unix.cpp:148`). A process that is held up for longer than the
    staleLockTime between creating the file and locking it has an old file that
    nobody has locked. As long as no process takes that long (`Slow = FALSE`),
    `NoForeignRemoval` holds.

Noticed on the way:

- A nested `exec()` loses an outer `exit()` in the same way as in 5, when both
  loops are told to exit in the order in which `QThread::exit()` does it.
- In case 3 the runnable keeps no priority either: `start(r, 5)` on a pool with
  a waiting thread queues `r` with priority 0, so a runnable of priority 1 that
  was queued meanwhile overtakes it.
- With tokens plus waiters at `INT_MAX`, `Enlist`'s overflow is tested on the
  sum: `acquire()` may then return without tokens. The comment at
  `qsemaphore.cpp:385` that a comparison of the `FUTEX_WAKE_OP` is "always true"
  fails at 2^31 likewise.
- The `wakeUp()` in `sendPostedEvents()`'s CleanUp is redundant in the model:
  all properties hold without it.
- `tryTake()` compares a pointer with queued runnables; with auto-deleted
  runnables the address may be another one's by then.
- The bit Throttled is written and never read: `setPendingResultsLimit()` of a
  watcher (`qfuturewatcher.cpp:403`) does not slow anybody down.
- `whileThreadFunction()` does not look at Canceled before it takes the next element,
  `forThreadFunction()` does.
- `reportStarted()` stores the bits outright: a suspension that came before it is
  forgotten without a call-out. `setSuspended(true)` on a Suspended future leaves both
  bits on, which `suspendIfRequested()` expects to be exclusive.
- A promise that emplaces results out of order announces some twice to a watcher
  that came late, and one behind a gap not at all; `emplaceResultAt()` may announce
  a range that ends before it begins.
- `~QPromise` of a parent cleans its link to the next future even when that one's
  asynchronous continuation has only been handed to the pool: from then on a
  cancel of the parent no longer reaches what is further down. A continuation that
  `QThreadPool::clear()` deletes is never finished.
- An engine reports an exception through the base class (`handleException()`,
  `qtconcurrentthreadengine.cpp:272`), whose `reportException()` does not clear the
  store as `QFutureInterface<T>` does. If results have been reported before,
  `setException()` (`qfutureinterface_p.h:129`) destroys a store that is not empty:
  the results leak, and a debug build fails the assertion at `qresultstore.cpp:113`.
- A `then()` whose function takes a QFuture is called below a canceled future if its
  parent ends with an exception, even after `cancel()` has returned.
  `qfuture_impl.h:462` intends this, `qfuture.qdoc:1273` says that the continuations of a
  canceled future "will also be canceled". For the same reason a `cancel()` that finds
  a future canceled by its exception stops nothing below it.
- `cancelChain()` cancels finished futures too (10), and a `cancel()` of such a
  future returns at once: continuations below it that have not begun, and that the
  same `cancel()` would have stopped without the `cancelChain()` before it, are
  run. It takes two cancelling threads; `CancelStops` does not count this case.
- `removeStaleLockFile()`, called by the user, takes no `.rmlock`, so two users, or a
  user and a process that has just locked, may remove a new file.
- With a staleLockTime of 0 a lock stays for good when its process identifier is in
  use again, which the documentation mentions; `LockReturns` excepts it.
- `countDown()` below zero and more than `INT_MAX` recursive locks are outside
  the contracts and not guarded.

## 7 Abstractions, and what they leave out

- Memory is sequentially consistent: every access to an atomic is one step and
  all threads see the same order. What acquire and release order in a weaker
  memory is not examined.
- The futex and the pthread condition are external: a compare-and-sleep, a wake
  of some or all, and returns for no reason. Waits of the pool on its
  QWaitConditions may end spuriously, too.
- A failed compare-and-swap changes nothing and starts over; it is no step.
- Data that no property tells apart is left out: contents of events and
  runnables, thread names, priorities and stack sizes, socket notifiers.
- The loop leaves out DeferredDelete events, event compression, event filters,
  exceptions in handlers, `QEventLoopLocker` and moving objects between threads.
  Timers and sockets end the poll and run a handler at any time.
- The pool is external to `ThreadEngine` and `FutureChain`: it has a spare thread or
  not, and gets to what it was given. Block sizes depend on a clock: any size up to
  `MaxBlock`. A reduce functor does not throw.
- `QFutureInterface` leaves out progress, the Throttled bit, `takeResult()`,
  `waitForNextResult()` (nothing calls it) and `isValid`. A watcher is what is posted to
  it, not QFutureWatcher itself.
- `FutureChain` leaves out continuations with a context object, overwritten ones,
  `unwrap()`, `whenAll()` and `whenAny()`, and suspension.
- `QLockFile` leaves out other hosts and reboots (the same test with another answer),
  several threads of one process, permissions, `removeStaleLockFile()`, and Windows.
  Ages are one bit; an old file may belong to a live process only if `Slow`.
- `QReadWriteLock` is the non-recursive one; the recursive one holds one mutex
  all along and is planned with `QWaitCondition`.
- The builds without a futex and the 32-bit semaphore are separate code and
  planned.

Parts of the repository that are not modelled are listed with their reasons in
`PROJECT.json` ("components").

## 8 Plan

Done, in this order: QLatch; QSemaphore against CountingSemaphore; QThreadPool;
QEventLoop; QMutex and QRecursiveMutex against ReentrantMutex; QReadWriteLock;
proofs of the first, second and fifth; ThreadEngine with its kernels;
QFutureInterface with the result store; FutureChain; QLockFile; proofs of
QLockFile, QReadWriteLock, ThreadEngine, FutureChain, of the semaphore's
`NoStrandedToken`, of QThreadPool, of QFutureInterface and of QEventLoop.

Next, most important first:

1. `QWaitCondition` over a pthread condition, composed with `QMutex`; then the
   recursive `QReadWriteLock` on it. Three waiters.
2. `QThread`'s life cycle with `exec()`, `exit()`, `quitNow`, `finish()` and
   `wait()`, composed with `QEventLoop`; DeferredDelete events and their levels.
3. `QMutexPrivate` with `QFreeList`; the other two semaphores, against
   `CountingSemaphore`; `QOrderedMutexLocker`.
4. `QTimerInfoList`, `QThreadStorage`, `QFutureWatcher`.

Out of the plan: GUI, widgets and rendering (geometry), network and SQL
(adapters and projects of their own), text, containers and parsers (sequential,
unit-tested), Windows and macOS (the same interfaces over other kernels),
`OmniUI` (a mock). Since these are nearly all of the repository's lines, the part
that is mapped stays small; of the files of `src/corelib/thread` and
`src/concurrent` that hold its concurrent logic most are modelled.

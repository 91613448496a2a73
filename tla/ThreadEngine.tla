---------------------------- MODULE ThreadEngine ----------------------------
(***************************************************************************)
(* QtConcurrent's mapped-reduced computation, from the source up: the      *)
(* barrier and the worker loop of ThreadEngineBase                         *)
(* (src/concurrent/qtconcurrentthreadengine.cpp), the two iteration modes  *)
(* of IterateKernel (qtconcurrentiteratekernel.h), the reduction of        *)
(* ReduceKernel (qtconcurrentreducekernel.h) and the kernels that join     *)
(* them (MappedReducedKernel, FilterKernel and FilteredReducedKernel share *)
(* their control).                                                         *)
(*                                                                         *)
(* One engine is run by several threads of a pool.  Each takes a block of  *)
(* the input, calls the user's functor on it and hands the intermediate    *)
(* results to the reducer, which lets one thread reduce at a time and      *)
(* keeps the results of the others in a map.  The client suspends, resumes *)
(* and cancels through the future meanwhile; the functor may throw.        *)
(*                                                                         *)
(* The pool is external: it starts a further thread if it has one to spare *)
(* (tryStart), which is a choice here, and takes the queued engine some    *)
(* day.  The block size depends on the clock: any size up to MaxBlock.     *)
(***************************************************************************)
EXTENDS Integers, FiniteSets, FiniteSetsExt

CONSTANTS
  Threads,        \* the threads of the pool
  IterationCount, \* the length of the input
  MaxBlock,       \* bound of BlockSizeManager::blockSize()
  StartLimit,     \* ReduceQueueStartLimit * threadCount
  ThrottleLimit,  \* ReduceQueueThrottleLimit * threadCount
  MaySuspend,     \* how often the client suspends (a bound)
  MayThrow        \* may the map functor throw?

ASSUME EngineAssumption ==
  /\ IsFiniteSet(Threads) /\ Threads # {}
  /\ IterationCount \in Nat \ {0}
  /\ MaxBlock \in Nat \ {0}
  /\ StartLimit \in Nat /\ ThrottleLimit \in Nat /\ StartLimit <= ThrottleLimit
  /\ MaySuspend \in Nat
  /\ MayThrow \in BOOLEAN

VARIABLES
  forIteration,    \* random access input?  Never changes
  ordered,         \* OrderedReduce or UnorderedReduce?  Never changes
  queued,          \* the engine waits in the pool's queue
  count,           \* ThreadEngineBarrier::count
  pc,              \* where each thread is
  block,           \* the block a thread has reserved
  currentIndex,    \* IterateKernel::currentIndex (and `current`)
  iteratorThreads, \* IterateKernel::iteratorThreads
  progress,        \* ReduceKernel::progress
  resultsMap,      \* ReduceKernel::resultsMap: a set of blocks
  resultsMapSize,  \* ReduceKernel::resultsMapSize
  hand,            \* the blocks a thread is reducing with the mutex released
  reduced,         \* history: how often each index was reduced
  future,          \* the state bits of the QFutureInterface
  suspends         \* history: suspensions so far

engine  == <<queued, count>>
input   == <<currentIndex, iteratorThreads>>
reducer == <<progress, resultsMap, resultsMapSize, hand, reduced>>
mode    == <<forIteration, ordered>>
vars    == <<mode, engine, pc, block, input, reducer, future, suspends>>

Index   == 0..IterationCount-1
Block   == [begin : Index, end : 1..IterationCount]
NoBlock == [begin |-> 0, end |-> 0]
Items(blocks) == UNION {b.begin..b.end-1 : b \in blocks}

Locations == {"idle", "run", "startThreads", "tryStart",
              "function", "reserve", "resume", "waiting", "decide", "iterate",
              "reducing", "after", "throttle", "exit", "finish", "report"}

Bits == [canceled : BOOLEAN, suspending : BOOLEAN, suspended : BOOLEAN,
         finished : BOOLEAN]

Init ==
  /\ forIteration \in BOOLEAN /\ ordered \in BOOLEAN
  /\ queued = TRUE /\ count = 1
  /\ pc = [t \in Threads |-> "idle"]
  /\ block = [t \in Threads |-> NoBlock]
  /\ currentIndex = 0 /\ iteratorThreads = 0
  /\ progress = 0 /\ resultsMap = {} /\ resultsMapSize = 0
  /\ hand = [t \in Threads |-> {}]
  /\ reduced = [i \in Index |-> 0]
  /\ future = [canceled |-> FALSE, suspending |-> FALSE, suspended |-> FALSE,
               finished |-> FALSE]
  /\ suspends = 0

Goto(t, there) == pc' = [pc EXCEPT ![t] = there]

\* pausedWaitCondition.wakeAll(): every thread that waits goes on after the wait.
WakePaused == pc' = [t \in Threads |-> IF pc[t] = "waiting" THEN "decide" ELSE pc[t]]

Halted == future.suspending \/ future.suspended

-----------------------------------------------------------------------------
(* The predicates of the kernels.                                          *)

ShouldThrottle == Halted \/ resultsMapSize > ThrottleLimit

ShouldStartThread ==
  /\ IF forIteration THEN currentIndex < IterationCount /\ ~ShouldThrottle
                     ELSE iteratorThreads = 0
  /\ resultsMapSize <= StartLimit

-----------------------------------------------------------------------------
(* The engine: starting threads and leaving.                               *)

\* The pool's spare threads are interchangeable: any of them stands for all.
Idle  == {u \in Threads : pc[u] = "idle"}
Spare == CHOOSE u \in Threads : pc[u] = "idle"

\* QThreadPool::start(this) of startAsynchronously(), as the pool gets to it.
PoolStart ==
  /\ queued /\ Idle # {}
  /\ queued' = FALSE
  /\ Goto(Spare, "run")
  /\ UNCHANGED <<mode, count, block, input, reducer, future, suspends>>

Run(t) ==
  /\ pc[t] = "run"
  /\ Goto(t, IF future.canceled THEN "exit" ELSE "startThreads")
  /\ UNCHANGED <<mode, engine, block, input, reducer, future, suspends>>

\* Where a thread goes once it starts no more threads: into the loop, or on
\* with the block it has in hand.
Onward(t) == IF block[t] = NoBlock THEN "function" ELSE "iterate"

\* shouldStartThread() && startThreadInternal(), up to barrier.acquire().  Since
\* this thread is counted itself, nobody can tell when within its start of
\* another thread the count goes up, or down again.
ConsiderThread(t) ==
  /\ pc[t] \in {"startThreads", "decide"}
  /\ IF ShouldStartThread /\ ~future.canceled
     THEN count' = count + 1 /\ Goto(t, "tryStart")
     ELSE UNCHANGED count /\ Goto(t, Onward(t))
  /\ UNCHANGED <<mode, queued, block, input, reducer, future, suspends>>

\* threadPool->tryStart(this) finds a thread, which enters run().
TryStart(t) ==
  /\ pc[t] = "tryStart" /\ Idle # {}
  /\ pc' = [pc EXCEPT ![Spare] = "run",
                      ![t] = IF block[t] = NoBlock THEN "startThreads" ELSE "iterate"]
  /\ UNCHANGED <<mode, engine, block, input, reducer, future, suspends>>

\* Mutant: a failed start forgets to release the barrier.
TryStartLeaks(t) ==
  /\ pc[t] = "tryStart"
  /\ Goto(t, Onward(t))
  /\ UNCHANGED <<mode, engine, block, input, reducer, future, suspends>>

\* It finds none, for the pool is busy with this engine or with something else:
\* barrier.release().
TryStartFails(t) ==
  /\ pc[t] = "tryStart"
  /\ count' = count - 1
  /\ Goto(t, Onward(t))
  /\ UNCHANGED <<mode, queued, block, input, reducer, future, suspends>>

\* Mutant: the last thread may go as well.
AnyMayLeave == TRUE
MayLeave == count # 1

\* threadThrottleExit(): releaseUnlessLast() lets this thread go...
ThrottleExit(t) ==
  /\ pc[t] = "throttle" /\ MayLeave
  /\ count' = count - 1
  /\ Goto(t, "idle")
  /\ UNCHANGED <<mode, queued, block, input, reducer, future, suspends>>

\* ... or not, and reportIfSuspensionDone() tells the future.
ThrottleStay(t) ==
  /\ pc[t] = "throttle" /\ ~MayLeave
  /\ future' = IF future.suspending /\ ~future.suspended
               THEN [future EXCEPT !.suspending = FALSE, !.suspended = TRUE] ELSE future
  /\ Goto(t, "function")
  /\ UNCHANGED <<mode, engine, block, input, reducer, suspends>>

ThreadExit(t) ==
  /\ pc[t] = "exit"
  /\ count' = count - 1
  /\ Goto(t, IF count = 1 THEN "finish" ELSE "idle")
  /\ UNCHANGED <<mode, queued, block, input, reducer, future, suspends>>

\* asynchronousFinish(): the kernel's finish(), ...
Finish(t) ==
  /\ pc[t] = "finish"
  /\ reduced' = [i \in Index |-> reduced[i] + (IF i \in Items(resultsMap) THEN 1 ELSE 0)]
  /\ Goto(t, "report")
  /\ UNCHANGED <<mode, engine, block, input, progress, resultsMap, resultsMapSize, hand,
                 future, suspends>>

\* ... then reportFinished() and the end of the engine.
Report(t) ==
  /\ pc[t] = "report"
  /\ future' = [future EXCEPT !.finished = TRUE]
  /\ Goto(t, "idle")
  /\ UNCHANGED <<mode, engine, block, input, reducer, suspends>>

-----------------------------------------------------------------------------
(* IterateKernel: forThreadFunction() and whileThreadFunction().           *)

\* The head of the for loop: isCanceled(), and the look at currentIndex.
ForLook(t) ==
  /\ forIteration /\ pc[t] = "function"
  /\ Goto(t, IF future.canceled \/ currentIndex >= IterationCount THEN "exit" ELSE "reserve")
  /\ UNCHANGED <<mode, engine, block, input, reducer, future, suspends>>

\* Mutant: a block that does not fit is dropped instead of shortened.
EndIndexWhole(size) == IF currentIndex + size > IterationCount THEN currentIndex ELSE currentIndex + size
EndIndex(size) == Min({currentIndex + size, IterationCount})

\* currentIndex.fetchAndAddRelease(blockSize); several threads may overshoot.
ForReserve(t) ==
  /\ forIteration /\ pc[t] = "reserve"
  /\ \E size \in 1..MaxBlock :
       /\ currentIndex' = currentIndex + size
       /\ IF currentIndex >= EndIndex(size)
          THEN Goto(t, "exit") /\ UNCHANGED block
          ELSE /\ Goto(t, "resume")
               /\ block' = [block EXCEPT ![t] = [begin |-> currentIndex, end |-> EndIndex(size)]]
  /\ UNCHANGED <<mode, engine, iteratorThreads, reducer, future, suspends>>

\* iteratorThreads.testAndSetAcquire(0, 1): one thread at a time advances.
WhileEnter(t) ==
  /\ ~forIteration /\ pc[t] = "function"
  /\ iteratorThreads' = 1
  /\ Goto(t, IF iteratorThreads = 0 THEN "reserve" ELSE "exit")
  /\ UNCHANGED <<mode, engine, block, currentIndex, reducer, future, suspends>>

\* The thread that entered takes the element at `current` and lets the next one
\* in, or finds the end, and then keeps everybody out.
WhileAdvance(t) ==
  /\ ~forIteration /\ pc[t] = "reserve"
  /\ IF currentIndex = IterationCount
     THEN Goto(t, "exit") /\ UNCHANGED <<block, input>>
     ELSE /\ Goto(t, "resume")
          /\ block' = [block EXCEPT ![t] = [begin |-> currentIndex, end |-> currentIndex + 1]]
          /\ currentIndex' = currentIndex + 1
          /\ iteratorThreads' = 0
  /\ UNCHANGED <<mode, engine, reducer, future, suspends>>

MustWait == Halted /\ ~future.canceled

\* waitForResume(): one wait, whatever the state is when it returns.
WaitForResume(t) ==
  /\ pc[t] = "resume"
  /\ Goto(t, IF MustWait THEN "waiting" ELSE "decide")
  /\ UNCHANGED <<mode, engine, block, input, reducer, future, suspends>>

\* The map functor throws; run() reports the exception, which cancels, and the
\* thread leaves.
Throw(t) ==
  /\ MayThrow /\ pc[t] = "iterate"
  /\ future' = IF future.canceled THEN future
               ELSE [future EXCEPT !.canceled = TRUE]
  /\ pc' = [u \in Threads |-> IF u = t THEN "exit"
                              ELSE IF pc[u] = "waiting" /\ ~future.canceled THEN "decide"
                              ELSE pc[u]]
  /\ block' = [block EXCEPT ![t] = NoBlock]
  /\ UNCHANGED <<mode, engine, input, reducer, suspends>>

\* The end of an iteration: shouldThrottleThread(), or on with the loop.
After(t) ==
  /\ pc[t] = "after"
  /\ Goto(t, IF ShouldThrottle THEN "throttle" ELSE "function")
  /\ block' = [block EXCEPT ![t] = NoBlock]
  /\ UNCHANGED <<mode, engine, input, reducer, future, suspends>>

-----------------------------------------------------------------------------
(* ReduceKernel::runReduce().  Each action is one hold of its mutex; the   *)
(* reduction itself runs between two of them.                              *)

CanReduce(b) == progress = IF ordered THEN b.begin ELSE 0

\* Somebody else reduces, or an earlier block is missing: keep it for later.
Keep(t) ==
  /\ pc[t] = "iterate" /\ ~CanReduce(block[t])
  /\ resultsMapSize' = resultsMapSize + 1
  /\ resultsMap' = resultsMap \cup {block[t]}
  /\ Goto(t, "after")
  /\ UNCHANGED <<mode, engine, block, input, progress, hand, reduced, future, suspends>>

\* Unordered, -1 says that a reduction is under way.  Mutant: it does not.
MarkNothing == progress
MarkBusy == IF ordered THEN progress ELSE -1

BeginReduce(t) ==
  /\ pc[t] = "iterate" /\ CanReduce(block[t])
  /\ progress' = MarkBusy
  /\ hand' = [hand EXCEPT ![t] = {block[t]}]
  /\ Goto(t, "reducing")
  /\ UNCHANGED <<mode, engine, block, input, resultsMap, resultsMapSize, reduced, future, suspends>>

\* The functor has seen every element of the blocks in hand.
Apply(t) == reduced' = [i \in Index |-> reduced[i] + (IF i \in Items(hand[t]) THEN 1 ELSE 0)]

\* What the thread took from the map, rather than from the input.
Stored(t) == hand[t] \ {block[t]}

\* Mutant: the map is cleared after the copy of it was reduced.
ReduceStoredClears(t) ==
  /\ pc[t] = "reducing" /\ ~ordered
  /\ Apply(t)
  /\ resultsMapSize' = resultsMapSize - Cardinality(Stored(t))
  /\ hand' = [hand EXCEPT ![t] = IF Stored(t) = {} THEN resultsMap ELSE {}]
  /\ resultsMap' = {}
  /\ IF hand'[t] = {}
     THEN progress' = 0 /\ Goto(t, "after")
     ELSE UNCHANGED <<progress, pc>>
  /\ UNCHANGED <<mode, engine, block, input, future, suspends>>

\* Unordered: all that has come in since is the next batch; `progress` says
\* that a reduction is under way, and is 0 again when there is none left.
ReduceStored(t) ==
  /\ pc[t] = "reducing" /\ ~ordered
  /\ Apply(t)
  /\ resultsMapSize' = resultsMapSize - Cardinality(Stored(t))
  /\ hand' = [hand EXCEPT ![t] = resultsMap]
  /\ resultsMap' = {}
  /\ IF resultsMap = {}
     THEN progress' = 0 /\ Goto(t, "after")
     ELSE UNCHANGED <<progress, pc>>
  /\ UNCHANGED <<mode, engine, block, input, future, suspends>>

\* The first of these blocks, if it starts at p.
FirstAt(blocks, p) == {x \in blocks : x.begin = p /\ \A y \in blocks : p <= y.begin}

\* Ordered: go on with the first block of the map if it comes next.  A block
\* taken from the map is erased from it only after it was reduced.
ReduceNext(t) ==
  /\ pc[t] = "reducing" /\ ordered
  /\ Apply(t)
  /\ LET b    == CHOOSE x \in hand[t] : TRUE
         rest == resultsMap \ hand[t]
         it   == IF Stored(t) = {} THEN rest ELSE {x \in rest : x.begin > b.begin}
         next == FirstAt(it, progress')
     IN /\ progress' = progress + b.end - b.begin
        /\ resultsMap' = rest
        /\ resultsMapSize' = resultsMapSize - Cardinality(Stored(t))
        /\ hand' = [hand EXCEPT ![t] = next]
        /\ IF next = {} THEN Goto(t, "after") ELSE UNCHANGED pc
  /\ UNCHANGED <<mode, engine, block, input, future, suspends>>

-----------------------------------------------------------------------------
(* The client.                                                             *)

\* setSuspended(true)
Suspend ==
  /\ suspends < MaySuspend
  /\ suspends' = suspends + 1
  /\ future' = [future EXCEPT !.suspending = TRUE]
  /\ UNCHANGED <<mode, engine, pc, block, input, reducer>>

\* setSuspended(false)
Resume ==
  /\ Halted
  /\ future' = [future EXCEPT !.suspending = FALSE, !.suspended = FALSE]
  /\ WakePaused
  /\ UNCHANGED <<mode, engine, block, input, reducer, suspends>>

\* cancel()
Cancel ==
  /\ ~future.canceled
  /\ future' = [future EXCEPT !.canceled = TRUE, !.suspending = FALSE, !.suspended = FALSE]
  /\ WakePaused
  /\ UNCHANGED <<mode, engine, block, input, reducer, suspends>>

Client == Suspend \/ Resume \/ Cancel

Worker(t) ==
  \/ Run(t) \/ ConsiderThread(t) \/ TryStart(t) \/ TryStartFails(t)
  \/ ThrottleExit(t) \/ ThrottleStay(t) \/ ThreadExit(t) \/ Finish(t)
  \/ Report(t) \/ ForLook(t) \/ ForReserve(t) \/ WhileEnter(t) \/ WhileAdvance(t)
  \/ WaitForResume(t) \/ Throw(t) \/ After(t) \/ Keep(t) \/ BeginReduce(t)
  \/ ReduceStored(t) \/ ReduceNext(t)

Next == Client \/ PoolStart \/ \E t \in Threads : Worker(t)

\* The pool and the scheduler keep some thread running while one can, which
\* need not be each of them; and a client that suspends resumes in the end.
\* Cancelling is its choice.
Scheduled == WF_vars(PoolStart \/ \E t \in Threads : Worker(t))
Spec == Init /\ [][Next]_vars /\ Scheduled /\ WF_vars(Resume)

\* A client that may leave the computation suspended for good.
Patient == Init /\ [][Next]_vars /\ Scheduled

-----------------------------------------------------------------------------
(* Properties.                                                             *)

\* Types; the counters never leave the ranges the code relies on.
TypeOK ==
  /\ forIteration \in BOOLEAN /\ ordered \in BOOLEAN /\ queued \in BOOLEAN
  /\ count \in 0..2 * Cardinality(Threads)
  /\ pc \in [Threads -> Locations]
  /\ block \in [Threads -> Block \cup {NoBlock}]
  /\ currentIndex \in 0..IterationCount + MaxBlock * Cardinality(Threads)
  /\ iteratorThreads \in {0, 1}
  /\ progress \in -1..IterationCount
  /\ resultsMap \subseteq Block /\ resultsMapSize \in 0..IterationCount
  /\ hand \in [Threads -> SUBSET Block]
  /\ reduced \in [Index -> Nat]
  /\ future \in Bits /\ suspends \in 0..MaySuspend

\* The barrier counts exactly the threads that use the engine, those about to
\* be started included; whoever finishes it is alone, and nobody uses it
\* afterwards, for it deletes itself
\* (ThreadEngineBarrier::release, releaseUnlessLast; asynchronousFinish).
Inside  == {t \in Threads : pc[t] \notin {"idle", "finish", "report"}}
Starting == {t \in Threads : pc[t] = "tryStart"}
LastOneOut ==
  /\ count = Cardinality(Inside) + Cardinality(Starting) + (IF queued THEN 1 ELSE 0)
  /\ \A t \in Threads : pc[t] \in {"finish", "report"} =>
       ~queued /\ \A u \in Threads \ {t} : pc[u] = "idle"
  /\ future.finished => count = 0 /\ \A t \in Threads : pc[t] = "idle"

\* Only one thread at a time calls the reduce functor, though the mutex is
\* released while it does (runReduce).
OneReducer ==
  \A t, u \in Threads : pc[t] = "reducing" /\ pc[u] \in {"reducing", "finish"} => t = u

\* With OrderedReduce, what has been reduced is a prefix of the input as long
\* as the computation runs, whatever order the blocks come in.
InOrder ==
  ordered /\ count # 0 => \A i \in Index : reduced[i] > 0 => \A j \in 0..i : reduced[j] = 1

\* Every element taken from the input is in exactly one place: in a block being
\* mapped, in the map of results, in the hands of the reducing thread, or
\* reduced, once.  resultsMapSize counts what is in the map and, unordered, in
\* the hands of the one who took it from there.
Mapping(t) == pc[t] \in {"resume", "waiting", "decide", "tryStart", "iterate"}
Places(i) ==
  reduced[i]
    + Cardinality({t \in Threads : Mapping(t) /\ i \in Items({block[t]})})
    + Cardinality({t \in Threads : i \in Items(hand[t])})
    + (IF i \in Items(resultsMap \ UNION {hand[t] : t \in Threads})
            /\ ~future.finished /\ \A t \in Threads : pc[t] # "report" THEN 1 ELSE 0)
Accounted ==
  /\ \A i \in Index : IF i >= currentIndex THEN Places(i) = 0
                       ELSE Places(i) = 1 \/ (MayThrow /\ future.canceled /\ Places(i) = 0)
  /\ resultsMapSize = Cardinality(resultsMap \cup UNION {Stored(t) : t \in Threads})

\* A computation over a random access range that finishes without having been
\* canceled has mapped and reduced all of its input, however often threads were
\* throttled out or suspended on the way.
AllReduced ==
  forIteration /\ future.finished /\ ~future.canceled => \A i \in Index : reduced[i] = 1

\* Suspended is reported only when it is true: nobody maps or reduces then
\* (reportIfSuspensionDone is called by the last thread only).
SuspendedMeansQuiet ==
  future.suspended /\ ~future.canceled =>
    \A t \in Threads : pc[t] \notin {"iterate", "reducing"}

\* The threads enter, leave and report in order.
EngineSane == TypeOK /\ LastOneOut /\ SuspendedMeansQuiet

\* The reducer takes one block at a time, in their order if it is asked to.
ReducesInTurn == OneReducer /\ InOrder

\* The computation finishes, if a client that suspends it resumes or cancels it:
\* a throttled thread never leaves the work to nobody.
Finishes == <>future.finished

-----------------------------------------------------------------------------
(* What the documentation says, and does not hold (see the README).        *)

\* "Calls mapFunction once for each item in sequence": qtconcurrentmap.cpp.
MapsEverything ==
  future.finished /\ ~future.canceled => \A i \in Index : reduced[i] = 1

\* isSuspended(): "a suspension has been requested, and it is in effect":
\* a suspension that stays requested is reported as in effect some time.
SuspensionTakesEffect ==
  future.suspending ~> (~future.suspending \/ future.canceled \/ future.finished)

=============================================================================

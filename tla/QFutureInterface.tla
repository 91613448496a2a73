-------------------------- MODULE QFutureInterface --------------------------
(***************************************************************************)
(* The shared state of a QFuture: QFutureInterfaceBase                     *)
(* (src/corelib/thread/qfutureinterface.cpp and .h), QPromise (qpromise.h) *)
(* and the ResultStore (qresultstore.cpp and .h).                          *)
(*                                                                         *)
(* Workers report results, an exception or the end.  Other threads wait    *)
(* for a result or for the end, the client suspends, resumes and cancels,  *)
(* and output interfaces (QFutureWatcher is one) connect at any time and   *)
(* are told what happens.  Nearly every operation is one critical section  *)
(* of m_mutex and one action here.                                         *)
(*                                                                         *)
(* Who works is outside: a map or filter kernel of QtConcurrent, which     *)
(* reports each block of its input once, with its index, in any order; or  *)
(* a QPromise, which reports at any index or behind the last, may report   *)
(* an index twice and may be destroyed at any time.  Continuations have a  *)
(* module of their own.                                                    *)
(***************************************************************************)
EXTENDS Integers, FiniteSets, FiniteSetsExt, SequencesExt

CONSTANTS
  Workers,     \* the threads that report
  Waiters,     \* the threads that wait
  Watchers,    \* the output interfaces
  Count,       \* length of the input, or how much a promise reports (a bound)
  MaxBlock,    \* the longest list of results reported at once (a bound)
  Awaited,     \* what is waited for: some indices, All, End
  All,         \* waitForResult(-1): until the end, or an exception
  End,         \* waitForFinished()
  MaxSuspend   \* how often the client suspends (a bound)

ASSUME FutureAssumption ==
  /\ Count \in Nat \ {0} /\ MaxBlock \in Nat \ {0} /\ MaxSuspend \in Nat
  /\ Awaited \subseteq Nat \cup {All, End}
  /\ All \notin Nat /\ End \notin Nat /\ All # End

VARIABLES
  mode,          \* who reports: "map", "filter" or "promise".  Never changes
  phase,         \* of the one who reports: "new", "begun" or "ended"
  state,         \* QFutureInterfaceBasePrivate::state, the set of bits that are on
  hasException,
  store,         \* data.m_results
  left,          \* the inputs not reported so far
  kept,          \* history: the reported inputs that were not filtered away
  pc,            \* of the workers: at work, or in pausedWaitCondition
  at,            \* of the waiters: where they are
  awaits,        \* what they wait for
  told,          \* what each output interface was told so far
  suspends,      \* history: suspensions so far
  thrown         \* history: setException() of the promise was called

work  == <<mode, phase, left, kept>>
calls == <<at, awaits>>
vars  == <<work, state, hasException, store, pc, calls, told, suspends, thrown>>

Bits    == {"Pending", "Started", "Running", "Suspending", "Suspended", "Canceled", "Finished"}
Halted  == {"Suspending", "Suspended"}
Inputs  == 0..Count-1
Indices == 0..2 * Count - 1   \* results appended behind the last explicit index

On(bit) == bit \in state

-----------------------------------------------------------------------------
(* The result store.  m_results is the function from index to result, the  *)
(* results of a batch each at their own.  A result is the input it is for. *)

EmptyStore == [results |-> <<>>, pending |-> <<>>, insertIndex |-> 0,
               resultCount |-> 0, filteredResults |-> 0]

\* f, with what g holds where f holds nothing: an insertion into a map.
Upon(f, g) == [i \in DOMAIN f \cup DOMAIN g |-> IF i \in DOMAIN f THEN f[i] ELSE g[i]]

\* The numbers of S in ascending order.
Ascending(S) ==
  CHOOSE q \in [1..Cardinality(S) -> S] :
    \A i, j \in 1..Cardinality(S) : i < j => q[i] < q[j]

\* A ResultItem: so many inputs, and the results that are left of them.  An
\* item without results stands for what was filtered away.
Item(n, results) == [count |-> n, results |-> results]

SyncResultCount(s) ==
  LET behind == {i \in s.resultCount..2 * Count : i \notin DOMAIN s.results}
  IN  [s EXCEPT !.resultCount = Min(behind)]

InsertIfValid(s, index, item) ==
  IF item.results # <<>>
  THEN SyncResultCount([s EXCEPT
         !.results = Upon([i \in index..index + item.count - 1 |-> item.results[i - index + 1]], @)])
  ELSE [s EXCEPT !.filteredResults = @ + item.count]

\* One round of the loop of syncPendingResults(), which ends where it changes nothing.
SyncOne(s) ==
  LET first == Min(DOMAIN s.pending) IN
  IF s.pending # <<>> /\ first = s.resultCount + s.filteredResults
  THEN [InsertIfValid(s, first - s.filteredResults, s.pending[first]) EXCEPT
          !.pending = Restrict(@, DOMAIN @ \ {first})]
  ELSE s

SyncFirst(s) == SyncOne(s)   \* mutant: only the first pending item is looked at

SyncPendingResults(s) ==
  LET after[n \in 0..Count] == IF n = 0 THEN s ELSE SyncOne(after[n - 1])
  IN  after[Cardinality(DOMAIN s.pending)]

\* Only a filter holds back what comes before its turn.
MustPend(s, index) == mode = "filter" /\ index # -1 /\ index > s.insertIndex

StoreIndex(s, index) == IF index = -1 THEN s.insertIndex ELSE index

InsertItem(s, index, item) ==
  SyncPendingResults(
    IF MustPend(s, index)
    THEN [s EXCEPT !.pending = Upon([i \in {index} |-> item], @)]
    ELSE LET there == StoreIndex(s, index)
         IN  InsertIfValid([s EXCEPT !.insertIndex = Max({@, there + item.count})],
                           there - s.filteredResults, item))

\* addResult(), emplaceResult() and addResults(): a list of which some were
\* filtered away is inserted as two items, one of them without results.
AddResults(s, index, n, results) ==
  IF mode # "filter" \/ Len(results) = n
  THEN InsertItem(s, index, Item(n, results))
  ELSE LET in == IF results = <<>> THEN s
                 ELSE InsertItem(s, index, Item(Len(results), results))
       IN  InsertItem(in, index + Len(results), Item(n - Len(results), <<>>))

ContainsNothing(s, index) == FALSE   \* mutant: nothing is rejected

\* Rejected: there is a result at that index, or one held back for it.
ContainsValid(s, index) ==
  IF MustPend(s, index) THEN index \in DOMAIN s.pending /\ s.pending[index].results # <<>>
                        ELSE index \in DOMAIN s.results

-----------------------------------------------------------------------------
(* Waking threads and telling the output interfaces.                       *)

WakeWaiters == at' = [c \in Waiters |-> IF at[c] = "asleep" THEN "awake" ELSE at[c]]

Woken(w)   == IF pc[w] = "paused" THEN "awake" ELSE pc[w]
WakePaused == pc' = [w \in Workers |-> Woken(w)]

Twice(n) == IF n < 2 THEN n + 1 ELSE n   \* counts up to two

Unaware == [connected |-> FALSE, gone |-> FALSE, Started |-> 0, Canceled |-> 0,
            Finished |-> 0, halt |-> "none", ready |-> [i \in Indices |-> 0]]

Hears(r, bits) ==
  [r EXCEPT !.Started  = IF "Started"  \in bits THEN Twice(@) ELSE @,
            !.Canceled = IF "Canceled" \in bits THEN Twice(@) ELSE @,
            !.Finished = IF "Finished" \in bits THEN Twice(@) ELSE @]

HearsReady(r, indices) ==
  [r EXCEPT !.ready = [i \in Indices |-> IF i \in indices THEN Twice(@[i]) ELSE @[i]]]

HearsHalt(r, what) == [r EXCEPT !.halt = what]

\* sendCallOut(): everybody connected hears the same.
Tell(bits)         == told' = [o \in Watchers |->
                        IF told[o].connected THEN Hears(told[o], bits) ELSE told[o]]
TellReady(indices) == told' = [o \in Watchers |->
                        IF told[o].connected THEN HearsReady(told[o], indices) ELSE told[o]]
TellHalt(what)     == told' = [o \in Watchers |->
                        IF told[o].connected THEN HearsHalt(told[o], what) ELSE told[o]]

-----------------------------------------------------------------------------
Init ==
  /\ mode \in {"map", "filter", "promise"}
  /\ phase = "new"
  /\ state \in IF mode = "promise" THEN {{}, {"Pending"}} ELSE {{}}
  /\ hasException = FALSE
  /\ store = EmptyStore
  /\ left = Inputs /\ kept = {}
  /\ pc = [w \in Workers |-> "work"]
  /\ at = [c \in Waiters |-> "out"] /\ awaits = [c \in Waiters |-> End]
  /\ told = [o \in Watchers |-> Unaware]
  /\ suspends = 0 /\ thrown = FALSE

-----------------------------------------------------------------------------
(* Reporting.                                                              *)

OverWhenFinished == On("Finished")   \* mutant: a canceled future takes results

Over    == On("Canceled") \/ On("Finished")
Busy(w) == phase = "begun" /\ pc[w] = "work"
AllBusy == \A w \in Workers : pc[w] = "work"

ReportStarted ==
  /\ phase = "new"
  /\ phase' = "begun"
  /\ IF On("Started") \/ Over THEN UNCHANGED <<state, told>>
     ELSE state' = {"Started", "Running"} /\ Tell({"Started"})
  /\ UNCHANGED <<mode, left, kept, hasException, store, pc, calls, suspends, thrown>>

\* Mutant: nothing happens for an empty announcement.
ReportIfAny(begin, end) ==
  IF begin >= end THEN UNCHANGED <<at, told>>
  ELSE WakeWaiters /\ TellReady(begin..end-1)

\* reportResultsReady() for the indices from begin up to end.
ReportResultsReady(begin, end) ==
  IF begin = end THEN UNCHANGED <<at, told>>
  ELSE WakeWaiters /\ TellReady(begin..end-1)

AnnouncedBlock(index, n, s) == <<index, index + n>>   \* mutant: source indices of a filter

\* What a kernel's reportResult() and reportResults() announce: what a filter
\* lets out now, or else the block itself.
Announced(index, n, s) ==
  IF mode = "filter" THEN <<store.resultCount, s.resultCount>> ELSE <<index, index + n>>

\* A kernel reports the block of n inputs from index, less what it filters away.
KernelReports(index, n, keep) ==
  LET results == Ascending(keep)
      s       == AddResults(store, index, n, results)
      ready   == Announced(index, n, s)
  IN  IF Over THEN UNCHANGED <<store, left, kept, at, told>>
      ELSE /\ store' = s
           /\ left' = left \ (index..index + n - 1) /\ kept' = kept \cup keep
           /\ ReportResultsReady(ready[1], ready[2])

ReportResults(w) ==
  /\ Busy(w) /\ mode # "promise"
  /\ \E index \in left, n \in 1..MaxBlock : \E keep \in SUBSET (index..index + n - 1) :
       /\ index..index + n - 1 \subseteq left
       /\ mode = "map" => Cardinality(keep) = n
       /\ KernelReports(index, n, keep)
  /\ UNCHANGED <<mode, phase, state, hasException, pc, awaits, suspends, thrown>>

\* QPromise::addResult() and emplaceResult(): reportAndEmplaceResult().  The
\* announcement reaches from the new result to the end of the gapless ones.
EmplaceResult(w) ==
  /\ Busy(w) /\ mode = "promise" /\ left # {}
  /\ left' = left \ {Min(left)}
  /\ \E index \in Inputs \cup {-1} :
       LET s == AddResults(store, index, 1, <<Min(left)>>)
       IN  IF Over \/ ContainsValid(store, index) THEN UNCHANGED <<store, at, told, kept>>
           ELSE /\ store' = s /\ kept' = kept \cup {Min(left)}
                /\ ReportResultsReady(StoreIndex(store, index), s.resultCount)
  /\ UNCHANGED <<mode, phase, state, hasException, pc, awaits, suspends, thrown>>

\* QPromise::addResults(): reportResults() with a list for the end.
AddResultList(w) ==
  /\ Busy(w) /\ mode = "promise" /\ left # {}
  /\ \E n \in 2..MaxBlock :
       LET first == Min(left)
           list  == [i \in 1..n |-> first + i - 1]
       IN  /\ first + n - 1 < Count
           /\ left' = left \ ToSet(list)
           /\ IF Over THEN UNCHANGED <<store, at, told, kept>>
              ELSE /\ store' = AddResults(store, -1, n, list)
                   /\ kept' = kept \cup ToSet(list)
                   /\ ReportResultsReady(store.insertIndex, store.insertIndex + n)
  /\ UNCHANGED <<mode, phase, state, hasException, pc, awaits, suspends, thrown>>

\* QPromise::setException() clears the store, without the mutex and before it
\* looks at the state.  It may be called once ("at most one exception").
ClearResults(w) ==
  /\ Busy(w) /\ mode = "promise" /\ ~thrown /\ ~hasException
  /\ store' = EmptyStore
  /\ pc' = [pc EXCEPT ![w] = "throw"]
  /\ thrown' = TRUE
  /\ UNCHANGED <<work, state, hasException, calls, told, suspends>>

\* reportException(); a kernel calls the one of the base class at once.
ReportException(w) ==
  /\ pc[w] = "throw" \/ (Busy(w) /\ mode # "promise")
  /\ IF Over
     THEN /\ pc' = [pc EXCEPT ![w] = "work"]
          /\ UNCHANGED <<state, hasException, store, at, told>>
     ELSE /\ hasException' = TRUE /\ store' = EmptyStore
          /\ state' = state \cup {"Canceled"}
          /\ pc' = [v \in Workers |-> IF v = w THEN "work" ELSE Woken(v)]
          /\ WakeWaiters
          /\ Tell({"Canceled"})
  /\ UNCHANGED <<work, awaits, suspends, thrown>>

\* Mutant: who waits is not woken.
ReportFinishedQuietly ==
  /\ phase = "begun" /\ AllBusy
  /\ phase' = "ended"
  /\ state' = (state \ {"Running"}) \cup {"Finished"}
  /\ Tell({"Finished"})
  /\ UNCHANGED <<mode, left, kept, hasException, store, pc, calls, suspends, thrown>>

\* The last worker, or QPromise::finish(), whatever was reported by then.
ReportFinished ==
  /\ phase = "begun" /\ AllBusy
  /\ phase' = "ended"
  /\ state' = (state \ {"Running"}) \cup {"Finished"}
  /\ WakeWaiters
  /\ Tell({"Finished"})
  /\ UNCHANGED <<mode, left, kept, hasException, store, pc, awaits, suspends, thrown>>

\* ~QPromise of a promise that did not finish: cancelAndFinish().
Destroy ==
  /\ phase # "ended" /\ AllBusy /\ mode = "promise"
  /\ phase' = "ended"
  /\ state' = (state \ (Halted \cup {"Running"})) \cup {"Canceled", "Finished"}
  /\ WakeWaiters /\ WakePaused
  /\ Tell({"Finished"} \cup (IF On("Canceled") THEN {} ELSE {"Canceled"}))
  /\ UNCHANGED <<mode, left, kept, hasException, store, awaits, suspends, thrown>>

-----------------------------------------------------------------------------
(* Suspension.                                                             *)

MustPause == state \cap Halted # {} /\ ~On("Canceled")

Pause(w) == pc' = [pc EXCEPT ![w] = "paused"]

\* waitForResume(): the workers of an engine.
WaitForResume(w) ==
  /\ Busy(w) /\ mode # "promise" /\ MustPause
  /\ Pause(w)
  /\ UNCHANGED <<work, state, hasException, store, calls, told, suspends, thrown>>

\* The last engine thread that is not waiting reports that all others are.
ReportSuspended ==
  /\ phase = "begun" /\ mode # "promise" /\ AllBusy
  /\ On("Suspending") /\ ~On("Suspended")
  /\ state' = (state \ {"Suspending"}) \cup {"Suspended"}
  /\ TellHalt("suspended")
  /\ UNCHANGED <<work, hasException, store, pc, calls, suspends, thrown>>

\* suspendIfRequested(): a promise waits, and reports it, in one go.
SuspendIfRequested(w) ==
  /\ Busy(w) /\ mode = "promise" /\ MustPause
  /\ IF On("Suspended") THEN UNCHANGED <<state, told>>
     ELSE state' = (state \ {"Suspending"}) \cup {"Suspended"} /\ TellHalt("suspended")
  /\ Pause(w)
  /\ UNCHANGED <<work, hasException, store, calls, suspends, thrown>>

\* A paused worker returns once it has the mutex again.  It is also woken for nothing.
GoOn(w) ==
  /\ pc[w] = "awake"
  /\ pc' = [pc EXCEPT ![w] = "work"]
  /\ UNCHANGED <<work, state, hasException, store, calls, told, suspends, thrown>>

SpuriousResume(w) ==
  /\ pc[w] = "paused"
  /\ pc' = [pc EXCEPT ![w] = "awake"]
  /\ UNCHANGED <<work, state, hasException, store, calls, told, suspends, thrown>>

\* setSuspended(true), and toggleSuspended() of a future that is not suspended.
Suspend ==
  /\ suspends < MaxSuspend /\ suspends' = suspends + 1
  /\ state' = state \cup {"Suspending"}
  /\ TellHalt("suspending")
  /\ UNCHANGED <<work, hasException, store, pc, calls, thrown>>

\* setSuspended(false), and toggleSuspended() of one that is.
Resume ==
  /\ state \cap Halted # {}
  /\ state' = state \ Halted
  /\ WakePaused
  /\ TellHalt("none")
  /\ UNCHANGED <<work, hasException, store, calls, suspends, thrown>>

\* cancel(): CancelOnly.
Cancel ==
  /\ ~On("Canceled")
  /\ state' = (state \ Halted) \cup {"Canceled"}
  /\ WakeWaiters /\ WakePaused
  /\ Tell({"Canceled"})
  /\ UNCHANGED <<work, hasException, store, awaits, suspends, thrown>>

-----------------------------------------------------------------------------
(* Waiting.                                                                *)

RunningOrPending == On("Running") \/ On("Pending")
ReadyAt(index)   == ~hasException /\ index \in DOMAIN store.results

\* The conditions of the two waiting loops.
Served(c) == IF awaits[c] = End THEN On("Finished")
                                ELSE ~RunningOrPending \/ ReadyAt(awaits[c])

\* waitForResult() throws at once if there is an exception, by an unlocked
\* look, and so it does at its end.
CallWait(c) ==
  /\ at[c] = "out"
  /\ \E what \in Awaited :
       /\ awaits' = [awaits EXCEPT ![c] = what]
       /\ at' = [at EXCEPT ![c] = IF hasException /\ what # End THEN "done" ELSE "look"]
  /\ UNCHANGED <<work, state, hasException, store, pc, told, suspends, thrown>>

\* The first look under the mutex.  Then the caller may run the computation
\* itself, if it is still in the queue of a pool, without the mutex.
Look(c) ==
  /\ at[c] = "look"
  /\ at' = [at EXCEPT ![c] =
       IF (IF awaits[c] = End THEN On("Finished") ELSE ~RunningOrPending) THEN "done" ELSE "steal"]
  /\ UNCHANGED <<work, awaits, state, hasException, store, pc, told, suspends, thrown>>

Wait(c) ==
  /\ at[c] \in {"steal", "awake"}
  /\ at' = [at EXCEPT ![c] = IF Served(c) THEN "done" ELSE "asleep"]
  /\ UNCHANGED <<work, awaits, state, hasException, store, pc, told, suspends, thrown>>

SpuriousWake(c) ==
  /\ at[c] = "asleep"
  /\ at' = [at EXCEPT ![c] = "awake"]
  /\ UNCHANGED <<work, awaits, state, hasException, store, pc, told, suspends, thrown>>

-----------------------------------------------------------------------------
(* Output interfaces.                                                      *)

\* connectOutputInterface(): a latecomer is told what it missed.
Connect(o) ==
  /\ ~told[o].connected /\ ~told[o].gone
  /\ LET missed  == Hears(told[o], state)
         results == HearsReady(missed, IF hasException THEN {} ELSE DOMAIN store.results)
         halt    == CASE On("Suspended")  -> "suspended"
                      [] On("Suspending") /\ ~On("Suspended") -> "suspending"
                      [] OTHER            -> "none"
     IN  told' = [told EXCEPT ![o] = [HearsHalt(results, halt) EXCEPT !.connected = TRUE]]
  /\ UNCHANGED <<work, state, hasException, store, pc, calls, suspends, thrown>>

\* disconnectOutputInterface(): what it was told no longer matters.
Disconnect(o) ==
  /\ told[o].connected
  /\ told' = [told EXCEPT ![o] = [Unaware EXCEPT !.gone = TRUE]]
  /\ UNCHANGED <<work, state, hasException, store, pc, calls, suspends, thrown>>

-----------------------------------------------------------------------------
Reporter ==
  \/ ReportStarted \/ ReportFinished \/ Destroy \/ ReportSuspended
  \/ \E w \in Workers :
       \/ ReportResults(w) \/ EmplaceResult(w) \/ AddResultList(w)
       \/ ClearResults(w) \/ ReportException(w)
       \/ WaitForResume(w) \/ SuspendIfRequested(w) \/ GoOn(w) \/ SpuriousResume(w)

Client ==
  \/ Suspend \/ Resume \/ Cancel
  \/ \E c \in Waiters : CallWait(c) \/ Look(c) \/ Wait(c) \/ SpuriousWake(c)
  \/ \E o \in Watchers : Connect(o) \/ Disconnect(o)

Next == Reporter \/ Client

\* Threads run, what was begun is finished, and who suspends resumes.
Fairness ==
  /\ WF_vars(ReportStarted \/ Destroy)
  /\ WF_vars(ReportFinished \/ Destroy)
  /\ WF_vars(Resume)
  /\ \A w \in Workers : WF_vars(GoOn(w)) /\ WF_vars(pc[w] = "throw" /\ ReportException(w))
  /\ \A c \in Waiters : WF_vars(Look(c) \/ Wait(c))

Spec == Init /\ [][Next]_vars /\ Fairness

-----------------------------------------------------------------------------
(* Properties.                                                             *)

\* Everything has its type: the results and what is told of them stay within
\* the indices a report can reach.
TypeOK ==
  /\ mode \in {"map", "filter", "promise"} /\ phase \in {"new", "begun", "ended"}
  /\ state \subseteq Bits /\ hasException \in BOOLEAN
  /\ DOMAIN store.results \subseteq Indices
  /\ \A i \in DOMAIN store.results : store.results[i] \in Inputs
  /\ DOMAIN store.pending \subseteq Inputs
  /\ store.insertIndex \in 0..2 * Count /\ store.resultCount \in 0..2 * Count
  /\ store.filteredResults \in 0..Count
  /\ left \subseteq Inputs /\ kept \subseteq Inputs
  /\ pc \in [Workers -> {"work", "throw", "paused", "awake"}]
  /\ at \in [Waiters -> {"out", "look", "steal", "asleep", "awake", "done"}]
  /\ awaits \in [Waiters -> Awaited \cup {End}]
  /\ suspends \in 0..MaxSuspend /\ thrown \in BOOLEAN

\* Nobody sleeps for what is there: whoever sleeps in waitForResult() or
\* waitForFinished() still has a reason to, and a worker is paused only while
\* the future is suspended and not canceled; every change wakes in time.
NoLostWaiter ==
  /\ \A c \in Waiters : at[c] = "asleep" => ~Served(c)
  /\ \A w \in Workers : pc[w] = "paused" => MustPause

Gapless == Min(left \cup {Count})

FirstGap == Min({i \in 0..2 * Count : i \notin DOMAIN store.results})

\* However the reports of the threads are ordered, the store holds what was
\* reported at its index; a filter's store holds what was kept of the input up
\* to the first block still out, in the order of the input and without gaps.
ResultsInOrder ==
  ~hasException =>
    /\ store.resultCount = FirstGap
    /\ mode = "map" => store.results = [i \in Inputs \ left |-> i]
    /\ mode = "filter" =>
         LET out == Ascending(kept \cap 0..Gapless - 1)
         IN  /\ store.results = [i \in 0..Len(out) - 1 |-> out[i + 1]]
             /\ store.filteredResults = Gapless - Len(out)
             /\ \A i \in DOMAIN store.pending : i > Gapless

\* The store is sound, whoever reports and in whatever order.
StoreSane == TypeOK /\ ResultsInOrder

\* A result that can be seen is not replaced or taken away, but all go together
\* when an exception is set (resultReference() hands out references to them).
ResultsStand ==
  [][\/ store' = EmptyStore
     \/ \A i \in DOMAIN store.results :
          i \in DOMAIN store'.results /\ store'.results[i] = store.results[i]]_vars

\* Whenever it connects, an output interface is told of every result: of those
\* of a kernel once and not before they can be seen, of those of a promise at
\* least once when there is no gap before them.
AnnouncedOnce ==
  ~hasException =>
    \A o \in Watchers : told[o].connected =>
      \A i \in Indices :
        IF mode = "promise"
        THEN i < store.resultCount => told[o].ready[i] > 0
        ELSE told[o].ready[i] = IF i \in DOMAIN store.results THEN 1 ELSE 0

\* An output interface was told of the start, the cancellation and the end that
\* have happened, each once, and knows of a suspension.
WatcherInSync ==
  \A o \in Watchers : told[o].connected =>
    /\ \A bit \in {"Started", "Canceled", "Finished"} :
         told[o][bit] = IF On(bit) THEN 1 ELSE 0
    /\ \A bit \in Halted : state \cap Halted = {bit} =>
         told[o].halt = IF bit = "Suspended" THEN "suspended" ELSE "suspending"

\* A watcher knows all that has happened, whenever it connected.
WatchersKnow == WatcherInSync /\ AnnouncedOnce

\* Who has heard that the future is canceled or finished hears of no more results.
QuietAfterEnd ==
  [][\A o \in Watchers :
       told[o].connected /\ told'[o].connected
         /\ told[o].Canceled + told[o].Finished > 0
         => told'[o].ready = told[o].ready]_vars

\* Every wait ends, except waitForResult() for a future that was canceled or
\* abandoned while Pending: nothing takes that bit away again (see WaitsEnd).
WaitersReturn ==
  \A c \in Waiters :
    at[c] = "look" ~> (at[c] = "done" \/ {"Pending", "Finished"} \subseteq state)

\* "QPromise is a move-only object. This behavior helps to ensure that whenever
\* the promise is destroyed, the associated future object is notified and will
\* not wait forever for the results to become available."
WaitsEnd == \A c \in Waiters : at[c] = "look" ~> at[c] = "done"

\* "This method has no effect after QFuture::cancel() or finish()", of
\* QPromise::setException().
NoLateException ==
  [][(\E w \in Workers : ClearResults(w)) /\ Over => UNCHANGED store]_vars

=============================================================================

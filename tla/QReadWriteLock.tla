--------------------------- MODULE QReadWriteLock ---------------------------
(***************************************************************************)
(* A non-recursive QReadWriteLock (src/corelib/thread/qreadwritelock.h and *)
(* qreadwritelock.cpp).  Without contention the whole lock is its word     *)
(* d_ptr: null, locked for write, or locked for read by so many.  The      *)
(* first thread that must wait replaces the word by a pointer to a         *)
(* QReadWriteLockPrivate, taken from a free list, that holds the counts, a *)
(* std::mutex and two condition variables; the unlock() that leaves nobody *)
(* behind gives it back.                                                   *)
(*                                                                         *)
(* One action per successful access to the word (a failed compare-and-swap *)
(* only makes the loops start over with the word as it is) and one per     *)
(* critical section of the private's mutex.  Publishing a private is two:  *)
(* allocate() with the counts of the word that was read, and the           *)
(* compare-and-swap from that word.  So is entering one: the pointer is    *)
(* read first and compared again under the mutex.  unlock() is one, since  *)
(* a pointer does not change under a thread that holds the lock.           *)
(***************************************************************************)
EXTENDS Integers, FiniteSets

CONSTANTS
  Threads,
  Privates,    \* the QReadWriteLockPrivate objects of the free list
  NoPrivate    \* the null pointer

ASSUME ReadWriteLockAssumption ==
  /\ IsFiniteSet(Threads)
  /\ NoPrivate \notin Privates

VARIABLES
  d_ptr,                              \* QReadWriteLock::d_ptr
  free,                               \* the free list
  readerCount, writerCount,           \* QReadWriteLockPrivate's
  waitingReaders, waitingWriters,
  pc, mode,                           \* where each thread is, and for what
  timed,                              \* does its call have a timer? (1 or 0)
  seen,                               \* d: the word it will compare with
  mine                                \* d or val: the private it works on

counts  == <<readerCount, writerCount>>
waiting == <<waitingReaders, waitingWriters>>
locals  == <<mode, timed, seen, mine>>
vars    == <<d_ptr, free, counts, waiting, pc, locals>>

Null       == [tag |-> "null", readers |-> 0, priv |-> NoPrivate]
ForWrite   == [tag |-> "write", readers |-> 0, priv |-> NoPrivate]
ForRead(n) == [tag |-> "read", readers |-> n, priv |-> NoPrivate]
Private(p) == [tag |-> "private", readers |-> 0, priv |-> p]

Words ==
  {Null, ForWrite} \cup {ForRead(n) : n \in 1..Cardinality(Threads)}
    \cup {Private(p) : p \in Privates}

\* mutex: about to lock the mutex of a private; asleep: waiting for its
\* condition variable, woken: out of that but without the mutex.
Locations == {"idle", "try", "publish", "mutex", "asleep", "woken", "held"}
Modes     == {"none", "read", "write"}

Init ==
  /\ d_ptr = Null
  /\ free = Privates
  /\ readerCount = [p \in Privates |-> 0]
  /\ writerCount = [p \in Privates |-> 0]
  /\ waitingReaders = [p \in Privates |-> 0]
  /\ waitingWriters = [p \in Privates |-> 0]
  /\ pc = [t \in Threads |-> "idle"]
  /\ mode = [t \in Threads |-> "none"]
  /\ timed = [t \in Threads |-> 0]
  /\ seen = [t \in Threads |-> Null]
  /\ mine = [t \in Threads |-> NoPrivate]

Goto(t, there) == pc' = [pc EXCEPT ![t] = there]

\* The locals go out of scope: the call returns false, or unlock() returns ...
Leave(t) ==
  /\ mode' = [mode EXCEPT ![t] = "none"]
  /\ timed' = [timed EXCEPT ![t] = 0]
  /\ mine' = [mine EXCEPT ![t] = NoPrivate]
  /\ UNCHANGED seen

\* ... or the call returns true; how t holds the lock is remembered.
Locked(t) ==
  /\ Goto(t, "held")
  /\ timed' = [timed EXCEPT ![t] = 0]
  /\ mine' = [mine EXCEPT ![t] = NoPrivate]
  /\ UNCHANGED <<mode, seen>>

-----------------------------------------------------------------------------
(* tryLockForRead(), tryLockForWrite() and their contended halves          *)

Call(t) ==
  /\ pc[t] = "idle"
  /\ Goto(t, "try")
  /\ \E m \in {"read", "write"}, x \in 0..1 :
       mode' = [mode EXCEPT ![t] = m] /\ timed' = [timed EXCEPT ![t] = x]
  /\ UNCHANGED <<d_ptr, free, counts, waiting, seen, mine>>

\* The lock is free.
LockFree(t) ==
  /\ pc[t] = "try"
  /\ d_ptr = Null
  /\ d_ptr' = IF mode[t] = "read" THEN ForRead(1) ELSE ForWrite
  /\ Locked(t)
  /\ UNCHANGED <<free, counts, waiting>>

\* One reader more.
JoinReaders(t) ==
  /\ pc[t] = "try" /\ mode[t] = "read"
  /\ d_ptr.tag = "read"
  /\ d_ptr' = ForRead(d_ptr.readers + 1)
  /\ Locked(t)
  /\ UNCHANGED <<free, counts, waiting>>

\* The word says that t has to wait.
MustWait(t) ==
  d_ptr.tag = "write" \/ (d_ptr.tag = "read" /\ mode[t] = "write")

Refuse(t) ==
  /\ pc[t] = "try"
  /\ MustWait(t) /\ timed[t] = 1
  /\ Goto(t, "idle")
  /\ Leave(t)
  /\ UNCHANGED <<d_ptr, free, counts, waiting>>

\* allocate(), and the counts of the word that was read.
Allocate(t) ==
  /\ pc[t] = "try"
  /\ MustWait(t)
  /\ \E p \in free :
       /\ free' = free \ {p}
       /\ readerCount' = [readerCount EXCEPT ![p] = d_ptr.readers]
       /\ writerCount' =
            [writerCount EXCEPT ![p] = IF d_ptr.tag = "write" THEN 1 ELSE 0]
       /\ mine' = [mine EXCEPT ![t] = p]
  /\ seen' = [seen EXCEPT ![t] = d_ptr]
  /\ Goto(t, "publish")
  /\ UNCHANGED <<d_ptr, waiting, mode, timed>>

\* A mistaken Discard: the counts are not reset.
DiscardDirty(t) ==
  /\ pc[t] = "publish"
  /\ d_ptr # seen[t]
  /\ free' = free \cup {mine[t]}
  /\ seen' = [seen EXCEPT ![t] = Null]
  /\ mine' = [mine EXCEPT ![t] = NoPrivate]
  /\ Goto(t, "try")
  /\ UNCHANGED <<d_ptr, counts, waiting, mode, timed>>

\* d_ptr.testAndSetOrdered(d, val, d) succeeds ...
Publish(t) ==
  /\ pc[t] = "publish"
  /\ d_ptr = seen[t]
  /\ d_ptr' = Private(mine[t])
  /\ seen' = [seen EXCEPT ![t] = Null]
  /\ mine' = [mine EXCEPT ![t] = NoPrivate]
  /\ Goto(t, "try")
  /\ UNCHANGED <<free, counts, waiting, mode, timed>>

\* ... or fails, and the private is given back.
Discard(t) ==
  /\ pc[t] = "publish"
  /\ d_ptr # seen[t]
  /\ readerCount' = [readerCount EXCEPT ![mine[t]] = 0]
  /\ writerCount' = [writerCount EXCEPT ![mine[t]] = 0]
  /\ free' = free \cup {mine[t]}
  /\ seen' = [seen EXCEPT ![t] = Null]
  /\ mine' = [mine EXCEPT ![t] = NoPrivate]
  /\ Goto(t, "try")
  /\ UNCHANGED <<d_ptr, waiting, mode, timed>>

\* The word is a pointer: its mutex is next.
Follow(t) ==
  /\ pc[t] = "try"
  /\ d_ptr.tag = "private"
  /\ mine' = [mine EXCEPT ![t] = d_ptr.priv]
  /\ Goto(t, "mutex")
  /\ UNCHANGED <<d_ptr, free, counts, waiting, mode, timed, seen>>

\* With the mutex of a private that is not the lock's any more: start over.
Stale(t) ==
  /\ pc[t] = "mutex"
  /\ d_ptr # Private(mine[t])
  /\ mine' = [mine EXCEPT ![t] = NoPrivate]
  /\ Goto(t, "try")
  /\ UNCHANGED <<d_ptr, free, counts, waiting, mode, timed, seen>>

-----------------------------------------------------------------------------
(* QReadWriteLockPrivate::lockForRead(), lockForWrite(): the first round   *)
(* of the loop, or one after a wait, in which t is no longer counted as    *)
(* waiting.                                                                *)

Round(t, m) ==
  /\ mode[t] = m
  /\ pc[t] = "woken" \/ (pc[t] = "mutex" /\ d_ptr = Private(mine[t]))

Was(t) == IF pc[t] = "woken" THEN 1 ELSE 0

\* A mistaken ReaderBlocked: readers do not queue behind waiting writers.
ReaderBlockedByWriter(p) == writerCount[p] > 0

ReaderBlocked(p) == waitingWriters[p] > 0 \/ writerCount[p] > 0

WriterBlocked(p) == readerCount[p] > 0 \/ writerCount[p] > 0

\* The number of other waiting writers.
OtherWriters(t) == waitingWriters[mine[t]] - Was(t)

ReadLock(t) ==
  /\ Round(t, "read")
  /\ ~ReaderBlocked(mine[t])
  /\ readerCount' = [readerCount EXCEPT ![mine[t]] = @ + 1]
  /\ waitingReaders' = [waitingReaders EXCEPT ![mine[t]] = @ - Was(t)]
  /\ Locked(t)
  /\ UNCHANGED <<d_ptr, free, writerCount, waitingWriters>>

ReadTimeout(t) ==
  /\ Round(t, "read") /\ timed[t] = 1
  /\ ReaderBlocked(mine[t])
  /\ waitingReaders' = [waitingReaders EXCEPT ![mine[t]] = @ - Was(t)]
  /\ Goto(t, "idle")
  /\ Leave(t)
  /\ UNCHANGED <<d_ptr, free, counts, waitingWriters>>

ReadWait(t) ==
  /\ Round(t, "read")
  /\ ReaderBlocked(mine[t])
  /\ waitingReaders' = [waitingReaders EXCEPT ![mine[t]] = @ + 1 - Was(t)]
  /\ Goto(t, "asleep")
  /\ UNCHANGED <<d_ptr, free, counts, waitingWriters, locals>>

WriteLock(t) ==
  /\ Round(t, "write")
  /\ ~WriterBlocked(mine[t])
  /\ writerCount' = [writerCount EXCEPT ![mine[t]] = 1]
  /\ waitingWriters' = [waitingWriters EXCEPT ![mine[t]] = @ - Was(t)]
  /\ Locked(t)
  /\ UNCHANGED <<d_ptr, free, readerCount, waitingReaders>>

Asleep(p, m) == {t \in Threads : pc[t] = "asleep" /\ mine[t] = p /\ mode[t] = m}

\* t goes on, and the sleepers S are notified.
Notify(t, there, S) ==
  pc' = [v \in Threads |-> IF v = t THEN there
                           ELSE IF v \in S THEN "woken" ELSE pc[v]]

\* The readers queued behind this writer alone are let go on.
WriteTimeout(t) ==
  /\ Round(t, "write") /\ timed[t] = 1
  /\ WriterBlocked(mine[t])
  /\ waitingWriters' = [waitingWriters EXCEPT ![mine[t]] = @ - Was(t)]
  /\ Notify(t, "idle",
            IF OtherWriters(t) = 0 /\ writerCount[mine[t]] = 0
            THEN Asleep(mine[t], "read") ELSE {})
  /\ Leave(t)
  /\ UNCHANGED <<d_ptr, free, counts, waitingReaders>>

WriteWait(t) ==
  /\ Round(t, "write")
  /\ WriterBlocked(mine[t])
  /\ waitingWriters' = [waitingWriters EXCEPT ![mine[t]] = @ + 1 - Was(t)]
  /\ Goto(t, "asleep")
  /\ UNCHANGED <<d_ptr, free, counts, waitingReaders, locals>>

Timeout(t) ==
  /\ pc[t] = "asleep" /\ timed[t] = 1
  /\ Goto(t, "woken")
  /\ UNCHANGED <<d_ptr, free, counts, waiting, locals>>

SpuriousWake(t) ==
  /\ pc[t] = "asleep"
  /\ Goto(t, "woken")
  /\ UNCHANGED <<d_ptr, free, counts, waiting, locals>>

-----------------------------------------------------------------------------
(* unlock()                                                                *)

\* A mistaken UnlockWord: any of several readers gives up the lock.
UnlockWordAtOnce(t) ==
  /\ pc[t] = "held" /\ d_ptr.tag \in {"read", "write"}
  /\ d_ptr' = Null
  /\ Goto(t, "idle")
  /\ Leave(t)
  /\ UNCHANGED <<free, counts, waiting>>

UnlockWord(t) ==
  /\ pc[t] = "held" /\ d_ptr.tag \in {"read", "write"}
  /\ d_ptr' = IF d_ptr.readers > 1 THEN ForRead(d_ptr.readers - 1) ELSE Null
  /\ Goto(t, "idle")
  /\ Leave(t)
  /\ UNCHANGED <<free, counts, waiting>>

\* Off the count, with the mutex of the private p.
Uncount(p) ==
  IF writerCount[p] > 0
  THEN writerCount' = [writerCount EXCEPT ![p] = 0] /\ UNCHANGED readerCount
  ELSE readerCount' = [readerCount EXCEPT ![p] = @ - 1] /\ UNCHANGED writerCount

\* Was that the last one?
Emptied(p) == writerCount[p] > 0 \/ readerCount[p] = 1

UnlockOneOfMany(t) ==
  /\ pc[t] = "held" /\ d_ptr.tag = "private"
  /\ ~Emptied(d_ptr.priv)
  /\ Uncount(d_ptr.priv)
  /\ Goto(t, "idle")
  /\ Leave(t)
  /\ UNCHANGED <<d_ptr, free, waiting>>

\* A mistaken NextOnes: the readers first.
NextReaders(p) ==
  IF waitingReaders[p] > 0 THEN {Asleep(p, "read")}
  ELSE IF Asleep(p, "write") = {} THEN {{}}
  ELSE {{v} : v \in Asleep(p, "write")}

\* QReadWriteLockPrivate::unlock(): the sleepers that may be notified, one
\* writer or all readers.
NextOnes(p) ==
  IF waitingWriters[p] = 0 THEN {Asleep(p, "read")}
  ELSE IF Asleep(p, "write") = {} THEN {{}}
  ELSE {{v} : v \in Asleep(p, "write")}

UnlockAndNotify(t) ==
  /\ pc[t] = "held" /\ d_ptr.tag = "private"
  /\ LET p == d_ptr.priv
     IN  /\ Emptied(p)
         /\ waitingReaders[p] > 0 \/ waitingWriters[p] > 0
         /\ Uncount(p)
         /\ \E S \in NextOnes(p) : Notify(t, "idle", S)
  /\ Leave(t)
  /\ UNCHANGED <<d_ptr, free, waiting>>

\* Nobody waits: the private is given back.
UnlockAndRelease(t) ==
  /\ pc[t] = "held" /\ d_ptr.tag = "private"
  /\ LET p == d_ptr.priv
     IN  /\ Emptied(p)
         /\ waitingReaders[p] = 0 /\ waitingWriters[p] = 0
         /\ Uncount(p)
         /\ free' = free \cup {p}
  /\ d_ptr' = Null
  /\ Goto(t, "idle")
  /\ Leave(t)
  /\ UNCHANGED waiting

-----------------------------------------------------------------------------
Unlock(t) == UnlockWord(t) \/ UnlockOneOfMany(t) \/ UnlockAndNotify(t)
               \/ UnlockAndRelease(t)

\* The steps a thread that locks takes by itself.
Step(t) ==
  \/ LockFree(t) \/ JoinReaders(t) \/ Refuse(t)
  \/ Allocate(t) \/ Publish(t) \/ Discard(t) \/ Follow(t) \/ Stale(t)
  \/ ReadLock(t) \/ ReadTimeout(t) \/ ReadWait(t)
  \/ WriteLock(t) \/ WriteTimeout(t) \/ WriteWait(t)
  \/ Timeout(t)

Next == \E t \in Threads : Call(t) \/ Step(t) \/ Unlock(t) \/ SpuriousWake(t)

\* A runnable thread is scheduled eventually, gets the mutex of a private
\* eventually, and a timer expires eventually.  Nobody has to call anything,
\* not even unlock(), and no sleeper is woken for no reason.
Fairness == \A t \in Threads : WF_vars(Step(t))

Spec == Init /\ [][Next]_vars /\ Fairness

-----------------------------------------------------------------------------
Holders(m) == {t \in Threads : pc[t] = "held" /\ mode[t] = m}
Queued(p, m) ==
  {t \in Threads : pc[t] \in {"asleep", "woken"} /\ mine[t] = p /\ mode[t] = m}

TypeOK ==
  /\ d_ptr \in Words
  /\ free \subseteq Privates
  /\ \A f \in {readerCount, writerCount, waitingReaders, waitingWriters} :
       f \in [Privates -> 0..Cardinality(Threads)]
  /\ pc \in [Threads -> Locations] /\ mode \in [Threads -> Modes]
  /\ timed \in [Threads -> 0..1]
  /\ seen \in [Threads -> Words]
  /\ mine \in [Threads -> Privates \cup {NoPrivate}]

\* A writer holds the lock alone.
Exclusion ==
  \A t, v \in Threads :
    t # v /\ pc[t] = "held" /\ pc[v] = "held" => mode[t] = "read"

\* The word or the private it points to counts the threads that hold the
\* lock, across the switches between the two representations.
HoldersCounted ==
  LET r == Cardinality(Holders("read"))
      w == Cardinality(Holders("write"))
  IN  CASE d_ptr.tag = "null"  -> r = 0 /\ w = 0
        [] d_ptr.tag = "read"  -> r = d_ptr.readers /\ w = 0
        [] d_ptr.tag = "write" -> r = 0 /\ w = 1
        [] d_ptr.tag = "private" ->
             r = readerCount[d_ptr.priv] /\ w = writerCount[d_ptr.priv]

\* What allocate() and release() assert of the counts, and nothing leaks: a
\* private is the lock's, or about to be published, or free and clean.  That
\* of a thread that waits stays the lock's until it is gone, and counts it:
\* no private goes back to the free list under a waiter.
PrivatesAccounted ==
  /\ \A t \in Threads :
       pc[t] \in {"asleep", "woken"} => d_ptr = Private(mine[t])
  /\ \A p \in Privates :
    LET publishers == {t \in Threads : pc[t] = "publish" /\ mine[t] = p}
    IN  /\ waitingReaders[p] = Cardinality(Queued(p, "read"))
        /\ waitingWriters[p] = Cardinality(Queued(p, "write"))
        /\ Cardinality(publishers) + (IF d_ptr = Private(p) THEN 1 ELSE 0)
             + (IF p \in free THEN 1 ELSE 0) = 1
        /\ p \in free => /\ readerCount[p] = 0 /\ writerCount[p] = 0
                         /\ waitingReaders[p] = 0 /\ waitingWriters[p] = 0

\* Nobody is left behind: while the lock is free a sleeper has been woken to
\* take it, and a reader sleeps only behind a writer.
NoLostWakeUp ==
  \A t \in Threads :
    pc[t] = "asleep" =>
      /\ Holders("read") \cup Holders("write") = {}
           => \E v \in Threads : pc[v] = "woken"
      /\ mode[t] = "read"
           => Holders("write") # {} \/ Queued(mine[t], "write") # {}

\* The lock excludes, in either representation, and leaves nobody asleep alone.
LockSane == TypeOK /\ Exclusion /\ HoldersCounted /\ NoLostWakeUp

\* Writers are preferred: no reader gets the lock while a writer waits for it.
WritersFirst ==
  [][\A p \in Privates :
       Queued(p, "write") # {} => Holders("read")' \subseteq Holders("read")]_vars

\* A sleeper does not stay while the lock is free, nor a reader while no
\* writer has the lock or waits for it, whatever timers expire meanwhile.
NoStuckWaiter ==
  \A t \in Threads :
    /\ []<>~(pc[t] = "asleep" /\ Holders("read") \cup Holders("write") = {})
    /\ []<>~(/\ pc[t] = "asleep" /\ mode[t] = "read"
             /\ Holders("write") = {} /\ Queued(mine[t], "write") = {})

=============================================================================

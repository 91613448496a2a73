------------------------ MODULE QReadWriteLock_proofs ------------------------
(***************************************************************************)
(* TLAPS proofs about QReadWriteLock, for any number of threads and        *)
(* privates.  The argument: the word, or the private it points to, counts  *)
(* the holders; the private counts the waiters, who keep it; and a waiter  *)
(* that sleeps has somebody ahead of it.                                   *)
(***************************************************************************)
EXTENDS QReadWriteLock, FiniteSetTheorems, TLAPS

Readers      == Cardinality(Holders("read"))
Writers      == Cardinality(Holders("write"))
Waiters(p, m) == Cardinality(Queued(p, m))

\* The word, with any number of readers.
AnyWord ==
  {Null, ForWrite} \cup {ForRead(n) : n \in Nat \ {0}} \cup {Private(p) : p \in Privates}

Types ==
  /\ d_ptr \in AnyWord
  /\ free \subseteq Privates
  /\ readerCount \in [Privates -> Nat] /\ writerCount \in [Privates -> 0..1]
  /\ waitingReaders \in [Privates -> Nat] /\ waitingWriters \in [Privates -> Nat]
  /\ pc \in [Threads -> Locations] /\ mode \in [Threads -> Modes]
  /\ timed \in [Threads -> 0..1]
  /\ seen \in [Threads -> Words]
  /\ mine \in [Threads -> Privates \cup {NoPrivate}]
  /\ \A t \in Threads : /\ pc[t] # "idle" => mode[t] # "none"
                        /\ pc[t] \in {"publish", "mutex", "asleep", "woken"} => mine[t] \in Privates

\* The word or its private counts the holders, and a writer is alone.
Counted ==
  /\ d_ptr.tag = "null"  => Readers = 0 /\ Writers = 0
  /\ d_ptr.tag = "read"  => Readers = d_ptr.readers /\ Writers = 0
  /\ d_ptr.tag = "write" => Readers = 0 /\ Writers = 1
  /\ d_ptr.tag = "private" => /\ Readers = readerCount[d_ptr.priv]
                              /\ Writers = writerCount[d_ptr.priv]
  /\ \A p \in Privates : writerCount[p] > 0 => readerCount[p] = 0

\* A private counts its waiters, who keep it.
Queues ==
  /\ \A p \in Privates : /\ waitingReaders[p] = Waiters(p, "read")
                         /\ waitingWriters[p] = Waiters(p, "write")
  /\ \A t \in Threads : pc[t] \in {"asleep", "woken"} => d_ptr = Private(mine[t])

Publishes(t, p) == pc[t] = "publish" /\ mine[t] = p

\* A private belongs to the lock, or to who publishes it with the counts of the
\* word that was read, or is free and clean.
Belongings ==
  /\ \A p \in Privates :
       p \in free \/ d_ptr = Private(p) \/ \E t \in Threads : Publishes(t, p)
  /\ \A p \in free : d_ptr # Private(p) /\ readerCount[p] = 0 /\ writerCount[p] = 0
  /\ \A t \in Threads, p \in Privates : Publishes(t, p) =>
       /\ p \notin free /\ d_ptr # Private(p)
       /\ \A v \in Threads : Publishes(v, p) => v = t
       /\ seen[t].tag \in {"read", "write"}
       /\ readerCount[p] = seen[t].readers
       /\ writerCount[p] = IF seen[t].tag = "write" THEN 1 ELSE 0

\* A writer sleeps behind a holder, or a writer that has been woken to take the
\* lock; a reader behind a writer.
Behind ==
  \A t \in Threads :
    pc[t] = "asleep" =>
      /\ mode[t] = "write" /\ Readers = 0 /\ Writers = 0
           => \E v \in Threads : pc[v] = "woken" /\ mode[v] = "write"
      /\ mode[t] = "read" => Writers > 0 \/ Waiters(mine[t], "write") > 0

IInv == Types /\ Counted /\ Queues /\ Belongings /\ Behind

-----------------------------------------------------------------------------
(* Words and counts                                                        *)

LEMMA WordFacts ==
  /\ Null.tag = "null" /\ Null.readers = 0
  /\ ForWrite.tag = "write" /\ ForWrite.readers = 0
  /\ \A n : ForRead(n).tag = "read" /\ ForRead(n).readers = n
  /\ \A p : Private(p).tag = "private" /\ Private(p).priv = p /\ Private(p).readers = 0
  BY DEF Null, ForWrite, ForRead, Private

LEMMA AnyWordFacts ==
  ASSUME NEW w \in AnyWord
  PROVE  /\ w.tag \in {"null", "read", "write", "private"} /\ w.readers \in Nat
         /\ w.tag = "null" => w = Null
         /\ w.tag = "write" => w = ForWrite /\ w.readers = 0
         /\ w.tag = "read" => w = ForRead(w.readers) /\ w.readers > 0
         /\ w.tag = "private" => w = Private(w.priv) /\ w.priv \in Privates
  BY WordFacts DEF AnyWord

LEMMA WordsAreAny == Words \subseteq AnyWord
<1>1. Cardinality(Threads) \in Nat
  BY ReadWriteLockAssumption, FS_CardinalityType
<1> QED
  BY <1>1 DEF Words, AnyWord

LEMMA SetCounts ==
  ASSUME NEW S \in SUBSET Threads
  PROVE  /\ IsFiniteSet(S) /\ Cardinality(S) \in Nat /\ Cardinality(S) <= Cardinality(Threads)
         /\ Cardinality(S) = 0 <=> S = {}
  BY ReadWriteLockAssumption, FS_Subset, FS_CardinalityType, FS_EmptySet

\* How often t is in S.
In(S, t) == IF t \in S THEN 1 ELSE 0

LEMMA CountAfter ==
  ASSUME NEW S \in SUBSET Threads, NEW U \in SUBSET Threads, NEW t \in Threads,
         U \ {t} = S \ {t}
  PROVE  Cardinality(U) = Cardinality(S) + In(U, t) - In(S, t)
<1> DEFINE C == S \ {t}
<1>1. IsFiniteSet(C) /\ Cardinality(C) \in Nat /\ t \notin C
  BY SetCounts
<1>2. ASSUME NEW V \in SUBSET Threads, V \ {t} = C
      PROVE  Cardinality(V) = Cardinality(C) + In(V, t)
  <2>1. CASE t \in V
    <3>1. V = C \cup {t}
      BY <1>2, <2>1
    <3> HIDE DEF C
    <3>2. Cardinality(C \cup {t}) = Cardinality(C) + 1
      BY <1>1, FS_AddElement
    <3> QED
      BY <2>1, <3>1, <3>2 DEF In
  <2>2. CASE t \notin V
    <3>1. V = C
      BY <1>2, <2>2
    <3> HIDE DEF C
    <3> QED
      BY <1>1, <2>2, <3>1 DEF In
  <2> QED
    BY <2>1, <2>2
<1>3. Cardinality(S) = Cardinality(C) + In(S, t)
  BY <1>2
<1>4. Cardinality(U) = Cardinality(C) + In(U, t)
  BY <1>2
<1> HIDE DEF C
<1>5. In(S, t) \in Nat /\ In(U, t) \in Nat
  BY DEF In
<1> QED
  BY <1>1, <1>3, <1>4, <1>5

\* A step of t; others may only be woken meanwhile.
Alone(t) ==
  \A v \in Threads \ {t} :
    /\ mode'[v] = mode[v] /\ mine'[v] = mine[v] /\ seen'[v] = seen[v] /\ timed'[v] = timed[v]
    /\ pc'[v] = pc[v] \/ (pc[v] = "asleep" /\ pc'[v] = "woken")

Holding(t, m)   == pc[t] = "held" /\ mode[t] = m
Queuing(t, p, m) == pc[t] \in {"asleep", "woken"} /\ mine[t] = p /\ mode[t] = m

One(b) == IF b THEN 1 ELSE 0

LEMMA CountsAfter ==
  ASSUME NEW t \in Threads, Alone(t)
  PROVE  /\ Readers' = Readers + One(Holding(t, "read")') - One(Holding(t, "read"))
         /\ Writers' = Writers + One(Holding(t, "write")') - One(Holding(t, "write"))
         /\ \A p \in Privates, m \in Modes :
              Waiters(p, m)' = Waiters(p, m) + One(Queuing(t, p, m)') - One(Queuing(t, p, m))
<1>1. \A m : Holders(m)' \ {t} = Holders(m) \ {t}
  BY DEF Alone, Holders
<1>2. \A p, m : Queued(p, m)' \ {t} = Queued(p, m) \ {t}
  BY DEF Alone, Queued
<1>3. ASSUME NEW m
      PROVE  Cardinality(Holders(m)') = Cardinality(Holders(m)) + One(Holding(t, m)') - One(Holding(t, m))
  <2>1. Holders(m) \in SUBSET Threads /\ Holders(m)' \in SUBSET Threads
    BY DEF Holders
  <2>2. In(Holders(m), t) = One(Holding(t, m)) /\ In(Holders(m)', t) = One(Holding(t, m)')
    BY DEF In, One, Holders, Holding
  <2> QED
    BY <1>1, <2>1, <2>2, CountAfter
<1>4. ASSUME NEW p, NEW m
      PROVE  Cardinality(Queued(p, m)') = Cardinality(Queued(p, m)) + One(Queuing(t, p, m)')
                                            - One(Queuing(t, p, m))
  <2>1. Queued(p, m) \in SUBSET Threads /\ Queued(p, m)' \in SUBSET Threads
    BY DEF Queued
  <2>2. In(Queued(p, m), t) = One(Queuing(t, p, m)) /\ In(Queued(p, m)', t) = One(Queuing(t, p, m)')
    BY DEF In, One, Queued, Queuing
  <2> QED
    BY <1>2, <2>1, <2>2, CountAfter
<1> QED
  BY <1>3, <1>4 DEF Readers, Writers, Waiters

LEMMA CountFacts ==
  /\ Readers \in Nat /\ Writers \in Nat /\ \A p, m : Waiters(p, m) \in Nat
  /\ Readers <= Cardinality(Threads) /\ Writers <= Cardinality(Threads)
  /\ \A p, m : Waiters(p, m) <= Cardinality(Threads)
  /\ Readers = 0 <=> Holders("read") = {}
  /\ Writers = 0 <=> Holders("write") = {}
  /\ \A p, m : Waiters(p, m) = 0 <=> Queued(p, m) = {}
<1>1. \A m : Holders(m) \in SUBSET Threads
  BY DEF Holders
<1>2. \A p, m : Queued(p, m) \in SUBSET Threads
  BY DEF Queued
<1> QED
  BY <1>1, <1>2, SetCounts DEF Readers, Writers, Waiters

LEMMA CountsAt ==
  ASSUME NEW t \in Threads, Alone(t), NEW p \in Privates
  PROVE  /\ Readers' = Readers + One(Holding(t, "read")') - One(Holding(t, "read"))
         /\ Writers' = Writers + One(Holding(t, "write")') - One(Holding(t, "write"))
         /\ Waiters(p, "read")' = Waiters(p, "read") + One(Queuing(t, p, "read")')
                                    - One(Queuing(t, p, "read"))
         /\ Waiters(p, "write")' = Waiters(p, "write") + One(Queuing(t, p, "write")')
                                     - One(Queuing(t, p, "write"))
         /\ Readers \in Nat /\ Writers \in Nat
         /\ Waiters(p, "read") \in Nat /\ Waiters(p, "write") \in Nat
<1>1. "read" \in Modes /\ "write" \in Modes
  BY DEF Modes
<1> QED
  BY <1>1, CountsAfter, CountFacts

LEMMA CountFactsNext ==
  /\ Readers' \in Nat /\ Writers' \in Nat /\ \A p, m : Waiters(p, m)' \in Nat
  /\ \A p, m : Waiters(p, m)' = 0 <=> Queued(p, m)' = {}
<1>1. \A m : Holders(m)' \in SUBSET Threads
  BY DEF Holders
<1>2. \A p, m : Queued(p, m)' \in SUBSET Threads
  BY DEF Queued
<1> QED
  BY <1>1, <1>2, SetCounts DEF Readers, Writers, Waiters

-----------------------------------------------------------------------------
(* What steps of a kind preserve                                           *)

LEMMA NobodyWaits ==
  ASSUME IInv, d_ptr.tag # "private"
  PROVE  \A v \in Threads : pc[v] \notin {"asleep", "woken"}
  BY WordFacts DEF IInv, Queues

\* Steps that matter to nobody else, and wake-ups.
LEMMA QuietKeeps ==
  ASSUME IInv, Types', NEW t \in Threads, Alone(t), UNCHANGED <<d_ptr, free, counts, waiting>>,
         \/ pc[t] \in {"idle", "try", "mutex"} /\ pc'[t] \in {"idle", "try", "mutex"}
         \/ /\ pc[t] = "asleep" /\ pc'[t] = "woken"
            /\ mine'[t] = mine[t] /\ mode'[t] = mode[t]
  PROVE  IInv'
<1>1. \A m : One(Holding(t, m)') = One(Holding(t, m))
  BY DEF One, Holding
<1>2. \A p, m : One(Queuing(t, p, m)') = One(Queuing(t, p, m))
  BY DEF One, Queuing
<1>3. /\ Readers' = Readers /\ Writers' = Writers
      /\ \A p \in Privates, m \in Modes : Waiters(p, m)' = Waiters(p, m)
  <2>1. /\ \A m : One(Holding(t, m)) \in {0, 1}
        /\ \A p, m : One(Queuing(t, p, m)) \in {0, 1}
    BY DEF One
  <2> QED
    BY <1>1, <1>2, <2>1, CountsAfter, CountFacts
<1>4. /\ d_ptr' = d_ptr /\ free' = free /\ readerCount' = readerCount /\ writerCount' = writerCount
      /\ waitingReaders' = waitingReaders /\ waitingWriters' = waitingWriters
  BY DEF counts, waiting
<1>5. Counted'
  BY <1>3, <1>4 DEF IInv, Counted
<1>6. ASSUME NEW v \in Threads
      PROVE  /\ pc'[v] \in {"asleep", "woken"} => /\ pc[v] \in {"asleep", "woken"}
                                                  /\ mine'[v] = mine[v] /\ mode'[v] = mode[v]
             /\ pc'[v] = "asleep" => pc[v] = "asleep"
             /\ pc[v] = "woken" => pc'[v] = "woken" /\ mode'[v] = mode[v]
             /\ \A p : Publishes(v, p)' <=> Publishes(v, p)
             /\ pc[v] = "publish" => seen'[v] = seen[v]
  BY DEF Alone, Publishes
<1>7. Queues'
  BY <1>3, <1>4, <1>6 DEF IInv, Queues, Modes
<1>8. Belongings'
  <2>1. \A v \in Threads, p \in Privates : Publishes(v, p)' => Publishes(v, p) /\ seen'[v] = seen[v]
    BY <1>6 DEF Publishes
  <2>2. \A v \in Threads, p \in Privates : Publishes(v, p) => Publishes(v, p)'
    BY <1>6
  <2> QED
    BY <1>4, <2>1, <2>2 DEF IInv, Belongings
<1>9. Behind'
  <2> SUFFICES ASSUME NEW v \in Threads, pc'[v] = "asleep"
               PROVE  /\ mode'[v] = "write" /\ Readers' = 0 /\ Writers' = 0
                           => \E u \in Threads : pc'[u] = "woken" /\ mode'[u] = "write"
                      /\ mode'[v] = "read" => Writers' > 0 \/ Waiters(mine[v], "write")' > 0
    BY DEF Behind
  <2> QED
    BY <1>3, <1>6 DEF IInv, Behind, Types, Modes
<1> QED
  BY <1>5, <1>7, <1>8, <1>9 DEF IInv

\* The lock is its word before and after.
LEMMA WordKeeps ==
  ASSUME IInv, Types', NEW t \in Threads, Alone(t), UNCHANGED <<free, counts, waiting>>,
         d_ptr.tag # "private", d_ptr'.tag # "private",
         pc[t] \in {"try", "held"}, pc'[t] \in {"held", "idle"},
         d_ptr'.tag = "null"  => Readers' = 0 /\ Writers' = 0,
         d_ptr'.tag = "read"  => Readers' = d_ptr'.readers /\ Writers' = 0,
         d_ptr'.tag = "write" => Readers' = 0 /\ Writers' = 1
  PROVE  IInv'
<1>1. /\ free' = free /\ readerCount' = readerCount /\ writerCount' = writerCount
      /\ waitingReaders' = waitingReaders /\ waitingWriters' = waitingWriters
  BY DEF counts, waiting
<1>2. \A v \in Threads : pc'[v] \notin {"asleep", "woken"}
  BY NobodyWaits DEF Alone
<1>3. \A p \in Privates, m \in Modes : Waiters(p, m)' = Waiters(p, m)
  <2>1. \A p \in Privates, m \in Modes : Queued(p, m) = {} /\ Queued(p, m)' = {}
    BY <1>2, NobodyWaits DEF Queued
  <2> QED
    BY <2>1, CountFacts, CountFactsNext
<1>4. Counted'
  BY <1>1 DEF IInv, Counted
<1>5. Queues'
  BY <1>1, <1>2, <1>3 DEF IInv, Queues, Modes
<1>6. Belongings'
  <2>1. \A v \in Threads, p \in Privates : Publishes(v, p)' <=> Publishes(v, p)
    BY DEF Alone, Publishes
  <2>2. \A v \in Threads : pc[v] = "publish" => seen'[v] = seen[v]
    BY DEF Alone
  <2>3. \A p : d_ptr # Private(p) /\ d_ptr' # Private(p)
    BY WordFacts
  <2> QED
    BY <1>1, <2>1, <2>2, <2>3 DEF IInv, Belongings, Publishes
<1>7. Behind'
  BY <1>2 DEF Behind
<1> QED
  BY <1>4, <1>5, <1>6, <1>7 DEF IInv

\* The lock is the private p before and after.
LEMMA PrivateKeeps ==
  ASSUME IInv, NEW t \in Threads, Alone(t), NEW p \in Privates, d_ptr = Private(p),
         UNCHANGED <<d_ptr, free>>,
         \A q \in Privates \ {p} :
           /\ readerCount'[q] = readerCount[q] /\ writerCount'[q] = writerCount[q]
           /\ waitingReaders'[q] = waitingReaders[q] /\ waitingWriters'[q] = waitingWriters[q],
         pc[t] \in {"mutex", "woken", "held"}, pc[t] = "woken" => mine[t] = p,
         pc'[t] \in {"held", "idle", "asleep"}, pc'[t] = "asleep" => mine'[t] = p,
         Readers' = readerCount'[p], Writers' = writerCount'[p],
         writerCount'[p] > 0 => readerCount'[p] = 0,
         waitingReaders'[p] = Waiters(p, "read")', waitingWriters'[p] = Waiters(p, "write")'
  PROVE  Counted' /\ Queues' /\ Belongings'
<1>1. \A q \in Privates : Private(q) = d_ptr <=> q = p
  BY WordFacts
<1>2. Counted'
  BY WordFacts, <1>1 DEF IInv, Counted
<1>3. \A q \in Privates \ {p}, m \in Modes : Waiters(q, m)' = Waiters(q, m)
  <2>1. \A q \in Privates \ {p}, m \in Modes : One(Queuing(t, q, m)') = 0 /\ One(Queuing(t, q, m)) = 0
    BY DEF One, Queuing
  <2> QED
    BY <2>1, CountsAfter, CountFacts
<1>4. Queues'
  <2>1. \A v \in Threads : pc'[v] \in {"asleep", "woken"} => d_ptr' = Private(mine'[v])
    <3>1. CASE pc'[t] \in {"asleep", "woken"}
      BY <3>1 DEF Alone, IInv, Queues
    <3>2. CASE pc'[t] \notin {"asleep", "woken"}
      BY <3>2 DEF Alone, IInv, Queues
    <3> QED
      BY <3>1, <3>2
  <2>2. \A q \in Privates : /\ waitingReaders'[q] = Waiters(q, "read")'
                            /\ waitingWriters'[q] = Waiters(q, "write")'
    BY <1>3 DEF IInv, Queues, Modes
  <2> QED
    BY <2>1, <2>2 DEF Queues
<1>5. Belongings'
  <2>1. \A v \in Threads, q \in Privates : Publishes(v, q)' <=> Publishes(v, q)
    BY DEF Alone, Publishes
  <2>2. \A v \in Threads : pc[v] = "publish" => seen'[v] = seen[v]
    BY DEF Alone
  <2>3. \A v \in Threads, q \in Privates : Publishes(v, q) => q # p /\ seen'[v] = seen[v]
    BY <2>2 DEF IInv, Belongings, Publishes
  <2>4. \A q \in free : q # p /\ q \in Privates
    BY DEF IInv, Belongings, Types
  <2> QED
    BY <1>1, <2>1, <2>3, <2>4 DEF IInv, Belongings
<1> QED
  BY <1>2, <1>4, <1>5

-----------------------------------------------------------------------------
(* The steps without a private                                             *)

LEMMA LockedMoves ==
  ASSUME Types, NEW t \in Threads, Locked(t), mode[t] # "none"
  PROVE  /\ Alone(t) /\ pc'[t] = "held" /\ mode' = mode
         /\ pc' \in [Threads -> Locations] /\ timed' \in [Threads -> 0..1] /\ seen' = seen
         /\ mine' \in [Threads -> Privates \cup {NoPrivate}]
         /\ \A v \in Threads :
              /\ pc'[v] # "idle" => mode'[v] # "none"
              /\ pc'[v] \in {"publish", "mutex", "asleep", "woken"} => mine'[v] \in Privates
  BY DEF Locked, Goto, Types, Alone, Locations

LEMMA LeaveMoves ==
  ASSUME Types, NEW t \in Threads, Leave(t),
         pc' \in [Threads -> Locations], pc'[t] = "idle",
         \A v \in Threads \ {t} : pc'[v] = pc[v] \/ (pc[v] = "asleep" /\ pc'[v] = "woken")
  PROVE  /\ Alone(t) /\ mode' \in [Threads -> Modes] /\ mode'[t] = "none"
         /\ timed' \in [Threads -> 0..1] /\ seen' = seen
         /\ mine' \in [Threads -> Privates \cup {NoPrivate}]
         /\ \A v \in Threads :
              /\ pc'[v] # "idle" => mode'[v] # "none"
              /\ pc'[v] \in {"publish", "mutex", "asleep", "woken"} => mine'[v] \in Privates
  BY DEF Leave, Types, Alone, Locations, Modes

LEMMA CallKeeps == ASSUME IInv, NEW t \in Threads, Call(t) PROVE IInv'
<1>1. Types'
  BY DEF Call, Goto, IInv, Types, Locations, Modes, counts, waiting
<1>2. Alone(t) /\ pc[t] = "idle" /\ pc'[t] = "try"
  BY DEF Call, Goto, IInv, Types, Alone
<1> QED
  BY <1>1, <1>2, QuietKeeps DEF Call

LEMMA RefuseKeeps == ASSUME IInv, NEW t \in Threads, Refuse(t) PROVE IInv'
<1>1. pc' \in [Threads -> Locations] /\ pc[t] = "try" /\ pc'[t] = "idle"
      /\ \A v \in Threads \ {t} : pc'[v] = pc[v]
  BY DEF Refuse, Goto, IInv, Types, Locations
<1>2. Types' /\ Alone(t)
  BY <1>1, LeaveMoves DEF Refuse, IInv, Types, counts, waiting
<1> QED
  BY <1>1, <1>2, QuietKeeps DEF Refuse

LEMMA FollowKeeps == ASSUME IInv, NEW t \in Threads, Follow(t) PROVE IInv'
<1>1. d_ptr.priv \in Privates
  BY AnyWordFacts DEF Follow, IInv, Types
<1>2. Types'
  BY <1>1 DEF Follow, Goto, IInv, Types, Locations, counts, waiting
<1>3. Alone(t) /\ pc[t] = "try" /\ pc'[t] = "mutex"
  BY DEF Follow, Goto, IInv, Types, Alone
<1> QED
  BY <1>2, <1>3, QuietKeeps DEF Follow

LEMMA StaleKeeps == ASSUME IInv, NEW t \in Threads, Stale(t) PROVE IInv'
<1>1. Types'
  BY DEF Stale, Goto, IInv, Types, Locations, counts, waiting
<1>2. Alone(t) /\ pc[t] = "mutex" /\ pc'[t] = "try"
  BY DEF Stale, Goto, IInv, Types, Alone
<1> QED
  BY <1>1, <1>2, QuietKeeps DEF Stale

LEMMA WakeKeeps ==
  ASSUME IInv, NEW t \in Threads, Timeout(t) \/ SpuriousWake(t)
  PROVE  IInv'
<1>1. pc[t] = "asleep" /\ Goto(t, "woken") /\ UNCHANGED <<d_ptr, free, counts, waiting, locals>>
  BY DEF Timeout, SpuriousWake
<1>2. Types'
  BY <1>1 DEF Goto, IInv, Types, Locations, counts, waiting, locals
<1>3. Alone(t) /\ pc'[t] = "woken" /\ mine'[t] = mine[t] /\ mode'[t] = mode[t]
  BY <1>1 DEF Goto, IInv, Types, Alone, locals
<1> QED
  BY <1>1, <1>2, <1>3, QuietKeeps

LEMMA LockFreeKeeps == ASSUME IInv, NEW t \in Threads, LockFree(t) PROVE IInv'
<1>1. /\ pc[t] = "try" /\ d_ptr = Null /\ Locked(t) /\ UNCHANGED <<free, counts, waiting>>
      /\ d_ptr' = IF mode[t] = "read" THEN ForRead(1) ELSE ForWrite
  BY DEF LockFree
<1>2. mode[t] \in {"read", "write"}
  BY <1>1 DEF IInv, Types, Modes
<1>3. Alone(t) /\ pc'[t] = "held" /\ mode' = mode
  BY <1>1, <1>2, LockedMoves DEF IInv
<1>4. d_ptr' \in AnyWord
  BY <1>1 DEF AnyWord
<1>5. Types'
  BY <1>1, <1>2, <1>4, LockedMoves DEF IInv, Types, counts, waiting
<1>6. Readers = 0 /\ Writers = 0
  BY <1>1, WordFacts DEF IInv, Counted
<1>7. Readers' = (IF mode[t] = "read" THEN 1 ELSE 0) /\ Writers' = (IF mode[t] = "read" THEN 0 ELSE 1)
  BY <1>1, <1>2, <1>3, <1>6, CountsAfter DEF One, Holding
<1> QED
  BY <1>1, <1>3, <1>5, <1>7, WordFacts, WordKeeps

LEMMA JoinReadersKeeps == ASSUME IInv, NEW t \in Threads, JoinReaders(t) PROVE IInv'
<1>1. /\ pc[t] = "try" /\ mode[t] = "read" /\ d_ptr.tag = "read" /\ Locked(t)
      /\ UNCHANGED <<free, counts, waiting>> /\ d_ptr' = ForRead(d_ptr.readers + 1)
  BY DEF JoinReaders
<1>2. Alone(t) /\ pc'[t] = "held" /\ mode' = mode
  BY <1>1, LockedMoves DEF IInv
<1>3. d_ptr.readers \in Nat
  BY AnyWordFacts DEF IInv, Types
<1>4. d_ptr' \in AnyWord
  BY <1>1, <1>3 DEF AnyWord
<1>5. Types'
  BY <1>1, <1>4, LockedMoves DEF IInv, Types, counts, waiting
<1>6. Readers = d_ptr.readers /\ Writers = 0
  BY <1>1 DEF IInv, Counted
<1>7. Readers' = d_ptr.readers + 1 /\ Writers' = 0
  BY <1>1, <1>2, <1>3, <1>6, CountsAfter DEF One, Holding
<1> QED
  BY <1>1, <1>2, <1>5, <1>7, WordFacts, WordKeeps

LEMMA UnlockWordKeeps == ASSUME IInv, NEW t \in Threads, UnlockWord(t) PROVE IInv'
<1>1. /\ pc[t] = "held" /\ d_ptr.tag \in {"read", "write"} /\ Leave(t) /\ Goto(t, "idle")
      /\ UNCHANGED <<free, counts, waiting>>
      /\ d_ptr' = IF d_ptr.readers > 1 THEN ForRead(d_ptr.readers - 1) ELSE Null
  BY DEF UnlockWord
<1>2. mode[t] \in {"read", "write"}
  BY <1>1 DEF IInv, Types, Modes
<1>3. pc' \in [Threads -> Locations] /\ pc'[t] = "idle" /\ \A v \in Threads \ {t} : pc'[v] = pc[v]
  BY <1>1 DEF Goto, IInv, Types, Locations
<1>4. Alone(t)
  BY <1>1, <1>3, LeaveMoves DEF IInv
<1>5. d_ptr.readers \in Nat /\ (d_ptr.tag = "write" => d_ptr.readers = 0)
      /\ (d_ptr.tag = "read" => d_ptr.readers > 0)
  BY AnyWordFacts DEF IInv, Types
<1>6. d_ptr' \in AnyWord
  BY <1>1, <1>5 DEF AnyWord
<1>7. Types'
  BY <1>1, <1>3, <1>6, LeaveMoves DEF IInv, Types, counts, waiting
<1>8. /\ Readers' = Readers - One(mode[t] = "read") /\ Writers' = Writers - One(mode[t] = "write")
      /\ Readers' \in Nat /\ Writers' \in Nat /\ Readers \in Nat /\ Writers \in Nat
  BY <1>1, <1>2, <1>3, <1>4, CountsAfter, CountFacts, CountFactsNext DEF One, Holding
<1>9. /\ d_ptr.tag = "read"  => Readers = d_ptr.readers /\ Writers = 0
      /\ d_ptr.tag = "write" => Readers = 0 /\ Writers = 1
  BY DEF IInv, Counted
<1>10. CASE d_ptr.readers > 1
  <2>1. Readers' = d_ptr.readers - 1 /\ Writers' = 0 /\ d_ptr' = ForRead(d_ptr.readers - 1)
    BY <1>1, <1>2, <1>5, <1>8, <1>9, <1>10 DEF One
  <2> QED
    BY <1>1, <1>3, <1>4, <1>7, <2>1, WordFacts, WordKeeps
<1>11. CASE ~(d_ptr.readers > 1)
  <2>1. Readers' = 0 /\ Writers' = 0 /\ d_ptr' = Null
    BY <1>1, <1>2, <1>5, <1>8, <1>9, <1>11 DEF One
  <2> QED
    BY <1>1, <1>3, <1>4, <1>7, <2>1, WordFacts, WordKeeps
<1> QED
  BY <1>10, <1>11

-----------------------------------------------------------------------------
(* Publishing a private                                                    *)

LEMMA WordIsBounded == ASSUME IInv PROVE d_ptr \in Words
<1>1. d_ptr \in AnyWord
  BY DEF IInv, Types
<1>2. d_ptr.tag = "read" => d_ptr = ForRead(d_ptr.readers) /\ d_ptr.readers \in 1..Cardinality(Threads)
  <2>1. Cardinality(Threads) \in Nat
    BY ReadWriteLockAssumption, FS_CardinalityType
  <2> QED
    BY <1>1, <2>1, AnyWordFacts, CountFacts DEF IInv, Counted
<1> QED
  BY <1>1, <1>2, AnyWordFacts DEF Words

LEMMA AllocateKeeps == ASSUME IInv, NEW t \in Threads, Allocate(t) PROVE IInv'
<1>1. PICK p \in free :
        /\ free' = free \ {p}
        /\ readerCount' = [readerCount EXCEPT ![p] = d_ptr.readers]
        /\ writerCount' = [writerCount EXCEPT ![p] = IF d_ptr.tag = "write" THEN 1 ELSE 0]
        /\ mine' = [mine EXCEPT ![t] = p]
  BY DEF Allocate
<1>2. /\ pc[t] = "try" /\ d_ptr.tag \in {"read", "write"} /\ d_ptr' = d_ptr
      /\ seen' = [seen EXCEPT ![t] = d_ptr] /\ pc' = [pc EXCEPT ![t] = "publish"]
      /\ waitingReaders' = waitingReaders /\ waitingWriters' = waitingWriters
      /\ mode' = mode /\ timed' = timed
  BY DEF Allocate, MustWait, Goto, waiting
<1>3. p \in Privates /\ d_ptr.readers \in Nat /\ d_ptr \in Words
      /\ (d_ptr.tag = "write" => d_ptr.readers = 0)
  BY WordIsBounded, AnyWordFacts DEF IInv, Types
<1>4. /\ Alone(t) /\ pc'[t] = "publish" /\ mine'[t] = p /\ seen'[t] = d_ptr
      /\ \A q \in Privates : /\ readerCount'[q] = IF q = p THEN d_ptr.readers ELSE readerCount[q]
                             /\ writerCount'[q] = IF q = p THEN IF d_ptr.tag = "write" THEN 1 ELSE 0
                                                  ELSE writerCount[q]
  BY <1>1, <1>2, <1>3 DEF Alone, IInv, Types
<1>5. Types'
  BY <1>1, <1>2, <1>3 DEF IInv, Types, Locations
<1>6. \A v \in Threads : pc[v] \notin {"asleep", "woken"} /\ pc'[v] \notin {"asleep", "woken"}
  BY <1>2, <1>4, NobodyWaits DEF Alone
<1>7. Readers' = Readers /\ Writers' = Writers
  <2>1. \A m : One(Holding(t, m)') = 0 /\ One(Holding(t, m)) = 0
    BY <1>2, <1>4 DEF One, Holding
  <2> QED
    BY <1>4, <2>1, CountsAfter, CountFacts
<1>8. Counted'
  BY <1>2, <1>3, <1>4, <1>7 DEF IInv, Counted
<1>9. Queues'
  <2>1. \A q \in Privates, m \in Modes : Queued(q, m) = {} /\ Queued(q, m)' = {}
    BY <1>6 DEF Queued
  <2>2. \A q \in Privates, m \in Modes : Waiters(q, m)' = Waiters(q, m)
    BY <2>1, CountFacts, CountFactsNext
  <2> QED
    BY <1>2, <1>6, <2>2 DEF IInv, Queues, Modes
<1>10. Belongings'
  <2>1. \A q \in Privates : d_ptr # Private(q)
    BY <1>2, WordFacts
  <2>2. \A v \in Threads, q \in Privates : Publishes(v, q)' <=> Publishes(v, q) \/ (v = t /\ q = p)
    <3>1. ASSUME NEW v \in Threads, NEW q \in Privates
          PROVE  Publishes(v, q)' <=> Publishes(v, q) \/ (v = t /\ q = p)
      BY <1>2, <1>4 DEF Alone, Publishes
    <3> QED
      BY <3>1
  <2>3. \A v \in Threads : ~Publishes(v, p) /\ (v # t => seen'[v] = seen[v])
    BY <1>4 DEF IInv, Belongings, Alone, Types
  <2>4. \A q \in Privates : ~Publishes(t, q)
    BY <1>2 DEF Publishes
  <2>5. \A q \in Privates : q \in free' \/ d_ptr' = Private(q) \/ \E v \in Threads : Publishes(v, q)'
    BY <1>1, <2>1, <2>2 DEF IInv, Belongings
  <2>6. \A q \in free' : d_ptr' # Private(q) /\ readerCount'[q] = 0 /\ writerCount'[q] = 0
    BY <1>1, <1>2, <1>4 DEF IInv, Belongings, Types
  <2>7. ASSUME NEW v \in Threads, NEW q \in Privates, Publishes(v, q)'
        PROVE  /\ q \notin free' /\ d_ptr' # Private(q)
               /\ \A u \in Threads : Publishes(u, q)' => u = v
               /\ seen'[v].tag \in {"read", "write"}
               /\ readerCount'[q] = seen'[v].readers
               /\ writerCount'[q] = IF seen'[v].tag = "write" THEN 1 ELSE 0
    <3>1. CASE q = p
      BY <1>1, <1>2, <1>3, <1>4, <2>1, <2>2, <2>3, <2>7, <3>1
    <3>2. CASE q # p
      <4>1. Publishes(v, q) /\ v # t
        BY <2>2, <2>4, <2>7, <3>2
      <4> QED
        BY <1>1, <1>2, <1>4, <2>1, <2>2, <2>3, <3>2, <4>1 DEF IInv, Belongings
    <3> QED
      BY <3>1, <3>2
  <2> QED
    BY <2>5, <2>6, <2>7 DEF Belongings
<1>11. Behind'
  BY <1>6 DEF Behind
<1> QED
  BY <1>5, <1>8, <1>9, <1>10, <1>11 DEF IInv

LEMMA PublishKeeps == ASSUME IInv, NEW t \in Threads, Publish(t) PROVE IInv'
<1> SUFFICES ASSUME NEW p, p = mine[t]
             PROVE  IInv'
  OBVIOUS
<1>1. /\ pc[t] = "publish" /\ d_ptr = seen[t] /\ d_ptr' = Private(p)
      /\ seen' = [seen EXCEPT ![t] = Null] /\ mine' = [mine EXCEPT ![t] = NoPrivate]
      /\ pc' = [pc EXCEPT ![t] = "try"]
      /\ free' = free /\ readerCount' = readerCount /\ writerCount' = writerCount
      /\ waitingReaders' = waitingReaders /\ waitingWriters' = waitingWriters
      /\ mode' = mode /\ timed' = timed
  BY DEF Publish, Goto, counts, waiting
<1>2. p \in Privates /\ Publishes(t, p)
  BY <1>1 DEF IInv, Types, Publishes
<1>3. /\ p \notin free /\ \A v \in Threads : Publishes(v, p) => v = t
      /\ d_ptr.tag \in {"read", "write"} /\ readerCount[p] = d_ptr.readers
      /\ writerCount[p] = IF d_ptr.tag = "write" THEN 1 ELSE 0
  BY <1>1, <1>2 DEF IInv, Belongings
<1>4. Alone(t) /\ pc'[t] = "try"
  BY <1>1 DEF Alone, IInv, Types
<1>5. Types'
  <2>1. Null \in Words /\ Private(p) \in AnyWord
    BY <1>2 DEF Words, AnyWord
  <2> QED
    BY <1>1, <2>1 DEF IInv, Types, Locations
<1>6. \A v \in Threads : pc[v] \notin {"asleep", "woken"} /\ pc'[v] \notin {"asleep", "woken"}
  BY <1>3, <1>4, NobodyWaits DEF Alone
<1>7. Readers' = Readers /\ Writers' = Writers
  <2>1. \A m : One(Holding(t, m)') = 0 /\ One(Holding(t, m)) = 0
    BY <1>1, <1>4 DEF One, Holding
  <2> QED
    BY <1>4, <2>1, CountsAfter, CountFacts
<1>8. Counted'
  <2>1. d_ptr.tag = "write" => d_ptr.readers = 0
    BY AnyWordFacts DEF IInv, Types
  <2>2. Readers' = readerCount[p] /\ Writers' = writerCount[p]
    BY <1>3, <1>7, <2>1 DEF IInv, Counted
  <2> QED
    BY <1>1, <2>2, WordFacts DEF IInv, Counted
<1>9. Queues'
  <2>1. \A q \in Privates, m \in Modes : Queued(q, m) = {} /\ Queued(q, m)' = {}
    BY <1>6 DEF Queued
  <2>2. \A q \in Privates, m \in Modes : Waiters(q, m)' = Waiters(q, m)
    BY <2>1, CountFacts, CountFactsNext
  <2> QED
    BY <1>1, <1>6, <2>2 DEF IInv, Queues, Modes
<1>10. Belongings'
  <2>1. \A q \in Privates : d_ptr # Private(q) /\ (d_ptr' = Private(q) <=> q = p)
    BY <1>1, <1>3, WordFacts
  <2>2. \A v \in Threads, q \in Privates : Publishes(v, q)' <=> Publishes(v, q) /\ v # t
    <3>1. ASSUME NEW v \in Threads, NEW q \in Privates
          PROVE  Publishes(v, q)' <=> Publishes(v, q) /\ v # t
      BY <1>4 DEF Alone, Publishes
    <3> QED
      BY <3>1
  <2>3. \A v \in Threads : v # t => seen'[v] = seen[v]
    BY <1>4 DEF Alone
  <2>4. \A q \in Privates : Publishes(t, q) => q = p
    BY DEF Publishes
  <2>5. \A q \in Privates : q \in free' \/ d_ptr' = Private(q) \/ \E v \in Threads : Publishes(v, q)'
    BY <1>1, <2>1, <2>2, <2>4 DEF IInv, Belongings
  <2>6. \A q \in free' : d_ptr' # Private(q) /\ readerCount'[q] = 0 /\ writerCount'[q] = 0
    BY <1>1, <1>3, <2>1 DEF IInv, Belongings, Types
  <2>7. ASSUME NEW v \in Threads, NEW q \in Privates, Publishes(v, q)'
        PROVE  /\ q \notin free' /\ d_ptr' # Private(q)
               /\ \A u \in Threads : Publishes(u, q)' => u = v
               /\ seen'[v].tag \in {"read", "write"}
               /\ readerCount'[q] = seen'[v].readers
               /\ writerCount'[q] = IF seen'[v].tag = "write" THEN 1 ELSE 0
    BY <1>1, <1>3, <2>1, <2>2, <2>3, <2>7 DEF IInv, Belongings
  <2> QED
    BY <2>5, <2>6, <2>7 DEF Belongings
<1>11. Behind'
  BY <1>6 DEF Behind
<1> QED
  BY <1>5, <1>8, <1>9, <1>10, <1>11 DEF IInv

LEMMA DiscardKeeps == ASSUME IInv, NEW t \in Threads, Discard(t) PROVE IInv'
<1> SUFFICES ASSUME NEW p, p = mine[t]
             PROVE  IInv'
  OBVIOUS
<1>1. /\ pc[t] = "publish" /\ d_ptr' = d_ptr /\ free' = free \cup {p}
      /\ readerCount' = [readerCount EXCEPT ![p] = 0] /\ writerCount' = [writerCount EXCEPT ![p] = 0]
      /\ seen' = [seen EXCEPT ![t] = Null] /\ mine' = [mine EXCEPT ![t] = NoPrivate]
      /\ pc' = [pc EXCEPT ![t] = "try"]
      /\ waitingReaders' = waitingReaders /\ waitingWriters' = waitingWriters
      /\ mode' = mode /\ timed' = timed
  BY DEF Discard, Goto, waiting
<1>2. p \in Privates /\ Publishes(t, p)
  BY <1>1 DEF IInv, Types, Publishes
<1>3. d_ptr # Private(p) /\ \A v \in Threads : Publishes(v, p) => v = t
  BY <1>2 DEF IInv, Belongings
<1>4. /\ Alone(t) /\ pc'[t] = "try"
      /\ \A q \in Privates : /\ readerCount'[q] = IF q = p THEN 0 ELSE readerCount[q]
                             /\ writerCount'[q] = IF q = p THEN 0 ELSE writerCount[q]
  BY <1>1 DEF Alone, IInv, Types
<1>5. Types'
  <2>1. Null \in Words
    BY DEF Words
  <2> QED
    BY <1>1, <1>2, <2>1 DEF IInv, Types, Locations
<1>6. \A v \in Threads :
        /\ v # t => seen'[v] = seen[v]
        /\ pc'[v] \in {"asleep", "woken"} => mine'[v] = mine[v] /\ pc[v] \in {"asleep", "woken"}
        /\ pc'[v] = "asleep" => pc[v] = "asleep" /\ mode'[v] = mode[v]
        /\ pc[v] = "woken" => pc'[v] = "woken" /\ mode'[v] = mode[v]
  BY <1>1, <1>4 DEF Alone
<1>7. /\ Readers' = Readers /\ Writers' = Writers
      /\ \A q \in Privates, m \in Modes : Waiters(q, m)' = Waiters(q, m)
  <2>1. /\ \A m : One(Holding(t, m)') = 0 /\ One(Holding(t, m)) = 0
        /\ \A q, m : One(Queuing(t, q, m)') = 0 /\ One(Queuing(t, q, m)) = 0
    BY <1>1, <1>4 DEF One, Holding, Queuing
  <2> QED
    BY <1>4, <2>1, CountsAfter, CountFacts
<1>8. Counted'
  <2>1. d_ptr.tag = "private" => d_ptr.priv \in Privates /\ d_ptr.priv # p
    BY <1>3, AnyWordFacts DEF IInv, Types
  <2> QED
    BY <1>1, <1>4, <1>7, <2>1 DEF IInv, Counted
<1>9. Queues'
  BY <1>1, <1>6, <1>7 DEF IInv, Queues, Modes
<1>10. Belongings'
  <2>1. \A v \in Threads, q \in Privates : Publishes(v, q)' <=> Publishes(v, q) /\ v # t
    <3>1. ASSUME NEW v \in Threads, NEW q \in Privates
          PROVE  Publishes(v, q)' <=> Publishes(v, q) /\ v # t
      BY <1>4 DEF Alone, Publishes
    <3> QED
      BY <3>1
  <2>2. \A q \in Privates : Publishes(t, q) => q = p
    BY DEF Publishes
  <2>3. \A q \in Privates : q \in free' \/ d_ptr' = Private(q) \/ \E v \in Threads : Publishes(v, q)'
    BY <1>1, <2>1, <2>2 DEF IInv, Belongings
  <2>4. \A q \in free' : d_ptr' # Private(q) /\ readerCount'[q] = 0 /\ writerCount'[q] = 0
    BY <1>1, <1>2, <1>3, <1>4 DEF IInv, Belongings, Types
  <2>5. ASSUME NEW v \in Threads, NEW q \in Privates, Publishes(v, q)'
        PROVE  /\ q \notin free' /\ d_ptr' # Private(q)
               /\ \A u \in Threads : Publishes(u, q)' => u = v
               /\ seen'[v].tag \in {"read", "write"}
               /\ readerCount'[q] = seen'[v].readers
               /\ writerCount'[q] = IF seen'[v].tag = "write" THEN 1 ELSE 0
    <3>1. Publishes(v, q) /\ v # t /\ q # p /\ seen'[v] = seen[v]
      BY <1>3, <1>6, <2>1, <2>5
    <3> QED
      BY <1>1, <1>4, <2>1, <3>1 DEF IInv, Belongings
  <2> QED
    BY <2>3, <2>4, <2>5 DEF Belongings
<1>11. Behind'
  <2> SUFFICES ASSUME NEW v \in Threads, pc'[v] = "asleep"
               PROVE  /\ mode'[v] = "write" /\ Readers' = 0 /\ Writers' = 0
                           => \E u \in Threads : pc'[u] = "woken" /\ mode'[u] = "write"
                      /\ mode'[v] = "read" => Writers' > 0 \/ Waiters(mine[v], "write")' > 0
    BY <1>6 DEF Behind
  <2> QED
    BY <1>6, <1>7 DEF IInv, Behind, Types, Modes
<1> QED
  BY <1>5, <1>8, <1>9, <1>10, <1>11 DEF IInv

-----------------------------------------------------------------------------
(* The steps with the mutex of the lock's private                          *)

LEMMA RoundFacts ==
  ASSUME IInv, NEW t \in Threads, NEW m \in {"read", "write"}, Round(t, m), NEW p, p = mine[t]
  PROVE  /\ p \in Privates /\ d_ptr = Private(p) /\ mode[t] = m /\ pc[t] \in {"mutex", "woken"}
         /\ Was(t) = One(Queuing(t, p, m)) /\ Was(t) \in 0..1
         /\ \A n \in Modes \ {m} : One(Queuing(t, p, n)) = 0
         /\ \A n \in Modes : One(Holding(t, n)) = 0
         /\ Readers = readerCount[p] /\ Writers = writerCount[p]
         /\ waitingReaders[p] = Waiters(p, "read") /\ waitingWriters[p] = Waiters(p, "write")
         /\ \A v \in Threads : pc[v] \in {"asleep", "woken"} => mine[v] = p
<1>1. p \in Privates /\ d_ptr = Private(p) /\ mode[t] = m /\ pc[t] \in {"mutex", "woken"}
  BY DEF Round, IInv, Types, Queues
<1>2. Was(t) = One(Queuing(t, p, m)) /\ Was(t) \in 0..1
  BY <1>1 DEF Was, One, Queuing
<1>3. /\ \A n \in Modes \ {m} : One(Queuing(t, p, n)) = 0
      /\ \A n \in Modes : One(Holding(t, n)) = 0
  BY <1>1 DEF One, Queuing, Holding
<1>4. Readers = readerCount[p] /\ Writers = writerCount[p]
  BY <1>1, WordFacts DEF IInv, Counted
<1>5. waitingReaders[p] = Waiters(p, "read") /\ waitingWriters[p] = Waiters(p, "write")
  BY <1>1 DEF IInv, Queues
<1>6. \A v \in Threads : pc[v] \in {"asleep", "woken"} => mine[v] = p
  BY <1>1, WordFacts DEF IInv, Queues
<1> QED
  BY <1>1, <1>2, <1>3, <1>4, <1>5, <1>6

LEMMA ReadLockKeeps == ASSUME IInv, NEW t \in Threads, ReadLock(t) PROVE IInv'
<1> SUFFICES ASSUME NEW p, p = mine[t]
             PROVE  IInv'
  OBVIOUS
<1>1. /\ Round(t, "read") /\ ~ReaderBlocked(p) /\ Locked(t)
      /\ readerCount' = [readerCount EXCEPT ![p] = @ + 1]
      /\ waitingReaders' = [waitingReaders EXCEPT ![p] = @ - Was(t)]
      /\ d_ptr' = d_ptr /\ free' = free /\ writerCount' = writerCount
      /\ waitingWriters' = waitingWriters
  BY DEF ReadLock
<1>2. /\ p \in Privates /\ d_ptr = Private(p) /\ mode[t] = "read" /\ pc[t] \in {"mutex", "woken"}
      /\ Was(t) = One(Queuing(t, p, "read")) /\ Was(t) \in 0..1
      /\ One(Queuing(t, p, "write")) = 0
      /\ One(Holding(t, "read")) = 0 /\ One(Holding(t, "write")) = 0
      /\ Readers = readerCount[p] /\ Writers = writerCount[p]
      /\ waitingReaders[p] = Waiters(p, "read") /\ waitingWriters[p] = Waiters(p, "write")
      /\ \A v \in Threads : pc[v] \in {"asleep", "woken"} => mine[v] = p
  BY <1>1, RoundFacts DEF Modes
<1>3. Alone(t) /\ pc'[t] = "held" /\ mode' = mode
  BY <1>1, <1>2, LockedMoves DEF IInv
<1>4. /\ Readers' = Readers + 1 /\ Writers' = Writers
      /\ Waiters(p, "read")' = Waiters(p, "read") - Was(t)
      /\ Waiters(p, "write")' = Waiters(p, "write")
  <2>1. /\ One(Holding(t, "read")') = 1 /\ One(Holding(t, "write")') = 0
        /\ One(Queuing(t, p, "read")') = 0 /\ One(Queuing(t, p, "write")') = 0
    BY <1>2, <1>3 DEF One, Holding, Queuing
  <2> QED
    BY <1>2, <1>3, <2>1, CountsAt
<1>5. Waiters(p, "read")' \in Nat /\ Readers \in Nat
  BY CountFacts, CountFactsNext
<1>6. /\ readerCount'[p] = readerCount[p] + 1 /\ waitingReaders'[p] = waitingReaders[p] - Was(t)
      /\ \A q \in Privates \ {p} : /\ readerCount'[q] = readerCount[q]
                                   /\ waitingReaders'[q] = waitingReaders[q]
  BY <1>1, <1>2 DEF IInv, Types
<1>7. Types'
  <2>1. readerCount[p] + 1 \in Nat /\ waitingReaders[p] - Was(t) \in Nat
    BY <1>2, <1>4, <1>5
  <2> QED
    BY <1>1, <1>2, <2>1, LockedMoves DEF IInv, Types
<1>8. writerCount[p] = 0 /\ waitingWriters[p] = 0
  BY <1>1, <1>2 DEF ReaderBlocked, IInv, Types
<1>9. Counted' /\ Queues' /\ Belongings'
  BY <1>1, <1>2, <1>3, <1>4, <1>5, <1>6, <1>8, PrivateKeeps
<1>10. Behind'
  <2>1. ASSUME NEW v \in Threads, pc[v] = "asleep"
        PROVE  FALSE
    <3>1. mode[v] # "read"
      BY <1>2, <1>8, <2>1 DEF IInv, Behind
    <3>2. mode[v] # "write"
      BY <1>2, <1>8, <2>1, CountFacts DEF Queued
    <3> QED
      BY <2>1, <3>1, <3>2 DEF IInv, Types, Modes
  <2> QED
    BY <1>3, <2>1 DEF Behind, Alone
<1> QED
  BY <1>7, <1>9, <1>10 DEF IInv

LEMMA ReadTimeoutKeeps == ASSUME IInv, NEW t \in Threads, ReadTimeout(t) PROVE IInv'
<1> SUFFICES ASSUME NEW p, p = mine[t]
             PROVE  IInv'
  OBVIOUS
<1>1. /\ Round(t, "read") /\ Leave(t) /\ pc' = [pc EXCEPT ![t] = "idle"]
      /\ waitingReaders' = [waitingReaders EXCEPT ![p] = @ - Was(t)]
      /\ d_ptr' = d_ptr /\ free' = free /\ readerCount' = readerCount /\ writerCount' = writerCount
      /\ waitingWriters' = waitingWriters
  BY DEF ReadTimeout, Goto, counts
<1>2. /\ p \in Privates /\ d_ptr = Private(p) /\ mode[t] = "read" /\ pc[t] \in {"mutex", "woken"}
      /\ Was(t) = One(Queuing(t, p, "read")) /\ Was(t) \in 0..1
      /\ One(Queuing(t, p, "write")) = 0
      /\ One(Holding(t, "read")) = 0 /\ One(Holding(t, "write")) = 0
      /\ Readers = readerCount[p] /\ Writers = writerCount[p]
      /\ waitingReaders[p] = Waiters(p, "read") /\ waitingWriters[p] = Waiters(p, "write")
      /\ \A v \in Threads : pc[v] \in {"asleep", "woken"} => mine[v] = p
  BY <1>1, RoundFacts DEF Modes
<1>3. pc' \in [Threads -> Locations] /\ pc'[t] = "idle" /\ \A v \in Threads \ {t} : pc'[v] = pc[v]
  BY <1>1 DEF IInv, Types, Locations
<1>4. Alone(t)
  BY <1>1, <1>3, LeaveMoves DEF IInv
<1>5. /\ Readers' = Readers /\ Writers' = Writers
      /\ Waiters(p, "read")' = Waiters(p, "read") - Was(t)
      /\ Waiters(p, "write")' = Waiters(p, "write")
  <2>1. /\ One(Holding(t, "read")') = 0 /\ One(Holding(t, "write")') = 0
        /\ One(Queuing(t, p, "read")') = 0 /\ One(Queuing(t, p, "write")') = 0
    BY <1>3 DEF One, Holding, Queuing
  <2> QED
    BY <1>2, <1>4, <2>1, CountsAt
<1>6. /\ waitingReaders'[p] = waitingReaders[p] - Was(t)
      /\ \A q \in Privates \ {p} : waitingReaders'[q] = waitingReaders[q]
  BY <1>1, <1>2 DEF IInv, Types
<1>7. Types'
  <2>1. waitingReaders[p] - Was(t) \in Nat
    BY <1>2, <1>5, CountFactsNext
  <2> QED
    BY <1>1, <1>2, <1>3, <2>1, LeaveMoves DEF IInv, Types
<1>8. Counted' /\ Queues' /\ Belongings'
  <2>1. writerCount[p] > 0 => readerCount[p] = 0
    BY <1>2 DEF IInv, Counted
  <2> QED
    BY <1>1, <1>2, <1>3, <1>4, <1>5, <1>6, <2>1, PrivateKeeps
<1>9. Behind'
  BY <1>2, <1>3, <1>4, <1>5 DEF Behind, IInv, Alone
<1> QED
  BY <1>7, <1>8, <1>9 DEF IInv

LEMMA ReadWaitKeeps == ASSUME IInv, NEW t \in Threads, ReadWait(t) PROVE IInv'
<1> SUFFICES ASSUME NEW p, p = mine[t]
             PROVE  IInv'
  OBVIOUS
<1>1. /\ Round(t, "read") /\ ReaderBlocked(p) /\ pc' = [pc EXCEPT ![t] = "asleep"]
      /\ waitingReaders' = [waitingReaders EXCEPT ![p] = @ + 1 - Was(t)]
      /\ d_ptr' = d_ptr /\ free' = free /\ readerCount' = readerCount /\ writerCount' = writerCount
      /\ waitingWriters' = waitingWriters
      /\ mode' = mode /\ timed' = timed /\ seen' = seen /\ mine' = mine
  BY DEF ReadWait, Goto, counts, locals
<1>2. /\ p \in Privates /\ d_ptr = Private(p) /\ mode[t] = "read" /\ pc[t] \in {"mutex", "woken"}
      /\ Was(t) = One(Queuing(t, p, "read")) /\ Was(t) \in 0..1
      /\ One(Queuing(t, p, "write")) = 0
      /\ One(Holding(t, "read")) = 0 /\ One(Holding(t, "write")) = 0
      /\ Readers = readerCount[p] /\ Writers = writerCount[p]
      /\ waitingReaders[p] = Waiters(p, "read") /\ waitingWriters[p] = Waiters(p, "write")
      /\ \A v \in Threads : pc[v] \in {"asleep", "woken"} => mine[v] = p
  BY <1>1, RoundFacts DEF Modes
<1>3. pc'[t] = "asleep" /\ Alone(t) /\ pc' \in [Threads -> Locations]
  BY <1>1 DEF IInv, Types, Locations, Alone
<1>4. /\ Readers' = Readers /\ Writers' = Writers
      /\ Waiters(p, "read")' = Waiters(p, "read") + 1 - Was(t)
      /\ Waiters(p, "write")' = Waiters(p, "write")
  <2>1. /\ One(Holding(t, "read")') = 0 /\ One(Holding(t, "write")') = 0
        /\ One(Queuing(t, p, "read")') = 1 /\ One(Queuing(t, p, "write")') = 0
    BY <1>1, <1>2, <1>3 DEF One, Holding, Queuing
  <2> QED
    BY <1>2, <1>3, <2>1, CountsAt
<1>5. /\ waitingReaders'[p] = waitingReaders[p] + 1 - Was(t)
      /\ \A q \in Privates \ {p} : waitingReaders'[q] = waitingReaders[q]
  BY <1>1, <1>2 DEF IInv, Types
<1>6. Types'
  <2>1. waitingReaders[p] + 1 - Was(t) \in Nat
    BY <1>2, <1>4, CountFactsNext
  <2> QED
    BY <1>1, <1>2, <1>3, <2>1 DEF IInv, Types
<1>7. Counted' /\ Queues' /\ Belongings'
  <2>1. writerCount[p] > 0 => readerCount[p] = 0
    BY <1>2 DEF IInv, Counted
  <2> QED
    BY <1>1, <1>2, <1>3, <1>4, <1>5, <2>1, PrivateKeeps
<1>8. Behind'
  <2>1. Writers' > 0 \/ Waiters(p, "write")' > 0
    BY <1>1, <1>2, <1>4 DEF ReaderBlocked
  <2> QED
    BY <1>1, <1>2, <1>3, <1>4, <2>1 DEF Behind, IInv, Types
<1> QED
  BY <1>6, <1>7, <1>8 DEF IInv

LEMMA WriteRoundFacts ==
  ASSUME IInv, NEW t \in Threads, Round(t, "write"), NEW p, p = mine[t]
  PROVE  /\ p \in Privates /\ d_ptr = Private(p) /\ mode[t] = "write" /\ pc[t] \in {"mutex", "woken"}
         /\ Was(t) = One(Queuing(t, p, "write")) /\ Was(t) \in 0..1
         /\ One(Queuing(t, p, "read")) = 0
         /\ One(Holding(t, "read")) = 0 /\ One(Holding(t, "write")) = 0
         /\ Readers = readerCount[p] /\ Writers = writerCount[p]
         /\ waitingReaders[p] = Waiters(p, "read") /\ waitingWriters[p] = Waiters(p, "write")
         /\ \A v \in Threads : pc[v] \in {"asleep", "woken"} => mine[v] = p
  BY RoundFacts DEF Modes

LEMMA WriteLockKeeps == ASSUME IInv, NEW t \in Threads, WriteLock(t) PROVE IInv'
<1> SUFFICES ASSUME NEW p, p = mine[t]
             PROVE  IInv'
  OBVIOUS
<1>1. /\ Round(t, "write") /\ ~WriterBlocked(p) /\ Locked(t)
      /\ writerCount' = [writerCount EXCEPT ![p] = 1]
      /\ waitingWriters' = [waitingWriters EXCEPT ![p] = @ - Was(t)]
      /\ d_ptr' = d_ptr /\ free' = free /\ readerCount' = readerCount
      /\ waitingReaders' = waitingReaders
  BY DEF WriteLock
<1>2. /\ p \in Privates /\ d_ptr = Private(p) /\ mode[t] = "write" /\ pc[t] \in {"mutex", "woken"}
      /\ Was(t) = One(Queuing(t, p, "write")) /\ Was(t) \in 0..1
      /\ One(Queuing(t, p, "read")) = 0
      /\ One(Holding(t, "read")) = 0 /\ One(Holding(t, "write")) = 0
      /\ Readers = readerCount[p] /\ Writers = writerCount[p]
      /\ waitingReaders[p] = Waiters(p, "read") /\ waitingWriters[p] = Waiters(p, "write")
      /\ \A v \in Threads : pc[v] \in {"asleep", "woken"} => mine[v] = p
  BY <1>1, WriteRoundFacts
<1>3. Alone(t) /\ pc'[t] = "held" /\ mode' = mode
  BY <1>1, <1>2, LockedMoves DEF IInv
<1>4. /\ Readers' = Readers /\ Writers' = Writers + 1
      /\ Waiters(p, "read")' = Waiters(p, "read")
      /\ Waiters(p, "write")' = Waiters(p, "write") - Was(t)
  <2>1. /\ One(Holding(t, "read")') = 0 /\ One(Holding(t, "write")') = 1
        /\ One(Queuing(t, p, "read")') = 0 /\ One(Queuing(t, p, "write")') = 0
    BY <1>2, <1>3 DEF One, Holding, Queuing
  <2> QED
    BY <1>2, <1>3, <2>1, CountsAt
<1>5. readerCount[p] = 0 /\ writerCount[p] = 0
  BY <1>1, <1>2 DEF WriterBlocked, IInv, Types
<1>6. /\ writerCount'[p] = 1 /\ waitingWriters'[p] = waitingWriters[p] - Was(t)
      /\ \A q \in Privates \ {p} : /\ writerCount'[q] = writerCount[q]
                                   /\ waitingWriters'[q] = waitingWriters[q]
  BY <1>1, <1>2 DEF IInv, Types
<1>7. Types'
  <2>1. waitingWriters[p] - Was(t) \in Nat
    BY <1>2, <1>4, CountFactsNext
  <2> QED
    BY <1>1, <1>2, <2>1, LockedMoves DEF IInv, Types
<1>8. Counted' /\ Queues' /\ Belongings'
  BY <1>1, <1>2, <1>3, <1>4, <1>5, <1>6, PrivateKeeps
<1>9. Behind'
  BY <1>2, <1>4, <1>5 DEF Behind
<1> QED
  BY <1>7, <1>8, <1>9 DEF IInv

LEMMA WriteWaitKeeps == ASSUME IInv, NEW t \in Threads, WriteWait(t) PROVE IInv'
<1> SUFFICES ASSUME NEW p, p = mine[t]
             PROVE  IInv'
  OBVIOUS
<1>1. /\ Round(t, "write") /\ WriterBlocked(p) /\ pc' = [pc EXCEPT ![t] = "asleep"]
      /\ waitingWriters' = [waitingWriters EXCEPT ![p] = @ + 1 - Was(t)]
      /\ d_ptr' = d_ptr /\ free' = free /\ readerCount' = readerCount /\ writerCount' = writerCount
      /\ waitingReaders' = waitingReaders
      /\ mode' = mode /\ timed' = timed /\ seen' = seen /\ mine' = mine
  BY DEF WriteWait, Goto, counts, locals
<1>2. /\ p \in Privates /\ d_ptr = Private(p) /\ mode[t] = "write" /\ pc[t] \in {"mutex", "woken"}
      /\ Was(t) = One(Queuing(t, p, "write")) /\ Was(t) \in 0..1
      /\ One(Queuing(t, p, "read")) = 0
      /\ One(Holding(t, "read")) = 0 /\ One(Holding(t, "write")) = 0
      /\ Readers = readerCount[p] /\ Writers = writerCount[p]
      /\ waitingReaders[p] = Waiters(p, "read") /\ waitingWriters[p] = Waiters(p, "write")
      /\ \A v \in Threads : pc[v] \in {"asleep", "woken"} => mine[v] = p
  BY <1>1, WriteRoundFacts
<1>3. pc'[t] = "asleep" /\ Alone(t) /\ pc' \in [Threads -> Locations]
  BY <1>1 DEF IInv, Types, Locations, Alone
<1>4. /\ Readers' = Readers /\ Writers' = Writers
      /\ Waiters(p, "read")' = Waiters(p, "read")
      /\ Waiters(p, "write")' = Waiters(p, "write") + 1 - Was(t)
  <2>1. /\ One(Holding(t, "read")') = 0 /\ One(Holding(t, "write")') = 0
        /\ One(Queuing(t, p, "read")') = 0 /\ One(Queuing(t, p, "write")') = 1
    BY <1>1, <1>2, <1>3 DEF One, Holding, Queuing
  <2> QED
    BY <1>2, <1>3, <2>1, CountsAt
<1>5. /\ waitingWriters'[p] = waitingWriters[p] + 1 - Was(t)
      /\ \A q \in Privates \ {p} : waitingWriters'[q] = waitingWriters[q]
  BY <1>1, <1>2 DEF IInv, Types
<1>6. Types'
  <2>1. waitingWriters[p] + 1 - Was(t) \in Nat
    BY <1>2, <1>4, CountFactsNext
  <2> QED
    BY <1>1, <1>2, <1>3, <2>1 DEF IInv, Types
<1>7. Counted' /\ Queues' /\ Belongings'
  <2>1. writerCount[p] > 0 => readerCount[p] = 0
    BY <1>2 DEF IInv, Counted
  <2> QED
    BY <1>1, <1>2, <1>3, <1>4, <1>5, <2>1, PrivateKeeps
<1>8. Behind'
  <2>1. Waiters(p, "write")' > 0
    <3>1. t \in Queued(p, "write")'
      BY <1>1, <1>2, <1>3 DEF Queued
    <3> QED
      BY <3>1, CountFactsNext
  <2>2. Readers' > 0 \/ Writers' > 0
    BY <1>1, <1>2, <1>4 DEF WriterBlocked
  <2> QED
    BY <1>1, <1>2, <1>3, <2>1, <2>2 DEF Behind, IInv, Types
<1> QED
  BY <1>6, <1>7, <1>8 DEF IInv

LEMMA WriteTimeoutKeeps == ASSUME IInv, NEW t \in Threads, WriteTimeout(t) PROVE IInv'
<1> SUFFICES ASSUME NEW p, p = mine[t]
             PROVE  IInv'
  OBVIOUS
<1> DEFINE S == IF OtherWriters(t) = 0 /\ writerCount[p] = 0 THEN Asleep(p, "read") ELSE {}
<1>1. /\ Round(t, "write") /\ WriterBlocked(p) /\ Leave(t) /\ Notify(t, "idle", S)
      /\ waitingWriters' = [waitingWriters EXCEPT ![p] = @ - Was(t)]
      /\ d_ptr' = d_ptr /\ free' = free /\ readerCount' = readerCount /\ writerCount' = writerCount
      /\ waitingReaders' = waitingReaders
  BY DEF WriteTimeout, counts
<1>2. /\ p \in Privates /\ d_ptr = Private(p) /\ mode[t] = "write" /\ pc[t] \in {"mutex", "woken"}
      /\ Was(t) = One(Queuing(t, p, "write")) /\ Was(t) \in 0..1
      /\ One(Queuing(t, p, "read")) = 0
      /\ One(Holding(t, "read")) = 0 /\ One(Holding(t, "write")) = 0
      /\ Readers = readerCount[p] /\ Writers = writerCount[p]
      /\ waitingReaders[p] = Waiters(p, "read") /\ waitingWriters[p] = Waiters(p, "write")
      /\ \A v \in Threads : pc[v] \in {"asleep", "woken"} => mine[v] = p
  BY <1>1, WriteRoundFacts
<1>3. /\ pc' \in [Threads -> Locations] /\ pc'[t] = "idle"
      /\ \A v \in Threads \ {t} : pc'[v] = IF v \in S THEN "woken" ELSE pc[v]
      /\ \A v \in S : pc[v] = "asleep"
  <2>1. \A v \in S : pc[v] = "asleep"
    BY DEF Asleep
  <2>2. \A v \in Threads : pc'[v] = IF v = t THEN "idle" ELSE IF v \in S THEN "woken" ELSE pc[v]
    BY <1>1 DEF Notify
  <2> HIDE DEF S
  <2> QED
    BY <1>1, <2>1, <2>2 DEF Notify, IInv, Types, Locations
<1>4. Alone(t)
  <2> HIDE DEF S
  <2> QED
    BY <1>1, <1>3, LeaveMoves DEF IInv
<1>5. /\ Readers' = Readers /\ Writers' = Writers
      /\ Waiters(p, "read")' = Waiters(p, "read")
      /\ Waiters(p, "write")' = Waiters(p, "write") - Was(t)
  <2>1. /\ One(Holding(t, "read")') = 0 /\ One(Holding(t, "write")') = 0
        /\ One(Queuing(t, p, "read")') = 0 /\ One(Queuing(t, p, "write")') = 0
    BY <1>3 DEF One, Holding, Queuing
  <2> QED
    BY <1>2, <1>4, <2>1, CountsAt
<1>6. /\ waitingWriters'[p] = waitingWriters[p] - Was(t)
      /\ \A q \in Privates \ {p} : waitingWriters'[q] = waitingWriters[q]
  BY <1>1, <1>2 DEF IInv, Types
<1>7. Types'
  <2> HIDE DEF S
  <2>1. waitingWriters[p] - Was(t) \in Nat
    BY <1>2, <1>5, CountFactsNext
  <2> QED
    BY <1>1, <1>2, <1>3, <2>1, LeaveMoves DEF IInv, Types
<1>8. Counted' /\ Queues' /\ Belongings'
  <2>1. writerCount[p] > 0 => readerCount[p] = 0
    BY <1>2 DEF IInv, Counted
  <2> QED
    BY <1>1, <1>2, <1>3, <1>4, <1>5, <1>6, <2>1, PrivateKeeps
<1>9. Behind'
  <2>1. Readers' > 0 \/ Writers' > 0
    BY <1>1, <1>2, <1>5 DEF WriterBlocked
  <2>2. ASSUME NEW v \in Threads, pc'[v] = "asleep", mode'[v] = "read"
        PROVE  Writers' > 0 \/ Waiters(mine[v], "write")' > 0
    <3>1. v # t /\ v \notin S /\ pc[v] = "asleep" /\ mode[v] = "read" /\ mine[v] = p /\ mine'[v] = p
      BY <1>2, <1>3, <1>4, <2>2 DEF Alone
    <3>2. ~(OtherWriters(t) = 0 /\ writerCount[p] = 0)
      BY <3>1 DEF Asleep
    <3>3. OtherWriters(t) = Waiters(p, "write")'
      BY <1>2, <1>5 DEF OtherWriters
    <3>4. writerCount[p] \in Nat /\ Waiters(p, "write")' \in Nat
      BY <1>2, CountFacts, CountFactsNext
    <3> QED
      BY <1>2, <1>5, <3>1, <3>2, <3>3, <3>4
  <2> QED
    BY <2>1, <2>2 DEF Behind
<1> QED
  BY <1>7, <1>8, <1>9 DEF IInv

-----------------------------------------------------------------------------
(* unlock() with a private                                                 *)

LEMMA HeldFacts ==
  ASSUME IInv, NEW t \in Threads, pc[t] = "held", d_ptr.tag = "private", NEW p, p = d_ptr.priv
  PROVE  /\ p \in Privates /\ d_ptr = Private(p) /\ mode[t] \in {"read", "write"}
         /\ One(Queuing(t, p, "read")) = 0 /\ One(Queuing(t, p, "write")) = 0
         /\ One(Holding(t, "read")) = IF mode[t] = "read" THEN 1 ELSE 0
         /\ One(Holding(t, "write")) = IF mode[t] = "write" THEN 1 ELSE 0
         /\ Readers = readerCount[p] /\ Writers = writerCount[p]
         /\ writerCount[p] \in 0..1 /\ readerCount[p] \in Nat
         /\ mode[t] = "read" => writerCount[p] = 0 /\ readerCount[p] > 0
         /\ mode[t] = "write" => writerCount[p] = 1 /\ readerCount[p] = 0
         /\ waitingReaders[p] = Waiters(p, "read") /\ waitingWriters[p] = Waiters(p, "write")
         /\ \A v \in Threads : pc[v] \in {"asleep", "woken"} => mine[v] = p
<1>1. p \in Privates /\ d_ptr = Private(p) /\ mode[t] \in {"read", "write"}
  BY AnyWordFacts DEF IInv, Types, Modes
<1>2. /\ One(Queuing(t, p, "read")) = 0 /\ One(Queuing(t, p, "write")) = 0
      /\ One(Holding(t, "read")) = IF mode[t] = "read" THEN 1 ELSE 0
      /\ One(Holding(t, "write")) = IF mode[t] = "write" THEN 1 ELSE 0
  BY DEF One, Queuing, Holding
<1>3. Readers = readerCount[p] /\ Writers = writerCount[p]
  BY <1>1, WordFacts DEF IInv, Counted
<1>4. writerCount[p] \in 0..1 /\ readerCount[p] \in Nat
  BY <1>1 DEF IInv, Types
<1>5. /\ mode[t] = "read" => Readers # 0
      /\ mode[t] = "write" => Writers # 0
  BY CountFacts DEF Holders
<1>6. /\ mode[t] = "read" => writerCount[p] = 0 /\ readerCount[p] > 0
      /\ mode[t] = "write" => writerCount[p] = 1 /\ readerCount[p] = 0
  <2>1. writerCount[p] > 0 => readerCount[p] = 0
    BY <1>1 DEF IInv, Counted
  <2> QED
    BY <1>3, <1>4, <1>5, <2>1
<1>7. waitingReaders[p] = Waiters(p, "read") /\ waitingWriters[p] = Waiters(p, "write")
  BY <1>1 DEF IInv, Queues
<1>8. \A v \in Threads : pc[v] \in {"asleep", "woken"} => mine[v] = p
  BY <1>1, WordFacts DEF IInv, Queues
<1> QED
  BY <1>1, <1>2, <1>3, <1>4, <1>5, <1>6, <1>7, <1>8

\* One holder less, in the counts and among the threads.
LEMMA UncountCounts ==
  ASSUME IInv, NEW t \in Threads, pc[t] = "held", d_ptr.tag = "private", NEW p, p = d_ptr.priv,
         Alone(t), pc'[t] = "idle", Uncount(p)
  PROVE  /\ Readers' = readerCount'[p] /\ Writers' = writerCount'[p]
         /\ Writers' = 0
         /\ Emptied(p) <=> Readers' = 0
         /\ Waiters(p, "read")' = Waiters(p, "read") /\ Waiters(p, "write")' = Waiters(p, "write")
         /\ readerCount' \in [Privates -> Nat] /\ writerCount' \in [Privates -> 0..1]
         /\ \A q \in Privates \ {p} : /\ readerCount'[q] = readerCount[q]
                                      /\ writerCount'[q] = writerCount[q]
<1>1. /\ p \in Privates /\ d_ptr = Private(p) /\ mode[t] \in {"read", "write"}
      /\ One(Queuing(t, p, "read")) = 0 /\ One(Queuing(t, p, "write")) = 0
      /\ One(Holding(t, "read")) = IF mode[t] = "read" THEN 1 ELSE 0
      /\ One(Holding(t, "write")) = IF mode[t] = "write" THEN 1 ELSE 0
      /\ Readers = readerCount[p] /\ Writers = writerCount[p]
      /\ writerCount[p] \in 0..1 /\ readerCount[p] \in Nat
      /\ mode[t] = "read" => writerCount[p] = 0 /\ readerCount[p] > 0
      /\ mode[t] = "write" => writerCount[p] = 1 /\ readerCount[p] = 0
  BY HeldFacts
<1>2. /\ Readers' = Readers - (IF mode[t] = "read" THEN 1 ELSE 0)
      /\ Writers' = Writers - (IF mode[t] = "write" THEN 1 ELSE 0)
      /\ Waiters(p, "read")' = Waiters(p, "read") /\ Waiters(p, "write")' = Waiters(p, "write")
  <2>1. /\ One(Holding(t, "read")') = 0 /\ One(Holding(t, "write")') = 0
        /\ One(Queuing(t, p, "read")') = 0 /\ One(Queuing(t, p, "write")') = 0
    BY DEF One, Holding, Queuing
  <2> QED
    BY <1>1, <2>1, CountsAt
<1>3. CASE mode[t] = "write"
  <2>1. writerCount' = [writerCount EXCEPT ![p] = 0] /\ readerCount' = readerCount
    BY <1>1, <1>3 DEF Uncount
  <2>2. writerCount[p] = 1 /\ Readers = 0 /\ Writers = 1
    BY <1>1, <1>3
  <2>3. Emptied(p)
    BY <2>2 DEF Emptied
  <2>4. Readers' = 0 /\ Writers' = 0
    BY <1>2, <1>3, <2>2
  <2>5. readerCount'[p] = 0 /\ writerCount'[p] = 0
    BY <1>1, <1>3, <2>1 DEF IInv, Types
  <2> QED
    BY <1>1, <1>2, <2>1, <2>3, <2>4, <2>5 DEF IInv, Types
<1>4. CASE mode[t] = "read"
  <2>1. readerCount' = [readerCount EXCEPT ![p] = @ - 1] /\ writerCount' = writerCount
    BY <1>1, <1>4 DEF Uncount
  <2>2. Emptied(p) <=> readerCount[p] = 1
    BY <1>1, <1>4 DEF Emptied
  <2>3. readerCount[p] - 1 \in Nat /\ Readers' = readerCount[p] - 1 /\ Writers' = 0
    <3>1. readerCount[p] \in Nat /\ readerCount[p] > 0
      BY <1>1, <1>4
    <3>2. Readers = readerCount[p] /\ Writers = 0
      BY <1>1, <1>4
    <3> QED
      BY <1>2, <1>4, <3>1, <3>2
  <2>4. readerCount'[p] = readerCount[p] - 1 /\ writerCount'[p] = 0
    BY <1>1, <1>4, <2>1 DEF IInv, Types
  <2>5. readerCount' \in [Privates -> Nat]
    BY <1>1, <2>1, <2>3 DEF IInv, Types
  <2> QED
    BY <1>1, <1>2, <2>1, <2>2, <2>3, <2>4, <2>5 DEF IInv, Types
<1> QED
  BY <1>1, <1>3, <1>4

LEMMA UnlockOneOfManyKeeps == ASSUME IInv, NEW t \in Threads, UnlockOneOfMany(t) PROVE IInv'
<1> SUFFICES ASSUME NEW p, p = d_ptr.priv
             PROVE  IInv'
  OBVIOUS
<1>1. /\ pc[t] = "held" /\ d_ptr.tag = "private" /\ ~Emptied(p) /\ Uncount(p) /\ Leave(t)
      /\ pc' = [pc EXCEPT ![t] = "idle"]
      /\ d_ptr' = d_ptr /\ free' = free /\ waitingReaders' = waitingReaders
      /\ waitingWriters' = waitingWriters
  BY DEF UnlockOneOfMany, Goto, waiting
<1>2. /\ p \in Privates /\ d_ptr = Private(p) /\ Writers = writerCount[p]
      /\ writerCount[p] \in 0..1 /\ readerCount[p] \in Nat
      /\ waitingReaders[p] = Waiters(p, "read") /\ waitingWriters[p] = Waiters(p, "write")
      /\ \A v \in Threads : pc[v] \in {"asleep", "woken"} => mine[v] = p
  BY <1>1, HeldFacts
<1>3. pc' \in [Threads -> Locations] /\ pc'[t] = "idle" /\ \A v \in Threads \ {t} : pc'[v] = pc[v]
  BY <1>1 DEF IInv, Types, Locations
<1>4. Alone(t)
  BY <1>1, <1>3, LeaveMoves DEF IInv
<1>5. /\ Readers' = readerCount'[p] /\ Writers' = writerCount'[p] /\ Writers' = 0 /\ Readers' # 0
      /\ Waiters(p, "read")' = Waiters(p, "read") /\ Waiters(p, "write")' = Waiters(p, "write")
      /\ readerCount' \in [Privates -> Nat] /\ writerCount' \in [Privates -> 0..1]
      /\ \A q \in Privates \ {p} : /\ readerCount'[q] = readerCount[q]
                                   /\ writerCount'[q] = writerCount[q]
  BY <1>1, <1>3, <1>4, UncountCounts
<1>6. Types'
  BY <1>1, <1>3, <1>5, LeaveMoves DEF IInv, Types
<1>7. Counted' /\ Queues' /\ Belongings'
  <2>1. writerCount'[p] > 0 => readerCount'[p] = 0
    BY <1>5
  <2>2. /\ waitingReaders'[p] = Waiters(p, "read")'
        /\ waitingWriters'[p] = Waiters(p, "write")'
    BY <1>1, <1>2, <1>5
  <2>3. Readers' = readerCount'[p] /\ Writers' = writerCount'[p]
    BY <1>5
  <2> QED
    BY <1>1, <1>2, <1>3, <1>4, <1>5, <2>1, <2>2, <2>3, PrivateKeeps
<1>8. Behind'
  <2>1. writerCount[p] = 0
    BY <1>1, <1>2 DEF Emptied
  <2> QED
    BY <1>2, <1>3, <1>4, <1>5, <2>1 DEF Behind, IInv, Alone
<1> QED
  BY <1>6, <1>7, <1>8 DEF IInv

LEMMA UnlockAndNotifyKeeps == ASSUME IInv, NEW t \in Threads, UnlockAndNotify(t) PROVE IInv'
<1> SUFFICES ASSUME NEW p, p = d_ptr.priv
             PROVE  IInv'
  OBVIOUS
<1>1. /\ pc[t] = "held" /\ d_ptr.tag = "private" /\ Emptied(p) /\ Uncount(p) /\ Leave(t)
      /\ d_ptr' = d_ptr /\ free' = free /\ waitingReaders' = waitingReaders
      /\ waitingWriters' = waitingWriters
  BY DEF UnlockAndNotify, waiting
<1>2. PICK S \in NextOnes(p) : Notify(t, "idle", S)
  BY DEF UnlockAndNotify
<1>3. /\ p \in Privates /\ d_ptr = Private(p) /\ Writers = writerCount[p]
      /\ waitingReaders[p] = Waiters(p, "read") /\ waitingWriters[p] = Waiters(p, "write")
      /\ \A v \in Threads : pc[v] \in {"asleep", "woken"} => mine[v] = p
  BY <1>1, HeldFacts
<1>4. S \subseteq Threads /\ \A v \in S : pc[v] = "asleep"
  BY DEF NextOnes, Asleep
<1>5. /\ pc' \in [Threads -> Locations] /\ pc'[t] = "idle"
      /\ \A v \in Threads \ {t} : pc'[v] = IF v \in S THEN "woken" ELSE pc[v]
  <2>1. \A v \in Threads : pc'[v] = IF v = t THEN "idle" ELSE IF v \in S THEN "woken" ELSE pc[v]
    BY <1>2 DEF Notify
  <2> QED
    BY <1>2, <2>1 DEF Notify, IInv, Types, Locations
<1>6. Alone(t)
  BY <1>1, <1>4, <1>5, LeaveMoves DEF IInv
<1>7. /\ Readers' = readerCount'[p] /\ Writers' = writerCount'[p] /\ Writers' = 0 /\ Readers' = 0
      /\ Waiters(p, "read")' = Waiters(p, "read") /\ Waiters(p, "write")' = Waiters(p, "write")
      /\ readerCount' \in [Privates -> Nat] /\ writerCount' \in [Privates -> 0..1]
      /\ \A q \in Privates \ {p} : /\ readerCount'[q] = readerCount[q]
                                   /\ writerCount'[q] = writerCount[q]
  BY <1>1, <1>5, <1>6, UncountCounts
<1>8. Types'
  BY <1>1, <1>4, <1>5, <1>7, LeaveMoves DEF IInv, Types
<1>9. Counted' /\ Queues' /\ Belongings'
  BY <1>1, <1>3, <1>5, <1>6, <1>7, PrivateKeeps
<1>10. Behind'
  <2> SUFFICES ASSUME NEW v \in Threads, pc'[v] = "asleep"
               PROVE  /\ mode'[v] = "write" => \E u \in Threads : pc'[u] = "woken" /\ mode'[u] = "write"
                      /\ mode'[v] = "read" => Waiters(p, "write")' > 0 /\ mine'[v] = p
    BY <1>7 DEF Behind
  <2>1. v # t /\ v \notin S /\ pc[v] = "asleep" /\ mode'[v] = mode[v] /\ mine'[v] = p /\ mine[v] = p
    BY <1>3, <1>5, <1>6 DEF Alone
  <2>2. CASE waitingWriters[p] = 0
    <3>1. S = Asleep(p, "read") /\ Queued(p, "write") = {}
      BY <1>3, <2>2, CountFacts DEF NextOnes
    <3>2. mode[v] # "read" /\ mode[v] # "write"
      BY <2>1, <3>1 DEF Asleep, Queued
    <3> QED
      BY <2>1, <3>2
  <2>3. CASE waitingWriters[p] # 0
    <3>1. Waiters(p, "write")' > 0
      BY <1>3, <1>7, <2>3, CountFacts
    <3>2. ASSUME mode[v] = "write"
          PROVE  \E u \in Threads : pc'[u] = "woken" /\ mode'[u] = "write"
      <4>1. v \in Asleep(p, "write")
        BY <2>1, <3>2 DEF Asleep
      <4>2. PICK u \in Asleep(p, "write") : S = {u}
        BY <2>3, <4>1 DEF NextOnes
      <4>3. u \in Threads /\ u # t /\ mode[u] = "write"
        BY <1>1, <4>2 DEF Asleep
      <4> QED
        BY <1>5, <1>6, <4>2, <4>3 DEF Alone
    <3> QED
      BY <2>1, <3>1, <3>2
  <2> QED
    BY <2>2, <2>3
<1> QED
  BY <1>8, <1>9, <1>10 DEF IInv

LEMMA UnlockAndReleaseKeeps == ASSUME IInv, NEW t \in Threads, UnlockAndRelease(t) PROVE IInv'
<1> SUFFICES ASSUME NEW p, p = d_ptr.priv
             PROVE  IInv'
  OBVIOUS
<1>1. /\ pc[t] = "held" /\ d_ptr.tag = "private" /\ Emptied(p) /\ Uncount(p) /\ Leave(t)
      /\ waitingReaders[p] = 0 /\ waitingWriters[p] = 0
      /\ pc' = [pc EXCEPT ![t] = "idle"] /\ free' = free \cup {p}
      /\ d_ptr' = Null /\ waitingReaders' = waitingReaders /\ waitingWriters' = waitingWriters
  BY DEF UnlockAndRelease, Goto, waiting
<1>2. /\ p \in Privates /\ d_ptr = Private(p) /\ mode[t] \in {"read", "write"}
      /\ waitingReaders[p] = Waiters(p, "read") /\ waitingWriters[p] = Waiters(p, "write")
      /\ \A v \in Threads : pc[v] \in {"asleep", "woken"} => mine[v] = p
  BY <1>1, HeldFacts
<1>3. pc' \in [Threads -> Locations] /\ pc'[t] = "idle" /\ \A v \in Threads \ {t} : pc'[v] = pc[v]
  BY <1>1 DEF IInv, Types, Locations
<1>4. Alone(t)
  BY <1>1, <1>3, LeaveMoves DEF IInv
<1>5. /\ Readers' = readerCount'[p] /\ Writers' = writerCount'[p] /\ Writers' = 0 /\ Readers' = 0
      /\ readerCount' \in [Privates -> Nat] /\ writerCount' \in [Privates -> 0..1]
      /\ \A q \in Privates \ {p} : /\ readerCount'[q] = readerCount[q]
                                   /\ writerCount'[q] = writerCount[q]
  BY <1>1, <1>3, <1>4, UncountCounts
<1>6. Types'
  <2>1. Null \in AnyWord
    BY DEF AnyWord
  <2> QED
    BY <1>1, <1>2, <1>3, <1>5, <2>1, LeaveMoves DEF IInv, Types
<1>7. Counted'
  <2>1. \A q \in Privates : writerCount'[q] > 0 => readerCount'[q] = 0
    BY <1>5 DEF IInv, Counted
  <2>2. d_ptr'.tag = "null"
    BY <1>1, WordFacts
  <2> QED
    BY <1>5, <2>1, <2>2 DEF Counted
<1>8. \A v \in Threads : pc[v] \notin {"asleep", "woken"} /\ pc'[v] \notin {"asleep", "woken"}
  <2>1. Waiters(p, "read") = 0 /\ Waiters(p, "write") = 0
    BY <1>1, <1>2
  <2>2. Queued(p, "read") = {} /\ Queued(p, "write") = {}
    BY <2>1, CountFacts
  <2>3. \A v \in Threads : pc[v] \in {"asleep", "woken"} => mode[v] \in {"read", "write"}
    BY DEF IInv, Types, Modes
  <2>4. \A v \in Threads : pc[v] \notin {"asleep", "woken"}
    BY <1>2, <2>2, <2>3 DEF Queued
  <2> QED
    BY <1>3, <2>4
<1>9. Queues'
  <2>1. \A q \in Privates, m \in Modes : Queued(q, m) = {} /\ Queued(q, m)' = {}
    BY <1>8 DEF Queued
  <2>2. \A q \in Privates, m \in Modes : Waiters(q, m)' = Waiters(q, m)
    BY <2>1, CountFacts, CountFactsNext
  <2> QED
    BY <1>1, <1>8, <2>2 DEF IInv, Queues, Modes
<1>10. Belongings'
  <2>1. \A v \in Threads, q \in Privates : Publishes(v, q)' <=> Publishes(v, q)
    BY <1>1, <1>3, <1>4 DEF Alone, Publishes
  <2>2. \A v \in Threads, q \in Privates : Publishes(v, q) => q # p /\ seen'[v] = seen[v]
    BY <1>1, <1>2, <1>4 DEF Alone, Publishes, IInv, Belongings
  <2>3. \A q \in Privates : d_ptr' # Private(q) /\ (d_ptr = Private(q) <=> q = p)
    BY <1>1, <1>2, WordFacts
  <2>4. \A q \in Privates : q \in free' \/ d_ptr' = Private(q) \/ \E v \in Threads : Publishes(v, q)'
    BY <1>1, <2>1, <2>3 DEF IInv, Belongings
  <2>5. \A q \in free' : d_ptr' # Private(q) /\ readerCount'[q] = 0 /\ writerCount'[q] = 0
    <3>1. readerCount'[p] = 0 /\ writerCount'[p] = 0
      BY <1>5
    <3> QED
      BY <1>1, <1>2, <1>5, <2>3, <3>1 DEF IInv, Belongings, Types
  <2>6. ASSUME NEW v \in Threads, NEW q \in Privates, Publishes(v, q)'
        PROVE  /\ q \notin free' /\ d_ptr' # Private(q)
               /\ \A u \in Threads : Publishes(u, q)' => u = v
               /\ seen'[v].tag \in {"read", "write"}
               /\ readerCount'[q] = seen'[v].readers
               /\ writerCount'[q] = IF seen'[v].tag = "write" THEN 1 ELSE 0
    <3>1. Publishes(v, q) /\ q # p /\ seen'[v] = seen[v]
      BY <2>1, <2>2, <2>6
    <3> QED
      BY <1>1, <1>5, <2>1, <2>3, <3>1 DEF IInv, Belongings
  <2> QED
    BY <2>4, <2>5, <2>6 DEF Belongings
<1>11. Behind'
  BY <1>8 DEF Behind
<1> QED
  BY <1>6, <1>7, <1>9, <1>10, <1>11 DEF IInv

-----------------------------------------------------------------------------
(* The invariant                                                           *)

LEMMA InitIInv == Init => IInv
<1> SUFFICES ASSUME Init
             PROVE  IInv
  OBVIOUS
<1>1. Types
  BY DEF Init, Types, AnyWord, Words, Locations, Modes
<1>2. \A t \in Threads : pc[t] = "idle"
  BY DEF Init
<1>3. Readers = 0 /\ Writers = 0 /\ \A p, m : Waiters(p, m) = 0
  <2>1. \A m : Holders(m) = {}
    BY <1>2 DEF Holders
  <2>2. \A p, m : Queued(p, m) = {}
    BY <1>2 DEF Queued
  <2> QED
    BY <2>1, <2>2, CountFacts
<1>4. Counted
  BY <1>3, WordFacts DEF Init, Counted
<1>5. Queues
  BY <1>2, <1>3 DEF Init, Queues
<1>6. Belongings
  <2>1. \A p : d_ptr # Private(p)
    BY WordFacts DEF Init
  <2> QED
    BY <1>2, <2>1 DEF Init, Belongings, Publishes
<1>7. Behind
  BY <1>2 DEF Behind
<1> QED
  BY <1>1, <1>4, <1>5, <1>6, <1>7 DEF IInv

LEMMA StutterKeeps == ASSUME IInv, UNCHANGED vars PROVE IInv'
<1>1. /\ d_ptr' = d_ptr /\ free' = free /\ readerCount' = readerCount /\ writerCount' = writerCount
      /\ waitingReaders' = waitingReaders /\ waitingWriters' = waitingWriters
      /\ pc' = pc /\ mode' = mode /\ timed' = timed /\ seen' = seen /\ mine' = mine
  BY DEF vars, counts, waiting, locals
<1>2. /\ Readers' = Readers /\ Writers' = Writers /\ \A p, m : Waiters(p, m)' = Waiters(p, m)
      /\ \A t, p : Publishes(t, p)' <=> Publishes(t, p)
  BY <1>1 DEF Readers, Writers, Waiters, Holders, Queued, Publishes
<1>3. Types' /\ Counted' /\ Queues' /\ Behind'
  BY <1>1, <1>2 DEF IInv, Types, Counted, Queues, Behind
<1>4. Belongings'
  BY <1>1, <1>2 DEF IInv, Belongings
<1> QED
  BY <1>3, <1>4 DEF IInv

LEMMA NextIInv == IInv /\ [Next]_vars => IInv'
<1> SUFFICES ASSUME IInv, [Next]_vars
             PROVE  IInv'
  OBVIOUS
<1>1. CASE UNCHANGED vars
  BY <1>1, StutterKeeps
<1>2. ASSUME NEW t \in Threads, Call(t) \/ Step(t) \/ Unlock(t) \/ SpuriousWake(t)
      PROVE  IInv'
  <2>1. CASE Call(t)
    BY <2>1, CallKeeps
  <2>2. CASE Unlock(t)
    BY <2>2, UnlockWordKeeps, UnlockOneOfManyKeeps, UnlockAndNotifyKeeps, UnlockAndReleaseKeeps
    DEF Unlock
  <2>3. CASE SpuriousWake(t)
    BY <2>3, WakeKeeps
  <2>4. CASE Step(t)
    BY <2>4, LockFreeKeeps, JoinReadersKeeps, RefuseKeeps, AllocateKeeps, PublishKeeps,
       DiscardKeeps, FollowKeeps, StaleKeeps, ReadLockKeeps, ReadTimeoutKeeps, ReadWaitKeeps,
       WriteLockKeeps, WriteTimeoutKeeps, WriteWaitKeeps, WakeKeeps
    DEF Step
  <2> QED
    BY <1>2, <2>1, <2>2, <2>3, <2>4
<1> QED
  BY <1>1, <1>2 DEF Next

\* The word, the privates, the counts and the queues fit together in every state.
THEOREM Invariance == Spec => []IInv
  BY InitIInv, NextIInv, PTL DEF Spec

-----------------------------------------------------------------------------
(* What it says about the lock                                             *)

LEMMA Sane == IInv => LockSane
<1> SUFFICES ASSUME IInv
             PROVE  LockSane
  OBVIOUS
<1>1. TypeOK
  <2> DEFINE N == Cardinality(Threads)
  <2>1. N \in Nat
    BY ReadWriteLockAssumption, FS_CardinalityType
  <2>2. \A w \in Words : w.readers \in 0..N
    BY <2>1, WordFacts DEF Words
  <2>3. ASSUME NEW p \in Privates
        PROVE  readerCount[p] \in 0..N /\ writerCount[p] \in 0..N
    <3>1. CASE p \in free
      BY <2>1, <3>1 DEF IInv, Belongings
    <3>2. CASE d_ptr = Private(p)
      <4>1. Readers = readerCount[p] /\ Writers = writerCount[p]
        BY <3>2, WordFacts DEF IInv, Counted
      <4> QED
        BY <2>1, <4>1, CountFacts
    <3>3. ASSUME NEW t \in Threads, Publishes(t, p)
          PROVE  readerCount[p] \in 0..N /\ writerCount[p] \in 0..N
      <4>1. /\ readerCount[p] = seen[t].readers /\ seen[t] \in Words
            /\ writerCount[p] = IF seen[t].tag = "write" THEN 1 ELSE 0
        BY <3>3 DEF IInv, Belongings, Types
      <4>2. N >= 1
        <5>1. N # 0
          BY ReadWriteLockAssumption, FS_EmptySet
        <5> QED
          BY <2>1, <5>1
      <4>3. writerCount[p] \in 0..N
        BY <2>1, <4>1, <4>2
      <4> QED
        BY <2>2, <4>1, <4>3
    <3> QED
      BY <3>1, <3>2, <3>3 DEF IInv, Belongings
  <2>4. ASSUME NEW p \in Privates
        PROVE  waitingReaders[p] \in 0..N /\ waitingWriters[p] \in 0..N
    <3>1. waitingReaders[p] = Waiters(p, "read") /\ waitingWriters[p] = Waiters(p, "write")
      BY DEF IInv, Queues
    <3> QED
      BY <2>1, <3>1, CountFacts
  <2> HIDE DEF N
  <2>5. /\ readerCount \in [Privates -> 0..N] /\ writerCount \in [Privates -> 0..N]
        /\ waitingReaders \in [Privates -> 0..N] /\ waitingWriters \in [Privates -> 0..N]
    BY <2>3, <2>4 DEF IInv, Types
  <2>6. d_ptr \in Words
    BY WordIsBounded
  <2> QED
    BY <2>5, <2>6 DEF TypeOK, IInv, Types, N
<1>2. HoldersCounted
  <2>1. d_ptr.tag \in {"null", "read", "write", "private"}
    BY AnyWordFacts DEF IInv, Types
  <2> QED
    BY <2>1 DEF HoldersCounted, IInv, Counted, Readers, Writers
<1>3. Exclusion
  <2> SUFFICES ASSUME NEW t \in Threads, NEW v \in Threads, t # v, pc[t] = "held", pc[v] = "held",
                      mode[t] # "read"
               PROVE  FALSE
    BY DEF Exclusion
  <2>1. t \in Holders("write") /\ mode[v] \in {"read", "write"}
    BY DEF Holders, IInv, Types, Modes
  <2>2. Writers <= 1 /\ (Writers > 0 => Readers = 0)
    <3>1. CASE d_ptr.tag = "private"
      <4>1. /\ Readers = readerCount[d_ptr.priv] /\ Writers = writerCount[d_ptr.priv]
            /\ d_ptr.priv \in Privates
        BY <3>1, AnyWordFacts DEF IInv, Counted, Types
      <4>2. /\ writerCount[d_ptr.priv] \in 0..1
            /\ writerCount[d_ptr.priv] > 0 => readerCount[d_ptr.priv] = 0
        BY <4>1 DEF IInv, Counted, Types
      <4> QED
        BY <4>1, <4>2
    <3>2. CASE d_ptr.tag \in {"null", "read", "write"}
      BY <3>2 DEF IInv, Counted
    <3> QED
      BY <3>1, <3>2, AnyWordFacts DEF IInv, Types
  <2>3. Writers > 0 /\ Holders("read") = {}
    BY <2>1, <2>2, CountFacts
  <2>4. v \in Holders("write")
    BY <2>1, <2>3 DEF Holders
  <2>5. {t, v} \subseteq Holders("write") /\ Holders("write") \in SUBSET Threads
    BY <2>1, <2>4 DEF Holders
  <2>6. Cardinality({t, v}) = 2
    <3>1. IsFiniteSet({t}) /\ Cardinality({t}) = 1
      BY FS_Singleton
    <3>2. v \notin {t}
      OBVIOUS
    <3>3. Cardinality({t} \cup {v}) = 1 + 1
      BY <3>1, <3>2, FS_AddElement
    <3>4. {t} \cup {v} = {t, v}
      OBVIOUS
    <3> QED
      BY <3>3, <3>4
  <2>7. Cardinality({t, v}) <= Writers
    BY <2>5, SetCounts, FS_Subset DEF Writers
  <2> QED
    BY <2>2, <2>6, <2>7, CountFacts
<1>4. NoLostWakeUp
  <2> SUFFICES ASSUME NEW t \in Threads, pc[t] = "asleep"
               PROVE  /\ Holders("read") \cup Holders("write") = {} => \E v \in Threads : pc[v] = "woken"
                      /\ mode[t] = "read" => Holders("write") # {} \/ Queued(mine[t], "write") # {}
    BY DEF NoLostWakeUp
  <2>1. ASSUME mode[t] = "read"
        PROVE  Holders("write") # {} \/ Queued(mine[t], "write") # {}
    BY <2>1, CountFacts DEF IInv, Behind
  <2>2. ASSUME Holders("read") \cup Holders("write") = {}
        PROVE  \E v \in Threads : pc[v] = "woken"
    <3>1. Readers = 0 /\ Writers = 0
      <4>1. Holders("read") = {} /\ Holders("write") = {}
        BY <2>2
      <4> QED
        BY <4>1, CountFacts
    <3>2. ASSUME NEW v \in Threads, pc[v] = "asleep", mode[v] = "write"
          PROVE  \E u \in Threads : pc[u] = "woken"
      BY <3>1, <3>2 DEF IInv, Behind
    <3>3. CASE mode[t] = "read"
      <4>1. PICK v \in Queued(mine[t], "write") : TRUE
        BY <2>1, <2>2, <3>3
      <4> QED
        BY <3>2, <4>1 DEF Queued
    <3> QED
      BY <3>2, <3>3 DEF IInv, Types, Modes
  <2> QED
    BY <2>1, <2>2
<1> QED
  BY <1>1, <1>2, <1>3, <1>4 DEF LockSane

\* A writer holds the lock alone; the word, or the private it points to, counts
\* the holders through every switch between the two; and no thread is left
\* asleep with nobody ahead of it.
THEOREM LockIsSane == Spec => []LockSane
  BY Invariance, Sane, PTL

LEMMA Accounted == IInv => PrivatesAccounted
<1> SUFFICES ASSUME IInv, NEW p \in Privates,
                    NEW S, S = {t \in Threads : pc[t] = "publish" /\ mine[t] = p}
             PROVE  /\ waitingReaders[p] = Cardinality(Queued(p, "read"))
                    /\ waitingWriters[p] = Cardinality(Queued(p, "write"))
                    /\ Cardinality(S) + (IF d_ptr = Private(p) THEN 1 ELSE 0)
                         + (IF p \in free THEN 1 ELSE 0) = 1
                    /\ p \in free => /\ readerCount[p] = 0 /\ writerCount[p] = 0
                                     /\ waitingReaders[p] = 0 /\ waitingWriters[p] = 0
  BY DEF PrivatesAccounted, IInv, Queues
<1>1. waitingReaders[p] = Waiters(p, "read") /\ waitingWriters[p] = Waiters(p, "write")
  BY DEF IInv, Queues
<1>2. \A t : t \in S <=> t \in Threads /\ Publishes(t, p)
  BY DEF Publishes
<1>3. ASSUME S = {}
      PROVE  Cardinality(S) = 0 /\ (p \in free <=> d_ptr # Private(p))
  <2>1. Cardinality(S) = 0
    BY <1>3, FS_EmptySet
  <2>2. p \in free \/ d_ptr = Private(p)
    BY <1>2, <1>3 DEF IInv, Belongings
  <2>3. p \in free => d_ptr # Private(p)
    BY DEF IInv, Belongings
  <2> QED
    BY <2>1, <2>2, <2>3
<1>4. ASSUME NEW t \in S
      PROVE  Cardinality(S) = 1 /\ p \notin free /\ d_ptr # Private(p)
  <2>1. S = {t}
    BY <1>2 DEF IInv, Belongings
  <2>2. Cardinality({t}) = 1
    BY FS_Singleton
  <2> QED
    BY <1>2, <2>1, <2>2 DEF IInv, Belongings
<1>5. ASSUME p \in free
      PROVE  /\ readerCount[p] = 0 /\ writerCount[p] = 0
             /\ waitingReaders[p] = 0 /\ waitingWriters[p] = 0
  <2>1. readerCount[p] = 0 /\ writerCount[p] = 0 /\ d_ptr # Private(p)
    BY <1>5 DEF IInv, Belongings
  <2>2. \A m : Queued(p, m) = {}
    BY <2>1 DEF Queued, IInv, Queues
  <2> QED
    BY <1>1, <2>1, <2>2, CountFacts
<1>6. Cardinality(S) + (IF d_ptr = Private(p) THEN 1 ELSE 0) + (IF p \in free THEN 1 ELSE 0) = 1
  BY <1>3, <1>4
<1> QED
  BY <1>1, <1>5, <1>6 DEF Waiters

\* Every private is the lock's, or about to be published, or free and clean, and
\* the one threads wait in stays the lock's.
THEOREM PrivatesAreAccounted == Spec => []PrivatesAccounted
  BY Invariance, Accounted, PTL

\* A thread begins to hold the lock for read in three steps only.
LEMMA NewReaders ==
  ASSUME IInv, NEW t \in Threads, Call(t) \/ Step(t) \/ Unlock(t) \/ SpuriousWake(t),
         ~LockFree(t), ~JoinReaders(t), ~ReadLock(t)
  PROVE  Holders("read")' \subseteq Holders("read")
<1> SUFFICES ASSUME NEW v \in Threads, pc'[v] = "held", mode'[v] = "read"
             PROVE  pc[v] = "held" /\ mode[v] = "read"
  BY DEF Holders
<1> USE DEF IInv, Types
<1>1. CASE Call(t) \/ Refuse(t) \/ Allocate(t) \/ Publish(t) \/ Discard(t) \/ Follow(t) \/ Stale(t)
  <2>1. CASE Call(t)
    BY <2>1 DEF Call, Goto
  <2>2. CASE Refuse(t)
    BY <2>2 DEF Refuse, Goto, Leave
  <2>3. CASE Allocate(t)
    BY <2>3 DEF Allocate, Goto
  <2>4. CASE Publish(t) \/ Discard(t) \/ Follow(t) \/ Stale(t)
    BY <2>4 DEF Publish, Discard, Follow, Stale, Goto
  <2> QED
    BY <1>1, <2>1, <2>2, <2>3, <2>4
<1>2. CASE ReadTimeout(t) \/ ReadWait(t) \/ WriteWait(t) \/ Timeout(t) \/ SpuriousWake(t)
  <2>1. CASE ReadTimeout(t)
    BY <2>1 DEF ReadTimeout, Goto, Leave
  <2>2. CASE ReadWait(t) \/ WriteWait(t)
    BY <2>2 DEF ReadWait, WriteWait, Goto, locals
  <2>3. CASE Timeout(t) \/ SpuriousWake(t)
    BY <2>3 DEF Timeout, SpuriousWake, Goto, locals
  <2> QED
    BY <1>2, <2>1, <2>2, <2>3
<1>3. CASE WriteLock(t)
  BY <1>3 DEF WriteLock, Round, Locked, Goto
<1>4. CASE WriteTimeout(t)
  BY <1>4 DEF WriteTimeout, Leave, Notify
<1>5. CASE UnlockWord(t) \/ UnlockOneOfMany(t) \/ UnlockAndRelease(t)
  BY <1>5 DEF UnlockWord, UnlockOneOfMany, UnlockAndRelease, Goto, Leave
<1>6. CASE UnlockAndNotify(t)
  <2>1. PICK S : Notify(t, "idle", S)
    BY <1>6 DEF UnlockAndNotify
  <2> QED
    BY <1>6, <2>1 DEF UnlockAndNotify, Leave, Notify
<1> QED
  BY <1>1, <1>2, <1>3, <1>4, <1>5, <1>6 DEF Step, Unlock

LEMMA FirstWriters ==
  ASSUME IInv, [Next]_vars, NEW p \in Privates, Queued(p, "write") # {}
  PROVE  Holders("read")' \subseteq Holders("read")
<1>1. d_ptr = Private(p) /\ waitingWriters[p] > 0
  <2>1. d_ptr = Private(p)
    BY DEF IInv, Queues, Queued
  <2>2. waitingWriters[p] = Waiters(p, "write") /\ Waiters(p, "write") # 0
    BY CountFacts DEF IInv, Queues
  <2> QED
    BY <2>1, <2>2, CountFacts
<1>2. CASE UNCHANGED vars
  BY <1>2 DEF vars, locals, Holders
<1>3. ASSUME NEW t \in Threads, Call(t) \/ Step(t) \/ Unlock(t) \/ SpuriousWake(t)
      PROVE  Holders("read")' \subseteq Holders("read")
  <2>1. ~LockFree(t) /\ ~JoinReaders(t)
    BY <1>1, WordFacts DEF LockFree, JoinReaders
  <2>2. ~ReadLock(t)
    <3> SUFFICES ASSUME Round(t, "read"), ~ReaderBlocked(mine[t])
                 PROVE  FALSE
      BY DEF ReadLock
    <3>1. mine[t] = p
      BY <1>1, RoundFacts, WordFacts
    <3> QED
      BY <1>1, <3>1 DEF ReaderBlocked
  <2> QED
    BY <1>3, <2>1, <2>2, NewReaders
<1> QED
  BY <1>2, <1>3 DEF Next

\* While a writer waits for the lock no thread gets it for read: the readers that
\* come, and the ones that wake up, queue behind the writer.
THEOREM WritersComeFirst == Spec => WritersFirst
<1>1. IInv /\ [Next]_vars
        => [\A p \in Privates :
              Queued(p, "write") # {} => Holders("read")' \subseteq Holders("read")]_vars
  BY FirstWriters
<1> QED
  BY <1>1, Invariance, PTL DEF Spec, WritersFirst

=============================================================================

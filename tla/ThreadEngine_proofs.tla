------------------------ MODULE ThreadEngine_proofs ------------------------
(***************************************************************************)
(* TLAPS proofs about ThreadEngine, for any threads, input and limits.     *)
(* The argument: the barrier counts the threads inside, so that whoever    *)
(* finishes is alone; every index taken from the input is in one place,    *)
(* so that two threads never have the same block and `progress` belongs    *)
(* to one reducer.                                                         *)
(***************************************************************************)
EXTENDS ThreadEngine, FiniteSetTheorems, TLAPS

One(b) == IF b THEN 1 ELSE 0

Has(b, i) == b.begin <= i /\ i < b.end
Chunk     == {b \in Block : b.begin < b.end}

Types ==
  /\ forIteration \in BOOLEAN /\ ordered \in BOOLEAN /\ queued \in BOOLEAN
  /\ count \in Nat
  /\ pc \in [Threads -> Locations]
  /\ block \in [Threads -> Chunk \cup {NoBlock}]
  /\ currentIndex \in Nat /\ iteratorThreads \in {0, 1}
  /\ progress \in Int /\ resultsMap \subseteq Chunk /\ resultsMapSize \in Int
  /\ hand \in [Threads -> SUBSET Chunk]
  /\ reduced \in [Index -> Nat]
  /\ future \in Bits /\ suspends \in 0..MaySuspend

\* Who has a block, and who has others in hand.
Laden == {"resume", "waiting", "decide", "iterate", "reducing", "after"}
Flow ==
  \A t \in Threads :
    /\ pc[t] \in Laden => block[t] \in Chunk
    /\ pc[t] \notin Laden \cup {"tryStart"} => block[t] = NoBlock
    /\ pc[t] = "reducing" <=> hand[t] # {}

Barrier ==
  /\ count = Cardinality(Inside) + Cardinality(Starting) + One(queued)
  /\ queued => \A t \in Threads : pc[t] = "idle"
  /\ \A t \in Threads : pc[t] \in {"finish", "report"} => \A u \in Threads \ {t} : pc[u] = "idle"
  /\ future.finished => ~queued /\ \A t \in Threads : pc[t] = "idle"

\* Where the one thread that is left may be while the engine is suspended.
Resting == {"idle", "function", "reserve", "resume", "waiting", "exit", "finish", "report"}
Quiet ==
  future.suspended /\ ~future.canceled => ~queued /\ \A t \in Threads : pc[t] \in Resting

\* Nobody leaves a range before its end, unless canceled.
Exits ==
  forIteration /\ (future.finished \/ \E t \in Threads : pc[t] \in {"exit", "finish", "report"})
    => future.canceled \/ currentIndex >= IterationCount

Reserving == {t \in Threads : pc[t] = "reserve"}

\* Each thread overshoots once.
Overshoot ==
  IF forIteration
  THEN \/ currentIndex < IterationCount
       \/ currentIndex + MaxBlock * Cardinality(Reserving)
            < IterationCount + MaxBlock * Cardinality(Threads)
  ELSE currentIndex <= IterationCount

Control == Flow /\ Barrier /\ Quiet /\ Exits /\ Overshoot

\* Index i is in the block t maps; among the blocks t reduces; in the map.
Maps(t, i)  == Mapping(t) /\ Has(block[t], i)
Hands(t, i) == \E b \in hand[t] : Has(b, i)
Over        == future.finished \/ \E t \in Threads : pc[t] = "report"
Kept(i)     == /\ \E b \in resultsMap : Has(b, i) /\ \A u \in Threads : b \notin hand[u]
               /\ ~Over
Mappers(i)  == {t \in Threads : Maps(t, i)}
Handlers(i) == {t \in Threads : Hands(t, i)}
Here(i)     == reduced[i] + Cardinality(Mappers(i)) + Cardinality(Handlers(i)) + One(Kept(i))

Placed ==
  \A i \in Index : IF i >= currentIndex THEN Here(i) = 0
                   ELSE Here(i) = 1 \/ (MayThrow /\ future.canceled /\ Here(i) = 0)

\* The one reducer, and what it has in hand.
Turns ==
  /\ \A t, u \in Threads : pc[t] = "reducing" /\ pc[u] = "reducing" => t = u
  /\ IF ordered
     THEN /\ progress \in 0..IterationCount
          /\ \A t \in Threads : pc[t] = "reducing" =>
               \E b \in Chunk : /\ hand[t] = {b} /\ b.begin = progress
                                /\ b = block[t] \/ b \in resultsMap
     ELSE /\ progress \in {-1, 0}
          /\ \A t \in Threads : pc[t] = "reducing" => progress = -1 /\ hand[t] \cap resultsMap = {}
  /\ \A t \in Threads : pc[t] = "reducing" =>
       /\ block[t] \notin resultsMap
       /\ block[t] \in hand[t] \/ reduced[block[t].begin] > 0

Prefix == ordered /\ ~Over => \A i \in Index : reduced[i] = IF i < progress THEN 1 ELSE 0

\* The blocks of the reducer do not overlap, and are counted.
Taken   == resultsMap \cup UNION {hand[t] : t \in Threads}
Pending == resultsMap \cup UNION {Stored(t) : t \in Threads}
Distinct == \A b, c \in Taken : \A i \in Index : Has(b, i) /\ Has(c, i) => b = c
Sizes    == resultsMapSize = Cardinality(Pending)

Data == Placed /\ Turns /\ Prefix /\ Distinct /\ Sizes

IInv == Types /\ Control /\ Data

-----------------------------------------------------------------------------
(* Counts and blocks                                                       *)

LEMMA SetCounts ==
  ASSUME NEW S \in SUBSET Threads
  PROVE  /\ IsFiniteSet(S) /\ Cardinality(S) \in Nat /\ Cardinality(S) <= Cardinality(Threads)
         /\ Cardinality(S) = 0 <=> S = {}
  BY EngineAssumption, FS_Subset, FS_CardinalityType, FS_EmptySet

LEMMA ThreadCount == Cardinality(Threads) \in Nat /\ Cardinality(Threads) >= 1
<1>1. Threads \in SUBSET Threads
  OBVIOUS
<1>2. Cardinality(Threads) \in Nat /\ Cardinality(Threads) # 0
  BY <1>1, SetCounts, EngineAssumption
<1> QED
  BY <1>2

\* How often t is in S.
In(S, t) == IF t \in S THEN 1 ELSE 0

LEMMA CountAfter ==
  ASSUME NEW S \in SUBSET Threads, NEW U \in SUBSET Threads, NEW t \in Threads,
         U \ {t} = S \ {t}
  PROVE  Cardinality(U) = Cardinality(S) + In(U, t) - In(S, t)
<1> DEFINE C == S \ {t}
<1>1. IsFiniteSet(C) /\ Cardinality(C) \in Nat /\ t \notin C
  BY SetCounts
<1>2. ASSUME NEW V \in SUBSET Threads, V \ {t} = C
      PROVE  Cardinality(V) = Cardinality(C) + In(V, t)
  <2>1. CASE t \in V
    <3>1. V = C \cup {t}
      BY <1>2, <2>1
    <3> HIDE DEF C
    <3>2. Cardinality(C \cup {t}) = Cardinality(C) + 1
      BY <1>1, FS_AddElement
    <3> QED
      BY <2>1, <3>1, <3>2 DEF In
  <2>2. CASE t \notin V
    <3>1. V = C
      BY <1>2, <2>2
    <3> HIDE DEF C
    <3> QED
      BY <1>1, <2>2, <3>1 DEF In
  <2> QED
    BY <2>1, <2>2
<1>3. Cardinality(S) = Cardinality(C) + In(S, t)
  BY <1>2
<1>4. Cardinality(U) = Cardinality(C) + In(U, t)
  BY <1>2
<1> HIDE DEF C
<1>5. In(S, t) \in Nat /\ In(U, t) \in Nat
  BY DEF In
<1> QED
  BY <1>1, <1>3, <1>4, <1>5

LEMMA BlockFacts ==
  /\ IterationCount \in Nat \ {0} /\ MaxBlock \in Nat \ {0}
  /\ NoBlock \notin Chunk
  /\ \A i : ~(i \in Index /\ Has(NoBlock, i))
  /\ \A b \in Chunk : /\ b.begin \in Index /\ b.begin \in Nat /\ b.end \in Nat
                      /\ b.begin < b.end /\ b.end <= IterationCount /\ Has(b, b.begin)
  /\ \A i \in Index : i \in Nat /\ i < IterationCount
  BY EngineAssumption DEF NoBlock, Chunk, Block, Has, Index

\* Where an index is, in numbers of places.
LEMMA HereFacts ==
  ASSUME Types, NEW i \in Index
  PROVE  /\ reduced[i] \in Nat /\ Cardinality(Mappers(i)) \in Nat /\ Cardinality(Handlers(i)) \in Nat
         /\ One(Kept(i)) \in 0..1 /\ Here(i) \in Nat
         /\ \A t \in Threads : Maps(t, i) => Cardinality(Mappers(i)) >= 1
         /\ \A t \in Threads : Hands(t, i) => Cardinality(Handlers(i)) >= 1
         /\ Kept(i) => One(Kept(i)) = 1
<1>1. Mappers(i) \in SUBSET Threads /\ Handlers(i) \in SUBSET Threads
  BY DEF Mappers, Handlers
<1>2. reduced[i] \in Nat
  BY DEF Types
<1>3. One(Kept(i)) \in 0..1 /\ (Kept(i) => One(Kept(i)) = 1)
  BY DEF One
<1>4. \A t \in Threads : Maps(t, i) => Mappers(i) # {}
  BY DEF Mappers
<1>5. \A t \in Threads : Hands(t, i) => Handlers(i) # {}
  BY DEF Handlers
<1>6. Cardinality(Mappers(i)) \in Nat /\ Cardinality(Handlers(i)) \in Nat
  BY <1>1, SetCounts
<1>7. /\ \A t \in Threads : Maps(t, i) => Cardinality(Mappers(i)) >= 1
      /\ \A t \in Threads : Hands(t, i) => Cardinality(Handlers(i)) >= 1
  BY <1>1, <1>4, <1>5, <1>6, SetCounts
<1>8. Here(i) \in Nat
  BY <1>2, <1>3, <1>6 DEF Here
<1> QED
  BY <1>2, <1>3, <1>6, <1>7, <1>8

\* An index that a thread maps is nowhere else.
LEMMA MappedIsNowhereElse ==
  ASSUME Types, Placed, NEW i \in Index, NEW t \in Threads, Maps(t, i)
  PROVE  /\ Here(i) = 1 /\ i < currentIndex /\ reduced[i] = 0 /\ ~Kept(i)
         /\ \A u \in Threads : ~Hands(u, i) /\ (Maps(u, i) => u = t)
<1>1. /\ Here(i) = reduced[i] + Cardinality(Mappers(i)) + Cardinality(Handlers(i)) + One(Kept(i))
      /\ reduced[i] \in Nat /\ Cardinality(Mappers(i)) \in Nat /\ Cardinality(Handlers(i)) \in Nat
      /\ One(Kept(i)) \in 0..1 /\ Cardinality(Mappers(i)) >= 1
  BY HereFacts DEF Here
<1>2. Here(i) <= 1 /\ Here(i) >= 1
  BY <1>1 DEF Placed
<1>3. Here(i) = 1 /\ i < currentIndex
  BY <1>1, <1>2, BlockFacts DEF Placed, Types
<1>4. reduced[i] = 0 /\ Cardinality(Mappers(i)) = 1 /\ Cardinality(Handlers(i)) = 0 /\ One(Kept(i)) = 0
  BY <1>1, <1>2
<1>5. ~Kept(i)
  BY <1>4, HereFacts
<1>6. \A u \in Threads : ~Hands(u, i)
  BY <1>4, HereFacts
<1>7. \A u \in Threads : Maps(u, i) => u = t
  <2>1. Mappers(i) \in SUBSET Threads /\ t \in Mappers(i)
    BY DEF Mappers
  <2>2. PICK x : Mappers(i) = {x}
    BY <1>4, <2>1, SetCounts, FS_Singleton
  <2> QED
    BY <2>1, <2>2 DEF Mappers
<1> QED
  BY <1>3, <1>4, <1>5, <1>6, <1>7

\* Steps that take nothing and bring nothing.
LEMMA SameHere ==
  ASSUME NEW i,
         \A v \in Threads : Maps(v, i)' <=> Maps(v, i),
         \A v \in Threads : Hands(v, i)' <=> Hands(v, i),
         Kept(i)' <=> Kept(i), reduced'[i] = reduced[i]
  PROVE  Here(i)' = Here(i)
<1>1. Mappers(i)' = Mappers(i) /\ Handlers(i)' = Handlers(i)
  BY DEF Mappers, Handlers
<1>2. One(Kept(i)') = One(Kept(i))
  BY DEF One
<1> QED
  BY <1>1, <1>2 DEF Here

\* Steps of one thread.
LEMMA HereAfter ==
  ASSUME NEW i, NEW t \in Threads,
         \A v \in Threads \ {t} : Maps(v, i)' <=> Maps(v, i),
         \A v \in Threads \ {t} : Hands(v, i)' <=> Hands(v, i)
  PROVE  /\ Cardinality(Mappers(i)') = Cardinality(Mappers(i)) + One(Maps(t, i)') - One(Maps(t, i))
         /\ Cardinality(Handlers(i)') = Cardinality(Handlers(i)) + One(Hands(t, i)') - One(Hands(t, i))
         /\ Here(i)' = reduced'[i] + Cardinality(Mappers(i)') + Cardinality(Handlers(i)') + One(Kept(i)')
<1>1. /\ Mappers(i) \in SUBSET Threads /\ Mappers(i)' \in SUBSET Threads
      /\ Mappers(i)' \ {t} = Mappers(i) \ {t}
      /\ In(Mappers(i), t) = One(Maps(t, i)) /\ In(Mappers(i)', t) = One(Maps(t, i)')
  BY DEF Mappers, In, One
<1>2. /\ Handlers(i) \in SUBSET Threads /\ Handlers(i)' \in SUBSET Threads
      /\ Handlers(i)' \ {t} = Handlers(i) \ {t}
      /\ In(Handlers(i), t) = One(Hands(t, i)) /\ In(Handlers(i)', t) = One(Hands(t, i)')
  BY DEF Handlers, In, One
<1>3. Cardinality(Mappers(i)') = Cardinality(Mappers(i)) + One(Maps(t, i)') - One(Maps(t, i))
  BY <1>1, CountAfter
<1>4. Cardinality(Handlers(i)') = Cardinality(Handlers(i)) + One(Hands(t, i)') - One(Hands(t, i))
  BY <1>2, CountAfter
<1> QED
  BY <1>3, <1>4 DEF Here

\* Steps of the threads' control.
LEMMA SameData ==
  ASSUME Types, Data, UNCHANGED <<mode, block, reducer>>,
         \A v \in Threads : block[v] # NoBlock => (Mapping(v)' <=> Mapping(v)),
         \A v \in Threads : pc'[v] = "reducing" <=> pc[v] = "reducing",
         Over' <=> Over,
         currentIndex' = currentIndex \/ (currentIndex' >= currentIndex /\ currentIndex >= IterationCount),
         future.canceled => future'.canceled, currentIndex' \in Nat
  PROVE  Data'
<1>1. /\ forIteration' = forIteration /\ ordered' = ordered /\ block' = block /\ progress' = progress
      /\ resultsMap' = resultsMap /\ resultsMapSize' = resultsMapSize /\ hand' = hand
      /\ reduced' = reduced
  BY DEF mode, reducer
<1>2. ASSUME NEW i \in Index
      PROVE  Here(i)' = Here(i)
  <2>1. \A v \in Threads : Maps(v, i)' <=> Maps(v, i)
    BY <1>1, BlockFacts DEF Maps
  <2>2. \A v \in Threads : Hands(v, i)' <=> Hands(v, i)
    BY <1>1 DEF Hands
  <2>3. Kept(i)' <=> Kept(i)
    BY <1>1 DEF Kept
  <2> QED
    BY <1>1, <2>1, <2>2, <2>3, SameHere
<1>3. Placed'
  <2> SUFFICES ASSUME NEW i \in Index
               PROVE  IF i >= currentIndex' THEN Here(i)' = 0
                      ELSE Here(i)' = 1 \/ (MayThrow /\ future'.canceled /\ Here(i)' = 0)
    BY DEF Placed
  <2>1. i >= currentIndex' <=> i >= currentIndex
    BY BlockFacts DEF Types
  <2> QED
    BY <1>2, <2>1 DEF Data, Placed
<1>4. Turns'
  BY <1>1 DEF Data, Turns
<1>5. Prefix'
  BY <1>1 DEF Data, Prefix
<1>6. Distinct' /\ Sizes'
  BY <1>1 DEF Data, Distinct, Sizes, Taken, Pending, Stored
<1> QED
  BY <1>3, <1>4, <1>5, <1>6 DEF Data

-----------------------------------------------------------------------------
(* The control of the steps                                                *)

\* A step of t; others may only be let go on meanwhile.
Moves(t) == \A v \in Threads \ {t} : pc'[v] = pc[v] \/ (pc[v] = "waiting" /\ pc'[v] = "decide")

Outside == {"idle", "finish", "report"}

LEMMA BarrierCounts ==
  ASSUME NEW t \in Threads, Moves(t)
  PROVE  /\ Cardinality(Inside') = Cardinality(Inside) + One(pc'[t] \notin Outside)
                                      - One(pc[t] \notin Outside)
         /\ Cardinality(Starting') = Cardinality(Starting) + One(pc'[t] = "tryStart")
                                        - One(pc[t] = "tryStart")
         /\ Cardinality(Inside) \in Nat /\ Cardinality(Starting) \in Nat
         /\ pc[t] \notin Outside => Cardinality(Inside) >= 1
<1>1. /\ Inside \in SUBSET Threads /\ Inside' \in SUBSET Threads /\ Inside' \ {t} = Inside \ {t}
      /\ In(Inside, t) = One(pc[t] \notin Outside) /\ In(Inside', t) = One(pc'[t] \notin Outside)
  BY DEF Inside, Moves, In, One, Outside
<1>2. /\ Starting \in SUBSET Threads /\ Starting' \in SUBSET Threads
      /\ Starting' \ {t} = Starting \ {t}
      /\ In(Starting, t) = One(pc[t] = "tryStart") /\ In(Starting', t) = One(pc'[t] = "tryStart")
  BY DEF Starting, Moves, In, One
<1>3. Cardinality(Inside) \in Nat /\ Cardinality(Starting) \in Nat
  BY <1>1, <1>2, SetCounts
<1>4. pc[t] \notin Outside => Cardinality(Inside) >= 1
  <2>1. pc[t] \notin Outside => Inside # {}
    BY DEF Inside, Outside
  <2> QED
    BY <1>1, <1>3, <2>1, SetCounts
<1>5. Cardinality(Inside') = Cardinality(Inside) + One(pc'[t] \notin Outside) - One(pc[t] \notin Outside)
  BY <1>1, CountAfter
<1>6. Cardinality(Starting') = Cardinality(Starting) + One(pc'[t] = "tryStart") - One(pc[t] = "tryStart")
  BY <1>2, CountAfter
<1> QED
  BY <1>3, <1>4, <1>5, <1>6

\* A thread inside stays inside.
LEMMA BarrierInner ==
  ASSUME Types, Barrier, NEW t \in Threads, Moves(t), pc[t] \notin Outside, pc'[t] \notin Outside,
         queued' = queued, future'.finished = future.finished,
         count' = count + One(pc'[t] = "tryStart") - One(pc[t] = "tryStart")
  PROVE  Barrier' /\ ~queued /\ ~future.finished /\ \A v \in Threads : pc[v] \notin {"finish", "report"}
<1>1. ~queued /\ ~future.finished /\ \A v \in Threads : pc[v] \notin {"finish", "report"}
  BY DEF Barrier, Outside
<1>2. \A v \in Threads : pc'[v] \notin {"finish", "report"}
  BY <1>1 DEF Moves, Outside
<1>3. count' = Cardinality(Inside') + Cardinality(Starting') + One(queued')
  <2>1. One(pc'[t] \notin Outside) = 1 /\ One(pc[t] \notin Outside) = 1
    BY DEF One
  <2>2. One(pc'[t] = "tryStart") \in 0..1 /\ One(pc[t] = "tryStart") \in 0..1
        /\ One(queued') = 0 /\ One(queued) = 0
    BY <1>1 DEF One
  <2>3. count = Cardinality(Inside) + Cardinality(Starting) + One(queued)
    BY DEF Barrier
  <2> QED
    BY <2>1, <2>2, <2>3, BarrierCounts
<1> QED
  BY <1>1, <1>2, <1>3 DEF Barrier

LEMMA Product ==
  ASSUME NEW a \in Nat, NEW b \in Int, NEW c \in Int
  PROVE  /\ a * b \in Int /\ a * (b - 1) = a * b - a
         /\ b <= c => a * b <= a * c
  OBVIOUS

LEMMA OvershootKeeps ==
  ASSUME Types, Overshoot, forIteration' = forIteration, currentIndex' = currentIndex,
         \/ ~forIteration
         \/ currentIndex < IterationCount
         \/ \A v \in Threads : pc'[v] = "reserve" => pc[v] = "reserve"
  PROVE  Overshoot'
<1>1. CASE ~forIteration \/ currentIndex < IterationCount
  BY <1>1 DEF Overshoot
<1>2. CASE forIteration /\ ~(currentIndex < IterationCount)
              /\ \A v \in Threads : pc'[v] = "reserve" => pc[v] = "reserve"
  <2>1. Reserving' \subseteq Reserving /\ Reserving \in SUBSET Threads /\ Reserving' \in SUBSET Threads
    BY <1>2 DEF Reserving
  <2>2. /\ Cardinality(Reserving') \in Nat /\ Cardinality(Reserving) \in Nat
        /\ Cardinality(Reserving') <= Cardinality(Reserving)
    BY <2>1, SetCounts, FS_Subset
  <2>3. MaxBlock * Cardinality(Reserving') <= MaxBlock * Cardinality(Reserving)
        /\ MaxBlock * Cardinality(Reserving') \in Int /\ MaxBlock * Cardinality(Reserving) \in Int
    BY <2>2, Product, EngineAssumption
  <2>4. MaxBlock * Cardinality(Threads) \in Int
    BY ThreadCount, Product, EngineAssumption
  <2>5. currentIndex + MaxBlock * Cardinality(Reserving) < IterationCount + MaxBlock * Cardinality(Threads)
    BY <1>2 DEF Overshoot
  <2> QED
    BY <1>2, <2>3, <2>4, <2>5, BlockFacts DEF Overshoot, Types
<1> QED
  BY <1>1, <1>2

LEMMA InnerControl ==
  ASSUME Types, Types', Control, NEW t \in Threads, Moves(t),
         pc[t] \notin Outside, pc'[t] \notin Outside,
         forIteration' = forIteration, queued' = queued,
         count' = count + One(pc'[t] = "tryStart") - One(pc[t] = "tryStart"),
         future'.finished = future.finished, future.canceled => future'.canceled,
         currentIndex' >= currentIndex,
         pc'[t] = "exit" /\ forIteration => future'.canceled \/ currentIndex' >= IterationCount,
         Flow', Quiet', Overshoot'
  PROVE  Control' /\ ~future.finished /\ (Over <=> FALSE) /\ (Over' <=> FALSE)
<1>1. Barrier' /\ ~queued /\ ~future.finished /\ \A v \in Threads : pc[v] \notin {"finish", "report"}
  BY BarrierInner DEF Control
<1>2. \A v \in Threads : pc'[v] \notin {"finish", "report"}
  BY <1>1 DEF Moves, Outside
<1>3. Exits'
  <2> SUFFICES ASSUME forIteration', NEW v \in Threads, pc'[v] = "exit"
               PROVE  future'.canceled \/ currentIndex' >= IterationCount
    BY <1>1, <1>2 DEF Exits
  <2>1. CASE v = t
    BY <2>1
  <2>2. CASE v # t
    <3>1. pc[v] = "exit"
      BY <2>2 DEF Moves
    <3>2. future.canceled \/ currentIndex >= IterationCount
      BY <3>1 DEF Control, Exits
    <3> QED
      BY <3>2, BlockFacts DEF Types
  <2> QED
    BY <2>1, <2>2
<1>4. ~Over /\ ~Over'
  BY <1>1, <1>2 DEF Over
<1> QED
  BY <1>1, <1>3, <1>4 DEF Control

\* A thread inside goes on with what it has.
LEMMA InnerStep ==
  ASSUME IInv, NEW t \in Threads, NEW there \in Locations, pc' = [pc EXCEPT ![t] = there],
         pc[t] \notin Outside \cup {"reducing"}, there \notin Outside \cup {"reducing"},
         UNCHANGED <<mode, queued, block, currentIndex, reducer, suspends>>,
         iteratorThreads' \in {0, 1}, count' \in Nat,
         count' = count + One(there = "tryStart") - One(pc[t] = "tryStart"),
         future' \in Bits, future'.finished = future.finished, future.canceled => future'.canceled,
         there \in Laden => block[t] \in Chunk,
         there \notin Laden \cup {"tryStart"} => block[t] = NoBlock,
         block[t] # NoBlock => (Mapping(t)' <=> Mapping(t)),
         there = "exit" /\ forIteration => future'.canceled \/ currentIndex >= IterationCount,
         there = "reserve" /\ forIteration => currentIndex < IterationCount,
         Quiet'
  PROVE  IInv'
<1>1. /\ pc'[t] = there /\ \A v \in Threads \ {t} : pc'[v] = pc[v]
      /\ forIteration' = forIteration /\ ordered' = ordered /\ queued' = queued /\ block' = block
      /\ currentIndex' = currentIndex /\ progress' = progress /\ resultsMap' = resultsMap
      /\ resultsMapSize' = resultsMapSize /\ hand' = hand /\ reduced' = reduced
      /\ suspends' = suspends
  BY DEF IInv, Types, mode, reducer
<1>2. Types'
  BY <1>1 DEF IInv, Types
<1>3. Moves(t) /\ pc'[t] \notin Outside
  BY <1>1 DEF Moves
<1>4. Flow'
  BY <1>1 DEF IInv, Control, Flow
<1>5. Overshoot'
  BY <1>1, OvershootKeeps DEF IInv, Control
<1>6. Control' /\ (Over <=> FALSE) /\ (Over' <=> FALSE)
  BY <1>1, <1>2, <1>3, <1>4, <1>5, InnerControl DEF IInv, Types
<1>7. \A v \in Threads : block[v] # NoBlock => (Mapping(v)' <=> Mapping(v))
  BY <1>1 DEF Mapping
<1>8. Data'
  <2>1. UNCHANGED <<mode, block, reducer>>
    OBVIOUS
  <2>2. \A v \in Threads : pc'[v] = "reducing" <=> pc[v] = "reducing"
    BY <1>1
  <2>3. (Over' <=> Over) /\ Types /\ Data /\ currentIndex' \in Nat
    BY <1>2, <1>6 DEF IInv, Types
  <2>4. currentIndex' = currentIndex
    BY <1>1
  <2> QED
    BY <1>7, <2>1, <2>2, <2>3, <2>4, SameData
<1> QED
  BY <1>2, <1>6, <1>8 DEF IInv

LEMMA RunKeeps == ASSUME IInv, NEW t \in Threads, Run(t) PROVE IInv'
<1> DEFINE there == IF future.canceled THEN "exit" ELSE "startThreads"
<1>1. /\ pc[t] = "run" /\ pc' = [pc EXCEPT ![t] = there] /\ future' = future /\ count' = count
      /\ iteratorThreads' = iteratorThreads /\ block[t] = NoBlock
      /\ UNCHANGED <<mode, queued, block, currentIndex, reducer, suspends>>
  BY DEF Run, Goto, engine, input, IInv, Control, Flow, Laden
<1>2. Quiet'
  BY <1>1 DEF Quiet, IInv, Types, Control, Resting
<1>3. there \in Locations /\ there \notin Outside \cup {"reducing", "reserve", "tryStart"} \cup Laden
  BY DEF Locations, Outside, Laden
<1>4. count' = count + One(there = "tryStart") - One(pc[t] = "tryStart")
  BY <1>1, <1>3 DEF One, IInv, Types
<1> HIDE DEF there
<1>5. there = "exit" => future'.canceled
  BY <1>1 DEF there
<1> QED
  BY <1>1, <1>2, <1>3, <1>4, <1>5, InnerStep DEF IInv, Types, Outside

LEMMA ConsiderThreadKeeps == ASSUME IInv, NEW t \in Threads, ConsiderThread(t) PROVE IInv'
<1>1. /\ pc[t] \in {"startThreads", "decide"} /\ future' = future
      /\ iteratorThreads' = iteratorThreads
      /\ UNCHANGED <<mode, queued, block, currentIndex, reducer, suspends>>
  BY DEF ConsiderThread, input
<1>2. PICK there \in {"tryStart", Onward(t)} :
        /\ pc' = [pc EXCEPT ![t] = there]
        /\ count' = IF there = "tryStart" THEN count + 1 ELSE count
  <2>1. Onward(t) # "tryStart"
    BY DEF Onward
  <2> QED
    BY <2>1 DEF ConsiderThread, Goto
<1>3. /\ pc[t] = "decide" => block[t] \in Chunk
      /\ pc[t] = "startThreads" => block[t] = NoBlock
  BY DEF IInv, Control, Flow, Laden
<1>4. /\ there \in Locations /\ there \in {"tryStart", "function", "iterate"}
      /\ there = "iterate" => block[t] \in Chunk
      /\ there = "function" => block[t] = NoBlock
  BY <1>1, <1>3, BlockFacts DEF Onward, Locations
<1>5. Quiet'
  BY <1>1, <1>2 DEF Quiet, IInv, Types, Control, Resting
<1>6. count' = count + One(there = "tryStart") - One(pc[t] = "tryStart") /\ count' \in Nat
  BY <1>1, <1>2 DEF One, IInv, Types
<1>7. block[t] # NoBlock => (Mapping(t)' <=> Mapping(t))
  BY <1>1, <1>2, <1>3, <1>4 DEF Mapping, IInv, Types
<1> QED
  BY <1>1, <1>2, <1>4, <1>5, <1>6, <1>7, InnerStep DEF IInv, Types, Outside, Laden

LEMMA TryStartFailsKeeps == ASSUME IInv, NEW t \in Threads, TryStartFails(t) PROVE IInv'
<1> DEFINE there == Onward(t)
<1>1. /\ pc[t] = "tryStart" /\ pc' = [pc EXCEPT ![t] = there] /\ future' = future
      /\ count' = count - 1 /\ iteratorThreads' = iteratorThreads
      /\ UNCHANGED <<mode, queued, block, currentIndex, reducer, suspends>>
  BY DEF TryStartFails, Goto, input
<1>2. /\ there \in Locations /\ there \in {"function", "iterate"}
      /\ there = "iterate" => block[t] \in Chunk
      /\ there = "function" => block[t] = NoBlock
      /\ block[t] # NoBlock => there = "iterate"
  BY BlockFacts DEF Onward, Locations, IInv, Types
<1> HIDE DEF there
<1>3. Quiet'
  BY <1>1 DEF Quiet, IInv, Types, Control, Resting
<1>4. count' = count + One(there = "tryStart") - One(pc[t] = "tryStart") /\ count' \in Nat
  <2>1. count >= 1
    <3>1. Starting \in SUBSET Threads /\ t \in Starting /\ Inside \in SUBSET Threads
      BY <1>1 DEF Starting, Inside
    <3>2. Cardinality(Starting) \in Nat /\ Cardinality(Starting) # 0 /\ Cardinality(Inside) \in Nat
      BY <3>1, SetCounts
    <3>3. count = Cardinality(Inside) + Cardinality(Starting) + One(queued) /\ One(queued) \in 0..1
      BY DEF IInv, Control, Barrier, One
    <3> QED
      BY <3>2, <3>3
  <2> QED
    BY <1>1, <1>2, <2>1 DEF One, IInv, Types
<1>5. block[t] # NoBlock => (Mapping(t)' <=> Mapping(t))
  BY <1>1, <1>2 DEF Mapping, IInv, Types
<1> QED
  BY <1>1, <1>2, <1>3, <1>4, <1>5, InnerStep DEF IInv, Types, Outside, Laden

\* A count of one is that of the thread which looks at it.
LEMMA LastOne ==
  ASSUME Types, Barrier, NEW t \in Threads, pc[t] \notin Outside
  PROVE  /\ count >= 1
         /\ count = 1 => /\ ~queued /\ pc[t] # "tryStart"
                         /\ \A u \in Threads \ {t} : pc[u] \in Outside
<1>1. Inside \in SUBSET Threads /\ Starting \in SUBSET Threads /\ t \in Inside
  BY DEF Inside, Starting, Outside
<1>2. Cardinality(Inside) \in Nat /\ Cardinality(Starting) \in Nat /\ Cardinality(Inside) # 0
  BY <1>1, SetCounts
<1>3. count = Cardinality(Inside) + Cardinality(Starting) + One(queued) /\ One(queued) \in 0..1
  BY DEF Barrier, One
<1>4. count >= 1
  BY <1>2, <1>3
<1>5. ASSUME count = 1
      PROVE  /\ ~queued /\ pc[t] # "tryStart"
             /\ \A u \in Threads \ {t} : pc[u] \in Outside
  <2>1. Cardinality(Inside) = 1 /\ Cardinality(Starting) = 0 /\ One(queued) = 0
    BY <1>2, <1>3, <1>5
  <2>2. Starting = {}
    BY <1>1, <2>1, SetCounts
  <2>3. PICK x : Inside = {x}
    BY <1>1, <2>1, SetCounts, FS_Singleton
  <2>4. Inside = {t}
    BY <1>1, <2>3
  <2>5. ~queued
    BY <2>1 DEF One
  <2> QED
    BY <2>2, <2>4, <2>5 DEF Starting, Inside, Outside
<1> QED
  BY <1>4, <1>5

LEMMA ThrottleStayKeeps == ASSUME IInv, NEW t \in Threads, ThrottleStay(t) PROVE IInv'
<1>1. /\ pc[t] = "throttle" /\ pc' = [pc EXCEPT ![t] = "function"] /\ count = 1 /\ count' = count
      /\ iteratorThreads' = iteratorThreads /\ block[t] = NoBlock
      /\ future' = IF future.suspending /\ ~future.suspended
                   THEN [future EXCEPT !.suspending = FALSE, !.suspended = TRUE] ELSE future
      /\ UNCHANGED <<mode, queued, block, currentIndex, reducer, suspends>>
  BY DEF ThrottleStay, MayLeave, Goto, engine, input, IInv, Control, Flow, Laden
<1>2. future' \in Bits /\ future'.finished = future.finished /\ future'.canceled = future.canceled
  BY <1>1 DEF IInv, Types, Bits
<1>3. ~queued /\ \A u \in Threads \ {t} : pc[u] \in Outside
  BY <1>1, LastOne DEF IInv, Control, Outside
<1>4. Quiet'
  BY <1>1, <1>3 DEF Quiet, IInv, Types, Resting, Outside
<1>5. count' = count + One("function" = "tryStart") - One(pc[t] = "tryStart")
  BY <1>1 DEF One, IInv, Types
<1>6. "function" \in Locations /\ "function" \notin Outside \cup {"reducing"} \cup Laden
  BY DEF Locations, Outside, Laden
<1> QED
  BY <1>1, <1>2, <1>4, <1>5, <1>6, InnerStep DEF IInv, Types, Outside

LEMMA ForLookKeeps == ASSUME IInv, NEW t \in Threads, ForLook(t) PROVE IInv'
<1> DEFINE there == IF future.canceled \/ currentIndex >= IterationCount THEN "exit" ELSE "reserve"
<1>1. /\ pc[t] = "function" /\ pc' = [pc EXCEPT ![t] = there] /\ future' = future /\ count' = count
      /\ iteratorThreads' = iteratorThreads /\ block[t] = NoBlock
      /\ UNCHANGED <<mode, queued, block, currentIndex, reducer, suspends>>
  BY DEF ForLook, Goto, engine, input, IInv, Control, Flow, Laden
<1>2. there \in {"exit", "reserve"}
  OBVIOUS
<1>3. /\ there = "exit" => future'.canceled \/ currentIndex >= IterationCount
      /\ there = "reserve" => currentIndex < IterationCount
  BY <1>1, BlockFacts DEF IInv, Types
<1> HIDE DEF there
<1>4. Quiet'
  BY <1>1, <1>2 DEF Quiet, IInv, Types, Control, Resting
<1>5. there \in Locations /\ there \notin Outside \cup {"reducing", "tryStart"} \cup Laden
  BY <1>2 DEF Locations, Outside, Laden
<1>6. count' = count + One(there = "tryStart") - One(pc[t] = "tryStart")
  BY <1>1, <1>5 DEF One, IInv, Types
<1> QED
  BY <1>1, <1>3, <1>4, <1>5, <1>6, InnerStep DEF IInv, Types, Outside

LEMMA WhileEnterKeeps == ASSUME IInv, NEW t \in Threads, WhileEnter(t) PROVE IInv'
<1> DEFINE there == IF iteratorThreads = 0 THEN "reserve" ELSE "exit"
<1>1. /\ ~forIteration /\ pc[t] = "function" /\ pc' = [pc EXCEPT ![t] = there]
      /\ future' = future /\ count' = count
      /\ iteratorThreads' = 1 /\ block[t] = NoBlock
      /\ UNCHANGED <<mode, queued, block, currentIndex, reducer, suspends>>
  BY DEF WhileEnter, Goto, engine, IInv, Control, Flow, Laden
<1>2. there \in {"exit", "reserve"}
  OBVIOUS
<1> HIDE DEF there
<1>3. Quiet'
  BY <1>1, <1>2 DEF Quiet, IInv, Types, Control, Resting
<1>4. there \in Locations /\ there \notin Outside \cup {"reducing", "tryStart"} \cup Laden
  BY <1>2 DEF Locations, Outside, Laden
<1>5. count' = count + One(there = "tryStart") - One(pc[t] = "tryStart")
  BY <1>1, <1>4 DEF One, IInv, Types
<1> QED
  BY <1>1, <1>3, <1>4, <1>5, InnerStep DEF IInv, Types, Outside

LEMMA WaitForResumeKeeps == ASSUME IInv, NEW t \in Threads, WaitForResume(t) PROVE IInv'
<1> DEFINE there == IF MustWait THEN "waiting" ELSE "decide"
<1>1. /\ pc[t] = "resume" /\ pc' = [pc EXCEPT ![t] = there] /\ future' = future /\ count' = count
      /\ iteratorThreads' = iteratorThreads /\ block[t] \in Chunk
      /\ UNCHANGED <<mode, queued, block, currentIndex, reducer, suspends>>
  BY DEF WaitForResume, Goto, engine, input, IInv, Control, Flow, Laden
<1>2. there \in {"waiting", "decide"}
  OBVIOUS
<1>3. future.suspended /\ ~future.canceled => there = "waiting"
  BY DEF MustWait, Halted
<1> HIDE DEF there
<1>4. Quiet'
  BY <1>1, <1>2, <1>3 DEF Quiet, IInv, Types, Control, Resting
<1>5. there \in Locations /\ there \notin Outside \cup {"reducing", "tryStart", "reserve", "exit"}
      /\ there \in Laden
  BY <1>2 DEF Locations, Outside, Laden
<1>6. count' = count + One(there = "tryStart") - One(pc[t] = "tryStart")
  BY <1>1, <1>5 DEF One, IInv, Types
<1>7. Mapping(t)' <=> Mapping(t)
  BY <1>1, <1>2 DEF Mapping, IInv, Types
<1> QED
  BY <1>1, <1>4, <1>5, <1>6, <1>7, InnerStep DEF IInv, Types, Outside

LEMMA ThrottleExitKeeps == ASSUME IInv, NEW t \in Threads, ThrottleExit(t) PROVE IInv'
<1>1. /\ pc[t] = "throttle" /\ pc' = [pc EXCEPT ![t] = "idle"] /\ count' = count - 1
      /\ future' = future /\ queued' = queued /\ block[t] = NoBlock
      /\ currentIndex' = currentIndex /\ iteratorThreads' = iteratorThreads
      /\ suspends' = suspends /\ block' = block
      /\ UNCHANGED <<mode, block, reducer>>
  BY DEF ThrottleExit, Goto, input, IInv, Control, Flow, Laden
<1>2. Moves(t) /\ pc'[t] = "idle" /\ \A v \in Threads \ {t} : pc'[v] = pc[v]
  BY <1>1 DEF Moves, IInv, Types
<1>3. count >= 1 /\ ~queued /\ ~future.finished /\ \A v \in Threads : pc[v] \notin {"finish", "report"}
  BY <1>1, LastOne DEF IInv, Control, Barrier, Outside
<1>4. Types'
  BY <1>1, <1>3 DEF IInv, Types, Locations, mode, reducer
<1>5. Barrier'
  <2>1. count' = Cardinality(Inside') + Cardinality(Starting') + One(queued')
    <3>1. /\ One(pc'[t] \notin Outside) = 0 /\ One(pc[t] \notin Outside) = 1
          /\ One(pc'[t] = "tryStart") = 0 /\ One(pc[t] = "tryStart") = 0
          /\ One(queued') = 0 /\ One(queued) = 0
      BY <1>1, <1>2, <1>3 DEF One, Outside
    <3>2. count = Cardinality(Inside) + Cardinality(Starting) + One(queued)
      BY DEF IInv, Control, Barrier
    <3> QED
      BY <1>1, <1>2, <3>1, <3>2, BarrierCounts
  <2> QED
    BY <1>1, <1>2, <1>3, <2>1 DEF Barrier
<1>6. Flow' /\ Quiet' /\ Exits'
  <2>1. Flow'
    BY <1>1, <1>2 DEF IInv, Control, Flow, Laden, reducer
  <2>2. Quiet'
    BY <1>1 DEF IInv, Control, Quiet, Resting
  <2>3. Exits'
    BY <1>1, <1>2, <1>3 DEF IInv, Control, Exits, mode
  <2> QED
    BY <2>1, <2>2, <2>3
<1>7. Overshoot'
  BY <1>1, <1>2, OvershootKeeps DEF IInv, Control, mode
<1>8. Data'
  <2>1. Over' <=> Over
    BY <1>1, <1>2, <1>3 DEF Over
  <2>2. /\ \A v \in Threads : block[v] # NoBlock => (Mapping(v)' <=> Mapping(v))
        /\ \A v \in Threads : pc'[v] = "reducing" <=> pc[v] = "reducing"
    BY <1>1, <1>2 DEF Mapping
  <2>3. currentIndex' \in Nat
    BY <1>4 DEF Types
  <2> QED
    BY <1>1, <2>1, <2>2, <2>3, SameData DEF IInv
<1> QED
  BY <1>4, <1>5, <1>6, <1>7, <1>8 DEF IInv, Control

LEMMA ThreadExitKeeps == ASSUME IInv, NEW t \in Threads, ThreadExit(t) PROVE IInv'
<1> DEFINE there == IF count = 1 THEN "finish" ELSE "idle"
<1>1. /\ pc[t] = "exit" /\ pc' = [pc EXCEPT ![t] = there] /\ count' = count - 1
      /\ future' = future /\ queued' = queued /\ block[t] = NoBlock
      /\ currentIndex' = currentIndex /\ iteratorThreads' = iteratorThreads
      /\ suspends' = suspends /\ block' = block
      /\ UNCHANGED <<mode, block, reducer>>
  BY DEF ThreadExit, Goto, input, IInv, Control, Flow, Laden
<1>2. there \in {"finish", "idle"} /\ (there = "finish" <=> count = 1)
  OBVIOUS
<1> HIDE DEF there
<1>3. Moves(t) /\ pc'[t] = there /\ \A v \in Threads \ {t} : pc'[v] = pc[v]
  BY <1>1 DEF Moves, IInv, Types
<1>4. /\ count >= 1 /\ ~queued /\ ~future.finished
      /\ \A v \in Threads : pc[v] \notin {"finish", "report"}
      /\ count = 1 => \A u \in Threads \ {t} : pc[u] = "idle"
  BY <1>1, LastOne DEF IInv, Control, Barrier, Outside
<1>5. Types'
  BY <1>1, <1>2, <1>4 DEF IInv, Types, Locations, mode, reducer
<1>6. Barrier'
  <2>1. count' = Cardinality(Inside') + Cardinality(Starting') + One(queued')
    <3>1. /\ One(pc'[t] \notin Outside) = 0 /\ One(pc[t] \notin Outside) = 1
          /\ One(pc'[t] = "tryStart") = 0 /\ One(pc[t] = "tryStart") = 0
          /\ One(queued') = 0 /\ One(queued) = 0
      BY <1>1, <1>2, <1>3, <1>4 DEF One, Outside
    <3>2. count = Cardinality(Inside) + Cardinality(Starting) + One(queued)
      BY DEF IInv, Control, Barrier
    <3> QED
      BY <1>1, <1>3, <3>1, <3>2, BarrierCounts
  <2> QED
    BY <1>1, <1>2, <1>3, <1>4, <2>1 DEF Barrier
<1>7. Flow' /\ Quiet' /\ Exits'
  <2>1. Flow'
    BY <1>1, <1>2, <1>3 DEF IInv, Control, Flow, Laden, reducer
  <2>2. Quiet'
    BY <1>1, <1>2, <1>3 DEF IInv, Control, Quiet, Resting
  <2>3. Exits'
    BY <1>1, <1>2, <1>3, <1>4 DEF IInv, Control, Exits, mode
  <2> QED
    BY <2>1, <2>2, <2>3
<1>8. Overshoot'
  BY <1>1, <1>2, <1>3, OvershootKeeps DEF IInv, Control, mode
<1>9. Data'
  <2>1. Over' <=> Over
    BY <1>1, <1>2, <1>3, <1>4 DEF Over
  <2>2. /\ \A v \in Threads : block[v] # NoBlock => (Mapping(v)' <=> Mapping(v))
        /\ \A v \in Threads : pc'[v] = "reducing" <=> pc[v] = "reducing"
    BY <1>1, <1>2, <1>3 DEF Mapping
  <2>3. currentIndex' \in Nat
    BY <1>5 DEF Types
  <2> QED
    BY <1>1, <2>1, <2>2, <2>3, SameData DEF IInv
<1> QED
  BY <1>5, <1>6, <1>7, <1>8, <1>9 DEF IInv, Control

LEMMA ReportKeeps == ASSUME IInv, NEW t \in Threads, Report(t) PROVE IInv'
<1>1. /\ pc[t] = "report" /\ pc' = [pc EXCEPT ![t] = "idle"] /\ count' = count
      /\ future' = [future EXCEPT !.finished = TRUE] /\ queued' = queued /\ block[t] = NoBlock
      /\ currentIndex' = currentIndex /\ iteratorThreads' = iteratorThreads
      /\ suspends' = suspends /\ block' = block
      /\ UNCHANGED <<mode, block, reducer>>
  BY DEF Report, Goto, engine, input, IInv, Control, Flow, Laden
<1>2. Moves(t) /\ pc'[t] = "idle" /\ \A v \in Threads \ {t} : pc'[v] = pc[v]
  BY <1>1 DEF Moves, IInv, Types
<1>3. ~queued /\ \A v \in Threads \ {t} : pc[v] = "idle"
  BY <1>1 DEF IInv, Control, Barrier
<1>4. /\ future' \in Bits /\ future'.finished /\ future'.canceled = future.canceled
      /\ future'.suspended = future.suspended
  BY <1>1 DEF IInv, Types, Bits
<1>5. Types'
  BY <1>1, <1>4 DEF IInv, Types, Locations, mode, reducer
<1>6. Barrier'
  <2>1. count' = Cardinality(Inside') + Cardinality(Starting') + One(queued')
    <3>1. Inside' = Inside /\ Starting' = Starting
      BY <1>1, <1>2 DEF Inside, Starting
    <3> QED
      BY <1>1, <3>1 DEF IInv, Control, Barrier
  <2> QED
    BY <1>1, <1>2, <1>3, <2>1 DEF Barrier
<1>7. Flow' /\ Quiet' /\ Exits'
  <2>1. Flow'
    BY <1>1, <1>2 DEF IInv, Control, Flow, Laden, reducer
  <2>2. Quiet'
    BY <1>1, <1>2, <1>4 DEF IInv, Control, Quiet, Resting
  <2>3. Exits'
    BY <1>1, <1>4 DEF IInv, Control, Exits, mode
  <2> QED
    BY <2>1, <2>2, <2>3
<1>8. Overshoot'
  BY <1>1, <1>2, OvershootKeeps DEF IInv, Control, mode
<1>9. Data'
  <2>1. Over' <=> Over
    BY <1>1, <1>4 DEF Over
  <2>2. /\ \A v \in Threads : block[v] # NoBlock => (Mapping(v)' <=> Mapping(v))
        /\ \A v \in Threads : pc'[v] = "reducing" <=> pc[v] = "reducing"
    BY <1>1, <1>2 DEF Mapping
  <2>3. currentIndex' \in Nat
    BY <1>5 DEF Types
  <2> QED
    BY <1>1, <1>4, <2>1, <2>2, <2>3, SameData DEF IInv
<1> QED
  BY <1>5, <1>6, <1>7, <1>8, <1>9 DEF IInv, Control

\* suspend(), resume() and cancel() of the future.
LEMMA ClientKeeps == ASSUME IInv, Client PROVE IInv'
<1>1. /\ count' = count /\ queued' = queued /\ currentIndex' = currentIndex
      /\ iteratorThreads' = iteratorThreads /\ suspends' \in 0..MaySuspend /\ block' = block
      /\ UNCHANGED <<mode, block, reducer>>
  BY EngineAssumption DEF Client, Suspend, Resume, Cancel, engine, input, IInv, Types
<1>2. /\ pc' \in [Threads -> Locations]
      /\ \A v \in Threads : pc'[v] = pc[v] \/ (pc[v] = "waiting" /\ pc'[v] = "decide")
      /\ future'.suspended /\ ~future'.canceled => pc' = pc /\ future.suspended /\ ~future.canceled
      /\ future' \in Bits /\ future'.finished = future.finished /\ (future.canceled => future'.canceled)
  <2>1. CASE Suspend
    BY <2>1 DEF Suspend, IInv, Types, Bits
  <2>2. CASE Resume
    <3>1. /\ pc' \in [Threads -> Locations]
          /\ \A v \in Threads : pc'[v] = pc[v] \/ (pc[v] = "waiting" /\ pc'[v] = "decide")
      BY <2>2 DEF Resume, WakePaused, IInv, Types, Locations
    <3> QED
      BY <2>2, <3>1 DEF Resume, IInv, Types, Bits
  <2>3. CASE Cancel
    <3>1. /\ pc' \in [Threads -> Locations]
          /\ \A v \in Threads : pc'[v] = pc[v] \/ (pc[v] = "waiting" /\ pc'[v] = "decide")
      BY <2>3 DEF Cancel, WakePaused, IInv, Types, Locations
    <3> QED
      BY <2>3, <3>1 DEF Cancel, IInv, Types, Bits
  <2> QED
    BY <2>1, <2>2, <2>3 DEF Client
<1>3. Types'
  BY <1>1, <1>2 DEF IInv, Types, mode, reducer
<1>4. Barrier'
  <2>1. Inside' = Inside /\ Starting' = Starting
    BY <1>2 DEF Inside, Starting
  <2>2. count' = Cardinality(Inside') + Cardinality(Starting') + One(queued')
    BY <1>1, <2>1 DEF IInv, Control, Barrier
  <2> QED
    BY <1>1, <1>2, <2>2 DEF IInv, Control, Barrier
<1>5. Flow' /\ Quiet' /\ Exits'
  <2>1. Flow'
    BY <1>1, <1>2 DEF IInv, Control, Flow, Laden, reducer
  <2>2. Quiet'
    BY <1>1, <1>2 DEF IInv, Control, Quiet
  <2>3. Exits'
    BY <1>1, <1>2 DEF IInv, Control, Exits, mode
  <2> QED
    BY <2>1, <2>2, <2>3
<1>6. Overshoot'
  BY <1>1, <1>2, OvershootKeeps DEF IInv, Control, mode
<1>7. Data'
  <2>1. Over' <=> Over
    BY <1>2 DEF Over
  <2>2. /\ \A v \in Threads : block[v] # NoBlock => (Mapping(v)' <=> Mapping(v))
        /\ \A v \in Threads : pc'[v] = "reducing" <=> pc[v] = "reducing"
    BY <1>2 DEF Mapping
  <2>3. currentIndex' \in Nat
    BY <1>3 DEF Types
  <2> QED
    BY <1>1, <1>2, <2>1, <2>2, <2>3, SameData DEF IInv
<1> QED
  BY <1>3, <1>4, <1>5, <1>6, <1>7 DEF IInv, Control

-----------------------------------------------------------------------------
(* The pool gives the engine a thread                                      *)

LEMMA SpareIsIdle == ASSUME Idle # {} PROVE Spare \in Threads /\ pc[Spare] = "idle"
<1>1. \E u \in Threads : pc[u] = "idle"
  BY DEF Idle
<1> QED
  BY <1>1 DEF Spare

LEMMA PoolStartKeeps == ASSUME IInv, PoolStart PROVE IInv'
<1>1. PICK s \in Threads : pc[s] = "idle" /\ pc' = [pc EXCEPT ![s] = "run"]
  BY SpareIsIdle DEF PoolStart, Goto
<1>2. /\ queued /\ ~queued' /\ queued' \in BOOLEAN /\ count' = count /\ future' = future
      /\ currentIndex' = currentIndex /\ iteratorThreads' = iteratorThreads
      /\ suspends' = suspends /\ block' = block
      /\ UNCHANGED <<mode, block, reducer>>
  BY DEF PoolStart, input
<1>3. /\ \A v \in Threads : pc[v] = "idle"
      /\ pc'[s] = "run" /\ \A v \in Threads \ {s} : pc'[v] = "idle"
      /\ ~future.finished /\ ~(future.suspended /\ ~future.canceled)
  BY <1>1, <1>2 DEF IInv, Types, Control, Barrier, Quiet
<1>4. Types'
  BY <1>1, <1>2 DEF IInv, Types, Locations, mode, reducer
<1>5. Barrier'
  <2>1. Moves(s)
    BY <1>3 DEF Moves
  <2>2. /\ One(pc'[s] \notin Outside) = 1 /\ One(pc[s] \notin Outside) = 0
        /\ One(pc'[s] = "tryStart") = 0 /\ One(pc[s] = "tryStart") = 0
        /\ One(queued') = 0 /\ One(queued) = 1
    BY <1>2, <1>3 DEF One, Outside
  <2>3. count = Cardinality(Inside) + Cardinality(Starting) + One(queued)
    BY DEF IInv, Control, Barrier
  <2>4. count' = Cardinality(Inside') + Cardinality(Starting') + One(queued')
    BY <1>2, <2>1, <2>2, <2>3, BarrierCounts
  <2> QED
    BY <1>2, <1>3, <2>4 DEF Barrier
<1>6. Flow' /\ Quiet' /\ Exits'
  <2>1. Flow'
    BY <1>2, <1>3 DEF IInv, Control, Flow, Laden, reducer
  <2>2. Quiet'
    BY <1>2, <1>3 DEF Quiet
  <2>3. Exits'
    BY <1>2, <1>3 DEF Exits
  <2> QED
    BY <2>1, <2>2, <2>3
<1>7. Overshoot'
  BY <1>2, <1>3, OvershootKeeps DEF IInv, Control, mode
<1>8. Data'
  <2>1. Over' <=> Over
    BY <1>2, <1>3 DEF Over
  <2>2. /\ \A v \in Threads : block[v] # NoBlock => (Mapping(v)' <=> Mapping(v))
        /\ \A v \in Threads : pc'[v] = "reducing" <=> pc[v] = "reducing"
    BY <1>3 DEF Mapping
  <2>3. currentIndex' \in Nat
    BY <1>4 DEF Types
  <2> QED
    BY <1>2, <2>1, <2>2, <2>3, SameData DEF IInv
<1> QED
  BY <1>4, <1>5, <1>6, <1>7, <1>8 DEF IInv, Control

LEMMA TryStartKeeps == ASSUME IInv, NEW t \in Threads, TryStart(t) PROVE IInv'
<1> DEFINE there == IF block[t] = NoBlock THEN "startThreads" ELSE "iterate"
<1>1. PICK s \in Threads : pc[s] = "idle" /\ pc' = [pc EXCEPT ![s] = "run", ![t] = there]
  BY SpareIsIdle DEF TryStart
<1>2. /\ pc[t] = "tryStart" /\ queued' = queued /\ count' = count /\ future' = future
      /\ currentIndex' = currentIndex /\ iteratorThreads' = iteratorThreads
      /\ suspends' = suspends /\ block' = block
      /\ UNCHANGED <<mode, block, reducer>>
  BY DEF TryStart, engine, input
<1>3. /\ there \in {"startThreads", "iterate"}
      /\ there = "iterate" => block[t] \in Chunk
      /\ there = "startThreads" => block[t] = NoBlock
  BY DEF IInv, Types
<1> HIDE DEF there
<1>4. /\ s # t /\ pc'[s] = "run" /\ pc'[t] = there
      /\ \A v \in Threads \ {s, t} : pc'[v] = pc[v]
  BY <1>1, <1>2 DEF IInv, Types
<1>5. /\ ~queued /\ ~future.finished /\ \A v \in Threads : pc[v] \notin {"finish", "report"}
      /\ ~(future.suspended /\ ~future.canceled)
  BY <1>2 DEF IInv, Control, Barrier, Quiet, Resting
<1>6. Types'
  BY <1>1, <1>2, <1>3 DEF IInv, Types, Locations, mode, reducer
<1>7. Barrier'
  <2>1. Cardinality(Inside') = Cardinality(Inside) + 1
    <3>1. /\ Inside \in SUBSET Threads /\ Inside' \in SUBSET Threads
          /\ Inside' \ {s} = Inside \ {s} /\ s \notin Inside /\ s \in Inside'
      BY <1>1, <1>2, <1>3, <1>4 DEF Inside
    <3>2. In(Inside, s) = 0 /\ In(Inside', s) = 1 /\ Cardinality(Inside) \in Nat
      BY <3>1, SetCounts DEF In
    <3> QED
      BY <3>1, <3>2, CountAfter
  <2>2. Cardinality(Starting') = Cardinality(Starting) - 1
    <3>1. /\ Starting \in SUBSET Threads /\ Starting' \in SUBSET Threads
          /\ Starting' \ {t} = Starting \ {t} /\ t \in Starting /\ t \notin Starting'
      BY <1>1, <1>2, <1>3, <1>4 DEF Starting
    <3>2. In(Starting, t) = 1 /\ In(Starting', t) = 0 /\ Cardinality(Starting) \in Nat
      BY <3>1, SetCounts DEF In
    <3> QED
      BY <3>1, <3>2, CountAfter
  <2>3. Inside \in SUBSET Threads /\ Starting \in SUBSET Threads
    BY DEF Inside, Starting
  <2>4. Cardinality(Inside) \in Nat /\ Cardinality(Starting) \in Nat
    BY <2>3, SetCounts
  <2>5. count = Cardinality(Inside) + Cardinality(Starting) + One(queued)
        /\ One(queued) = 0 /\ One(queued') = 0
    BY <1>2, <1>5 DEF IInv, Control, Barrier, One
  <2>6. count' = Cardinality(Inside') + Cardinality(Starting') + One(queued')
    BY <1>2, <2>1, <2>2, <2>4, <2>5
  <2>7. \A v \in Threads : pc'[v] \notin {"finish", "report"}
    BY <1>3, <1>4, <1>5
  <2> QED
    BY <1>2, <1>5, <2>6, <2>7 DEF Barrier
<1>8. Flow' /\ Quiet' /\ Exits'
  <2>1. Flow'
    BY <1>1, <1>2, <1>3, <1>4 DEF IInv, Control, Flow, Laden, reducer
  <2>2. Quiet'
    BY <1>2, <1>5 DEF Quiet
  <2>3. Exits'
    BY <1>2, <1>3, <1>4, <1>5 DEF IInv, Control, Exits, mode
  <2> QED
    BY <2>1, <2>2, <2>3
<1>9. Overshoot'
  <2>1. \A v \in Threads : pc'[v] = "reserve" => pc[v] = "reserve"
    BY <1>3, <1>4
  <2> QED
    BY <1>2, <2>1, OvershootKeeps DEF IInv, Control, mode
<1>10. Data'
  <2>1. Over' <=> Over
    <3>1. \A v \in Threads : pc'[v] # "report"
      BY <1>3, <1>4, <1>5
    <3> QED
      BY <1>2, <1>5, <3>1 DEF Over
  <2>2. \A v \in Threads : block[v] # NoBlock => (Mapping(v)' <=> Mapping(v))
    <3>1. block[s] = NoBlock
      BY <1>1 DEF IInv, Control, Flow, Laden
    <3>2. block[t] # NoBlock => there = "iterate"
      BY <1>3
    <3> QED
      BY <1>2, <1>4, <3>1, <3>2 DEF Mapping
  <2>3. \A v \in Threads : pc'[v] = "reducing" <=> pc[v] = "reducing"
    BY <1>1, <1>2, <1>3, <1>4
  <2>4. currentIndex' \in Nat
    BY <1>6 DEF Types
  <2> QED
    BY <1>2, <2>1, <2>2, <2>3, <2>4, SameData DEF IInv
<1> QED
  BY <1>6, <1>7, <1>8, <1>9, <1>10 DEF IInv, Control

-----------------------------------------------------------------------------
(* Taking blocks from the input                                            *)

\* A thread takes the next block.
LEMMA TakeKeeps ==
  ASSUME IInv, NEW t \in Threads, NEW b \in Chunk,
         pc[t] = "reserve", pc' = [pc EXCEPT ![t] = "resume"], block' = [block EXCEPT ![t] = b],
         b.begin = currentIndex, b.end <= currentIndex',
         \A i \in Index : i < currentIndex' => i < b.end,
         currentIndex' \in Nat, iteratorThreads' \in {0, 1},
         UNCHANGED <<mode, engine, reducer, future, suspends>>, Overshoot'
  PROVE  IInv'
<1>1. /\ forIteration' = forIteration /\ ordered' = ordered /\ queued' = queued /\ count' = count
      /\ progress' = progress /\ resultsMap' = resultsMap /\ resultsMapSize' = resultsMapSize
      /\ hand' = hand /\ reduced' = reduced /\ future' = future /\ suspends' = suspends
  BY DEF mode, engine, reducer
<1>2. /\ pc'[t] = "resume" /\ block'[t] = b /\ hand[t] = {} /\ block[t] = NoBlock
      /\ \A v \in Threads \ {t} : pc'[v] = pc[v] /\ block'[v] = block[v]
  BY DEF IInv, Types, Control, Flow, Laden
<1>3. Types'
  BY <1>1 DEF IInv, Types, Locations
<1>4. Moves(t) /\ pc[t] \notin Outside /\ pc'[t] \notin Outside
  BY <1>2 DEF Moves, Outside
<1>5. Flow'
  BY <1>1, <1>2 DEF IInv, Control, Flow, Laden
<1>6. Quiet'
  BY <1>1, <1>2 DEF IInv, Control, Quiet, Resting
<1>7. count' = count + One(pc'[t] = "tryStart") - One(pc[t] = "tryStart")
  BY <1>1, <1>2 DEF One, IInv, Types
<1>8. currentIndex' >= currentIndex
  BY <1>1, BlockFacts DEF IInv, Types
<1>9. Control' /\ (Over <=> FALSE) /\ (Over' <=> FALSE)
  BY <1>1, <1>2, <1>3, <1>4, <1>5, <1>6, <1>7, <1>8, InnerControl DEF IInv
<1>10. Placed'
  <2> SUFFICES ASSUME NEW i \in Index
               PROVE  IF i >= currentIndex' THEN Here(i)' = 0
                      ELSE Here(i)' = 1 \/ (MayThrow /\ future'.canceled /\ Here(i)' = 0)
    BY DEF Placed
  <2>1. /\ ~Maps(t, i) /\ (Maps(t, i)' <=> Has(b, i))
        /\ \A v \in Threads \ {t} : Maps(v, i)' <=> Maps(v, i)
    BY <1>2 DEF Maps, Mapping
  <2>2. \A v \in Threads : Hands(v, i)' <=> Hands(v, i)
    BY <1>1 DEF Hands
  <2>3. Kept(i)' <=> Kept(i)
    BY <1>1, <1>9 DEF Kept
  <2>4. /\ Cardinality(Mappers(i)') = Cardinality(Mappers(i)) + One(Maps(t, i)') - One(Maps(t, i))
        /\ Cardinality(Handlers(i)') = Cardinality(Handlers(i)) + One(Hands(t, i)') - One(Hands(t, i))
        /\ Here(i)' = reduced'[i] + Cardinality(Mappers(i)') + Cardinality(Handlers(i)') + One(Kept(i)')
    BY <2>1, <2>2, HereAfter
  <2>5. One(Maps(t, i)') = One(Has(b, i)) /\ One(Maps(t, i)) = 0 /\ One(Has(b, i)) \in 0..1
        /\ One(Hands(t, i)') = One(Hands(t, i)) /\ One(Hands(t, i)) \in 0..1 /\ One(Kept(i)') = One(Kept(i))
    BY <2>1, <2>2, <2>3 DEF One
  <2>6. Here(i)' = Here(i) + One(Has(b, i)) /\ Here(i) \in Nat
    BY <1>1, <2>4, <2>5, HereFacts DEF IInv, Here
  <2>7. CASE i < currentIndex
    <3>1. One(Has(b, i)) = 0 /\ i < currentIndex' /\ i \in Nat
      BY <1>8, <2>7, BlockFacts DEF IInv, Types, Has, One
    <3>2. Here(i)' = Here(i)
      BY <2>6, <3>1
    <3>3. Here(i) = 1 \/ (MayThrow /\ future.canceled /\ Here(i) = 0)
      BY <2>7, <3>1 DEF IInv, Types, Data, Placed
    <3> QED
      BY <1>1, <3>1, <3>2, <3>3
  <2>8. CASE i >= currentIndex
    BY <1>8, <2>6, <2>8, BlockFacts DEF IInv, Types, Data, Placed, Has, One
  <2> QED
    BY <2>7, <2>8, BlockFacts DEF IInv, Types
<1>11. Turns'
  <2>1. \A v \in Threads : pc'[v] = "reducing" => pc[v] = "reducing" /\ block'[v] = block[v]
    BY <1>2
  <2> QED
    BY <1>1, <2>1 DEF IInv, Data, Turns
<1>12. Prefix'
  BY <1>1, <1>9 DEF IInv, Data, Prefix
<1>13. Distinct' /\ Sizes'
  <2>1. \A v \in Threads : Stored(v)' = Stored(v)
    BY <1>1, <1>2 DEF Stored
  <2>2. Taken' = Taken /\ Pending' = Pending
    BY <1>1, <2>1 DEF Taken, Pending
  <2> QED
    BY <1>1, <2>2 DEF IInv, Data, Distinct, Sizes
<1> QED
  BY <1>3, <1>9, <1>10, <1>11, <1>12, <1>13 DEF IInv, Data

LEMMA EndIndexIs ==
  ASSUME Types, NEW size \in 1..MaxBlock
  PROVE  /\ size \in Nat /\ size >= 1 /\ size <= MaxBlock
         /\ EndIndex(size) = IF currentIndex + size <= IterationCount
                             THEN currentIndex + size ELSE IterationCount
<1>1. size \in Nat /\ size >= 1 /\ size <= MaxBlock /\ currentIndex \in Nat /\ IterationCount \in Nat
  BY BlockFacts DEF Types
<1> DEFINE S == {currentIndex + size, IterationCount}
<1>2. Min(S) \in S /\ \A y \in S : Min(S) <= y
  <2>1. \E x \in S : \A y \in S : x <= y
    <3>1. CASE currentIndex + size <= IterationCount
      BY <1>1, <3>1
    <3>2. CASE ~(currentIndex + size <= IterationCount)
      BY <1>1, <3>2
    <3> QED
      BY <3>1, <3>2
  <2> HIDE DEF S
  <2> QED
    BY <2>1 DEF Min
<1> QED
  BY <1>1, <1>2 DEF EndIndex

LEMMA ReserveOvershoot ==
  ASSUME Types, Overshoot, forIteration, forIteration' = forIteration, NEW t \in Threads,
         pc[t] = "reserve", pc'[t] # "reserve", \A v \in Threads \ {t} : pc'[v] = pc[v],
         NEW size \in 1..MaxBlock, currentIndex' = currentIndex + size
  PROVE  Overshoot'
<1> DEFINE T == Cardinality(Threads)
           R == Cardinality(Reserving)
           P == Cardinality(Reserving')
<1>1. /\ size \in Nat /\ size <= MaxBlock /\ MaxBlock \in Nat /\ IterationCount \in Nat
      /\ currentIndex \in Nat
  BY BlockFacts, EndIndexIs DEF Types
<1>2. R \in Nat /\ T \in Nat /\ P = R - 1 /\ R <= T
  <2>1. /\ Reserving \in SUBSET Threads /\ Reserving' \in SUBSET Threads
        /\ Reserving' \ {t} = Reserving \ {t} /\ t \in Reserving /\ t \notin Reserving'
    BY DEF Reserving
  <2>2. In(Reserving, t) = 1 /\ In(Reserving', t) = 0
    BY <2>1 DEF In
  <2> QED
    BY <2>1, <2>2, SetCounts, ThreadCount, CountAfter
<1> HIDE DEF T, R, P
<1>3. MaxBlock * P = MaxBlock * R - MaxBlock /\ MaxBlock * R <= MaxBlock * T
      /\ MaxBlock * R \in Int /\ MaxBlock * T \in Int
  BY <1>1, <1>2, Product
<1>4. CASE currentIndex < IterationCount
  <2>1. currentIndex' + MaxBlock * P < IterationCount + MaxBlock * T
    BY <1>1, <1>3, <1>4
  <2> QED
    BY <2>1 DEF Overshoot, P, T
<1>5. CASE ~(currentIndex < IterationCount)
  <2>1. currentIndex + MaxBlock * R < IterationCount + MaxBlock * T
    BY <1>5 DEF Overshoot, R, T
  <2>2. currentIndex' + MaxBlock * P < IterationCount + MaxBlock * T
    BY <1>1, <1>3, <2>1
  <2> QED
    BY <2>2 DEF Overshoot, P, T
<1> QED
  BY <1>4, <1>5

LEMMA ForReserveKeeps == ASSUME IInv, NEW t \in Threads, ForReserve(t) PROVE IInv'
<1>1. PICK size \in 1..MaxBlock :
        /\ currentIndex' = currentIndex + size
        /\ IF currentIndex >= EndIndex(size)
           THEN pc' = [pc EXCEPT ![t] = "exit"] /\ block' = block
           ELSE /\ pc' = [pc EXCEPT ![t] = "resume"]
                /\ block' = [block EXCEPT ![t] = [begin |-> currentIndex, end |-> EndIndex(size)]]
  BY DEF ForReserve, Goto
<1>2. /\ forIteration /\ pc[t] = "reserve" /\ iteratorThreads' = iteratorThreads
      /\ UNCHANGED <<mode, engine, reducer, future, suspends>>
  BY DEF ForReserve
<1>3. /\ forIteration' = forIteration /\ ordered' = ordered /\ queued' = queued /\ count' = count
      /\ progress' = progress /\ resultsMap' = resultsMap /\ resultsMapSize' = resultsMapSize
      /\ hand' = hand /\ reduced' = reduced /\ future' = future /\ suspends' = suspends
  BY <1>2 DEF mode, engine, reducer
<1>4. /\ size \in Nat /\ size >= 1 /\ currentIndex \in Nat /\ IterationCount \in Nat
      /\ EndIndex(size) = IF currentIndex + size <= IterationCount
                          THEN currentIndex + size ELSE IterationCount
  BY BlockFacts, EndIndexIs DEF IInv, Types
<1>5. currentIndex' \in Nat /\ currentIndex' >= currentIndex /\ iteratorThreads' \in {0, 1}
  BY <1>1, <1>2, <1>4 DEF IInv, Types
<1>6. Overshoot'
  <2>1. pc'[t] # "reserve" /\ \A v \in Threads \ {t} : pc'[v] = pc[v]
    BY <1>1 DEF IInv, Types
  <2> QED
    BY <1>1, <1>2, <1>3, <2>1, ReserveOvershoot DEF IInv, Control
<1>7. CASE currentIndex >= EndIndex(size)
  <2>1. /\ pc' = [pc EXCEPT ![t] = "exit"] /\ block' = block
        /\ pc'[t] = "exit" /\ \A v \in Threads \ {t} : pc'[v] = pc[v]
    BY <1>1, <1>7 DEF IInv, Types
  <2>2. currentIndex >= IterationCount
    BY <1>4, <1>7
  <2>3. Types'
    BY <1>3, <1>5, <2>1 DEF IInv, Types, Locations
  <2>4. Moves(t) /\ pc[t] \notin Outside /\ pc'[t] \notin Outside
    BY <1>2, <2>1 DEF Moves, Outside
  <2>5. Flow'
    BY <1>2, <1>3, <2>1 DEF IInv, Control, Flow, Laden
  <2>6. Quiet'
    BY <1>2, <1>3, <2>1 DEF IInv, Control, Quiet, Resting
  <2>7. count' = count + One(pc'[t] = "tryStart") - One(pc[t] = "tryStart")
    BY <1>2, <1>3, <2>1 DEF One, IInv, Types
  <2>8. currentIndex' >= IterationCount
    BY <1>4, <1>5, <2>2
  <2>9. Control' /\ (Over <=> FALSE) /\ (Over' <=> FALSE)
    BY <1>3, <1>5, <1>6, <2>3, <2>4, <2>5, <2>6, <2>7, <2>8, InnerControl DEF IInv
  <2>10. Data'
    <3>1. \A v \in Threads : block[v] # NoBlock => (Mapping(v)' <=> Mapping(v))
      BY <1>2, <2>1 DEF Mapping
    <3>2. \A v \in Threads : pc'[v] = "reducing" <=> pc[v] = "reducing"
      BY <1>2, <2>1
    <3>3. UNCHANGED <<mode, block, reducer>> /\ (Over' <=> Over)
      BY <1>2, <2>1, <2>9
    <3> QED
      BY <1>3, <1>5, <2>2, <3>1, <3>2, <3>3, SameData DEF IInv
  <2> QED
    BY <2>3, <2>9, <2>10 DEF IInv
<1>8. CASE ~(currentIndex >= EndIndex(size))
  <2> DEFINE b == [begin |-> currentIndex, end |-> EndIndex(size)]
  <2>1. /\ b \in Chunk /\ b.begin = currentIndex /\ b.end <= currentIndex'
        /\ \A i \in Index : i < currentIndex' => i < b.end
    <3>1. /\ EndIndex(size) \in Nat /\ EndIndex(size) <= IterationCount
          /\ currentIndex < EndIndex(size) /\ EndIndex(size) <= currentIndex'
      BY <1>1, <1>4, <1>8
    <3>2. \A i \in Index : i < currentIndex' => i < EndIndex(size)
      BY <1>1, <1>4, <1>8, BlockFacts
    <3>3. currentIndex \in Index /\ EndIndex(size) \in 1..IterationCount
      BY <1>4, <3>1 DEF Index
    <3> QED
      BY <3>1, <3>2, <3>3 DEF Chunk, Block
  <2>2. pc' = [pc EXCEPT ![t] = "resume"] /\ block' = [block EXCEPT ![t] = b]
    BY <1>1, <1>8
  <2> HIDE DEF b
  <2> QED
    BY <1>2, <1>5, <1>6, <2>1, <2>2, TakeKeeps
<1> QED
  BY <1>7, <1>8

LEMMA WhileAdvanceKeeps == ASSUME IInv, NEW t \in Threads, WhileAdvance(t) PROVE IInv'
<1>1. /\ ~forIteration /\ pc[t] = "reserve" /\ block[t] = NoBlock
      /\ UNCHANGED <<mode, engine, reducer, future, suspends>>
  BY DEF WhileAdvance, IInv, Control, Flow, Laden
<1>2. /\ forIteration' = forIteration /\ queued' = queued /\ count' = count
      /\ future' = future /\ suspends' = suspends
  BY <1>1 DEF mode, engine
<1>3. currentIndex \in Nat /\ IterationCount \in Nat /\ currentIndex <= IterationCount
  BY <1>1, BlockFacts DEF IInv, Types, Control, Overshoot
<1>4. CASE currentIndex = IterationCount
  <2>1. /\ pc' = [pc EXCEPT ![t] = "exit"] /\ block' = block
        /\ currentIndex' = currentIndex /\ iteratorThreads' = iteratorThreads
    BY <1>4 DEF WhileAdvance, Goto, input
  <2>2. "exit" \in Locations /\ "exit" \notin Outside \cup {"reducing"} \cup Laden
    BY DEF Locations, Outside, Laden
  <2>3. Quiet'
    BY <1>1, <1>2, <2>1 DEF IInv, Types, Control, Quiet, Resting
  <2>4. count' = count + One("exit" = "tryStart") - One(pc[t] = "tryStart")
    BY <1>1, <1>2 DEF One, IInv, Types
  <2>5. UNCHANGED <<mode, queued, block, currentIndex, reducer, suspends>>
    BY <1>1, <1>2, <2>1
  <2> QED
    BY <1>1, <1>2, <2>1, <2>2, <2>3, <2>4, <2>5, InnerStep DEF IInv, Types, Outside
<1>5. CASE currentIndex # IterationCount
  <2> DEFINE b == [begin |-> currentIndex, end |-> currentIndex + 1]
  <2>1. /\ pc' = [pc EXCEPT ![t] = "resume"] /\ block' = [block EXCEPT ![t] = b]
        /\ currentIndex' = currentIndex + 1 /\ iteratorThreads' = 0
    BY <1>5 DEF WhileAdvance, Goto
  <2>2. /\ b \in Chunk /\ b.begin = currentIndex /\ b.end <= currentIndex'
        /\ \A i \in Index : i < currentIndex' => i < b.end
    <3>1. currentIndex \in Index /\ currentIndex + 1 \in 1..IterationCount
      BY <1>3, <1>5 DEF Index
    <3> QED
      BY <1>3, <2>1, <3>1 DEF Chunk, Block
  <2>3. Overshoot'
    BY <1>1, <1>2, <1>3, <1>5, <2>1 DEF Overshoot
  <2> HIDE DEF b
  <2>4. currentIndex' \in Nat /\ iteratorThreads' \in {0, 1}
    BY <1>3, <2>1
  <2> QED
    BY <1>1, <2>1, <2>2, <2>3, <2>4, TakeKeeps
<1> QED
  BY <1>4, <1>5

-----------------------------------------------------------------------------
(* The end of an iteration                                                 *)

\* A thread is done with its block, or throws it away.
LEMMA DropKeeps ==
  ASSUME IInv, NEW t \in Threads, NEW there \in {"throttle", "function", "exit"},
         pc[t] \in {"after", "iterate"}, pc' \in [Threads -> Locations], pc'[t] = there, Moves(t),
         block' = [block EXCEPT ![t] = NoBlock],
         UNCHANGED <<mode, engine, input, reducer, suspends>>,
         future' \in Bits, future'.finished = future.finished, future.canceled => future'.canceled,
         pc[t] = "iterate" \/ there = "exit" => MayThrow /\ future'.canceled,
         Quiet'
  PROVE  IInv'
<1>1. /\ forIteration' = forIteration /\ ordered' = ordered /\ queued' = queued /\ count' = count
      /\ currentIndex' = currentIndex /\ iteratorThreads' = iteratorThreads
      /\ progress' = progress /\ resultsMap' = resultsMap /\ resultsMapSize' = resultsMapSize
      /\ hand' = hand /\ reduced' = reduced /\ suspends' = suspends
  BY DEF mode, engine, input, reducer
<1>2. /\ block'[t] = NoBlock /\ hand[t] = {} /\ block[t] \in Chunk
      /\ \A v \in Threads \ {t} : block'[v] = block[v]
  BY DEF IInv, Types, Control, Flow, Laden
<1>3. Types'
  BY <1>1 DEF IInv, Types
<1>4. pc[t] \notin Outside /\ pc'[t] \notin Outside
  BY DEF Outside
<1>5. \A v \in Threads : pc'[v] = "reducing" <=> pc[v] = "reducing"
  BY DEF Moves
<1>6. Flow'
  <2> SUFFICES ASSUME NEW v \in Threads
               PROVE  /\ pc'[v] \in Laden => block'[v] \in Chunk
                      /\ pc'[v] \notin Laden \cup {"tryStart"} => block'[v] = NoBlock
                      /\ pc'[v] = "reducing" <=> hand'[v] # {}
    BY DEF Flow
  <2>1. pc'[v] = "reducing" <=> hand'[v] # {}
    BY <1>1, <1>5 DEF IInv, Control, Flow
  <2>2. CASE v = t
    BY <1>2, <2>1, <2>2 DEF Laden
  <2>3. CASE v # t
    BY <1>2, <2>1, <2>3 DEF Moves, IInv, Control, Flow, Laden
  <2> QED
    BY <2>2, <2>3
<1>7. Overshoot'
  <2>1. \A v \in Threads : pc'[v] = "reserve" => pc[v] = "reserve"
    BY DEF Moves
  <2> QED
    BY <1>1, <2>1, OvershootKeeps DEF IInv, Control
<1>8. count' = count + One(pc'[t] = "tryStart") - One(pc[t] = "tryStart")
  BY <1>1 DEF One, IInv, Types
<1>9. Control' /\ (Over <=> FALSE) /\ (Over' <=> FALSE)
  <2>1. currentIndex' >= currentIndex
    BY <1>1, BlockFacts DEF IInv, Types
  <2> QED
    BY <1>1, <1>3, <1>4, <1>6, <1>7, <1>8, <2>1, InnerControl DEF IInv
<1>10. Placed'
  <2> SUFFICES ASSUME NEW i \in Index
               PROVE  IF i >= currentIndex' THEN Here(i)' = 0
                      ELSE Here(i)' = 1 \/ (MayThrow /\ future'.canceled /\ Here(i)' = 0)
    BY DEF Placed
  <2>1. /\ ~Maps(t, i)'
        /\ \A v \in Threads \ {t} : Maps(v, i)' <=> Maps(v, i)
    <3>1. ~Maps(t, i)'
      BY DEF Maps, Mapping
    <3>2. \A v \in Threads \ {t} : Mapping(v)' <=> Mapping(v)
      BY DEF Mapping, Moves
    <3> QED
      BY <1>2, <3>1, <3>2 DEF Maps
  <2>2. \A v \in Threads : Hands(v, i)' <=> Hands(v, i)
    BY <1>1 DEF Hands
  <2>3. Kept(i)' <=> Kept(i)
    BY <1>1, <1>9 DEF Kept
  <2>4. /\ Cardinality(Mappers(i)') = Cardinality(Mappers(i)) + One(Maps(t, i)') - One(Maps(t, i))
        /\ Cardinality(Handlers(i)') = Cardinality(Handlers(i)) + One(Hands(t, i)') - One(Hands(t, i))
        /\ Here(i)' = reduced'[i] + Cardinality(Mappers(i)') + Cardinality(Handlers(i)') + One(Kept(i)')
    BY <2>1, <2>2, HereAfter
  <2>5. One(Maps(t, i)') = 0 /\ One(Maps(t, i)) \in 0..1
        /\ One(Hands(t, i)') = One(Hands(t, i)) /\ One(Hands(t, i)) \in 0..1 /\ One(Kept(i)') = One(Kept(i))
    BY <2>1, <2>2, <2>3 DEF One
  <2>6. Here(i)' = Here(i) - One(Maps(t, i)) /\ Here(i) \in Nat
    BY <1>1, <2>4, <2>5, HereFacts DEF IInv, Here
  <2>7. CASE Maps(t, i)
    <3>1. Here(i) = 1 /\ i < currentIndex
      BY <2>7, MappedIsNowhereElse DEF IInv, Data
    <3>2. pc[t] = "iterate" /\ One(Maps(t, i)) = 1
      BY <2>7 DEF Maps, Mapping, One
    <3>3. Here(i)' = 0
      BY <2>6, <3>1, <3>2
    <3> QED
      BY <1>1, <3>1, <3>2, <3>3, BlockFacts DEF IInv, Types
  <2>8. CASE ~Maps(t, i)
    <3>1. Here(i)' = Here(i)
      BY <2>6, <2>8 DEF One
    <3> QED
      BY <1>1, <3>1 DEF IInv, Data, Placed
  <2> QED
    BY <2>7, <2>8
<1>11. Turns'
  <2>1. \A v \in Threads : pc'[v] = "reducing" => pc[v] = "reducing" /\ block'[v] = block[v]
    BY <1>2, <1>5
  <2> QED
    BY <1>1, <2>1 DEF IInv, Data, Turns
<1>12. Prefix'
  BY <1>1, <1>9 DEF IInv, Data, Prefix
<1>13. Distinct' /\ Sizes'
  <2>1. \A v \in Threads : Stored(v)' = Stored(v)
    BY <1>1, <1>2 DEF Stored
  <2>2. Taken' = Taken /\ Pending' = Pending
    BY <1>1, <2>1 DEF Taken, Pending
  <2> QED
    BY <1>1, <2>2 DEF IInv, Data, Distinct, Sizes
<1> QED
  BY <1>3, <1>9, <1>10, <1>11, <1>12, <1>13 DEF IInv, Data

LEMMA AfterKeeps == ASSUME IInv, NEW t \in Threads, After(t) PROVE IInv'
<1>1. PICK there \in {"throttle", "function"} : pc' = [pc EXCEPT ![t] = there]
  BY DEF After, Goto
<1>2. /\ pc[t] = "after" /\ block' = [block EXCEPT ![t] = NoBlock] /\ future' = future
      /\ UNCHANGED <<mode, engine, input, reducer, suspends>>
  BY DEF After
<1>3. pc' \in [Threads -> Locations] /\ pc'[t] = there /\ Moves(t)
  BY <1>1 DEF IInv, Types, Locations, Moves
<1>4. Quiet'
  BY <1>2 DEF IInv, Control, Quiet, Resting
<1>5. future' \in Bits
  BY <1>2 DEF IInv, Types
<1> QED
  BY <1>1, <1>2, <1>3, <1>4, <1>5, DropKeeps

LEMMA ThrowKeeps == ASSUME IInv, NEW t \in Threads, Throw(t) PROVE IInv'
<1>1. /\ MayThrow /\ pc[t] = "iterate" /\ block' = [block EXCEPT ![t] = NoBlock]
      /\ pc' = [u \in Threads |-> IF u = t THEN "exit"
                                  ELSE IF pc[u] = "waiting" /\ ~future.canceled THEN "decide"
                                  ELSE pc[u]]
      /\ future' = IF future.canceled THEN future ELSE [future EXCEPT !.canceled = TRUE]
      /\ UNCHANGED <<mode, engine, input, reducer, suspends>>
  BY DEF Throw
<1>2. pc' \in [Threads -> Locations] /\ pc'[t] = "exit" /\ Moves(t)
  BY <1>1 DEF IInv, Types, Locations, Moves
<1>3. future' \in Bits /\ future'.finished = future.finished /\ future'.canceled
  BY <1>1 DEF IInv, Types, Bits
<1>4. Quiet'
  BY <1>3 DEF Quiet
<1> QED
  BY <1>1, <1>2, <1>3, <1>4, DropKeeps

-----------------------------------------------------------------------------
(* The reducer                                                             *)

LEMMA ItemsAre ==
  ASSUME NEW B \in SUBSET Chunk, NEW i \in Index
  PROVE  i \in Items(B) <=> \E b \in B : Has(b, i)
<1>1. \A b \in B : i \in b.begin..b.end-1 <=> Has(b, i)
  BY BlockFacts DEF Has
<1> QED
  BY <1>1 DEF Items

LEMMA Injects ==
  ASSUME NEW S, NEW T, NEW f \in [S -> T], \A x, y \in S : f[x] = f[y] => x = y
  PROVE  f \in Injection(S, T)
BY DEF Injection, IsInjective

LEMMA DisjointUnion ==
  ASSUME NEW S, NEW T, IsFiniteSet(S), IsFiniteSet(T), S \cap T = {}
  PROVE  Cardinality(S \cup T) = Cardinality(S) + Cardinality(T)
<1>1. Cardinality(S \cup T) = Cardinality(S) + Cardinality(T) - Cardinality({})
  BY FS_Union
<1>2. Cardinality(S) \in Nat /\ Cardinality(T) \in Nat
  BY FS_CardinalityType
<1> QED
  BY <1>1, <1>2, FS_EmptySet

\* As many blocks as indices, at most.
LEMMA TakenIsFinite ==
  ASSUME Types, Distinct
  PROVE  IsFiniteSet(Taken) /\ Cardinality(Taken) <= IterationCount
<1> DEFINE f == [b \in Taken |-> b.begin]
<1>1. Taken \subseteq Chunk
  BY DEF Taken, Types
<1>2. f \in [Taken -> Index] /\ \A x, y \in Taken : f[x] = f[y] => x = y
  BY <1>1, BlockFacts DEF Distinct
<1>3. IsFiniteSet(Index) /\ Cardinality(Index) = IterationCount
  <2>1. 0 \in Int /\ IterationCount - 1 \in Int /\ IterationCount \in Nat \ {0}
    BY BlockFacts
  <2> QED
    BY <2>1, FS_Interval DEF Index
<1> HIDE DEF f
<1>4. f \in Injection(Taken, Index)
  BY <1>2, Injects
<1> QED
  BY <1>3, <1>4, FS_Injection

LEMMA PendingIsFinite ==
  ASSUME Types, Distinct
  PROVE  /\ IsFiniteSet(Pending) /\ Cardinality(Pending) \in Nat
         /\ Cardinality(Pending) <= IterationCount
         /\ Pending \subseteq Taken
         /\ \A S \in SUBSET Taken : IsFiniteSet(S) /\ Cardinality(S) \in Nat
<1>1. Pending \in SUBSET Taken
  BY DEF Pending, Taken, Stored
<1>2. \A S \in SUBSET Taken : IsFiniteSet(S) /\ Cardinality(S) \in Nat /\ Cardinality(S) <= Cardinality(Taken)
  BY TakenIsFinite, FS_Subset, FS_CardinalityType
<1>3. Cardinality(Taken) \in Nat
  BY TakenIsFinite, FS_CardinalityType
<1> QED
  BY <1>1, <1>2, <1>3, TakenIsFinite, BlockFacts

\* The hands of all but the reducer are empty.
LEMMA OnlyHand ==
  ASSUME Flow, Turns, NEW t \in Threads, pc[t] = "reducing"
  PROVE  /\ \A u \in Threads \ {t} : pc[u] # "reducing" /\ hand[u] = {} /\ Stored(u) = {}
         /\ Taken = resultsMap \cup hand[t] /\ Pending = resultsMap \cup Stored(t)
<1>1. \A u \in Threads \ {t} : pc[u] # "reducing"
  BY DEF Turns
<1>2. \A u \in Threads \ {t} : hand[u] = {} /\ Stored(u) = {}
  BY <1>1 DEF Flow, Stored
<1> QED
  BY <1>1, <1>2 DEF Taken, Pending

LEMMA NoHand ==
  ASSUME Flow, \A u \in Threads : pc[u] # "reducing"
  PROVE  /\ \A u \in Threads : hand[u] = {} /\ Stored(u) = {}
         /\ Taken = resultsMap /\ Pending = resultsMap
<1>1. \A u \in Threads : hand[u] = {} /\ Stored(u) = {}
  BY DEF Flow, Stored
<1> QED
  BY <1>1 DEF Taken, Pending

\* A block that is mapped is none of the reducer's.
LEMMA MappedIsFresh ==
  ASSUME Types, Flow, Placed, ~Over, NEW t \in Threads, pc[t] = "iterate"
  PROVE  /\ block[t] \in Chunk
         /\ \A b \in Taken, i \in Index : ~(Has(b, i) /\ Has(block[t], i))
         /\ block[t] \notin Taken /\ reduced[block[t].begin] = 0
<1>1. block[t] \in Chunk
  BY DEF Flow, Laden
<1>2. ASSUME NEW b \in Taken, NEW i \in Index, Has(b, i), Has(block[t], i)
      PROVE  FALSE
  <2>1. Maps(t, i)
    BY <1>2 DEF Maps, Mapping
  <2>2. ~Kept(i) /\ \A u \in Threads : ~Hands(u, i)
    BY <2>1, MappedIsNowhereElse
  <2>3. \A u \in Threads : b \notin hand[u]
    BY <1>2, <2>2 DEF Hands
  <2>4. b \in resultsMap
    BY <2>3 DEF Taken
  <2> QED
    BY <1>2, <2>2, <2>3, <2>4 DEF Kept
<1>3. block[t].begin \in Index /\ Has(block[t], block[t].begin)
  BY <1>1, BlockFacts
<1>4. block[t] \notin Taken
  BY <1>2, <1>3
<1>5. Maps(t, block[t].begin)
  BY <1>3 DEF Maps, Mapping
<1>6. reduced[block[t].begin] = 0
  BY <1>3, <1>5, MappedIsNowhereElse
<1> QED
  BY <1>1, <1>2, <1>4, <1>6

\* The control of the steps of runReduce().
LEMMA ReduceControl ==
  ASSUME IInv, NEW t \in Threads, NEW there \in {"after", "reducing"}, NEW H \in SUBSET Chunk,
         pc[t] \in {"iterate", "reducing"}, pc' = [pc EXCEPT ![t] = there],
         hand' = [hand EXCEPT ![t] = H], there = "reducing" <=> H # {},
         UNCHANGED <<mode, engine, block, input, future, suspends>>,
         resultsMap' \subseteq Chunk, progress' \in Int, resultsMapSize' \in Int,
         reduced' \in [Index -> Nat]
  PROVE  /\ Types' /\ Control' /\ ~Over /\ ~Over' /\ block[t] \in Chunk
         /\ pc'[t] = there /\ \A v \in Threads \ {t} : pc'[v] = pc[v]
         /\ hand'[t] = H /\ \A v \in Threads \ {t} : hand'[v] = hand[v]
         /\ ordered' = ordered /\ block' = block /\ currentIndex' = currentIndex /\ future' = future
<1>1. /\ forIteration' = forIteration /\ ordered' = ordered /\ queued' = queued /\ count' = count
      /\ block' = block /\ currentIndex' = currentIndex /\ iteratorThreads' = iteratorThreads
      /\ future' = future /\ suspends' = suspends
  BY DEF mode, engine, input
<1>2. /\ pc'[t] = there /\ \A v \in Threads \ {t} : pc'[v] = pc[v]
      /\ hand'[t] = H /\ \A v \in Threads \ {t} : hand'[v] = hand[v]
      /\ block[t] \in Chunk
  BY DEF IInv, Types, Control, Flow, Laden
<1>3. Types'
  BY <1>1 DEF IInv, Types, Locations
<1>4. Moves(t) /\ pc[t] \notin Outside /\ pc'[t] \notin Outside
  BY <1>2 DEF Moves, Outside
<1>5. Flow'
  BY <1>1, <1>2 DEF IInv, Control, Flow, Laden
<1>6. Quiet'
  BY <1>1 DEF IInv, Control, Quiet, Resting
<1>7. count' = count + One(pc'[t] = "tryStart") - One(pc[t] = "tryStart")
  BY <1>1, <1>2 DEF One, IInv, Types
<1>8. Overshoot'
  BY <1>1, <1>2, OvershootKeeps DEF IInv, Control
<1>9. currentIndex' >= currentIndex
  BY <1>1, BlockFacts DEF IInv, Types
<1>10. Control' /\ (Over <=> FALSE) /\ (Over' <=> FALSE)
  BY <1>1, <1>2, <1>3, <1>4, <1>5, <1>6, <1>7, <1>8, <1>9, InnerControl DEF IInv
<1> QED
  BY <1>1, <1>2, <1>3, <1>10

\* Where nothing is lost, everything stays placed.
LEMMA PlacedKeeps ==
  ASSUME Placed, \A i \in Index : Here(i)' = Here(i), currentIndex' = currentIndex, future' = future
  PROVE  Placed'
BY DEF Placed

LEMMA KeepKeeps == ASSUME IInv, NEW t \in Threads, Keep(t) PROVE IInv'
<1> DEFINE c == block[t]
<1>1. /\ pc[t] = "iterate" /\ pc' = [pc EXCEPT ![t] = "after"] /\ hand' = hand
      /\ resultsMapSize' = resultsMapSize + 1 /\ resultsMap' = resultsMap \cup {c}
      /\ progress' = progress /\ reduced' = reduced /\ hand[t] = {}
      /\ UNCHANGED <<mode, engine, block, input, future, suspends>>
  BY DEF Keep, Goto, IInv, Control, Flow
<1>2. /\ Types' /\ Control' /\ ~Over /\ ~Over' /\ c \in Chunk
      /\ pc'[t] = "after" /\ \A v \in Threads \ {t} : pc'[v] = pc[v]
      /\ ordered' = ordered /\ block' = block /\ currentIndex' = currentIndex /\ future' = future
  <2>1. hand' = [hand EXCEPT ![t] = {}]
    BY <1>1 DEF IInv, Types
  <2>2. c \in Chunk
    BY <1>1 DEF IInv, Control, Flow, Laden
  <2>3. resultsMap' \subseteq Chunk /\ progress' \in Int /\ resultsMapSize' \in Int
        /\ reduced' \in [Index -> Nat]
    BY <1>1, <2>2 DEF IInv, Types
  <2> QED
    BY <1>1, <2>1, <2>2, <2>3, ReduceControl
<1>3. /\ \A b \in Taken, i \in Index : ~(Has(b, i) /\ Has(c, i))
      /\ c \notin Taken /\ reduced[c.begin] = 0
  BY <1>1, <1>2, MappedIsFresh DEF IInv, Control, Data
<1> HIDE DEF c
<1>4. Placed'
  <2> SUFFICES ASSUME NEW i \in Index PROVE Here(i)' = Here(i)
    BY <1>2, PlacedKeeps DEF IInv, Data
  <2>1. /\ ~Maps(t, i)' /\ (Maps(t, i) <=> Has(c, i))
        /\ \A v \in Threads \ {t} : Maps(v, i)' <=> Maps(v, i)
    BY <1>1, <1>2 DEF Maps, Mapping, c
  <2>2. \A v \in Threads : Hands(v, i)' <=> Hands(v, i)
    BY <1>1 DEF Hands
  <2>3. Kept(i)' <=> Kept(i) \/ Has(c, i)
    <3>1. \A u \in Threads : c \notin hand[u]
      BY <1>3 DEF Taken
    <3> QED
      BY <1>1, <1>2, <3>1 DEF Kept
  <2>4. Has(c, i) => ~Kept(i)
    BY <2>1, MappedIsNowhereElse DEF IInv, Data
  <2>5. /\ Cardinality(Mappers(i)') = Cardinality(Mappers(i)) + One(Maps(t, i)') - One(Maps(t, i))
        /\ Cardinality(Handlers(i)') = Cardinality(Handlers(i)) + One(Hands(t, i)') - One(Hands(t, i))
        /\ Here(i)' = reduced'[i] + Cardinality(Mappers(i)') + Cardinality(Handlers(i)') + One(Kept(i)')
    BY <2>1, <2>2, HereAfter
  <2>6. /\ One(Maps(t, i)') = 0 /\ One(Maps(t, i)) = One(Has(c, i)) /\ One(Has(c, i)) \in 0..1
        /\ One(Hands(t, i)') = One(Hands(t, i)) /\ One(Hands(t, i)) \in 0..1
        /\ One(Kept(i)') = One(Kept(i)) + One(Has(c, i))
    BY <2>1, <2>2, <2>3, <2>4 DEF One
  <2> QED
    BY <1>1, <2>5, <2>6, HereFacts DEF IInv, Here
<1>5. Turns'
  <2>1. \A u \in Threads : pc'[u] = "reducing" => pc[u] = "reducing" /\ u # t
    BY <1>1, <1>2
  <2>2. \A u \in Threads : c \notin hand[u]
    BY <1>3 DEF Taken
  <2>3. \A u \in Threads : pc[u] = "reducing" => block[u] # c
    BY <1>3, <2>2 DEF IInv, Data, Turns
  <2> QED
    BY <1>1, <1>2, <2>1, <2>2, <2>3 DEF IInv, Data, Turns
<1>6. Prefix'
  BY <1>1, <1>2 DEF IInv, Data, Prefix
<1>7. /\ Taken' = Taken \cup {c} /\ Pending' = Pending \cup {c}
  <2>1. \A v \in Threads : Stored(v)' = Stored(v)
    BY <1>1, <1>2 DEF Stored
  <2> QED
    BY <1>1, <2>1 DEF Taken, Pending
<1>8. Distinct'
  BY <1>3, <1>7 DEF IInv, Data, Distinct
<1>9. Sizes'
  <2>1. IsFiniteSet(Pending) /\ c \notin Pending /\ Cardinality(Pending) \in Nat
    BY <1>3, PendingIsFinite DEF IInv, Data
  <2>2. Cardinality(Pending \cup {c}) = Cardinality(Pending) + 1
    BY <2>1, FS_AddElement
  <2> QED
    BY <1>1, <1>7, <2>2 DEF IInv, Data, Sizes
<1> QED
  BY <1>2, <1>4, <1>5, <1>6, <1>8, <1>9 DEF IInv, Data

LEMMA BeginReduceKeeps == ASSUME IInv, NEW t \in Threads, BeginReduce(t) PROVE IInv'
<1> DEFINE c == block[t]
<1>1. /\ pc[t] = "iterate" /\ pc' = [pc EXCEPT ![t] = "reducing"] /\ hand' = [hand EXCEPT ![t] = {c}]
      /\ resultsMapSize' = resultsMapSize /\ resultsMap' = resultsMap
      /\ progress = (IF ordered THEN c.begin ELSE 0)
      /\ progress' = (IF ordered THEN progress ELSE -1) /\ reduced' = reduced
      /\ UNCHANGED <<mode, engine, block, input, future, suspends>>
  BY DEF BeginReduce, CanReduce, MarkBusy, Goto
<1>2. /\ Types' /\ Control' /\ ~Over /\ ~Over' /\ c \in Chunk
      /\ pc'[t] = "reducing" /\ \A v \in Threads \ {t} : pc'[v] = pc[v]
      /\ hand'[t] = {c} /\ \A v \in Threads \ {t} : hand'[v] = hand[v]
      /\ ordered' = ordered /\ block' = block /\ currentIndex' = currentIndex /\ future' = future
  <2>1. c \in Chunk
    BY <1>1 DEF IInv, Control, Flow, Laden
  <2>2. resultsMap' \subseteq Chunk /\ progress' \in Int /\ resultsMapSize' \in Int
        /\ reduced' \in [Index -> Nat]
    BY <1>1 DEF IInv, Types
  <2>3. {c} # {} /\ {c} \in SUBSET Chunk
    BY <2>1
  <2> HIDE DEF c
  <2> QED
    BY <1>1, <2>1, <2>2, <2>3, ReduceControl
<1>3. /\ \A b \in Taken, i \in Index : ~(Has(b, i) /\ Has(c, i))
      /\ c \notin Taken /\ reduced[c.begin] = 0
  BY <1>1, <1>2, MappedIsFresh DEF IInv, Control, Data
<1> HIDE DEF c
<1>4. \A u \in Threads : pc[u] # "reducing"
  <2> SUFFICES ASSUME NEW u \in Threads, pc[u] = "reducing" PROVE FALSE
    OBVIOUS
  <2>1. ordered
    BY <1>1 DEF IInv, Data, Turns
  <2>2. PICK b \in Chunk : hand[u] = {b} /\ b.begin = progress
    BY <2>1 DEF IInv, Data, Turns
  <2>3. b \in Taken /\ b.begin = c.begin
    BY <1>1, <2>1, <2>2 DEF Taken
  <2>4. b.begin \in Index /\ Has(b, b.begin) /\ Has(c, c.begin)
    BY <1>2, BlockFacts
  <2> QED
    BY <1>3, <2>3, <2>4
<1>5. /\ \A u \in Threads : hand[u] = {} /\ Stored(u) = {}
      /\ Taken = resultsMap /\ Pending = resultsMap
  BY <1>4, NoHand DEF IInv, Control
<1>6. \A v \in Threads \ {t} : pc'[v] # "reducing"
  BY <1>2, <1>4
<1>7. Placed'
  <2> SUFFICES ASSUME NEW i \in Index PROVE Here(i)' = Here(i)
    BY <1>2, PlacedKeeps DEF IInv, Data
  <2>1. /\ ~Maps(t, i)' /\ (Maps(t, i) <=> Has(c, i))
        /\ \A v \in Threads \ {t} : Maps(v, i)' <=> Maps(v, i)
    BY <1>1, <1>2 DEF Maps, Mapping, c
  <2>2. /\ ~Hands(t, i) /\ (Hands(t, i)' <=> Has(c, i))
        /\ \A v \in Threads \ {t} : Hands(v, i)' <=> Hands(v, i)
    BY <1>2, <1>5 DEF Hands
  <2>3. Kept(i)' <=> Kept(i)
    <3>1. \A b \in resultsMap, u \in Threads : b \notin hand'[u] /\ b \notin hand[u]
      BY <1>2, <1>3, <1>5
    <3> QED
      BY <1>1, <1>2, <3>1 DEF Kept
  <2>4. /\ Cardinality(Mappers(i)') = Cardinality(Mappers(i)) + One(Maps(t, i)') - One(Maps(t, i))
        /\ Cardinality(Handlers(i)') = Cardinality(Handlers(i)) + One(Hands(t, i)') - One(Hands(t, i))
        /\ Here(i)' = reduced'[i] + Cardinality(Mappers(i)') + Cardinality(Handlers(i)') + One(Kept(i)')
    BY <2>1, <2>2, HereAfter
  <2>5. /\ One(Maps(t, i)') = 0 /\ One(Maps(t, i)) = One(Has(c, i)) /\ One(Has(c, i)) \in 0..1
        /\ One(Hands(t, i)') = One(Has(c, i)) /\ One(Hands(t, i)) = 0
        /\ One(Kept(i)') = One(Kept(i))
    BY <2>1, <2>2, <2>3 DEF One
  <2> QED
    BY <1>1, <2>4, <2>5, HereFacts DEF IInv, Here
<1>8. Turns'
  <2>1. \A u, v \in Threads : pc'[u] = "reducing" /\ pc'[v] = "reducing" => u = v
    BY <1>6
  <2>2. c \notin resultsMap' /\ block'[t] = c /\ hand'[t] = {c}
    BY <1>1, <1>2, <1>3, <1>5 DEF c
  <2>3. CASE ordered
    <3>1. progress' \in 0..IterationCount /\ c.begin = progress'
      BY <1>1, <2>3 DEF IInv, Data, Turns
    <3> QED
      BY <1>2, <1>6, <2>1, <2>2, <2>3, <3>1 DEF Turns
  <2>4. CASE ~ordered
    <3>1. progress' = -1
      BY <1>1, <2>4
    <3> QED
      BY <1>2, <1>6, <2>1, <2>2, <2>4, <3>1 DEF Turns
  <2> QED
    BY <2>3, <2>4
<1>9. Prefix'
  BY <1>1, <1>2 DEF IInv, Data, Prefix
<1>10. /\ Taken' = Taken \cup {c} /\ Pending' = Pending
  <2>1. \A v \in Threads : Stored(v)' = {}
    BY <1>2, <1>5 DEF Stored, c
  <2>2. UNION {hand'[v] : v \in Threads} = {c}
    BY <1>2, <1>5
  <2> QED
    BY <1>1, <1>5, <2>1, <2>2 DEF Taken, Pending
<1>11. Distinct'
  BY <1>3, <1>10 DEF IInv, Data, Distinct
<1>12. Sizes'
  BY <1>1, <1>10 DEF IInv, Data, Sizes
<1> QED
  BY <1>2, <1>7, <1>8, <1>9, <1>11, <1>12 DEF IInv, Data

\* What a reducer has in hand is reduced.
LEMMA ApplyAdds ==
  ASSUME Types, NEW t \in Threads, Apply(t)
  PROVE  /\ reduced' \in [Index -> Nat]
         /\ \A i \in Index : reduced'[i] = reduced[i] + One(Hands(t, i))
<1>1. \A i \in Index : i \in Items(hand[t]) <=> Hands(t, i)
  BY ItemsAre DEF Types, Hands
<1>2. \A i \in Index : reduced'[i] = reduced[i] + One(Hands(t, i))
  BY <1>1 DEF Apply, One
<1>3. reduced' = [i \in Index |-> reduced[i] + (IF i \in Items(hand[t]) THEN 1 ELSE 0)]
  BY DEF Apply
<1>4. \A i \in Index : reduced[i] + (IF i \in Items(hand[t]) THEN 1 ELSE 0) \in Nat
  BY DEF Types
<1>5. reduced' \in [Index -> Nat]
  BY <1>3, <1>4
<1> QED
  BY <1>2, <1>5

LEMMA ReduceStoredKeeps == ASSUME IInv, NEW t \in Threads, ReduceStored(t) PROVE IInv'
<1> DEFINE there == IF resultsMap = {} THEN "after" ELSE "reducing"
<1>1. /\ pc[t] = "reducing" /\ ~ordered /\ pc' = [pc EXCEPT ![t] = there]
      /\ hand' = [hand EXCEPT ![t] = resultsMap] /\ resultsMap' = {}
      /\ resultsMapSize' = resultsMapSize - Cardinality(Stored(t))
      /\ progress' = (IF resultsMap = {} THEN 0 ELSE progress)
      /\ UNCHANGED <<mode, engine, block, input, future, suspends>>
  <2>1. pc[t] = "reducing" => pc = [pc EXCEPT ![t] = "reducing"]
    BY DEF IInv, Types
  <2> QED
    BY <2>1 DEF ReduceStored, Goto
<1>2. /\ reduced' \in [Index -> Nat]
      /\ \A i \in Index : reduced'[i] = reduced[i] + One(Hands(t, i))
  BY ApplyAdds DEF IInv, ReduceStored
<1>3. /\ \A u \in Threads \ {t} : pc[u] # "reducing" /\ hand[u] = {} /\ Stored(u) = {}
      /\ Taken = resultsMap \cup hand[t] /\ Pending = resultsMap \cup Stored(t)
  BY <1>1, OnlyHand DEF IInv, Control, Data
<1>4. /\ progress = -1 /\ hand[t] \cap resultsMap = {} /\ block[t] \notin resultsMap
      /\ block[t] \in hand[t] \/ reduced[block[t].begin] > 0
  BY <1>1 DEF IInv, Data, Turns
<1>5. /\ Types' /\ Control' /\ ~Over /\ ~Over' /\ block[t] \in Chunk
      /\ pc'[t] = there /\ \A v \in Threads \ {t} : pc'[v] = pc[v]
      /\ hand'[t] = resultsMap /\ \A v \in Threads \ {t} : hand'[v] = hand[v]
      /\ ordered' = ordered /\ block' = block /\ currentIndex' = currentIndex /\ future' = future
  <2>1. resultsMap' \subseteq Chunk /\ progress' \in Int /\ resultsMap \in SUBSET Chunk
    BY <1>1, <1>4 DEF IInv, Types
  <2>2. there \in {"after", "reducing"} /\ (there = "reducing" <=> resultsMap # {})
    OBVIOUS
  <2>3. resultsMapSize' \in Int
    <3>1. Stored(t) \in SUBSET Taken
      BY <1>3 DEF Stored
    <3>2. Cardinality(Stored(t)) \in Nat
      BY <3>1, PendingIsFinite DEF IInv, Data
    <3> QED
      BY <1>1, <3>2 DEF IInv, Types
  <2> HIDE DEF there
  <2> QED
    BY <1>1, <1>2, <2>1, <2>2, <2>3, ReduceControl
<1>6. there \in {"after", "reducing"} /\ (there = "reducing" <=> resultsMap # {})
  OBVIOUS
<1> HIDE DEF there
<1>7. Placed'
  <2> SUFFICES ASSUME NEW i \in Index PROVE Here(i)' = Here(i)
    BY <1>5, PlacedKeeps DEF IInv, Data
  <2>1. \A v \in Threads : Maps(v, i)' <=> Maps(v, i)
    BY <1>1, <1>5, <1>6 DEF Maps, Mapping
  <2>2. \A v \in Threads \ {t} : Hands(v, i)' <=> Hands(v, i)
    BY <1>5 DEF Hands
  <2>3. ~Kept(i)'
    BY <1>1 DEF Kept
  <2>4. Hands(t, i)' <=> Kept(i)
    <3>1. \A b \in resultsMap, u \in Threads : b \notin hand[u]
      BY <1>3, <1>4
    <3> QED
      BY <1>5, <3>1 DEF Hands, Kept
  <2>5. /\ Cardinality(Mappers(i)') = Cardinality(Mappers(i)) + One(Maps(t, i)') - One(Maps(t, i))
        /\ Cardinality(Handlers(i)') = Cardinality(Handlers(i)) + One(Hands(t, i)') - One(Hands(t, i))
        /\ Here(i)' = reduced'[i] + Cardinality(Mappers(i)') + Cardinality(Handlers(i)') + One(Kept(i)')
    BY <2>1, <2>2, HereAfter
  <2>6. /\ One(Maps(t, i)') = One(Maps(t, i)) /\ One(Maps(t, i)) \in 0..1
        /\ One(Hands(t, i)') = One(Kept(i)) /\ One(Hands(t, i)) \in 0..1
        /\ One(Kept(i)') = 0
    BY <2>1, <2>3, <2>4 DEF One
  <2> QED
    BY <1>2, <2>5, <2>6, HereFacts DEF IInv, Here
<1>8. reduced'[block[t].begin] > 0
  <2>1. block[t].begin \in Index /\ Has(block[t], block[t].begin)
    BY <1>5, BlockFacts
  <2>2. block[t] \in hand[t] => One(Hands(t, block[t].begin)) = 1
    BY <2>1 DEF Hands, One
  <2>3. One(Hands(t, block[t].begin)) \in 0..1 /\ reduced[block[t].begin] \in Nat
    BY <2>1 DEF One, IInv, Types
  <2>4. reduced'[block[t].begin] = reduced[block[t].begin] + One(Hands(t, block[t].begin))
    BY <1>2, <2>1
  <2> QED
    BY <1>4, <2>2, <2>3, <2>4
<1>9. Turns'
  <2>1. \A v \in Threads : pc'[v] = "reducing" => v = t /\ progress' = -1
    BY <1>1, <1>3, <1>4, <1>5, <1>6
  <2>2. progress' \in {-1, 0}
    BY <1>1, <1>4
  <2> QED
    BY <1>1, <1>5, <1>8, <2>1, <2>2 DEF Turns
<1>10. Prefix'
  BY <1>1, <1>5 DEF Prefix
<1>11. Taken' = resultsMap /\ Pending' = resultsMap
  <2>1. Stored(t)' = resultsMap /\ \A v \in Threads \ {t} : Stored(v)' = {}
    BY <1>3, <1>4, <1>5 DEF Stored
  <2> QED
    BY <1>1, <1>3, <1>5, <2>1 DEF Taken, Pending
<1>12. Distinct'
  BY <1>3, <1>11 DEF IInv, Data, Distinct
<1>13. Sizes'
  <2>1. /\ IsFiniteSet(resultsMap) /\ Cardinality(resultsMap) \in Nat
        /\ IsFiniteSet(Stored(t)) /\ Cardinality(Stored(t)) \in Nat
    <3>1. Stored(t) \in SUBSET Taken /\ resultsMap \in SUBSET Taken
      BY <1>3 DEF Stored
    <3> QED
      BY <3>1, PendingIsFinite DEF IInv, Data
  <2>2. resultsMap \cap Stored(t) = {}
    BY <1>4 DEF Stored
  <2>3. Cardinality(Pending) = Cardinality(resultsMap) + Cardinality(Stored(t))
    BY <1>3, <2>1, <2>2, DisjointUnion
  <2> QED
    BY <1>1, <1>11, <2>1, <2>3 DEF IInv, Data, Sizes
<1> QED
  BY <1>5, <1>7, <1>9, <1>10, <1>12, <1>13 DEF IInv, Data

\* The next block is the one of the map that starts where the last one ends.
LEMMA ReduceNextSteps ==
  ASSUME IInv, NEW t \in Threads, ReduceNext(t)
  PROVE  \E b \in Chunk, next \in SUBSET resultsMap, there \in {"after", "reducing"} :
           /\ b \notin next /\ hand[t] = {b} /\ b.begin = progress /\ progress' = b.end
           /\ resultsMap' = resultsMap \ {b}
           /\ resultsMapSize' = resultsMapSize - Cardinality(Stored(t))
           /\ hand' = [hand EXCEPT ![t] = next]
           /\ there = "reducing" <=> next # {}
           /\ pc' = [pc EXCEPT ![t] = there]
           /\ \A x \in next : x.begin = progress' /\ next = {x}
<1>1. PICK b \in Chunk : hand[t] = {b} /\ b.begin = progress
  BY DEF ReduceNext, IInv, Data, Turns
<1>2. (CHOOSE x \in hand[t] : TRUE) = b
  BY <1>1
<1> DEFINE rest == resultsMap \ hand[t]
           it   == IF Stored(t) = {} THEN rest ELSE {x \in rest : x.begin > b.begin}
           next == FirstAt(it, progress')
           there == IF next = {} THEN "after" ELSE "reducing"
<1>3. /\ progress' = progress + b.end - b.begin /\ resultsMap' = rest
      /\ resultsMapSize' = resultsMapSize - Cardinality(Stored(t))
      /\ hand' = [hand EXCEPT ![t] = next]
      /\ IF next = {} THEN pc' = [pc EXCEPT ![t] = "after"] ELSE pc' = pc
  BY <1>2 DEF ReduceNext, Goto
<1>4. progress' = b.end
  BY <1>1, <1>3, BlockFacts
<1>5. pc' = [pc EXCEPT ![t] = there]
  <2>1. pc = [pc EXCEPT ![t] = "reducing"]
    BY DEF ReduceNext, IInv, Types
  <2> HIDE DEF next
  <2> QED
    BY <1>3, <2>1
<1>6. next \in SUBSET resultsMap /\ b \notin next /\ \A x \in next : x.begin = progress'
  BY <1>1 DEF FirstAt
<1>7. \A x \in next : next = {x}
  <2> SUFFICES ASSUME NEW x \in next, NEW y \in next PROVE x = y
    OBVIOUS
  <2>1. x \in Taken /\ y \in Taken /\ x \in Chunk /\ y \in Chunk /\ x.begin = y.begin
    BY <1>6 DEF Taken, IInv, Types
  <2>2. x.begin \in Index /\ Has(x, x.begin) /\ Has(y, x.begin)
    BY <2>1, BlockFacts
  <2> QED
    BY <2>1, <2>2 DEF IInv, Data, Distinct
<1>8. there \in {"after", "reducing"} /\ (there = "reducing" <=> next # {})
  OBVIOUS
<1>9. resultsMap' = resultsMap \ {b}
  BY <1>1, <1>3
<1> HIDE DEF next, there
<1> QED
  BY <1>1, <1>3, <1>4, <1>5, <1>6, <1>7, <1>8, <1>9

LEMMA ReduceNextKeeps == ASSUME IInv, NEW t \in Threads, ReduceNext(t) PROVE IInv'
<1>1. PICK b \in Chunk, next \in SUBSET resultsMap, there \in {"after", "reducing"} :
        /\ b \notin next /\ hand[t] = {b} /\ b.begin = progress /\ progress' = b.end
        /\ resultsMap' = resultsMap \ {b}
        /\ resultsMapSize' = resultsMapSize - Cardinality(Stored(t))
        /\ hand' = [hand EXCEPT ![t] = next]
        /\ there = "reducing" <=> next # {}
        /\ pc' = [pc EXCEPT ![t] = there]
        /\ \A x \in next : x.begin = progress' /\ next = {x}
  BY ReduceNextSteps
<1>2. /\ pc[t] = "reducing" /\ ordered
      /\ UNCHANGED <<mode, engine, block, input, future, suspends>>
  BY DEF ReduceNext
<1>3. /\ reduced' \in [Index -> Nat]
      /\ \A i \in Index : reduced'[i] = reduced[i] + One(Hands(t, i))
  BY ApplyAdds DEF IInv, ReduceNext
<1>4. /\ \A u \in Threads \ {t} : pc[u] # "reducing" /\ hand[u] = {} /\ Stored(u) = {}
      /\ Taken = resultsMap \cup {b} /\ Pending = resultsMap \cup Stored(t)
  BY <1>1, <1>2, OnlyHand DEF IInv, Control, Data
<1>5. /\ b = block[t] \/ b \in resultsMap
      /\ block[t] \notin resultsMap
      /\ block[t] = b \/ reduced[block[t].begin] > 0
  BY <1>1, <1>2 DEF IInv, Data, Turns
<1>6. b.begin \in Index /\ b.begin \in Nat /\ b.end \in Nat /\ b.begin < b.end /\ b.end <= IterationCount
  BY BlockFacts
<1>7. /\ Types' /\ Control' /\ ~Over /\ ~Over' /\ block[t] \in Chunk
      /\ pc'[t] = there /\ \A v \in Threads \ {t} : pc'[v] = pc[v]
      /\ hand'[t] = next /\ \A v \in Threads \ {t} : hand'[v] = hand[v]
      /\ ordered' = ordered /\ block' = block /\ currentIndex' = currentIndex /\ future' = future
  <2>1. resultsMap' \subseteq Chunk /\ progress' \in Int /\ next \in SUBSET Chunk
    BY <1>1, <1>6 DEF IInv, Types
  <2>2. resultsMapSize' \in Int
    <3>1. Stored(t) \in SUBSET Taken
      BY <1>1, <1>4 DEF Stored
    <3>2. Cardinality(Stored(t)) \in Nat
      BY <3>1, PendingIsFinite DEF IInv, Data
    <3> QED
      BY <1>1, <3>2 DEF IInv, Types
  <2> QED
    BY <1>1, <1>2, <1>3, <2>1, <2>2, ReduceControl
<1>8. \A i \in Index : Hands(t, i) <=> Has(b, i)
  BY <1>1 DEF Hands
<1>9. Placed'
  <2> SUFFICES ASSUME NEW i \in Index PROVE Here(i)' = Here(i)
    BY <1>7, PlacedKeeps DEF IInv, Data
  <2>1. \A v \in Threads : Maps(v, i)' <=> Maps(v, i)
    BY <1>2, <1>7 DEF Maps, Mapping
  <2>2. \A v \in Threads \ {t} : Hands(v, i)' <=> Hands(v, i)
    BY <1>7 DEF Hands
  <2>3. Kept(i) <=> \E x \in resultsMap \ {b} : Has(x, i)
    <3>1. \A x \in resultsMap : (\A u \in Threads : x \notin hand[u]) <=> x # b
      BY <1>1, <1>4
    <3> QED
      BY <1>7, <3>1 DEF Kept
  <2>4. Kept(i)' <=> \E x \in (resultsMap \ {b}) \ next : Has(x, i)
    <3>1. \A x : (\A u \in Threads : x \notin hand'[u]) <=> x \notin next
      BY <1>4, <1>7
    <3> QED
      BY <1>1, <1>7, <3>1 DEF Kept
  <2>5. Hands(t, i)' <=> \E x \in next : Has(x, i)
    BY <1>7 DEF Hands
  <2>6. \A x, y \in resultsMap : Has(x, i) /\ Has(y, i) => x = y
    BY <1>4 DEF IInv, Data, Distinct
  <2>7. One(Hands(t, i)') + One(Kept(i)') = One(Kept(i))
    <3>1. Kept(i) <=> Hands(t, i)' \/ Kept(i)'
      BY <1>1, <2>3, <2>4, <2>5
    <3>2. ~(Hands(t, i)' /\ Kept(i)')
      BY <1>1, <2>4, <2>5, <2>6
    <3>3. CASE Hands(t, i)'
      BY <3>1, <3>2, <3>3 DEF One
    <3>4. CASE ~Hands(t, i)'
      BY <3>1, <3>2, <3>4 DEF One
    <3> QED
      BY <3>3, <3>4
  <2>8. /\ Cardinality(Mappers(i)') = Cardinality(Mappers(i)) + One(Maps(t, i)') - One(Maps(t, i))
        /\ Cardinality(Handlers(i)') = Cardinality(Handlers(i)) + One(Hands(t, i)') - One(Hands(t, i))
        /\ Here(i)' = reduced'[i] + Cardinality(Mappers(i)') + Cardinality(Handlers(i)') + One(Kept(i)')
    BY <2>1, <2>2, HereAfter
  <2>9. /\ One(Maps(t, i)') = One(Maps(t, i)) /\ One(Maps(t, i)) \in 0..1
        /\ One(Hands(t, i)') \in 0..1 /\ One(Hands(t, i)) \in 0..1
        /\ One(Kept(i)') \in 0..1
    BY <2>1 DEF One
  <2>10. reduced'[i] = reduced[i] + One(Hands(t, i))
    BY <1>3
  <2> QED
    BY <2>7, <2>8, <2>9, <2>10, HereFacts DEF IInv, Here
<1>10. reduced'[block[t].begin] > 0
  <2>1. block[t].begin \in Index /\ Has(block[t], block[t].begin)
    BY <1>7, BlockFacts
  <2>2. block[t] = b => One(Hands(t, block[t].begin)) = 1
    BY <1>8, <2>1 DEF One
  <2>3. One(Hands(t, block[t].begin)) \in 0..1 /\ reduced[block[t].begin] \in Nat
    BY <2>1 DEF One, IInv, Types
  <2>4. reduced'[block[t].begin] = reduced[block[t].begin] + One(Hands(t, block[t].begin))
    BY <1>3, <2>1
  <2> QED
    BY <1>5, <2>2, <2>3, <2>4
<1>11. Turns'
  <2>1. \A v \in Threads : pc'[v] = "reducing" => v = t /\ next # {}
    BY <1>1, <1>4, <1>7
  <2>2. progress' \in 0..IterationCount
    BY <1>1, <1>6, BlockFacts
  <2>3. next # {} => \E x \in Chunk : next = {x} /\ x.begin = progress' /\ x \in resultsMap'
    BY <1>1 DEF IInv, Types
  <2>4. block[t] \notin resultsMap'
    BY <1>1, <1>5
  <2> QED
    BY <1>2, <1>7, <1>10, <2>1, <2>2, <2>3, <2>4 DEF Turns
<1>12. Prefix'
  <2> SUFFICES ASSUME NEW i \in Index
               PROVE  reduced'[i] = IF i < progress' THEN 1 ELSE 0
    BY <1>7 DEF Prefix
  <2>1. reduced[i] = IF i < progress THEN 1 ELSE 0
    BY <1>2, <1>7 DEF IInv, Data, Prefix
  <2>2. One(Hands(t, i)) = IF b.begin <= i /\ i < b.end THEN 1 ELSE 0
    BY <1>8 DEF One, Has
  <2>3. i \in Nat /\ reduced'[i] = reduced[i] + One(Hands(t, i))
    BY <1>3, BlockFacts
  <2> QED
    BY <1>1, <1>6, <2>1, <2>2, <2>3
<1>13. Taken' = resultsMap \ {b} /\ Pending' = resultsMap \ {b}
  <2>1. /\ \A v \in Threads \ {t} : hand'[v] = {} /\ Stored(v)' = {}
        /\ Stored(t)' \subseteq resultsMap \ {b}
    BY <1>1, <1>4, <1>7 DEF Stored
  <2> QED
    BY <1>1, <1>7, <2>1 DEF Taken, Pending
<1>14. Distinct'
  BY <1>4, <1>13 DEF IInv, Data, Distinct
<1>15. Sizes'
  <2>1. IsFiniteSet(resultsMap) /\ Cardinality(resultsMap) \in Nat
    BY <1>4, PendingIsFinite DEF IInv, Data
  <2>2. CASE b = block[t]
    <3>1. Stored(t) = {} /\ b \notin resultsMap
      BY <1>1, <1>5, <2>2 DEF Stored
    <3>2. Pending = resultsMap /\ Pending' = resultsMap
      BY <1>4, <1>13, <3>1
    <3>3. resultsMapSize' = resultsMapSize
      BY <1>1, <3>1, FS_EmptySet DEF IInv, Types
    <3> QED
      BY <3>2, <3>3 DEF IInv, Data, Sizes
  <2>3. CASE b # block[t]
    <3>1. Stored(t) = {b} /\ b \in resultsMap
      BY <1>1, <1>5, <2>3 DEF Stored
    <3>2. Pending = resultsMap /\ Pending' = resultsMap \ {b}
      BY <1>4, <1>13, <3>1
    <3>3. Cardinality(resultsMap \ {b}) = Cardinality(resultsMap) - 1 /\ Cardinality({b}) = 1
      BY <2>1, <3>1, FS_RemoveElement, FS_Singleton
    <3> QED
      BY <1>1, <3>1, <3>2, <3>3 DEF IInv, Data, Sizes
  <2> QED
    BY <2>2, <2>3
<1> QED
  BY <1>7, <1>9, <1>11, <1>12, <1>14, <1>15 DEF IInv, Data

\* finish() reduces what is left in the map, when nobody else is there.
LEMMA FinishKeeps == ASSUME IInv, NEW t \in Threads, Finish(t) PROVE IInv'
<1>1. /\ pc[t] = "finish" /\ pc' = [pc EXCEPT ![t] = "report"]
      /\ UNCHANGED <<mode, engine, block, input, progress, resultsMap, resultsMapSize, hand,
                     future, suspends>>
  BY DEF Finish, Goto
<1>2. /\ forIteration' = forIteration /\ ordered' = ordered /\ queued' = queued /\ count' = count
      /\ block' = block /\ currentIndex' = currentIndex /\ iteratorThreads' = iteratorThreads
      /\ progress' = progress /\ resultsMap' = resultsMap /\ resultsMapSize' = resultsMapSize
      /\ hand' = hand /\ future' = future /\ suspends' = suspends
  BY <1>1 DEF mode, engine, input
<1>3. /\ ~queued /\ ~future.finished /\ pc'[t] = "report"
      /\ \A v \in Threads \ {t} : pc[v] = "idle" /\ pc'[v] = "idle"
  BY <1>1 DEF IInv, Types, Control, Barrier
<1>4. ~Over /\ Over'
  BY <1>1, <1>3 DEF Over
<1>5. \A u \in Threads : pc[u] # "reducing" /\ pc'[u] # "reducing"
  BY <1>1, <1>3
<1>6. /\ \A u \in Threads : hand[u] = {} /\ Stored(u) = {}
      /\ Taken = resultsMap /\ Pending = resultsMap
  BY <1>5, NoHand DEF IInv, Control
<1>7. /\ reduced' \in [Index -> Nat]
      /\ \A i \in Index : reduced'[i] = reduced[i] + One(Kept(i))
  <2>1. \A i \in Index : i \in Items(resultsMap) <=> Kept(i)
    BY <1>4, <1>6, ItemsAre DEF IInv, Types, Kept
  <2>2. reduced' = [i \in Index |-> reduced[i] + (IF i \in Items(resultsMap) THEN 1 ELSE 0)]
    BY DEF Finish
  <2>3. \A i \in Index : reduced[i] + (IF i \in Items(resultsMap) THEN 1 ELSE 0) \in Nat
    BY DEF IInv, Types
  <2>4. reduced' \in [Index -> Nat]
    BY <2>2, <2>3
  <2> QED
    BY <2>1, <2>2, <2>4 DEF One
<1>8. Types'
  BY <1>1, <1>2, <1>7 DEF IInv, Types, Locations
<1>9. Barrier'
  <2>1. Inside' = Inside /\ Starting' = Starting
    BY <1>1, <1>3 DEF Inside, Starting
  <2>2. count' = Cardinality(Inside') + Cardinality(Starting') + One(queued')
    BY <1>2, <2>1 DEF IInv, Control, Barrier
  <2> QED
    BY <1>2, <1>3, <2>2 DEF Barrier
<1>10. Flow' /\ Quiet' /\ Exits'
  <2>1. Flow'
    BY <1>1, <1>2, <1>3 DEF IInv, Control, Flow, Laden
  <2>2. Quiet'
    BY <1>1, <1>2, <1>3 DEF IInv, Control, Quiet, Resting
  <2>3. Exits'
    BY <1>1, <1>2, <1>3 DEF IInv, Control, Exits
  <2> QED
    BY <2>1, <2>2, <2>3
<1>11. Overshoot'
  BY <1>1, <1>2, <1>3, OvershootKeeps DEF IInv, Control
<1>12. Placed'
  <2> SUFFICES ASSUME NEW i \in Index PROVE Here(i)' = Here(i)
    BY <1>2, PlacedKeeps DEF IInv, Data
  <2>1. \A v \in Threads : Maps(v, i)' <=> Maps(v, i)
    BY <1>1, <1>2, <1>3 DEF Maps, Mapping
  <2>2. \A v \in Threads : Hands(v, i)' <=> Hands(v, i)
    BY <1>2 DEF Hands
  <2>3. ~Kept(i)'
    BY <1>4 DEF Kept
  <2>4. /\ Cardinality(Mappers(i)') = Cardinality(Mappers(i)) + One(Maps(t, i)') - One(Maps(t, i))
        /\ Cardinality(Handlers(i)') = Cardinality(Handlers(i)) + One(Hands(t, i)') - One(Hands(t, i))
        /\ Here(i)' = reduced'[i] + Cardinality(Mappers(i)') + Cardinality(Handlers(i)') + One(Kept(i)')
    BY <2>1, <2>2, HereAfter
  <2>5. /\ One(Maps(t, i)') = One(Maps(t, i)) /\ One(Maps(t, i)) \in 0..1
        /\ One(Hands(t, i)') = One(Hands(t, i)) /\ One(Hands(t, i)) \in 0..1
        /\ One(Kept(i)') = 0
    BY <2>1, <2>2, <2>3 DEF One
  <2> QED
    BY <1>7, <2>4, <2>5, HereFacts DEF IInv, Here
<1>13. Turns' /\ Prefix'
  BY <1>2, <1>4, <1>5 DEF IInv, Data, Turns, Prefix
<1>14. Distinct' /\ Sizes'
  <2>1. \A v \in Threads : Stored(v)' = Stored(v)
    BY <1>2 DEF Stored
  <2>2. Taken' = Taken /\ Pending' = Pending
    BY <1>2, <2>1 DEF Taken, Pending
  <2> QED
    BY <1>2, <2>2 DEF IInv, Data, Distinct, Sizes
<1> QED
  BY <1>8, <1>9, <1>10, <1>11, <1>12, <1>13, <1>14 DEF IInv, Control, Data

-----------------------------------------------------------------------------
(* The invariant                                                           *)

LEMMA InitIInv == ASSUME Init PROVE IInv
<1>1. Types
  BY BlockFacts, EngineAssumption DEF Init, Types, Bits, Locations, NoBlock
<1>2. Control
  <2>1. Inside = {} /\ Starting = {}
    BY DEF Init, Inside, Starting
  <2>2. count = Cardinality(Inside) + Cardinality(Starting) + One(queued)
    BY <2>1, FS_EmptySet DEF Init, One
  <2>3. Barrier
    BY <2>2 DEF Init, Barrier
  <2>4. Flow
    BY DEF Init, Flow, Laden
  <2>5. Quiet /\ Exits
    BY DEF Init, Quiet, Exits
  <2>6. Overshoot
    BY BlockFacts DEF Init, Overshoot
  <2> QED
    BY <2>3, <2>4, <2>5, <2>6 DEF Control
<1>3. Placed
  <2> SUFFICES ASSUME NEW i \in Index PROVE Here(i) = 0
    BY BlockFacts DEF Placed, Init
  <2>1. Mappers(i) = {} /\ Handlers(i) = {} /\ ~Kept(i)
    BY DEF Init, Mappers, Handlers, Maps, Mapping, Hands, Kept
  <2>2. reduced[i] = 0
    BY DEF Init
  <2> QED
    BY <2>1, <2>2, FS_EmptySet DEF Here, One
<1>4. Turns /\ Prefix
  BY BlockFacts DEF Init, Turns, Prefix
<1>5. Distinct /\ Sizes
  <2>1. Taken = {} /\ Pending = {}
    BY DEF Init, Taken, Pending, Stored
  <2> QED
    BY <2>1, FS_EmptySet DEF Distinct, Sizes, Init
<1> QED
  BY <1>1, <1>2, <1>3, <1>4, <1>5 DEF IInv, Data

LEMMA NextIInv == ASSUME IInv, [Next]_vars PROVE IInv'
<1>1. CASE Client
  BY <1>1, ClientKeeps
<1>2. CASE PoolStart
  BY <1>2, PoolStartKeeps
<1>3. ASSUME NEW t \in Threads, Worker(t) PROVE IInv'
  <2>1. CASE Run(t)
    BY <2>1, RunKeeps
  <2>2. CASE ConsiderThread(t)
    BY <2>2, ConsiderThreadKeeps
  <2>3. CASE TryStart(t)
    BY <2>3, TryStartKeeps
  <2>4. CASE TryStartFails(t)
    BY <2>4, TryStartFailsKeeps
  <2>5. CASE ThrottleExit(t)
    BY <2>5, ThrottleExitKeeps
  <2>6. CASE ThrottleStay(t)
    BY <2>6, ThrottleStayKeeps
  <2>7. CASE ThreadExit(t)
    BY <2>7, ThreadExitKeeps
  <2>8. CASE Finish(t)
    BY <2>8, FinishKeeps
  <2>9. CASE Report(t)
    BY <2>9, ReportKeeps
  <2>10. CASE ForLook(t)
    BY <2>10, ForLookKeeps
  <2>11. CASE ForReserve(t)
    BY <2>11, ForReserveKeeps
  <2>12. CASE WhileEnter(t)
    BY <2>12, WhileEnterKeeps
  <2>13. CASE WhileAdvance(t)
    BY <2>13, WhileAdvanceKeeps
  <2>14. CASE WaitForResume(t)
    BY <2>14, WaitForResumeKeeps
  <2>15. CASE Throw(t)
    BY <2>15, ThrowKeeps
  <2>16. CASE After(t)
    BY <2>16, AfterKeeps
  <2>17. CASE Keep(t)
    BY <2>17, KeepKeeps
  <2>18. CASE BeginReduce(t)
    BY <2>18, BeginReduceKeeps
  <2>19. CASE ReduceStored(t)
    BY <2>19, ReduceStoredKeeps
  <2>20. CASE ReduceNext(t)
    BY <2>20, ReduceNextKeeps
  <2> QED
    BY <1>3, <2>1, <2>2, <2>3, <2>4, <2>5, <2>6, <2>7, <2>8, <2>9, <2>10, <2>11, <2>12, <2>13,
       <2>14, <2>15, <2>16, <2>17, <2>18, <2>19, <2>20 DEF Worker
<1>4. CASE UNCHANGED vars
  <2>1. /\ mode' = mode /\ engine' = engine /\ pc' = pc /\ block' = block /\ input' = input
        /\ reducer' = reducer /\ future' = future /\ suspends' = suspends
    BY <1>4 DEF vars
  <2>2. /\ forIteration' = forIteration /\ queued' = queued /\ count' = count
        /\ currentIndex' = currentIndex /\ iteratorThreads' = iteratorThreads
    BY <2>1 DEF mode, engine, input
  <2>3. Types'
    BY <2>1, <2>2 DEF IInv, Types, mode, reducer
  <2>4. Inside' = Inside /\ Starting' = Starting /\ Reserving' = Reserving
    BY <2>1 DEF Inside, Starting, Reserving
  <2>5. Barrier' /\ Overshoot'
    BY <2>1, <2>2, <2>4 DEF IInv, Control, Barrier, Overshoot
  <2>6. Flow' /\ Quiet' /\ Exits'
    BY <2>1, <2>2 DEF IInv, Control, Flow, Quiet, Exits, reducer
  <2>7. Data'
    <3>1. /\ Over' <=> Over
          /\ \A v \in Threads : block[v] # NoBlock => (Mapping(v)' <=> Mapping(v))
          /\ \A v \in Threads : pc'[v] = "reducing" <=> pc[v] = "reducing"
      BY <2>1 DEF Over, Mapping
    <3>2. currentIndex' \in Nat
      BY <2>3 DEF Types
    <3> QED
      BY <2>1, <2>2, <3>1, <3>2, SameData DEF IInv
  <2> QED
    BY <2>3, <2>5, <2>6, <2>7 DEF IInv, Control
<1> QED
  BY <1>1, <1>2, <1>3, <1>4 DEF Next

\* The inductive invariant holds in every reachable state.
THEOREM Invariance == Spec => []IInv
<1>1. Init => IInv
  BY InitIInv
<1>2. IInv /\ [Next]_vars => IInv'
  BY NextIInv
<1> QED
  BY <1>1, <1>2, PTL DEF Spec

-----------------------------------------------------------------------------
(* What follows from it                                                    *)

\* The counters keep to their ranges, the last one out is alone, and suspended
\* means quiet (the barrier of qtconcurrentthreadengine.cpp).
LEMMA SaneTypes == ASSUME IInv PROVE TypeOK
<1>1. count \in 0..2 * Cardinality(Threads)
  <2>1. Inside \in SUBSET Threads /\ Starting \in SUBSET Threads
    BY DEF Inside, Starting
  <2>2. /\ Cardinality(Inside) \in Nat /\ Cardinality(Inside) <= Cardinality(Threads)
        /\ Cardinality(Starting) \in Nat /\ Cardinality(Starting) <= Cardinality(Threads)
        /\ Cardinality(Threads) \in Nat /\ Cardinality(Threads) >= 1
    BY <2>1, SetCounts, ThreadCount
  <2>3. count = Cardinality(Inside) + Cardinality(Starting) + One(queued)
    BY DEF IInv, Control, Barrier
  <2>4. CASE queued
    <3>1. Inside = {} /\ Starting = {}
      BY <2>4 DEF IInv, Control, Barrier, Inside, Starting
    <3>2. count = 1
      BY <2>3, <2>4, <3>1, FS_EmptySet DEF One
    <3> QED
      BY <2>2, <3>2
  <2>5. CASE ~queued
    <3>1. count = Cardinality(Inside) + Cardinality(Starting)
      BY <2>2, <2>3, <2>5 DEF One
    <3> QED
      BY <2>2, <3>1
  <2> QED
    BY <2>4, <2>5
<1>2. currentIndex \in 0..IterationCount + MaxBlock * Cardinality(Threads)
  <2> DEFINE T == Cardinality(Threads)
             R == Cardinality(Reserving)
  <2>1. Reserving \in SUBSET Threads
    BY DEF Reserving
  <2>2. R \in Nat /\ T \in Nat /\ MaxBlock \in Nat /\ IterationCount \in Nat /\ currentIndex \in Nat
    BY <2>1, SetCounts, ThreadCount, BlockFacts DEF IInv, Types
  <2>3. \/ currentIndex <= IterationCount
        \/ currentIndex + MaxBlock * R < IterationCount + MaxBlock * T
    BY <2>2 DEF IInv, Control, Overshoot
  <2> HIDE DEF T, R
  <2>4. /\ MaxBlock * R \in Int /\ MaxBlock * T \in Int
        /\ MaxBlock * 0 <= MaxBlock * R /\ MaxBlock * 0 <= MaxBlock * T
    BY <2>2, Product
  <2>5. MaxBlock * 0 = 0
    BY <2>2
  <2>6. currentIndex <= IterationCount + MaxBlock * T
    BY <2>2, <2>3, <2>4, <2>5
  <2>7. currentIndex \in 0..IterationCount + MaxBlock * T
    BY <2>2, <2>4, <2>6
  <2> QED
    BY <2>7 DEF T
<1>3. progress \in -1..IterationCount
  BY BlockFacts DEF IInv, Data, Turns
<1>4. resultsMapSize \in 0..IterationCount
  BY PendingIsFinite, BlockFacts DEF IInv, Data, Sizes
<1>5. Chunk \subseteq Block
  BY DEF Chunk
<1>6. /\ block \in [Threads -> Block \cup {NoBlock}] /\ hand \in [Threads -> SUBSET Block]
      /\ resultsMap \subseteq Block
  BY <1>5 DEF IInv, Types
<1> QED
  BY <1>1, <1>2, <1>3, <1>4, <1>6 DEF IInv, Types, TypeOK

LEMMA SaneBarrier == ASSUME IInv PROVE LastOneOut
<1>1. count = Cardinality(Inside) + Cardinality(Starting) + (IF queued THEN 1 ELSE 0)
  BY DEF IInv, Control, Barrier, One
<1>2. ASSUME NEW t \in Threads, pc[t] \in {"finish", "report"}
      PROVE  ~queued /\ \A u \in Threads \ {t} : pc[u] = "idle"
  BY <1>2 DEF IInv, Control, Barrier
<1>3. ASSUME future.finished
      PROVE  count = 0 /\ \A t \in Threads : pc[t] = "idle"
  <2>1. ~queued /\ \A t \in Threads : pc[t] = "idle"
    BY <1>3 DEF IInv, Control, Barrier
  <2>2. Inside = {} /\ Starting = {}
    BY <2>1 DEF Inside, Starting
  <2> QED
    BY <1>1, <2>1, <2>2, FS_EmptySet
<1> QED
  BY <1>1, <1>2, <1>3 DEF LastOneOut

\* The barrier of the engine, its counters and its suspension
\* (ThreadEngineBarrier, threadThrottleExit, asynchronousFinish).
THEOREM EngineIsSane == Spec => []EngineSane
<1>1. IInv => TypeOK /\ LastOneOut
  BY SaneTypes, SaneBarrier
<1>2. IInv => SuspendedMeansQuiet
  BY DEF IInv, Control, Quiet, Resting, SuspendedMeansQuiet
<1>3. IInv => EngineSane
  BY <1>1, <1>2 DEF EngineSane
<1> QED
  BY <1>3, Invariance, PTL

\* One thread reduces at a time, and in order if asked (runReduce).
THEOREM ReducerTakesTurns == Spec => []ReducesInTurn
<1>1. IInv => OneReducer
  <2> SUFFICES ASSUME IInv, NEW t \in Threads, NEW u \in Threads, pc[t] = "reducing",
                      pc[u] \in {"reducing", "finish"}
               PROVE  t = u
    BY DEF OneReducer
  <2> QED
    BY DEF IInv, Control, Barrier, Data, Turns
<1>2. IInv => InOrder
  <2> SUFFICES ASSUME IInv, ordered, count # 0, NEW i \in Index, reduced[i] > 0, NEW j \in 0..i
               PROVE  reduced[j] = 1
    BY DEF InOrder
  <2>1. ~Over
    <3> SUFFICES ASSUME Over PROVE FALSE
      OBVIOUS
    <3>1. ~queued /\ \A t \in Threads : pc[t] \in {"idle", "report"}
      BY DEF Over, IInv, Control, Barrier
    <3>2. Inside = {} /\ Starting = {}
      BY <3>1 DEF Inside, Starting
    <3>3. count = 0
      BY <3>1, <3>2, FS_EmptySet DEF IInv, Control, Barrier, One
    <3> QED
      BY <3>3
  <2>2. \A k \in Index : reduced[k] = IF k < progress THEN 1 ELSE 0
    BY <2>1 DEF IInv, Data, Prefix
  <2>3. i < progress
    BY <2>2
  <2>4. j \in Index /\ j < progress
    <3>1. progress \in Int /\ i \in Nat /\ i < IterationCount /\ IterationCount \in Nat
      BY BlockFacts DEF IInv, Types
    <3> QED
      BY <2>3, <3>1 DEF Index
  <2> QED
    BY <2>2, <2>4
<1>3. IInv => ReducesInTurn
  BY <1>1, <1>2 DEF ReducesInTurn
<1> QED
  BY <1>3, Invariance, PTL

LEMMA PlacesAre == ASSUME IInv, NEW i \in Index PROVE Places(i) = Here(i)
<1>1. {t \in Threads : Mapping(t) /\ i \in Items({block[t]})} = Mappers(i)
  <2> SUFFICES ASSUME NEW t \in Threads PROVE i \in Items({block[t]}) <=> Has(block[t], i)
    BY DEF Mappers, Maps
  <2>1. CASE block[t] \in Chunk
    <3>1. {block[t]} \in SUBSET Chunk
      BY <2>1
    <3> QED
      BY <3>1, ItemsAre
  <2>2. CASE block[t] = NoBlock
    <3>1. Items({NoBlock}) = 0..-1
      BY DEF Items, NoBlock
    <3> QED
      BY <2>2, <3>1, BlockFacts
  <2> QED
    BY <2>1, <2>2 DEF IInv, Types
<1>2. {t \in Threads : i \in Items(hand[t])} = Handlers(i)
  <2>1. \A t \in Threads : i \in Items(hand[t]) <=> Hands(t, i)
    BY ItemsAre DEF IInv, Types, Hands
  <2> QED
    BY <2>1 DEF Handlers
<1>3. /\ i \in Items(resultsMap \ UNION {hand[t] : t \in Threads})
      /\ ~future.finished /\ \A t \in Threads : pc[t] # "report"
      <=> Kept(i)
  <2> DEFINE M == resultsMap \ UNION {hand[t] : t \in Threads}
  <2>1. M \in SUBSET Chunk
    BY DEF IInv, Types
  <2>2. i \in Items(M) <=> \E b \in M : Has(b, i)
    BY <2>1, ItemsAre
  <2>3. (\E b \in M : Has(b, i)) <=>
          \E b \in resultsMap : Has(b, i) /\ \A u \in Threads : b \notin hand[u]
    OBVIOUS
  <2> QED
    BY <2>2, <2>3 DEF Kept, Over
<1> QED
  BY <1>1, <1>2, <1>3 DEF Places, Here, One

\* No element is lost, and none is reduced twice.
THEOREM NothingIsLost == Spec => []Accounted
<1>1. ASSUME IInv PROVE Accounted
  <2>1. \A i \in Index : IF i >= currentIndex THEN Places(i) = 0
                         ELSE Places(i) = 1 \/ (MayThrow /\ future.canceled /\ Places(i) = 0)
    BY <1>1, PlacesAre DEF IInv, Data, Placed
  <2>2. resultsMapSize = Cardinality(resultsMap \cup UNION {Stored(t) : t \in Threads})
    BY <1>1 DEF IInv, Data, Sizes, Pending
  <2> QED
    BY <2>1, <2>2 DEF Accounted
<1> QED
  BY <1>1, Invariance, PTL

\* A range that finishes without being canceled is reduced as a whole.
THEOREM RangeIsReduced == Spec => []AllReduced
<1>1. ASSUME IInv PROVE AllReduced
  <2> SUFFICES ASSUME forIteration, future.finished, ~future.canceled, NEW i \in Index
               PROVE  reduced[i] = 1
    BY DEF AllReduced
  <2>1. currentIndex >= IterationCount
    BY <1>1 DEF IInv, Control, Exits
  <2>2. Here(i) = 1
    BY <1>1, <2>1, BlockFacts DEF IInv, Types, Data, Placed
  <2>3. \A t \in Threads : pc[t] = "idle"
    BY <1>1 DEF IInv, Control, Barrier
  <2>4. Mappers(i) = {} /\ Handlers(i) = {} /\ ~Kept(i)
    BY <1>1, <2>3 DEF IInv, Control, Flow, Mappers, Maps, Mapping, Handlers, Hands, Kept, Over
  <2>5. reduced[i] \in Nat
    BY <1>1 DEF IInv, Types
  <2> QED
    BY <2>2, <2>4, <2>5, FS_EmptySet DEF Here, One
<1> QED
  BY <1>1, Invariance, PTL

=============================================================================

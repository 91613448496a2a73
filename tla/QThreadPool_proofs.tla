------------------------- MODULE QThreadPool_proofs -------------------------
(***************************************************************************)
(* TLAPS proofs about QThreadPool, for any number of threads, clients and  *)
(* runnables, any limits and page size, as long as no priority is          *)
(* negative.  The argument: the lists of waiting and expired threads say   *)
(* what their threads do, so that the two counts of active threads agree;  *)
(* each runnable is in one place, since enqueueTask() and the pops move    *)
(* one and leave the others where they are; and whoever leaves one in the  *)
(* queue has seen all threads active, or has woken one for it.             *)
(***************************************************************************)
EXTENDS QThreadPool, FiniteSetTheorems, SequenceTheorems, WellFoundedInduction, TLAPS

\* start() is given no negative priority: with one, the front page may not be
\* the one tryToStartMoreThreads() has popped, and a runnable is lost.
NonNegative == IntMax >= 0 /\ \A prio \in Priorities : prio >= 0

-----------------------------------------------------------------------------
(* Sequences.                                                              *)

Distinct(s) == \A i, j \in 1..Len(s) : s[i] = s[j] => i = j

LEMMA RangeIs ==
  ASSUME NEW S, NEW s \in Seq(S)
  PROVE  Range(s) = {s[i] : i \in 1..Len(s)} /\ Range(s) \subseteq S
  BY DEF Range

LEMMA InsertAtIs ==
  ASSUME NEW S, NEW s \in Seq(S), NEW i \in 1..(Len(s) + 1), NEW e \in S
  PROVE  LET r == InsertAt(s, i, e)
         IN  /\ r \in Seq(S) /\ Len(r) = Len(s) + 1
             /\ \A k \in 1..(i - 1) : r[k] = s[k]
             /\ r[i] = e
             /\ \A k \in (i + 1)..(Len(s) + 1) : r[k] = s[k - 1]
<1> DEFINE a == SubSeq(s, 1, i - 1)
           b == SubSeq(s, i, Len(s))
           c == a \o <<e>>
<1>1. /\ a \in Seq(S) /\ Len(a) = i - 1 /\ \A k \in 1..(i - 1) : a[k] = s[k]
      /\ b \in Seq(S) /\ Len(b) = Len(s) + 1 - i
      /\ \A k \in 1..(Len(s) + 1 - i) : b[k] = s[k + i - 1]
  OBVIOUS
<1>2. InsertAt(s, i, e) = c \o b
  BY DEF InsertAt
<1> HIDE DEF a, b
<1>3. c \in Seq(S) /\ Len(c) = i /\ (\A k \in 1..(i - 1) : c[k] = a[k]) /\ c[i] = e
  BY <1>1
<1> HIDE DEF c
<1>4. /\ c \o b \in Seq(S) /\ Len(c \o b) = Len(s) + 1
      /\ \A k \in 1..i : (c \o b)[k] = c[k]
  <2>1. c \o b \in Seq(S) /\ Len(c \o b) = Len(s) + 1
    BY <1>1, <1>3
  <2>2. \A k \in 1..i : k \in 1..(Len(c) + Len(b)) /\ k <= Len(c)
    BY <1>1, <1>3
  <2> QED
    BY <1>1, <1>3, <2>1, <2>2, ConcatProperties
<1>5. ASSUME NEW k \in (i + 1)..(Len(s) + 1) PROVE (c \o b)[k] = s[k - 1]
  <2>1. /\ k \in 1..(Len(c) + Len(b)) /\ k > Len(c)
        /\ k - i \in 1..(Len(s) + 1 - i) /\ (k - i) + i - 1 = k - 1
    BY <1>1, <1>3
  <2>2. (c \o b)[k] = b[k - i]
    BY <1>1, <1>3, <2>1, ConcatProperties
  <2> QED
    BY <1>1, <2>1, <2>2
<1> QED
  BY <1>1, <1>2, <1>3, <1>4, <1>5

LEMMA RemoveAtIs ==
  ASSUME NEW S, NEW s \in Seq(S), NEW i \in 1..Len(s)
  PROVE  LET r == RemoveAt(s, i)
         IN  /\ r \in Seq(S) /\ Len(r) = Len(s) - 1
             /\ \A k \in 1..(i - 1) : r[k] = s[k]
             /\ \A k \in i..(Len(s) - 1) : r[k] = s[k + 1]
<1> DEFINE a == SubSeq(s, 1, i - 1)
           b == SubSeq(s, i + 1, Len(s))
<1>1. /\ a \in Seq(S) /\ Len(a) = i - 1 /\ \A k \in 1..(i - 1) : a[k] = s[k]
      /\ b \in Seq(S) /\ Len(b) = Len(s) - i
      /\ \A k \in 1..(Len(s) - i) : b[k] = s[k + i]
  OBVIOUS
<1>2. RemoveAt(s, i) = a \o b
  BY DEF RemoveAt
<1> HIDE DEF a, b
<1>3. /\ a \o b \in Seq(S) /\ Len(a \o b) = Len(s) - 1
      /\ \A k \in 1..(i - 1) : (a \o b)[k] = a[k]
  <2>0. Len(s) \in Nat /\ Len(a) + Len(b) = Len(s) - 1
    BY <1>1
  <2>1. a \o b \in Seq(S) /\ Len(a \o b) = Len(s) - 1
    <3>1. a \o b \in Seq(S) /\ Len(a \o b) = Len(a) + Len(b)
      BY <1>1, ConcatProperties
    <3> QED
      BY <2>0, <3>1
  <2>2. \A k \in 1..(i - 1) : k \in 1..(Len(a) + Len(b)) /\ k <= Len(a)
    BY <1>1
  <2> QED
    BY <1>1, <2>1, <2>2, ConcatProperties
<1>4. ASSUME NEW k \in i..(Len(s) - 1) PROVE (a \o b)[k] = s[k + 1]
  <2>1. /\ k \in 1..(Len(a) + Len(b)) /\ k > Len(a)
        /\ k - (i - 1) \in 1..(Len(s) - i) /\ (k - (i - 1)) + i = k + 1
    BY <1>1
  <2>2. (a \o b)[k] = b[k - (i - 1)]
    BY <1>1, <2>1, ConcatProperties
  <2> QED
    BY <1>1, <2>1, <2>2
<1> QED
  BY <1>1, <1>2, <1>3, <1>4

LEMMA TailIs ==
  ASSUME NEW S, NEW s \in Seq(S), s # <<>>
  PROVE  /\ Head(s) = s[1] /\ Head(s) \in S /\ Len(s) >= 1
         /\ Tail(s) \in Seq(S) /\ Len(Tail(s)) = Len(s) - 1
         /\ \A k \in 1..(Len(s) - 1) : Tail(s)[k] = s[k + 1]
  OBVIOUS

LEMMA AppendIs ==
  ASSUME NEW S, NEW s \in Seq(S), NEW e \in S
  PROVE  /\ Append(s, e) \in Seq(S) /\ Len(Append(s, e)) = Len(s) + 1
         /\ \A k \in 1..Len(s) : Append(s, e)[k] = s[k]
         /\ Append(s, e)[Len(s) + 1] = e
  OBVIOUS

\* Lists of distinct elements stay so, and become one longer or shorter.
LEMMA DistinctAppend ==
  ASSUME NEW S, NEW s \in Seq(S), NEW e \in S, Distinct(s), e \notin Range(s)
  PROVE  Distinct(Append(s, e)) /\ Range(Append(s, e)) = Range(s) \cup {e}
<1> DEFINE r == Append(s, e)
<1>1. /\ r \in Seq(S) /\ Len(r) = Len(s) + 1 /\ r[Len(s) + 1] = e
      /\ \A k \in 1..Len(s) : r[k] = s[k]
  BY AppendIs
<1> HIDE DEF r
<1>2. Range(s) = {s[i] : i \in 1..Len(s)} /\ Range(r) = {r[i] : i \in 1..Len(r)}
  BY <1>1, RangeIs
<1>3. Distinct(r)
  BY <1>1, <1>2 DEF Distinct
<1>4. Range(r) = Range(s) \cup {e}
  BY <1>1, <1>2
<1> QED
  BY <1>3, <1>4 DEF r

LEMMA DistinctTail ==
  ASSUME NEW S, NEW s \in Seq(S), s # <<>>, Distinct(s)
  PROVE  Distinct(Tail(s)) /\ Range(Tail(s)) = Range(s) \ {Head(s)} /\ Head(s) \in Range(s)
<1> DEFINE r == Tail(s)
<1>1. /\ r \in Seq(S) /\ Len(r) = Len(s) - 1 /\ Head(s) = s[1] /\ Len(s) \in Nat /\ Len(s) >= 1
      /\ \A k \in 1..(Len(s) - 1) : r[k] = s[k + 1]
  BY TailIs
<1> HIDE DEF r
<1>2. Range(s) = {s[i] : i \in 1..Len(s)} /\ Range(r) = {r[i] : i \in 1..Len(r)}
  BY <1>1, RangeIs
<1>3. Distinct(r)
  BY <1>1 DEF Distinct
<1>4. ASSUME NEW x \in Range(r) PROVE x \in Range(s) \ {Head(s)}
  <2>1. PICK k \in 1..(Len(s) - 1) : x = r[k]
    BY <1>1, <1>2
  <2>2. x = s[k + 1] /\ k + 1 \in 1..Len(s) /\ k + 1 # 1 /\ 1 \in 1..Len(s)
    BY <1>1, <2>1
  <2> QED
    BY <1>1, <1>2, <2>2 DEF Distinct
<1>5. ASSUME NEW x \in Range(s) \ {Head(s)} PROVE x \in Range(r)
  <2>1. PICK k \in 1..Len(s) : x = s[k]
    BY <1>2
  <2>2. k # 1
    BY <1>1, <2>1
  <2>3. k - 1 \in 1..(Len(s) - 1) /\ (k - 1) + 1 = k
    BY <1>1, <2>2
  <2>4. r[k - 1] = x
    BY <1>1, <2>1, <2>3
  <2> QED
    BY <1>1, <1>2, <2>3, <2>4
<1>6. Head(s) \in Range(s)
  BY <1>1, <1>2
<1> QED
  BY <1>3, <1>4, <1>5, <1>6 DEF r

LEMMA DistinctRemove ==
  ASSUME NEW S, NEW s \in Seq(S), NEW i \in 1..Len(s), Distinct(s)
  PROVE  /\ Distinct(RemoveAt(s, i)) /\ Range(RemoveAt(s, i)) = Range(s) \ {s[i]}
         /\ s[i] \in Range(s)
<1> DEFINE r == RemoveAt(s, i)
<1>1. /\ r \in Seq(S) /\ Len(r) = Len(s) - 1 /\ Len(s) \in Nat
      /\ \A k \in 1..(i - 1) : r[k] = s[k]
      /\ \A k \in i..(Len(s) - 1) : r[k] = s[k + 1]
  BY RemoveAtIs
<1> HIDE DEF r
<1>2. Range(s) = {s[k] : k \in 1..Len(s)} /\ Range(r) = {r[k] : k \in 1..Len(r)}
  BY <1>1, RangeIs
<1>3. ASSUME NEW k \in 1..Len(r)
      PROVE  \E m \in 1..Len(s) : /\ m # i /\ r[k] = s[m]
                                  /\ m = IF k < i THEN k ELSE k + 1
  <2>1. CASE k < i
    BY <1>1, <2>1
  <2>2. CASE k >= i
    <3>1. k + 1 \in 1..Len(s) /\ k \in i..(Len(s) - 1) /\ k + 1 # i
      BY <1>1, <2>2
    <3> QED
      BY <1>1, <2>2, <3>1
  <2> QED
    BY <2>1, <2>2
<1>4. Distinct(r)
  <2>1. ASSUME NEW k \in 1..Len(r), NEW m \in 1..Len(r), r[k] = r[m] PROVE k = m
    <3>1. PICK k1 \in 1..Len(s) : r[k] = s[k1] /\ k1 = IF k < i THEN k ELSE k + 1
      BY <1>3
    <3>2. PICK m1 \in 1..Len(s) : r[m] = s[m1] /\ m1 = IF m < i THEN m ELSE m + 1
      BY <1>3
    <3>3. k1 = m1
      BY <2>1, <3>1, <3>2 DEF Distinct
    <3> QED
      BY <1>1, <3>1, <3>2, <3>3
  <2> QED
    BY <2>1 DEF Distinct
<1>5. ASSUME NEW x \in Range(r) PROVE x \in Range(s) \ {s[i]}
  <2>1. PICK k \in 1..Len(r) : x = r[k]
    BY <1>2
  <2>2. PICK m \in 1..Len(s) : m # i /\ x = s[m]
    BY <1>3, <2>1
  <2> QED
    BY <1>2, <2>2 DEF Distinct
<1>6. ASSUME NEW x \in Range(s) \ {s[i]} PROVE x \in Range(r)
  <2>1. PICK m \in 1..Len(s) : x = s[m]
    BY <1>2
  <2>2. CASE m < i
    <3>1. m \in 1..Len(r) /\ m \in 1..(i - 1)
      BY <1>1, <2>2
    <3> QED
      BY <1>1, <1>2, <2>1, <3>1
  <2>3. CASE m > i
    <3>1. m - 1 \in 1..Len(r) /\ m - 1 \in i..(Len(s) - 1) /\ (m - 1) + 1 = m
      BY <1>1, <2>3
    <3> QED
      BY <1>1, <1>2, <2>1, <3>1
  <2> QED
    BY <2>1, <2>2, <2>3
<1>7. s[i] \in Range(s)
  BY <1>2
<1> QED
  BY <1>4, <1>5, <1>6, <1>7 DEF r

-----------------------------------------------------------------------------
(* The invariant: the threads.                                             *)

AnyPage == [priority : Int, tasks : Seq(Tasks), pushed : 1..PageSize]

Types ==
  /\ allThreads \subseteq Workers
  /\ waitingThreads \in Seq(Workers) /\ expiredThreads \in Seq(Workers)
  /\ queue \in Seq(AnyPage)
  /\ reservedThreads \in Reserved /\ maxThreads \in Limits
  /\ \A n \in 0..reservedThreads : n \in Reserved
  /\ activeThreads \in Int
  /\ pc \in [Workers -> WorkerStates] /\ task \in [Workers -> Tasks \cup {NoTask}]
  /\ cpc \in [Clients -> ClientStates]
  /\ page \in [Clients -> Seq(Tasks)] /\ joining \in [Clients -> Seq(Workers)]
  /\ status \in [Tasks -> {"free", "pool", "done"}]

\* The pool's threads by what they do.
Running == {w \in Workers : pc[w] = "running"}
Waiting == {w \in allThreads : pc[w] = "asleep"}
Expired == {w \in allThreads : pc[w] = "finished"}
Called  == {w \in Workers : Summoned(w)}

\* The lists say what their threads do, each thread that runs is the pool's and
\* has a runnable.
Lists ==
  /\ Distinct(waitingThreads) /\ Distinct(expiredThreads)
  /\ Range(waitingThreads) = Waiting /\ Range(expiredThreads) = Expired
  /\ \A w \in allThreads : pc[w] # "none"
  /\ \A w \in Workers : IF pc[w] = "running" THEN w \in allThreads /\ task[w] \in Tasks
                                             ELSE task[w] = NoTask

\* A thread that reset() has forgotten is joined once before it is used again.
Joined ==
  /\ \A c \in Clients : Distinct(joining[c])
  /\ \A c \in Clients : \A w \in Range(joining[c]) :
       /\ w \notin allThreads /\ pc[w] # "none"
       /\ \A d \in Clients : w \in Range(joining[d]) => d = c

Counted ==
  /\ activeThreads = Cardinality(Running)
  /\ Len(waitingThreads) = Cardinality(Waiting) /\ Len(expiredThreads) = Cardinality(Expired)

Threads == Lists /\ Joined /\ Counted

-----------------------------------------------------------------------------
(* Counting.                                                               *)

LEMMA SetCounts ==
  ASSUME NEW S \in SUBSET Workers
  PROVE  /\ IsFiniteSet(S) /\ Cardinality(S) \in Nat /\ Cardinality(S) <= Cardinality(Workers)
         /\ Cardinality(S) = 0 <=> S = {}
  BY PoolAssumption, FS_Subset, FS_CardinalityType, FS_EmptySet

\* How often w is in S.
In(S, w) == IF w \in S THEN 1 ELSE 0

LEMMA CountAfter ==
  ASSUME NEW S \in SUBSET Workers, NEW U \in SUBSET Workers, NEW w \in Workers,
         U \ {w} = S \ {w}
  PROVE  Cardinality(U) = Cardinality(S) + In(U, w) - In(S, w)
<1> DEFINE C == S \ {w}
<1>1. IsFiniteSet(C) /\ Cardinality(C) \in Nat /\ w \notin C
  BY SetCounts
<1>2. ASSUME NEW V \in SUBSET Workers, V \ {w} = C
      PROVE  Cardinality(V) = Cardinality(C) + In(V, w)
  <2>1. CASE w \in V
    <3>1. V = C \cup {w}
      BY <1>2, <2>1
    <3> HIDE DEF C
    <3>2. Cardinality(C \cup {w}) = Cardinality(C) + 1
      BY <1>1, FS_AddElement
    <3> QED
      BY <2>1, <3>1, <3>2 DEF In
  <2>2. CASE w \notin V
    <3>1. V = C
      BY <1>2, <2>2
    <3> HIDE DEF C
    <3> QED
      BY <1>1, <2>2, <3>1 DEF In
  <2> QED
    BY <2>1, <2>2
<1>3. Cardinality(S) = Cardinality(C) + In(S, w)
  BY <1>2
<1>4. Cardinality(U) = Cardinality(C) + In(U, w)
  BY <1>2
<1>5. In(S, w) \in Int /\ In(U, w) \in Int
  BY DEF In
<1> HIDE DEF C
<1> QED
  BY <1>1, <1>3, <1>4, <1>5

LEMMA TogetherCounts ==
  ASSUME NEW S, IsFiniteSet(S), NEW T, IsFiniteSet(T), S \cap T = {}
  PROVE  Cardinality(S \cup T) = Cardinality(S) + Cardinality(T)
<1>1. Cardinality(S) \in Nat /\ Cardinality(T) \in Nat
  BY FS_CardinalityType
<1>2. Cardinality(S \cap T) = 0
  BY FS_EmptySet
<1>3. Cardinality(S \cup T) = Cardinality(S) + Cardinality(T) - Cardinality(S \cap T)
  BY FS_Union
<1> QED
  BY <1>1, <1>2, <1>3

\* The busy threads are those that run and those that have been woken.
LEMMA BusyIs ==
  ASSUME Types, Threads
  PROVE  /\ BusyThreads = activeThreads + Cardinality(Called)
         /\ activeThreads \in Nat /\ Cardinality(Called) \in Nat
<1>1. /\ Running \subseteq allThreads /\ Waiting \subseteq allThreads
      /\ Expired \subseteq allThreads /\ Called \subseteq allThreads
      /\ allThreads \subseteq Workers
  BY DEF Types, Threads, Lists, Running, Waiting, Expired, Called, Summoned
<1>2. allThreads = (Running \cup Called) \cup (Waiting \cup Expired)
  BY <1>1 DEF Types, Threads, Lists, Running, Waiting, Expired, Called, Summoned, WorkerStates
<1>3. /\ Running \cap Called = {} /\ Waiting \cap Expired = {}
      /\ (Running \cup Called) \cap (Waiting \cup Expired) = {}
  BY <1>1 DEF Running, Waiting, Expired, Called, Summoned
<1>4. /\ IsFiniteSet(Running) /\ IsFiniteSet(Called) /\ IsFiniteSet(Waiting) /\ IsFiniteSet(Expired)
      /\ IsFiniteSet(Running \cup Called) /\ IsFiniteSet(Waiting \cup Expired)
  BY <1>1, SetCounts
<1>5. /\ Cardinality(Running) \in Nat /\ Cardinality(Called) \in Nat
      /\ Cardinality(Waiting) \in Nat /\ Cardinality(Expired) \in Nat
  BY <1>4, FS_CardinalityType
<1>6. Cardinality(Running \cup Called) = Cardinality(Running) + Cardinality(Called)
  BY <1>3, <1>4, TogetherCounts
<1>7. Cardinality(Waiting \cup Expired) = Cardinality(Waiting) + Cardinality(Expired)
  BY <1>3, <1>4, TogetherCounts
<1>8. Cardinality(allThreads) = Cardinality(Running \cup Called) + Cardinality(Waiting \cup Expired)
  BY <1>2, <1>3, <1>4, TogetherCounts
<1> QED
  BY <1>5, <1>6, <1>7, <1>8 DEF BusyThreads, Threads, Counted

-----------------------------------------------------------------------------
(* What a step does to one thread.                                         *)

One(b) == IF b THEN 1 ELSE 0

Others(w) ==
  \A v \in Workers \ {w} : /\ pc'[v] = pc[v] /\ task'[v] = task[v]
                           /\ v \in allThreads' <=> v \in allThreads

LEMMA Moved ==
  ASSUME Types, NEW w \in Workers, Others(w), allThreads' \subseteq Workers
  PROVE  /\ Cardinality(Running') = Cardinality(Running)
              + One(pc'[w] = "running") - One(pc[w] = "running")
         /\ Cardinality(Waiting') = Cardinality(Waiting)
              + One(w \in allThreads' /\ pc'[w] = "asleep") - One(w \in allThreads /\ pc[w] = "asleep")
         /\ Cardinality(Expired') = Cardinality(Expired)
              + One(w \in allThreads' /\ pc'[w] = "finished") - One(w \in allThreads /\ pc[w] = "finished")
         /\ Cardinality(Called') = Cardinality(Called)
              + One(w \in allThreads' /\ pc'[w] = "woken") - One(w \in allThreads /\ pc[w] = "woken")
<1>0. allThreads \subseteq Workers
  BY DEF Types
<1>1. /\ Running \subseteq Workers /\ Running' \subseteq Workers
      /\ Running' \ {w} = Running \ {w}
      /\ In(Running, w) = One(pc[w] = "running") /\ In(Running', w) = One(pc'[w] = "running")
  BY DEF Running, Others, In, One
<1>2. /\ Waiting \subseteq Workers /\ Waiting' \subseteq Workers
      /\ Waiting' \ {w} = Waiting \ {w}
      /\ In(Waiting, w) = One(w \in allThreads /\ pc[w] = "asleep")
      /\ In(Waiting', w) = One(w \in allThreads' /\ pc'[w] = "asleep")
  BY <1>0 DEF Waiting, Others, In, One
<1>3. /\ Expired \subseteq Workers /\ Expired' \subseteq Workers
      /\ Expired' \ {w} = Expired \ {w}
      /\ In(Expired, w) = One(w \in allThreads /\ pc[w] = "finished")
      /\ In(Expired', w) = One(w \in allThreads' /\ pc'[w] = "finished")
  BY <1>0 DEF Expired, Others, In, One
<1>4. /\ Called \subseteq Workers /\ Called' \subseteq Workers
      /\ Called' \ {w} = Called \ {w}
      /\ In(Called, w) = One(w \in allThreads /\ pc[w] = "woken")
      /\ In(Called', w) = One(w \in allThreads' /\ pc'[w] = "woken")
  BY <1>0 DEF Called, Summoned, Others, In, One
<1>5. Cardinality(Running') = Cardinality(Running) + In(Running', w) - In(Running, w)
  BY <1>1, CountAfter
<1>6. Cardinality(Waiting') = Cardinality(Waiting) + In(Waiting', w) - In(Waiting, w)
  BY <1>2, CountAfter
<1>7. Cardinality(Expired') = Cardinality(Expired) + In(Expired', w) - In(Expired, w)
  BY <1>3, CountAfter
<1>8. Cardinality(Called') = Cardinality(Called) + In(Called', w) - In(Called, w)
  BY <1>4, CountAfter
<1> QED
  BY <1>1, <1>2, <1>3, <1>4, <1>5, <1>6, <1>7, <1>8

\* The kind of thread w is: as it is counted.
Kind(w) == IF pc[w] = "running" THEN "running" ELSE IF w \in allThreads THEN pc[w] ELSE "none"

Gains(k, a, b) == (IF b = k THEN 1 ELSE 0) - (IF a = k THEN 1 ELSE 0)

LEMMA Changed ==
  ASSUME Types, NEW w \in Workers, Others(w), allThreads' \subseteq Workers,
         NEW a, NEW b, Kind(w) = a, Kind(w)' = b
  PROVE  /\ Cardinality(Running') = Cardinality(Running) + Gains("running", a, b)
         /\ Cardinality(Waiting') = Cardinality(Waiting) + Gains("asleep", a, b)
         /\ Cardinality(Expired') = Cardinality(Expired) + Gains("finished", a, b)
         /\ Cardinality(Called') = Cardinality(Called) + Gains("woken", a, b)
         /\ Cardinality(Running) \in Nat /\ Cardinality(Waiting) \in Nat
         /\ Cardinality(Expired) \in Nat /\ Cardinality(Called) \in Nat
<1>1. /\ Running \in SUBSET Workers /\ Waiting \in SUBSET Workers
      /\ Expired \in SUBSET Workers /\ Called \in SUBSET Workers
  BY DEF Types, Running, Waiting, Expired, Called
<1>2. /\ Cardinality(Running) \in Nat /\ Cardinality(Waiting) \in Nat
      /\ Cardinality(Expired) \in Nat /\ Cardinality(Called) \in Nat
  BY <1>1, SetCounts
<1>3. /\ One(pc'[w] = "running") - One(pc[w] = "running") = Gains("running", a, b)
      /\ One(w \in allThreads' /\ pc'[w] = "asleep") - One(w \in allThreads /\ pc[w] = "asleep")
           = Gains("asleep", a, b)
      /\ One(w \in allThreads' /\ pc'[w] = "finished") - One(w \in allThreads /\ pc[w] = "finished")
           = Gains("finished", a, b)
      /\ One(w \in allThreads' /\ pc'[w] = "woken") - One(w \in allThreads /\ pc[w] = "woken")
           = Gains("woken", a, b)
  BY DEF Kind, One, Gains
<1>4. \A p, q : One(p) \in Int /\ One(q) \in Int
  BY DEF One
<1> QED
  BY <1>2, <1>3, <1>4, Moved

LEMMA JoinedStays ==
  ASSUME Types, Joined, joining' = joining,
         \A v \in Workers : v \notin allThreads /\ pc[v] # "none"
                              => v \notin allThreads' /\ pc'[v] # "none"
  PROVE  Joined'
<1>1. \A c \in Clients : Range(joining[c]) \subseteq Workers
  BY RangeIs DEF Types
<1> QED
  BY <1>1 DEF Joined

\* start() makes a new thread.
LEMMA NewThread ==
  ASSUME Types, Threads, NEW w \in Workers, NEW t \in Tasks, pc[w] = "none",
         allThreads' = allThreads \cup {w}, Runs(w, t), activeThreads' = activeThreads + 1,
         UNCHANGED <<waitingThreads, expiredThreads, joining>>
  PROVE  Threads' /\ Cardinality(Called') = Cardinality(Called)
<1>0. Lists /\ Joined /\ Counted /\ w \notin allThreads /\ allThreads \subseteq Workers
  BY DEF Threads, Lists, Types
<1>1. /\ pc'[w] = "running" /\ task'[w] = t /\ Others(w) /\ allThreads' \subseteq Workers
  BY <1>0 DEF Runs, Types, Others
<1>2. Lists'
  <2>1. Waiting' = Waiting /\ Expired' = Expired
    BY <1>0, <1>1 DEF Waiting, Expired, Others
  <2> QED
    BY <1>0, <1>1, <2>1 DEF Lists, Others
<1>3. Joined'
  BY <1>0, <1>1, JoinedStays DEF Others
<1>4. /\ Cardinality(Running') = Cardinality(Running) + 1
      /\ Cardinality(Waiting') = Cardinality(Waiting) /\ Cardinality(Expired') = Cardinality(Expired)
      /\ Cardinality(Called') = Cardinality(Called)
  <2>1. Kind(w) = "none" /\ Kind(w)' = "running"
    BY <1>0, <1>1 DEF Kind
  <2> QED
    BY <1>1, <2>1, Changed DEF Gains
<1>5. Counted'
  BY <1>0, <1>4 DEF Counted
<1> QED
  BY <1>2, <1>3, <1>4, <1>5 DEF Threads

\* start() restarts an expired thread.
LEMMA Restarted ==
  ASSUME Types, Threads, NEW t \in Tasks, expiredThreads # <<>>,
         expiredThreads' = Tail(expiredThreads), Runs(Head(expiredThreads), t),
         activeThreads' = activeThreads + 1, UNCHANGED <<allThreads, waitingThreads, joining>>
  PROVE  Threads' /\ Cardinality(Called') = Cardinality(Called)
<1>w. PICK w : w = Head(expiredThreads)
  OBVIOUS
<1>0. Lists /\ Joined /\ Counted /\ allThreads \subseteq Workers /\ expiredThreads \in Seq(Workers)
  BY DEF Threads, Types
<1>1. /\ Distinct(expiredThreads') /\ Range(expiredThreads') = Range(expiredThreads) \ {w}
      /\ w \in Range(expiredThreads) /\ w \in Workers
      /\ Len(expiredThreads') = Len(expiredThreads) - 1 /\ Len(expiredThreads) \in Nat
  BY <1>0, <1>w, DistinctTail, TailIs DEF Lists
<1>2. w \in allThreads /\ pc[w] = "finished"
  BY <1>0, <1>1 DEF Lists, Expired
<1>3. /\ pc'[w] = "running" /\ task'[w] = t /\ Others(w) /\ allThreads' \subseteq Workers
  BY <1>0, <1>1, <1>w DEF Runs, Types, Others
<1>4. Lists'
  <2>1. Waiting' = Waiting /\ Expired' = Expired \ {w}
    BY <1>0, <1>2, <1>3 DEF Waiting, Expired, Others
  <2> QED
    BY <1>0, <1>1, <1>2, <1>3, <2>1 DEF Lists, Others
<1>5. Joined'
  BY <1>0, <1>2, <1>3, JoinedStays DEF Others
<1>6. /\ Cardinality(Running') = Cardinality(Running) + 1
      /\ Cardinality(Waiting') = Cardinality(Waiting)
      /\ Cardinality(Expired') = Cardinality(Expired) - 1
      /\ Cardinality(Called') = Cardinality(Called)
  <2>1. Kind(w) = "finished" /\ Kind(w)' = "running"
    BY <1>2, <1>3 DEF Kind
  <2>2. w \in Workers
    BY <1>1
  <2>3. /\ Cardinality(Running') = Cardinality(Running) + Gains("running", "finished", "running")
        /\ Cardinality(Waiting') = Cardinality(Waiting) + Gains("asleep", "finished", "running")
        /\ Cardinality(Expired') = Cardinality(Expired) + Gains("finished", "finished", "running")
        /\ Cardinality(Called') = Cardinality(Called) + Gains("woken", "finished", "running")
        /\ Cardinality(Running) \in Nat /\ Cardinality(Waiting) \in Nat
        /\ Cardinality(Expired) \in Nat /\ Cardinality(Called) \in Nat
    BY <1>3, <2>1, <2>2, Changed
  <2> QED
    BY <2>3 DEF Gains
<1>7. Counted'
  BY <1>0, <1>1, <1>6 DEF Counted
<1> QED
  BY <1>4, <1>5, <1>6, <1>7 DEF Threads

\* start() wakes a waiting thread.
LEMMA Recycled ==
  ASSUME Types, Threads, waitingThreads # <<>>, waitingThreads' = Tail(waitingThreads),
         pc' = [pc EXCEPT ![Head(waitingThreads)] = "woken"],
         UNCHANGED <<allThreads, expiredThreads, activeThreads, task, joining>>
  PROVE  Threads' /\ Cardinality(Called') = Cardinality(Called) + 1
<1>w. PICK w : w = Head(waitingThreads)
  OBVIOUS
<1>0. Lists /\ Joined /\ Counted /\ allThreads \subseteq Workers /\ waitingThreads \in Seq(Workers)
  BY DEF Threads, Types
<1>1. /\ Distinct(waitingThreads') /\ Range(waitingThreads') = Range(waitingThreads) \ {w}
      /\ w \in Range(waitingThreads) /\ w \in Workers
      /\ Len(waitingThreads') = Len(waitingThreads) - 1 /\ Len(waitingThreads) \in Nat
  BY <1>0, <1>w, DistinctTail, TailIs DEF Lists
<1>2. w \in allThreads /\ pc[w] = "asleep"
  BY <1>0, <1>1 DEF Lists, Waiting
<1>3. /\ pc'[w] = "woken" /\ task' = task /\ Others(w) /\ allThreads' \subseteq Workers
  BY <1>0, <1>1, <1>w DEF Types, Others
<1>4. Lists'
  <2>1. Expired' = Expired /\ Waiting' = Waiting \ {w}
    BY <1>0, <1>2, <1>3 DEF Waiting, Expired, Others
  <2> QED
    BY <1>0, <1>1, <1>2, <1>3, <2>1 DEF Lists, Others
<1>5. Joined'
  BY <1>0, <1>2, <1>3, JoinedStays DEF Others
<1>6. /\ Cardinality(Running') = Cardinality(Running)
      /\ Cardinality(Expired') = Cardinality(Expired)
      /\ Cardinality(Waiting') = Cardinality(Waiting) - 1
      /\ Cardinality(Called') = Cardinality(Called) + 1
  <2>1. Kind(w) = "asleep" /\ Kind(w)' = "woken"
    BY <1>2, <1>3 DEF Kind
  <2>2. w \in Workers
    BY <1>1
  <2>3. /\ Cardinality(Running') = Cardinality(Running) + Gains("running", "asleep", "woken")
        /\ Cardinality(Waiting') = Cardinality(Waiting) + Gains("asleep", "asleep", "woken")
        /\ Cardinality(Expired') = Cardinality(Expired) + Gains("finished", "asleep", "woken")
        /\ Cardinality(Called') = Cardinality(Called) + Gains("woken", "asleep", "woken")
        /\ Cardinality(Running) \in Nat /\ Cardinality(Waiting) \in Nat
        /\ Cardinality(Expired) \in Nat /\ Cardinality(Called) \in Nat
    BY <1>3, <2>1, <2>2, Changed
  <2> QED
    BY <2>3 DEF Gains
<1>7. Counted'
  BY <1>0, <1>1, <1>6 DEF Counted
<1> QED
  BY <1>4, <1>5, <1>6, <1>7 DEF Threads

\* A thread goes on to its next runnable.
LEMMA TookMore ==
  ASSUME Types, Threads, NEW w \in allThreads, NEW t \in Tasks, pc[w] = "running", Runs(w, t),
         activeThreads' = activeThreads, UNCHANGED <<pool, joining>>
  PROVE  Threads' /\ Cardinality(Called') = Cardinality(Called)
<1>1. Lists /\ Joined /\ Counted /\ allThreads \subseteq Workers /\ w \in Workers
  BY DEF Threads, Types
<1>2. /\ allThreads' = allThreads /\ waitingThreads' = waitingThreads
      /\ expiredThreads' = expiredThreads /\ joining' = joining
  BY DEF pool
<1>3. /\ pc'[w] = "running" /\ task'[w] = t /\ Others(w)
  BY <1>1, <1>2 DEF Runs, Types, Others
<1>4. Lists'
  <2>1. Expired' = Expired /\ Waiting' = Waiting
    BY <1>1, <1>2, <1>3 DEF Waiting, Expired, Others
  <2> QED
    BY <1>1, <1>2, <1>3, <2>1 DEF Lists, Others
<1>5. Joined'
  BY <1>1, <1>2, <1>3, JoinedStays DEF Others
<1>6. /\ Cardinality(Running') = Cardinality(Running)
      /\ Cardinality(Waiting') = Cardinality(Waiting)
      /\ Cardinality(Expired') = Cardinality(Expired)
      /\ Cardinality(Called') = Cardinality(Called)
  <2>1. Kind(w) = "running" /\ Kind(w)' = "running"
    BY <1>2, <1>3 DEF Kind
  <2>2. /\ Cardinality(Running') = Cardinality(Running) + Gains("running", "running", "running")
        /\ Cardinality(Waiting') = Cardinality(Waiting) + Gains("asleep", "running", "running")
        /\ Cardinality(Expired') = Cardinality(Expired) + Gains("finished", "running", "running")
        /\ Cardinality(Called') = Cardinality(Called) + Gains("woken", "running", "running")
        /\ Cardinality(Running) \in Nat /\ Cardinality(Waiting) \in Nat
        /\ Cardinality(Expired) \in Nat /\ Cardinality(Called) \in Nat
    BY <1>1, <1>2, <1>3, <2>1, Changed
  <2> QED
    BY <2>2 DEF Gains
<1>7. Counted'
  BY <1>1, <1>2, <1>6 DEF Counted
<1> QED
  BY <1>4, <1>5, <1>6, <1>7 DEF Threads

\* A thread that was woken finds a runnable.
LEMMA TookWoken ==
  ASSUME Types, Threads, NEW w \in allThreads, NEW t \in Tasks, pc[w] = "woken", Runs(w, t),
         activeThreads' = activeThreads + 1, UNCHANGED <<pool, joining>>
  PROVE  Threads' /\ Cardinality(Called') = Cardinality(Called) - 1
<1>1. Lists /\ Joined /\ Counted /\ allThreads \subseteq Workers /\ w \in Workers
  BY DEF Threads, Types
<1>2. /\ allThreads' = allThreads /\ waitingThreads' = waitingThreads
      /\ expiredThreads' = expiredThreads /\ joining' = joining
  BY DEF pool
<1>3. /\ pc'[w] = "running" /\ task'[w] = t /\ Others(w)
  BY <1>1, <1>2 DEF Runs, Types, Others
<1>4. Lists'
  <2>1. Expired' = Expired /\ Waiting' = Waiting
    BY <1>1, <1>2, <1>3 DEF Waiting, Expired, Others
  <2> QED
    BY <1>1, <1>2, <1>3, <2>1 DEF Lists, Others
<1>5. Joined'
  BY <1>1, <1>2, <1>3, JoinedStays DEF Others
<1>6. /\ Cardinality(Running') = Cardinality(Running) + 1
      /\ Cardinality(Waiting') = Cardinality(Waiting)
      /\ Cardinality(Expired') = Cardinality(Expired)
      /\ Cardinality(Called') = Cardinality(Called) - 1
  <2>1. Kind(w) = "woken" /\ Kind(w)' = "running"
    BY <1>2, <1>3 DEF Kind
  <2>2. /\ Cardinality(Running') = Cardinality(Running) + Gains("running", "woken", "running")
        /\ Cardinality(Waiting') = Cardinality(Waiting) + Gains("asleep", "woken", "running")
        /\ Cardinality(Expired') = Cardinality(Expired) + Gains("finished", "woken", "running")
        /\ Cardinality(Called') = Cardinality(Called) + Gains("woken", "woken", "running")
        /\ Cardinality(Running) \in Nat /\ Cardinality(Waiting) \in Nat
        /\ Cardinality(Expired) \in Nat /\ Cardinality(Called) \in Nat
    BY <1>1, <1>2, <1>3, <2>1, Changed
  <2> QED
    BY <2>2 DEF Gains
<1>7. Counted'
  BY <1>1, <1>2, <1>6 DEF Counted
<1> QED
  BY <1>4, <1>5, <1>6, <1>7 DEF Threads

\* A thread without work joins the list of those that wait for it.
LEMMA FellAsleep ==
  ASSUME Types, Threads, NEW w \in allThreads, pc[w] \in {"running", "woken"}, Stops(w, "asleep"),
         waitingThreads' = Append(waitingThreads, w),
         activeThreads' = IF pc[w] = "running" THEN activeThreads - 1 ELSE activeThreads,
         UNCHANGED <<allThreads, expiredThreads, joining>>
  PROVE  /\ Threads'
         /\ Cardinality(Called') = Cardinality(Called) - IF pc[w] = "running" THEN 0 ELSE 1
<1>1. /\ Lists /\ Joined /\ Counted /\ allThreads \subseteq Workers /\ w \in Workers
      /\ waitingThreads \in Seq(Workers)
  BY DEF Threads, Types
<1>2. w \notin Range(waitingThreads)
  BY <1>1 DEF Lists, Waiting
<1>3. /\ pc'[w] = "asleep" /\ task'[w] = NoTask /\ Others(w) /\ allThreads' = allThreads
  BY <1>1 DEF Stops, Types, Others
<1>4. Lists'
  <2>1. Expired' = Expired /\ Waiting' = Waiting \cup {w}
    BY <1>1, <1>3 DEF Waiting, Expired, Others
  <2>2. /\ Distinct(waitingThreads') /\ Range(waitingThreads') = Range(waitingThreads) \cup {w}
    BY <1>1, <1>2, DistinctAppend DEF Lists
  <2> QED
    BY <1>1, <1>3, <2>1, <2>2 DEF Lists, Others
<1>5. Joined'
  BY <1>1, <1>3, JoinedStays DEF Others
<1>6. Len(waitingThreads') = Len(waitingThreads) + 1
  BY <1>1, AppendIs
<1>7. CASE pc[w] = "running"
  <2>1. /\ Cardinality(Running') = Cardinality(Running) - 1
        /\ Cardinality(Waiting') = Cardinality(Waiting) + 1 /\ Cardinality(Expired') = Cardinality(Expired)
        /\ Cardinality(Called') = Cardinality(Called) /\ Cardinality(Called) \in Nat
    <3>1. Kind(w) = "running" /\ Kind(w)' = "asleep"
      BY <1>3, <1>7 DEF Kind
    <3>2. /\ Cardinality(Running') = Cardinality(Running) + Gains("running", "running", "asleep")
          /\ Cardinality(Waiting') = Cardinality(Waiting) + Gains("asleep", "running", "asleep")
          /\ Cardinality(Expired') = Cardinality(Expired) + Gains("finished", "running", "asleep")
          /\ Cardinality(Called') = Cardinality(Called) + Gains("woken", "running", "asleep")
          /\ Cardinality(Running) \in Nat /\ Cardinality(Waiting) \in Nat
          /\ Cardinality(Expired) \in Nat /\ Cardinality(Called) \in Nat
      BY <1>1, <1>3, <3>1, Changed
    <3> QED
      BY <3>2 DEF Gains
  <2>2. Counted'
    BY <1>1, <1>6, <1>7, <2>1 DEF Counted
  <2> QED
    BY <1>4, <1>5, <1>7, <2>1, <2>2 DEF Threads
<1>8. CASE pc[w] = "woken"
  <2>1. /\ Cardinality(Running') = Cardinality(Running)
        /\ Cardinality(Waiting') = Cardinality(Waiting) + 1 /\ Cardinality(Expired') = Cardinality(Expired)
        /\ Cardinality(Called') = Cardinality(Called) - 1
    <3>1. Kind(w) = "woken" /\ Kind(w)' = "asleep"
      BY <1>3, <1>8 DEF Kind
    <3>2. /\ Cardinality(Running') = Cardinality(Running) + Gains("running", "woken", "asleep")
          /\ Cardinality(Waiting') = Cardinality(Waiting) + Gains("asleep", "woken", "asleep")
          /\ Cardinality(Expired') = Cardinality(Expired) + Gains("finished", "woken", "asleep")
          /\ Cardinality(Called') = Cardinality(Called) + Gains("woken", "woken", "asleep")
          /\ Cardinality(Running) \in Nat /\ Cardinality(Waiting) \in Nat
          /\ Cardinality(Expired) \in Nat /\ Cardinality(Called) \in Nat
      BY <1>1, <1>3, <3>1, Changed
    <3> QED
      BY <3>2 DEF Gains
  <2>2. Counted'
    BY <1>1, <1>6, <1>8, <2>1 DEF Counted
  <2> QED
    BY <1>4, <1>5, <1>8, <2>1, <2>2 DEF Threads
<1> QED
  BY <1>7, <1>8

\* A thread too many joins the list of expired ones.
LEMMA Ended ==
  ASSUME Types, Threads, NEW w \in allThreads, pc[w] \in {"running", "woken"}, Stops(w, "finished"),
         expiredThreads' = Append(expiredThreads, w),
         activeThreads' = IF pc[w] = "running" THEN activeThreads - 1 ELSE activeThreads,
         UNCHANGED <<allThreads, waitingThreads, joining>>
  PROVE  /\ Threads'
         /\ Cardinality(Called') = Cardinality(Called) - IF pc[w] = "running" THEN 0 ELSE 1
<1>1. /\ Lists /\ Joined /\ Counted /\ allThreads \subseteq Workers /\ w \in Workers
      /\ expiredThreads \in Seq(Workers)
  BY DEF Threads, Types
<1>2. w \notin Range(expiredThreads)
  BY <1>1 DEF Lists, Expired
<1>3. /\ pc'[w] = "finished" /\ task'[w] = NoTask /\ Others(w) /\ allThreads' = allThreads
  BY <1>1 DEF Stops, Types, Others
<1>4. Lists'
  <2>1. Waiting' = Waiting /\ Expired' = Expired \cup {w}
    BY <1>1, <1>3 DEF Waiting, Expired, Others
  <2>2. /\ Distinct(expiredThreads') /\ Range(expiredThreads') = Range(expiredThreads) \cup {w}
    BY <1>1, <1>2, DistinctAppend DEF Lists
  <2> QED
    BY <1>1, <1>3, <2>1, <2>2 DEF Lists, Others
<1>5. Joined'
  BY <1>1, <1>3, JoinedStays DEF Others
<1>6. Len(expiredThreads') = Len(expiredThreads) + 1
  BY <1>1, AppendIs
<1>7. CASE pc[w] = "running"
  <2>1. /\ Cardinality(Running') = Cardinality(Running) - 1
        /\ Cardinality(Waiting') = Cardinality(Waiting) /\ Cardinality(Expired') = Cardinality(Expired) + 1
        /\ Cardinality(Called') = Cardinality(Called) /\ Cardinality(Called) \in Nat
    <3>1. Kind(w) = "running" /\ Kind(w)' = "finished"
      BY <1>3, <1>7 DEF Kind
    <3>2. /\ Cardinality(Running') = Cardinality(Running) + Gains("running", "running", "finished")
          /\ Cardinality(Waiting') = Cardinality(Waiting) + Gains("asleep", "running", "finished")
          /\ Cardinality(Expired') = Cardinality(Expired) + Gains("finished", "running", "finished")
          /\ Cardinality(Called') = Cardinality(Called) + Gains("woken", "running", "finished")
          /\ Cardinality(Running) \in Nat /\ Cardinality(Waiting) \in Nat
          /\ Cardinality(Expired) \in Nat /\ Cardinality(Called) \in Nat
      BY <1>1, <1>3, <3>1, Changed
    <3> QED
      BY <3>2 DEF Gains
  <2>2. Counted'
    BY <1>1, <1>6, <1>7, <2>1 DEF Counted
  <2> QED
    BY <1>4, <1>5, <1>7, <2>1, <2>2 DEF Threads
<1>8. CASE pc[w] = "woken"
  <2>1. /\ Cardinality(Running') = Cardinality(Running)
        /\ Cardinality(Waiting') = Cardinality(Waiting) /\ Cardinality(Expired') = Cardinality(Expired) + 1
        /\ Cardinality(Called') = Cardinality(Called) - 1
    <3>1. Kind(w) = "woken" /\ Kind(w)' = "finished"
      BY <1>3, <1>8 DEF Kind
    <3>2. /\ Cardinality(Running') = Cardinality(Running) + Gains("running", "woken", "finished")
          /\ Cardinality(Waiting') = Cardinality(Waiting) + Gains("asleep", "woken", "finished")
          /\ Cardinality(Expired') = Cardinality(Expired) + Gains("finished", "woken", "finished")
          /\ Cardinality(Called') = Cardinality(Called) + Gains("woken", "woken", "finished")
          /\ Cardinality(Running) \in Nat /\ Cardinality(Waiting) \in Nat
          /\ Cardinality(Expired) \in Nat /\ Cardinality(Called) \in Nat
      BY <1>1, <1>3, <3>1, Changed
    <3> QED
      BY <3>2 DEF Gains
  <2>2. Counted'
    BY <1>1, <1>6, <1>8, <2>1 DEF Counted
  <2> QED
    BY <1>4, <1>5, <1>8, <2>1, <2>2 DEF Threads
<1> QED
  BY <1>7, <1>8

\* A waiting thread expires.
LEMMA TimedOut ==
  ASSUME Types, Threads, NEW w \in allThreads, NEW i \in DOMAIN waitingThreads,
         waitingThreads[i] = w, waitingThreads' = RemoveAt(waitingThreads, i),
         expiredThreads' = Append(expiredThreads, w), Stops(w, "finished"),
         UNCHANGED <<allThreads, activeThreads, joining>>
  PROVE  Threads' /\ Cardinality(Called') = Cardinality(Called)
<1>1. /\ Lists /\ Joined /\ Counted /\ allThreads \subseteq Workers /\ w \in Workers
      /\ waitingThreads \in Seq(Workers) /\ expiredThreads \in Seq(Workers)
      /\ i \in 1..Len(waitingThreads) /\ Len(waitingThreads) \in Nat
  BY DEF Threads, Types
<1>2. /\ Distinct(waitingThreads') /\ Range(waitingThreads') = Range(waitingThreads) \ {w}
      /\ w \in Range(waitingThreads) /\ Len(waitingThreads') = Len(waitingThreads) - 1
  BY <1>1, DistinctRemove, RemoveAtIs DEF Lists
<1>3. pc[w] = "asleep" /\ w \notin Range(expiredThreads)
  BY <1>1, <1>2 DEF Lists, Waiting, Expired
<1>4. /\ pc'[w] = "finished" /\ task'[w] = NoTask /\ Others(w) /\ allThreads' = allThreads
  BY <1>1 DEF Stops, Types, Others
<1>5. Lists'
  <2>1. Expired' = Expired \cup {w} /\ Waiting' = Waiting \ {w}
    BY <1>1, <1>4 DEF Waiting, Expired, Others
  <2>2. Distinct(expiredThreads') /\ Range(expiredThreads') = Range(expiredThreads) \cup {w}
    BY <1>1, <1>3, DistinctAppend DEF Lists
  <2> QED
    BY <1>1, <1>2, <1>4, <2>1, <2>2 DEF Lists, Others
<1>6. Joined'
  BY <1>1, <1>4, JoinedStays DEF Others
<1>7. Len(expiredThreads') = Len(expiredThreads) + 1
  BY <1>1, AppendIs
<1>8. /\ Cardinality(Running') = Cardinality(Running)
      /\ Cardinality(Waiting') = Cardinality(Waiting) - 1
      /\ Cardinality(Expired') = Cardinality(Expired) + 1
      /\ Cardinality(Called') = Cardinality(Called)
  <2>1. Kind(w) = "asleep" /\ Kind(w)' = "finished"
    BY <1>3, <1>4 DEF Kind
  <2>2. /\ Cardinality(Running') = Cardinality(Running) + Gains("running", "asleep", "finished")
        /\ Cardinality(Waiting') = Cardinality(Waiting) + Gains("asleep", "asleep", "finished")
        /\ Cardinality(Expired') = Cardinality(Expired) + Gains("finished", "asleep", "finished")
        /\ Cardinality(Called') = Cardinality(Called) + Gains("woken", "asleep", "finished")
        /\ Cardinality(Running) \in Nat /\ Cardinality(Waiting) \in Nat
        /\ Cardinality(Expired) \in Nat /\ Cardinality(Called) \in Nat
    BY <1>1, <1>4, <2>1, Changed
  <2> QED
    BY <2>2 DEF Gains
<1>9. Counted'
  BY <1>1, <1>2, <1>7, <1>8 DEF Counted
<1> QED
  BY <1>5, <1>6, <1>8, <1>9 DEF Threads

\* A thread that reset() has forgotten ends, or is woken by it.
LEMMA ForgottenMoves ==
  ASSUME Types, Threads, NEW w \in Workers, w \notin allThreads,
         pc[w] \in {"asleep", "woken"}, pc' \in [Workers -> WorkerStates],
         pc'[w] \in {"woken", "finished"}, task'[w] = NoTask, Others(w),
         UNCHANGED <<pool, activeThreads, joining>>
  PROVE  Threads' /\ Cardinality(Called') = Cardinality(Called)
<1>1. Lists /\ Joined /\ Counted /\ allThreads \subseteq Workers
  BY DEF Threads, Types
<1>2. /\ allThreads' = allThreads /\ waitingThreads' = waitingThreads
      /\ expiredThreads' = expiredThreads /\ joining' = joining
  BY DEF pool
<1>3. /\ Waiting' = Waiting /\ Expired' = Expired /\ Running' = Running /\ Called' = Called
  BY <1>1, <1>2 DEF Waiting, Expired, Running, Called, Summoned, Others
<1>4. Lists'
  BY <1>1, <1>2, <1>3 DEF Lists, Others
<1>5. Joined'
  BY <1>1, <1>2, JoinedStays DEF Others
<1>6. Counted'
  BY <1>1, <1>2, <1>3 DEF Counted
<1> QED
  BY <1>3, <1>4, <1>5, <1>6 DEF Threads

\* Steps that leave the threads alone.
LEMMA SameThreads ==
  ASSUME Types, Threads, UNCHANGED <<pool, activeThreads, pc, task, joining>>
  PROVE  Threads' /\ Cardinality(Called') = Cardinality(Called)
  BY DEF pool, Threads, Lists, Joined, Counted, Waiting, Expired, Running, Called, Summoned

\* reset() forgets all threads; no thread runs then.
LEMMA AllForgotten ==
  ASSUME Types, Threads, NEW c \in Clients, Reset(c), UNCHANGED <<activeThreads, pc, task>>,
         activeThreads = 0
  PROVE  /\ Threads' /\ joining' \in [Clients -> Seq(Workers)]
         /\ Called' = {} /\ Running = {}
<1>1. Lists /\ Joined /\ Counted /\ allThreads \subseteq Workers
  BY DEF Threads, Types
<1>2. PICK order \in SetToSeqs(allThreads) : joining' = [joining EXCEPT ![c] = order]
  BY DEF Reset
<1>3. /\ order \in Seq(allThreads) /\ order \in Seq(Workers) /\ Distinct(order)
      /\ Range(order) \subseteq allThreads
  <2>1. Cardinality(allThreads) \in Nat
    BY <1>1, SetCounts
  <2>2. order \in Seq(allThreads) /\ Len(order) = Cardinality(allThreads)
    BY <1>2, <2>1 DEF SetToSeqs
  <2>3. Distinct(order)
    BY <1>2, <2>1, <2>2 DEF SetToSeqs, Distinct
  <2>4. Range(order) \subseteq allThreads
    BY <2>2, RangeIs
  <2>5. order \in Seq(Workers)
    BY <1>1, <2>1, <2>2
  <2> QED
    BY <2>2, <2>3, <2>4, <2>5
<1>4. /\ joining'[c] = order /\ \A d \in Clients \ {c} : joining'[d] = joining[d]
      /\ joining' \in [Clients -> Seq(Workers)]
  BY <1>2, <1>3 DEF Types
<1>5. Running = {}
  BY SetCounts, <1>1 DEF Counted, Running
<1>6. allThreads' = {} /\ waitingThreads' = <<>> /\ expiredThreads' = <<>>
  BY DEF Reset
<1>7. /\ Waiting' = {} /\ Expired' = {} /\ Called' = {} /\ Running' = {}
  BY <1>5, <1>6 DEF Waiting, Expired, Called, Summoned, Running
<1>8. Lists'
  <2>1. Distinct(<<>>) /\ Range(<<>>) = {}
    BY DEF Distinct, Range
  <2> QED
    BY <1>1, <1>5, <1>6, <1>7, <2>1 DEF Lists, Running
<1>9. Joined'
  BY <1>1, <1>3, <1>4, <1>6 DEF Joined, Lists
<1>10. Counted'
  BY <1>6, <1>7, FS_EmptySet DEF Counted
<1> QED
  BY <1>4, <1>5, <1>7, <1>8, <1>9, <1>10 DEF Threads

\* reset() deletes the thread it has waited for.
LEMMA Deleted ==
  ASSUME Types, Threads, NEW c \in Clients, ResetDelete(c)
  PROVE  /\ Threads' /\ Cardinality(Called') = Cardinality(Called)
         /\ joining' \in [Clients -> Seq(Workers)] /\ pc' \in [Workers -> WorkerStates]
<1>1. /\ Lists /\ Joined /\ Counted /\ allThreads \subseteq Workers
      /\ joining[c] \in Seq(Workers) /\ joining[c] # <<>>
  BY DEF Threads, Types, ResetDelete
<1>2. PICK w : w = Head(joining[c])
  OBVIOUS
<1>3. PICK rest : rest = Tail(joining[c])
  OBVIOUS
<1>4. /\ w \in Workers /\ rest \in Seq(Workers) /\ Distinct(rest)
      /\ w \in Range(joining[c]) /\ Range(rest) = Range(joining[c]) \ {w}
  BY <1>1, <1>2, <1>3, DistinctTail, TailIs DEF Joined
<1>5. w \notin allThreads /\ pc[w] = "finished"
  BY <1>1, <1>2, <1>4 DEF Joined, ResetDelete
<1>6. /\ pc'[w] = "none" /\ task' = task /\ allThreads' = allThreads
      /\ waitingThreads' = waitingThreads /\ expiredThreads' = expiredThreads
      /\ activeThreads' = activeThreads /\ Others(w) /\ pc' \in [Workers -> WorkerStates]
      /\ joining' = [joining EXCEPT ![c] = rest]
  BY <1>2, <1>3, <1>4 DEF ResetDelete, pool, Others, Types, WorkerStates
<1>7. /\ joining'[c] = rest /\ \A d \in Clients \ {c} : joining'[d] = joining[d]
      /\ joining' \in [Clients -> Seq(Workers)]
  BY <1>4, <1>6 DEF Types
<1>8. Waiting' = Waiting /\ Expired' = Expired /\ Running' = Running /\ Called' = Called
  BY <1>1, <1>5, <1>6 DEF Waiting, Expired, Running, Called, Summoned, Others
<1>9. Lists'
  BY <1>1, <1>4, <1>5, <1>6, <1>8 DEF Lists, Others
<1>10. Joined'
  <2>1. \A d \in Clients : Range(joining[d]) \subseteq Workers
    BY RangeIs DEF Types
  <2>2. ASSUME NEW d \in Clients
        PROVE  Range(joining'[d]) = Range(joining[d]) \ {w} /\ Distinct(joining'[d])
    <3>1. CASE d = c
      BY <1>4, <1>7, <3>1
    <3>2. CASE d # c
      <4>1. w \notin Range(joining[d])
        BY <1>1, <1>4, <3>2 DEF Joined
      <4> QED
        BY <1>1, <1>7, <3>2, <4>1 DEF Joined
    <3> QED
      BY <3>1, <3>2
  <2>3. ASSUME NEW d \in Clients, NEW v \in Range(joining'[d])
        PROVE  /\ v \notin allThreads' /\ pc'[v] # "none"
               /\ \A e \in Clients : v \in Range(joining'[e]) => e = d
    <3>1. v \in Range(joining[d]) /\ v # w /\ v \in Workers
      BY <2>1, <2>2, <2>3
    <3>2. v \notin allThreads' /\ pc'[v] # "none"
      BY <1>1, <1>6, <3>1 DEF Joined, Others
    <3>3. \A e \in Clients : v \in Range(joining[e]) => e = d
      BY <1>1, <3>1 DEF Joined
    <3> QED
      BY <2>2, <3>2, <3>3
  <2> QED
    BY <2>2, <2>3 DEF Joined
<1>11. Counted'
  BY <1>1, <1>6, <1>8 DEF Counted
<1> QED
  BY <1>6, <1>7, <1>8, <1>9, <1>10, <1>11 DEF Threads

-----------------------------------------------------------------------------
(* The invariant: the queue.                                               *)

PageOk(p) ==
  /\ p \in AnyPage /\ p.priority >= 0
  /\ Len(p.tasks) <= p.pushed /\ Distinct(p.tasks)

\* Pages by falling priority, no runnable twice.
Orderly(q) ==
  /\ q \in Seq(AnyPage)
  /\ \A i \in 1..Len(q) : PageOk(q[i])
  /\ \A i, j \in 1..Len(q) : i # j => Range(q[i].tasks) \cap Range(q[j].tasks) = {}
  /\ \A i, j \in 1..Len(q) : j < i => q[j].priority >= q[i].priority

\* And no page without a runnable.
Full(q) == Orderly(q) /\ \A i \in 1..Len(q) : q[i].tasks # <<>>

LEMMA InQueueIs ==
  ASSUME NEW q \in Seq(AnyPage)
  PROVE  /\ \A x : x \in InQueue(q) <=> \E i \in 1..Len(q) : x \in Range(q[i].tasks)
         /\ InQueue(q) \subseteq Tasks
         /\ \A i \in 1..Len(q) : q[i] \in AnyPage /\ q[i].tasks \in Seq(Tasks)
<1>1. DOMAIN q = 1..Len(q)
  OBVIOUS
<1>2. \A x : x \in InQueue(q) <=> \E i \in 1..Len(q) : x \in Range(q[i].tasks)
  BY <1>1 DEF InQueue
<1>3. \A i \in 1..Len(q) : q[i] \in AnyPage /\ q[i].tasks \in Seq(Tasks)
  <2>1. \A p \in AnyPage : p.tasks \in Seq(Tasks)
    BY DEF AnyPage
  <2> QED
    BY <2>1
<1>4. \A i \in 1..Len(q) : Range(q[i].tasks) \subseteq Tasks
  BY <1>3, RangeIs
<1> QED
  BY <1>2, <1>3, <1>4

\* Another page of that priority takes the place of one.
LEMMA PageReplaced ==
  ASSUME NEW q, Orderly(q), NEW i \in 1..Len(q), NEW p, PageOk(p),
         p.priority = q[i].priority,
         \A j \in 1..Len(q) : j # i => Range(p.tasks) \cap Range(q[j].tasks) = {},
         NEW r \in Seq(AnyPage), Len(r) = Len(q), r[i] = p,
         \A j \in 1..Len(q) : j # i => r[j] = q[j]
  PROVE  /\ Orderly(r)
         /\ InQueue(r) = (InQueue(q) \ Range(q[i].tasks)) \cup Range(p.tasks)
<1>1. q \in Seq(AnyPage)
  BY DEF Orderly
<1>2. Orderly(r)
  <2>1. \A j \in 1..Len(q) : r[j].priority = q[j].priority /\ PageOk(r[j])
    BY DEF Orderly
  <2> QED
    BY <2>1 DEF Orderly
<1>3. ASSUME NEW x
      PROVE  x \in InQueue(r) <=> x \in (InQueue(q) \ Range(q[i].tasks)) \cup Range(p.tasks)
  <2>1. x \in InQueue(r) <=> \E j \in 1..Len(q) : x \in Range(r[j].tasks)
    BY InQueueIs
  <2>2. x \in InQueue(q) <=> \E j \in 1..Len(q) : x \in Range(q[j].tasks)
    BY <1>1, InQueueIs
  <2> QED
    BY <2>1, <2>2 DEF Orderly
<1> QED
  BY <1>2, <1>3

\* A page is taken out of the queue.
LEMMA PageDropped ==
  ASSUME NEW q, Orderly(q), NEW i \in 1..Len(q), NEW r \in Seq(AnyPage),
         Len(r) = Len(q) - 1,
         \A k \in 1..(i - 1) : r[k] = q[k],
         \A k \in i..(Len(q) - 1) : r[k] = q[k + 1]
  PROVE  /\ Orderly(r) /\ InQueue(r) = InQueue(q) \ Range(q[i].tasks)
         /\ (\A k \in 1..Len(q) : k # i => q[k].tasks # <<>>) => Full(r)
<1> DEFINE at(k) == IF k < i THEN k ELSE k + 1
<1>1. q \in Seq(AnyPage) /\ Len(q) \in Nat
  BY DEF Orderly
<1>2. \A k \in 1..Len(r) : at(k) \in 1..Len(q) /\ at(k) # i /\ r[k] = q[at(k)]
  BY <1>1
<1>3. \A k, m \in 1..Len(r) : (k # m => at(k) # at(m)) /\ (k < m => at(k) < at(m))
  BY <1>1
<1>4. \A k \in 1..Len(q) : k # i => \E m \in 1..Len(r) : at(m) = k
  <2>1. ASSUME NEW k \in 1..Len(q), k # i PROVE \E m \in 1..Len(r) : at(m) = k
    <3>1. CASE k < i
      BY <1>1, <3>1
    <3>2. CASE k > i
      <4>1. k - 1 \in 1..Len(r) /\ at(k - 1) = k
        BY <1>1, <3>2
      <4> QED
        BY <4>1
    <3> QED
      BY <2>1, <3>1, <3>2
  <2> QED
    BY <2>1
<1> HIDE DEF at
<1>5. Orderly(r)
  <2>1. \A k \in 1..Len(r) : PageOk(r[k])
    BY <1>2 DEF Orderly
  <2>2. ASSUME NEW k \in 1..Len(r), NEW m \in 1..Len(r), k # m
        PROVE  Range(r[k].tasks) \cap Range(r[m].tasks) = {}
    <3>1. /\ at(k) \in 1..Len(q) /\ at(m) \in 1..Len(q) /\ at(k) # at(m)
          /\ r[k] = q[at(k)] /\ r[m] = q[at(m)]
      BY <1>2, <1>3, <2>2
    <3> QED
      BY <3>1 DEF Orderly
  <2>3. ASSUME NEW k \in 1..Len(r), NEW m \in 1..Len(r), m < k
        PROVE  r[m].priority >= r[k].priority
    <3>1. /\ at(k) \in 1..Len(q) /\ at(m) \in 1..Len(q) /\ at(m) < at(k)
          /\ r[k] = q[at(k)] /\ r[m] = q[at(m)]
      BY <1>2, <1>3, <2>3
    <3> QED
      BY <3>1 DEF Orderly
  <2> QED
    BY <2>1, <2>2, <2>3 DEF Orderly
<1>6. ASSUME NEW x PROVE x \in InQueue(r) <=> x \in InQueue(q) \ Range(q[i].tasks)
  <2>1. x \in InQueue(r) <=> \E j \in 1..Len(r) : x \in Range(r[j].tasks)
    BY InQueueIs
  <2>2. x \in InQueue(q) <=> \E j \in 1..Len(q) : x \in Range(q[j].tasks)
    BY <1>1, InQueueIs
  <2>3. x \in InQueue(r) => x \in InQueue(q) /\ x \notin Range(q[i].tasks)
    BY <1>2, <2>1, <2>2 DEF Orderly
  <2>4. x \in InQueue(q) /\ x \notin Range(q[i].tasks) => x \in InQueue(r)
    BY <1>2, <1>4, <2>1, <2>2
  <2> QED
    BY <2>3, <2>4
<1>7. (\A k \in 1..Len(q) : k # i => q[k].tasks # <<>>) => Full(r)
  BY <1>2, <1>5 DEF Full
<1> QED
  BY <1>5, <1>6, <1>7

\* A new page comes behind all of at least its priority.
LEMMA PageInserted ==
  ASSUME NEW q, Orderly(q), NEW m \in 0..Len(q), NEW p, PageOk(p),
         \A k \in 1..m : q[k].priority >= p.priority,
         \A k \in (m + 1)..Len(q) : p.priority >= q[k].priority,
         Range(p.tasks) \cap InQueue(q) = {}
  PROVE  LET r == InsertAt(q, m + 1, p)
         IN  /\ Orderly(r) /\ Len(r) = Len(q) + 1
             /\ InQueue(r) = InQueue(q) \cup Range(p.tasks)
             /\ \A k \in 1..Len(r) :
                  r[k] = p \/ \E j \in 1..Len(q) : r[k] = q[j] /\ (m >= 1 => (k = 1 <=> j = 1))
<1> DEFINE r == InsertAt(q, m + 1, p)
<1>1. /\ q \in Seq(AnyPage) /\ Len(q) \in Nat /\ p \in AnyPage /\ m + 1 \in 1..(Len(q) + 1)
      /\ m \in Nat /\ m <= Len(q)
  BY DEF Orderly, PageOk
<1>2. /\ r \in Seq(AnyPage) /\ Len(r) = Len(q) + 1 /\ r[m + 1] = p
      /\ \A k \in 1..m : r[k] = q[k]
      /\ \A k \in (m + 2)..(Len(q) + 1) : r[k] = q[k - 1]
  <2>1. PICK i \in 1..(Len(q) + 1) : i = m + 1
    BY <1>1
  <2>2. r = InsertAt(q, i, p)
    BY <2>1
  <2> HIDE DEF r
  <2>3. /\ r \in Seq(AnyPage) /\ Len(r) = Len(q) + 1 /\ r[i] = p
        /\ \A k \in 1..(i - 1) : r[k] = q[k]
        /\ \A k \in (i + 1)..(Len(q) + 1) : r[k] = q[k - 1]
    <3>1. q \in Seq(AnyPage) /\ i \in 1..(Len(q) + 1) /\ p \in AnyPage
      BY <1>1, <2>1
    <3>2. LET s == InsertAt(q, i, p)
          IN  /\ s \in Seq(AnyPage) /\ Len(s) = Len(q) + 1
              /\ \A k \in 1..(i - 1) : s[k] = q[k]
              /\ s[i] = p
              /\ \A k \in (i + 1)..(Len(q) + 1) : s[k] = q[k - 1]
      BY <3>1, InsertAtIs
    <3> QED
      BY <2>2, <3>2
  <2>4. i - 1 = m /\ i + 1 = m + 2
    BY <1>1, <2>1
  <2> QED
    BY <2>1, <2>3, <2>4
<1> HIDE DEF r
<1>3. \A x : x \in InQueue(q) <=> \E j \in 1..Len(q) : x \in Range(q[j].tasks)
  BY <1>1, InQueueIs
<1>4. \A x : x \in InQueue(r) <=> \E j \in 1..Len(r) : x \in Range(r[j].tasks)
  BY <1>2, InQueueIs
<1> DEFINE at(k) == IF k <= m THEN k ELSE k - 1
<1>5. ASSUME NEW k \in 1..Len(r), k # m + 1
      PROVE  at(k) \in 1..Len(q) /\ r[k] = q[at(k)] /\ (k <= m => at(k) <= m) /\ (k > m => at(k) > m)
  <2>1. CASE k <= m
    BY <1>1, <1>2, <2>1
  <2>2. CASE k > m
    <3>1. k \in (m + 2)..(Len(q) + 1) /\ k - 1 \in 1..Len(q) /\ k - 1 > m
      BY <1>1, <1>2, <1>5, <2>2
    <3> QED
      BY <1>1, <1>2, <2>2, <3>1
  <2> QED
    BY <1>1, <2>1, <2>2
<1>6. \A k, n \in 1..Len(r) : k # m + 1 /\ n # m + 1 =>
        (k # n => at(k) # at(n)) /\ (k < n => at(k) < at(n))
  BY <1>1, <1>2
<1>7. \A k \in 1..Len(q) : \E n \in 1..Len(r) : n # m + 1 /\ at(n) = k
  <2>1. ASSUME NEW k \in 1..Len(q) PROVE \E n \in 1..Len(r) : n # m + 1 /\ at(n) = k
    <3>1. CASE k <= m
      BY <1>1, <1>2, <3>1
    <3>2. CASE k > m
      <4>1. k + 1 \in 1..Len(r) /\ k + 1 # m + 1 /\ at(k + 1) = k
        BY <1>1, <1>2, <3>2
      <4> QED
        BY <4>1
    <3> QED
      BY <1>1, <3>1, <3>2
  <2> QED
    BY <2>1
<1>8. \A k \in 1..Len(r) : k = m + 1 \/ r[k] = q[at(k)]
  BY <1>5
<1>9. \A k \in 1..Len(r) : k # m + 1 /\ m >= 1 => (k = 1 <=> at(k) = 1)
  BY <1>1
<1>10. \A k \in 1..Len(r) : k # m + 1 =>
         /\ at(k) \in 1..Len(q) /\ r[k] = q[at(k)]
         /\ (k <= m => at(k) \in 1..m) /\ (k > m => at(k) \in (m + 1)..Len(q))
  BY <1>1, <1>5
<1> HIDE DEF at
<1>11. Orderly(r)
  <2>1. \A k \in 1..Len(r) : PageOk(r[k])
    BY <1>2, <1>10 DEF Orderly
  <2>2. \A k \in 1..Len(q) : Range(p.tasks) \cap Range(q[k].tasks) = {}
    BY <1>3
  <2>3. ASSUME NEW k \in 1..Len(r), NEW n \in 1..Len(r), k # n
        PROVE  Range(r[k].tasks) \cap Range(r[n].tasks) = {}
    <3>1. CASE k = m + 1
      BY <1>2, <1>10, <2>2, <2>3, <3>1
    <3>2. CASE n = m + 1
      BY <1>2, <1>10, <2>2, <2>3, <3>2
    <3>3. CASE k # m + 1 /\ n # m + 1
      <4>1. /\ at(k) \in 1..Len(q) /\ r[k] = q[at(k)]
            /\ at(n) \in 1..Len(q) /\ r[n] = q[at(n)]
        BY <1>10, <3>3
      <4>2. at(k) # at(n)
        BY <1>6, <2>3, <3>3
      <4> QED
        BY <4>1, <4>2 DEF Orderly
    <3> QED
      BY <3>1, <3>2, <3>3
  <2>4. ASSUME NEW k \in 1..Len(r), NEW n \in 1..Len(r), n < k
        PROVE  r[n].priority >= r[k].priority
    <3>1. CASE k = m + 1
      <4>1. n <= m /\ n # m + 1
        BY <1>1, <2>4, <3>1
      <4>2. at(n) \in 1..m /\ r[n] = q[at(n)]
        BY <1>10, <4>1
      <4> QED
        BY <1>2, <3>1, <4>2
    <3>2. CASE n = m + 1
      <4>1. k > m /\ k # m + 1
        BY <1>1, <2>4, <3>2
      <4>2. at(k) \in (m + 1)..Len(q) /\ r[k] = q[at(k)]
        BY <1>10, <4>1
      <4> QED
        BY <1>2, <3>2, <4>2
    <3>3. CASE k # m + 1 /\ n # m + 1
      BY <1>6, <1>10, <2>4, <3>3 DEF Orderly
    <3> QED
      BY <3>1, <3>2, <3>3
  <2> QED
    BY <1>2, <2>1, <2>3, <2>4 DEF Orderly
<1>12. InQueue(r) = InQueue(q) \cup Range(p.tasks)
  <2>1. ASSUME NEW x \in InQueue(r) PROVE x \in InQueue(q) \cup Range(p.tasks)
    <3>1. PICK k \in 1..Len(r) : x \in Range(r[k].tasks)
      BY <1>4
    <3>2. CASE k = m + 1
      BY <1>2, <3>1, <3>2
    <3>3. CASE k # m + 1
      <4>1. at(k) \in 1..Len(q) /\ r[k] = q[at(k)]
        BY <1>10, <3>3
      <4> QED
        BY <1>3, <3>1, <4>1
    <3> QED
      BY <3>2, <3>3
  <2>2. ASSUME NEW x \in InQueue(q) PROVE x \in InQueue(r)
    <3>1. PICK k \in 1..Len(q) : x \in Range(q[k].tasks)
      BY <1>3
    <3>2. PICK n \in 1..Len(r) : n # m + 1 /\ at(n) = k
      BY <1>7
    <3> QED
      BY <1>4, <1>10, <3>1, <3>2
  <2>3. ASSUME NEW x \in Range(p.tasks) PROVE x \in InQueue(r)
    <3>1. m + 1 \in 1..Len(r)
      BY <1>1, <1>2
    <3> QED
      BY <1>2, <1>4, <3>1
  <2> QED
    BY <2>1, <2>2, <2>3
<1>13. \A k \in 1..Len(r) :
         r[k] = p \/ \E j \in 1..Len(q) : r[k] = q[j] /\ (m >= 1 => (k = 1 <=> j = 1))
  BY <1>2, <1>9, <1>10
<1> QED
  BY <1>2, <1>11, <1>12, <1>13 DEF r

\* One runnable more or less in a page.
LEMMA NewPageIs ==
  ASSUME NEW t \in Tasks, NEW prio \in Int, prio >= 0
  PROVE  LET p == NewPage(t, prio)
         IN  PageOk(p) /\ p.priority = prio /\ p.tasks # <<>> /\ Range(p.tasks) = {t}
<1>1. <<t>> \in Seq(Tasks) /\ <<t>> # <<>> /\ Len(<<t>>) = 1 /\ Distinct(<<t>>) /\ Range(<<t>>) = {t}
  BY DEF Distinct, Range
<1>2. 1 \in 1..PageSize
  BY PoolAssumption
<1> QED
  BY <1>1, <1>2 DEF NewPage, PageOk, AnyPage

LEMMA PushIs ==
  ASSUME NEW p, PageOk(p), ~IsFull(p), NEW t \in Tasks, t \notin Range(p.tasks)
  PROVE  LET r == Push(p, t)
         IN  /\ PageOk(r) /\ r.priority = p.priority /\ r.pushed = p.pushed + 1
             /\ r.tasks = Append(p.tasks, t) /\ r.tasks # <<>>
             /\ Range(r.tasks) = Range(p.tasks) \cup {t}
<1>1. /\ p \in AnyPage /\ p.priority \in Int /\ p.tasks \in Seq(Tasks) /\ p.pushed \in 1..PageSize
      /\ p.priority >= 0 /\ Len(p.tasks) <= p.pushed /\ Distinct(p.tasks)
  BY DEF PageOk, AnyPage
<1>2. PICK s : s = Append(p.tasks, t)
  OBVIOUS
<1>3. /\ s \in Seq(Tasks) /\ Len(s) = Len(p.tasks) + 1 /\ Distinct(s)
      /\ Range(s) = Range(p.tasks) \cup {t}
  BY <1>1, <1>2, AppendIs, DistinctAppend
<1>4. PageSize \in Nat /\ p.pushed + 1 \in 1..PageSize /\ Len(p.tasks) \in Nat
  BY <1>1, PoolAssumption DEF IsFull
<1>5. s # <<>> /\ Len(s) <= p.pushed + 1
  BY <1>1, <1>3, <1>4
<1>6. Push(p, t) = [priority |-> p.priority, tasks |-> s, pushed |-> p.pushed + 1]
  <2>1. Push(p, t) = [p EXCEPT !.tasks = s, !.pushed = p.pushed + 1]
    BY <1>1, <1>2 DEF Push, AnyPage
  <2> QED
    BY <1>1, <2>1 DEF AnyPage
<1> QED
  BY <1>1, <1>2, <1>3, <1>4, <1>5, <1>6 DEF PageOk, AnyPage

LEMMA PopIs ==
  ASSUME NEW p, PageOk(p), p.tasks # <<>>
  PROVE  LET r == Pop(p)
         IN  /\ PageOk(r) /\ r.priority = p.priority /\ r.pushed = p.pushed
             /\ r.tasks = Tail(p.tasks)
             /\ Range(r.tasks) = Range(p.tasks) \ {Head(p.tasks)}
             /\ Head(p.tasks) \in Range(p.tasks) /\ Head(p.tasks) \in Tasks
<1>1. /\ p \in AnyPage /\ p.priority \in Int /\ p.tasks \in Seq(Tasks) /\ p.pushed \in 1..PageSize
      /\ p.priority >= 0 /\ Len(p.tasks) <= p.pushed /\ Distinct(p.tasks)
  BY DEF PageOk, AnyPage
<1>2. PICK s : s = Tail(p.tasks)
  OBVIOUS
<1>3. /\ s \in Seq(Tasks) /\ Len(s) = Len(p.tasks) - 1 /\ Distinct(s)
      /\ Range(s) = Range(p.tasks) \ {Head(p.tasks)}
      /\ Head(p.tasks) \in Range(p.tasks) /\ Head(p.tasks) \in Tasks
  BY <1>1, <1>2, TailIs, DistinctTail
<1>4. Len(p.tasks) \in Nat /\ p.pushed \in Int
  BY <1>1
<1>5. Len(s) <= p.pushed
  BY <1>1, <1>3, <1>4
<1>6. Pop(p) = [priority |-> p.priority, tasks |-> s, pushed |-> p.pushed]
  <2>1. Pop(p) = [p EXCEPT !.tasks = s]
    BY <1>1, <1>2 DEF Pop, AnyPage
  <2> QED
    BY <1>1, <2>1 DEF AnyPage
<1> QED
  BY <1>1, <1>2, <1>3, <1>5, <1>6 DEF PageOk, AnyPage

LEMMA TakeOutIs ==
  ASSUME NEW p, PageOk(p), NEW k \in 1..Len(p.tasks)
  PROVE  LET r == [p EXCEPT !.tasks = RemoveAt(@, k)]
         IN  /\ PageOk(r) /\ r.priority = p.priority
             /\ Range(r.tasks) = Range(p.tasks) \ {p.tasks[k]}
             /\ p.tasks[k] \in Range(p.tasks)
<1>1. /\ p \in AnyPage /\ p.priority \in Int /\ p.tasks \in Seq(Tasks) /\ p.pushed \in 1..PageSize
      /\ p.priority >= 0 /\ Len(p.tasks) <= p.pushed /\ Distinct(p.tasks)
  BY DEF PageOk, AnyPage
<1>2. PICK s : s = RemoveAt(p.tasks, k)
  OBVIOUS
<1>3. /\ s \in Seq(Tasks) /\ Len(s) = Len(p.tasks) - 1 /\ Distinct(s)
      /\ Range(s) = Range(p.tasks) \ {p.tasks[k]} /\ p.tasks[k] \in Range(p.tasks)
  BY <1>1, <1>2, RemoveAtIs, DistinctRemove
<1>4. Len(p.tasks) \in Nat /\ p.pushed \in Int
  BY <1>1
<1>5. Len(s) <= p.pushed
  BY <1>1, <1>3, <1>4
<1>6. [p EXCEPT !.tasks = RemoveAt(@, k)]
        = [priority |-> p.priority, tasks |-> s, pushed |-> p.pushed]
  BY <1>1, <1>2 DEF AnyPage
<1> QED
  BY <1>1, <1>3, <1>5, <1>6 DEF PageOk, AnyPage

\* A set of numbers that is not empty has a least one.
LEMMA Least ==
  ASSUME NEW S \in SUBSET Nat, S # {}
  PROVE  \E x \in S : \A y \in S : x <= y
<1> DEFINE R == OpToRel(<, Nat)
<1>1. IsWellFoundedOn(R, Nat)
  BY NatLessThanWellFounded
<1>2. \A x, y \in Nat : <<y, x>> \in R <=> y < x
  BY DEF OpToRel
<1> HIDE DEF R
<1>3. PICK x \in S : \A y \in S : ~ (<<y, x>> \in R)
  BY <1>1, WFMin
<1>4. ASSUME NEW y \in S PROVE x <= y
  <2>1. x \in Nat /\ y \in Nat /\ ~ (<<y, x>> \in R)
    BY <1>3
  <2>2. ~(y < x)
    BY <1>2, <2>1
  <2> QED
    BY <2>1, <2>2
<1> QED
  BY <1>3, <1>4

LEMMA MinIs ==
  ASSUME NEW S \in SUBSET Nat, S # {}
  PROVE  Min(S) \in S
<1>1. \E x \in S : \A y \in S : x =< y
  BY Least
<1> QED
  BY <1>1 DEF Min

\* The pages of at least that priority come first, and are counted.
LEMMA BehindIs ==
  ASSUME NEW q, Orderly(q), NEW prio \in Int,
         NEW S, S = {i \in DOMAIN q : q[i].priority >= prio}
  PROVE  Cardinality(S) \in 0..Len(q) /\ S = 1..Cardinality(S)
<1>1. q \in Seq(AnyPage) /\ Len(q) \in Nat /\ DOMAIN q = 1..Len(q) /\ S \subseteq 1..Len(q)
  BY DEF Orderly
<1>2. \E m \in 0..Len(q) : S = 1..m
  <2>1. CASE S = 1..Len(q)
    BY <1>1, <2>1
  <2>2. CASE S # 1..Len(q)
    <3> DEFINE T == {i \in 1..Len(q) : i \notin S}
    <3>1. T # {} /\ T \in SUBSET Nat
      BY <1>1, <2>2
    <3>2. PICK k \in T : \A y \in T : k <= y
      BY <3>1, Least
    <3>3. k \in 1..Len(q) /\ k \notin S /\ k - 1 \in 0..Len(q)
      BY <1>1, <3>2
    <3>4. ASSUME NEW i \in 1..(k - 1) PROVE i \in S
      BY <1>1, <3>2, <3>3
    <3>5. ASSUME NEW i \in S PROVE i \in 1..(k - 1)
      <4>1. i \in 1..Len(q) /\ q[i].priority >= prio
        BY <1>1
      <4>2. ~(q[k].priority >= prio)
        BY <1>1, <3>3
      <4>3. q[i].priority \in Int /\ q[k].priority \in Int
        BY <3>3, <4>1 DEF Orderly, PageOk, AnyPage
      <4>4. ~(k < i)
        BY <3>3, <4>1, <4>2, <4>3 DEF Orderly
      <4> QED
        BY <3>3, <4>1, <4>2, <4>4
    <3> QED
      BY <3>3, <3>4, <3>5
  <2> QED
    BY <2>1, <2>2
<1>3. PICK m \in 0..Len(q) : S = 1..m
  BY <1>2
<1>4. Cardinality(S) = m
  <2>1. m \in Int /\ m \in Nat /\ 1 \in Int
    BY <1>1, <1>3
  <2>2. Cardinality(1..m) = IF 1 > m THEN 0 ELSE m - 1 + 1
    BY <2>1, FS_Interval
  <2> QED
    <3>1. Cardinality(1..m) = m
      BY <2>1, <2>2
    <3> QED
      BY <1>3, <3>1
<1> QED
  BY <1>3, <1>4

\* enqueueTask() adds the runnable and keeps the pages in order.
LEMMA EnqueuedIs ==
  ASSUME NEW q, Orderly(q), NEW t \in Tasks, t \notin InQueue(q), NEW prio \in Int, prio >= 0
  PROVE  LET e == Enqueued(q, t, prio)
         IN  /\ Orderly(e) /\ e # <<>> /\ InQueue(e) = InQueue(q) \cup {t}
             /\ Full(q) => Full(e)
             /\ (/\ prio = 0 /\ q # <<>>
                 /\ \A k \in 1..Len(q) : k # 1 => q[k].tasks # <<>>)
                  => \A k \in 1..Len(e) : k # 1 => e[k].tasks # <<>>
<1> DEFINE room   == {i \in DOMAIN q : q[i].priority = prio /\ ~IsFull(q[i])}
           S      == {i \in DOMAIN q : q[i].priority >= prio}
           m      == Cardinality(S)
           e      == Enqueued(q, t, prio)
<1>1. /\ q \in Seq(AnyPage) /\ Len(q) \in Nat /\ DOMAIN q = 1..Len(q) /\ room \in SUBSET Nat
      /\ \A i \in 1..Len(q) : PageOk(q[i])
      /\ \A i \in 1..Len(q) : Range(q[i].tasks) \subseteq InQueue(q)
  <2>1. q \in Seq(AnyPage)
    BY DEF Orderly
  <2> QED
    BY <2>1, InQueueIs DEF Orderly
<1>2. CASE room # {}
  <2>1. PICK i : i = Min(room)
    OBVIOUS
  <2>2. i \in 1..Len(q) /\ q[i].priority = prio /\ ~IsFull(q[i])
    BY <1>1, <1>2, <2>1, MinIs
  <2>3. PICK p : p = Push(q[i], t)
    OBVIOUS
  <2>4. t \notin Range(q[i].tasks) /\ PageOk(q[i])
    BY <1>1, <2>2
  <2>5. /\ PageOk(p) /\ p.priority = q[i].priority /\ p.tasks # <<>>
        /\ Range(p.tasks) = Range(q[i].tasks) \cup {t}
    BY <2>2, <2>3, <2>4, PushIs
  <2>6. e = [q EXCEPT ![i] = p]
    BY <1>1, <1>2, <2>1, <2>2, <2>3 DEF Enqueued
  <2> HIDE DEF e, room
  <2>7. \A j \in 1..Len(q) : j # i => Range(p.tasks) \cap Range(q[j].tasks) = {}
    BY <1>1, <2>2, <2>5 DEF Orderly
  <2>8. /\ Orderly(e) /\ Len(e) = Len(q) /\ e[i] = p
        /\ \A j \in 1..Len(q) : j # i => e[j] = q[j]
        /\ InQueue(e) = (InQueue(q) \ Range(q[i].tasks)) \cup Range(p.tasks)
    <3>1. /\ e \in Seq(AnyPage) /\ Len(e) = Len(q) /\ e[i] = p
          /\ \A j \in 1..Len(q) : j # i => e[j] = q[j]
      BY <1>1, <2>2, <2>5, <2>6 DEF PageOk
    <3>2. i \in 1..Len(q) /\ PageOk(p) /\ p.priority = q[i].priority
      BY <2>2, <2>5
    <3>3. Orderly(e) /\ InQueue(e) = (InQueue(q) \ Range(q[i].tasks)) \cup Range(p.tasks)
      BY <2>7, <3>1, <3>2, PageReplaced
    <3> QED
      BY <3>1, <3>3
  <2>9. InQueue(e) = InQueue(q) \cup {t}
    BY <1>1, <2>2, <2>5, <2>8
  <2>10. e # <<>>
    BY <1>1, <2>2, <2>8
  <2>11. Full(q) => Full(e)
    BY <2>5, <2>8 DEF Full
  <2>12. (\A k \in 1..Len(q) : k # 1 => q[k].tasks # <<>>)
            => \A k \in 1..Len(e) : k # 1 => e[k].tasks # <<>>
    BY <2>5, <2>8
  <2> QED
    BY <2>8, <2>9, <2>10, <2>11, <2>12 DEF e
<1>3. CASE room = {}
  <2>1. PICK p : p = NewPage(t, prio)
    OBVIOUS
  <2>2. PageOk(p) /\ p.priority = prio /\ p.tasks # <<>> /\ Range(p.tasks) = {t}
    BY <2>1, NewPageIs
  <2>3. PICK b : b = m
    OBVIOUS
  <2>4. b \in 0..Len(q) /\ S = 1..b
    BY <2>3, BehindIs
  <2>5. e = InsertAt(q, b + 1, p)
    BY <1>3, <2>1, <2>3 DEF Enqueued
  <2>6. /\ \A k \in 1..b : q[k].priority >= p.priority
        /\ \A k \in (b + 1)..Len(q) : p.priority >= q[k].priority
    <3>1. ASSUME NEW k \in 1..b PROVE q[k].priority >= p.priority
      BY <2>2, <2>4
    <3>2. ASSUME NEW k \in (b + 1)..Len(q) PROVE p.priority >= q[k].priority
      <4>1. k \in 1..Len(q) /\ k \notin S
        BY <1>1, <2>4
      <4>2. ~(q[k].priority >= prio) /\ q[k].priority \in Int
        BY <1>1, <4>1 DEF PageOk, AnyPage
      <4> QED
        BY <2>2, <4>2
    <3> QED
      BY <3>1, <3>2
  <2>7. prio = 0 => b = Len(q)
    <3>1. SUFFICES ASSUME prio = 0 PROVE b = Len(q)
      OBVIOUS
    <3>2. \A k \in 1..Len(q) : k \in 1..b
      BY <1>1, <2>4, <3>1 DEF PageOk
    <3> QED
      BY <1>1, <2>4, <3>2
  <2> HIDE DEF e, room, S, m
  <2>8. Range(p.tasks) \cap InQueue(q) = {}
    BY <2>2
  <2>9. /\ Orderly(e) /\ Len(e) = Len(q) + 1
        /\ InQueue(e) = InQueue(q) \cup Range(p.tasks)
        /\ \A k \in 1..Len(e) :
             e[k] = p \/ \E j \in 1..Len(q) : e[k] = q[j] /\ (b >= 1 => (k = 1 <=> j = 1))
    BY <2>2, <2>4, <2>5, <2>6, <2>8, PageInserted
  <2>10. e # <<>> /\ InQueue(e) = InQueue(q) \cup {t}
    BY <1>1, <2>2, <2>9
  <2>11. Full(q) => Full(e)
    BY <2>2, <2>9 DEF Full
  <2>12. (/\ prio = 0 /\ q # <<>>
          /\ \A k \in 1..Len(q) : k # 1 => q[k].tasks # <<>>)
            => \A k \in 1..Len(e) : k # 1 => e[k].tasks # <<>>
    <3>1. SUFFICES ASSUME prio = 0, q # <<>>, \A k \in 1..Len(q) : k # 1 => q[k].tasks # <<>>,
                          NEW k \in 1..Len(e), k # 1
                   PROVE  e[k].tasks # <<>>
      OBVIOUS
    <3>2. b >= 1
      BY <1>1, <2>7, <3>1
    <3> QED
      BY <2>2, <2>9, <3>1, <3>2
  <2> QED
    BY <2>9, <2>10, <2>11, <2>12 DEF e
<1> QED
  BY <1>2, <1>3

\* The queue without its first page if that is finished.
Trim(q) == IF IsFinished(q[1]) THEN Tail(q) ELSE q

\* The queue with its first page popped, finished or not.
FirstPopped(q) == [q EXCEPT ![1] = Pop(@)]

LEMMA TrimIs ==
  ASSUME NEW q, Orderly(q), q # <<>>, \A k \in 1..Len(q) : k # 1 => q[k].tasks # <<>>
  PROVE  Full(Trim(q)) /\ InQueue(Trim(q)) = InQueue(q)
<1>1. q \in Seq(AnyPage) /\ 1 \in 1..Len(q) /\ Len(q) \in Nat
  BY DEF Orderly
<1>2. CASE IsFinished(q[1])
  <2>1. PICK r : r = Tail(q)
    OBVIOUS
  <2>2. /\ r \in Seq(AnyPage) /\ Len(r) = Len(q) - 1
        /\ \A k \in 1..(1 - 1) : r[k] = q[k]
        /\ \A k \in 1..(Len(q) - 1) : r[k] = q[k + 1]
    BY <1>1, <2>1, TailIs
  <2>3. Full(r) /\ InQueue(r) = InQueue(q) \ Range(q[1].tasks)
    BY <1>1, <2>2, PageDropped
  <2>4. Range(q[1].tasks) = {}
    BY <1>2 DEF IsFinished, Range
  <2> QED
    BY <1>2, <2>1, <2>3, <2>4 DEF Trim
<1>3. CASE ~IsFinished(q[1])
  BY <1>1, <1>3 DEF Trim, Full, IsFinished
<1> QED
  BY <1>2, <1>3

LEMMA FirstPoppedIs ==
  ASSUME NEW q, Full(q), q # <<>>
  PROVE  LET r == FirstPopped(q)
         IN  /\ Orderly(r) /\ r # <<>> /\ InQueue(r) = InQueue(q) \ {First(q)}
             /\ \A k \in 1..Len(r) : k # 1 => r[k].tasks # <<>>
             /\ First(q) \in InQueue(q) /\ First(q) \in Tasks
             /\ r[1] = Pop(q[1]) /\ Len(r) = Len(q) /\ Tail(r) = Tail(q)
<1>1. /\ q \in Seq(AnyPage) /\ 1 \in 1..Len(q) /\ Len(q) \in Nat /\ Orderly(q) /\ Head(q) = q[1]
      /\ PageOk(q[1]) /\ q[1].tasks # <<>>
  <2>1. Orderly(q) /\ q \in Seq(AnyPage)
    BY DEF Full, Orderly
  <2>2. 1 \in 1..Len(q) /\ Len(q) \in Nat /\ Head(q) = q[1]
    BY <2>1
  <2> QED
    BY <2>1, <2>2 DEF Full, Orderly
<1>2. PICK p : p = Pop(q[1])
  OBVIOUS
<1>3. /\ PageOk(p) /\ p.priority = q[1].priority
      /\ Range(p.tasks) = Range(q[1].tasks) \ {First(q)}
      /\ First(q) \in Range(q[1].tasks) /\ First(q) \in Tasks
  BY <1>1, <1>2, PopIs DEF First
<1>4. PICK r : r = FirstPopped(q)
  OBVIOUS
<1>5. r = [q EXCEPT ![1] = p]
  BY <1>1, <1>2, <1>4 DEF FirstPopped
<1>6. \A j \in 1..Len(q) : j # 1 => Range(p.tasks) \cap Range(q[j].tasks) = {}
  BY <1>1, <1>3 DEF Orderly
<1>7. /\ Orderly(r) /\ Len(r) = Len(q) /\ r[1] = p
      /\ \A j \in 1..Len(q) : j # 1 => r[j] = q[j]
      /\ InQueue(r) = (InQueue(q) \ Range(q[1].tasks)) \cup Range(p.tasks)
  <2>1. /\ r \in Seq(AnyPage) /\ Len(r) = Len(q) /\ r[1] = p
        /\ \A j \in 1..Len(q) : j # 1 => r[j] = q[j]
    BY <1>1, <1>3, <1>5 DEF PageOk
  <2> QED
    BY <1>1, <1>3, <1>6, <2>1, PageReplaced
<1>8. Range(q[1].tasks) \subseteq InQueue(q)
  BY <1>1, InQueueIs
<1>9. r # <<>> /\ \A k \in 1..Len(r) : k # 1 => r[k].tasks # <<>>
  BY <1>1, <1>7 DEF Full
<1>10. Tail(r) = Tail(q)
  BY <1>1, <1>7 DEF Orderly
<1> QED
  BY <1>2, <1>3, <1>4, <1>7, <1>8, <1>9, <1>10

\* A worker's pop takes the first runnable and nothing else.
LEMMA PoppedIs ==
  ASSUME NEW q, Full(q), q # <<>>
  PROVE  /\ Full(Popped(q)) /\ InQueue(Popped(q)) = InQueue(q) \ {First(q)}
         /\ First(q) \in InQueue(q) /\ First(q) \in Tasks
<1>1. PICK r : r = FirstPopped(q)
  OBVIOUS
<1>2. /\ Orderly(r) /\ r # <<>> /\ InQueue(r) = InQueue(q) \ {First(q)}
      /\ \A k \in 1..Len(r) : k # 1 => r[k].tasks # <<>>
      /\ First(q) \in InQueue(q) /\ First(q) \in Tasks
      /\ r[1] = Pop(q[1]) /\ Tail(r) = Tail(q)
  BY <1>1, FirstPoppedIs
<1>3. Full(Trim(r)) /\ InQueue(Trim(r)) = InQueue(r)
  BY <1>2, TrimIs
<1>4. Head(q) = q[1]
  BY DEF Full, Orderly
<1>5. Popped(q) = Trim(r)
  BY <1>1, <1>2, <1>4 DEF Popped, Trim, FirstPopped
<1> QED
  BY <1>2, <1>3, <1>5

\* Pushing at the end of a page and popping its first runnable commute.
LEMMA PushPopIs ==
  ASSUME NEW p, PageOk(p), p.tasks # <<>>, NEW t \in Tasks
  PROVE  Pop(Push(p, t)) = Push(Pop(p), t)
<1> DEFINE Rec == [priority : Int, tasks : Seq(Tasks), pushed : Int]
<1>1. p \in Rec /\ p.tasks \in Seq(Tasks) /\ p.pushed + 1 \in Int
  BY DEF PageOk, AnyPage
<1>2. PICK s, r, u : /\ s = Append(p.tasks, t) /\ r = Tail(p.tasks) /\ u = Append(r, t) /\ u = Tail(s)
                     /\ s \in Seq(Tasks) /\ r \in Seq(Tasks) /\ u \in Seq(Tasks)
  <2>1. /\ Tail(Append(p.tasks, t)) = Append(Tail(p.tasks), t) /\ Append(p.tasks, t) \in Seq(Tasks)
        /\ Tail(p.tasks) \in Seq(Tasks) /\ Append(Tail(p.tasks), t) \in Seq(Tasks)
    BY <1>1
  <2> QED
    BY <2>1
<1>3. /\ Push(p, t) = [p EXCEPT !.tasks = s, !.pushed = p.pushed + 1]
      /\ Pop(p) = [p EXCEPT !.tasks = r]
  BY <1>1, <1>2 DEF Push, Pop
<1>4. PICK a, b : a = Push(p, t) /\ b = Pop(p)
  OBVIOUS
<1>5. /\ a \in Rec /\ a.priority = p.priority /\ a.tasks = s /\ a.pushed = p.pushed + 1
      /\ b \in Rec /\ b.priority = p.priority /\ b.tasks = r /\ b.pushed = p.pushed
  BY <1>1, <1>2, <1>3, <1>4
<1>6. /\ Pop(a) = [a EXCEPT !.tasks = u]
      /\ Push(b, t) = [b EXCEPT !.tasks = u, !.pushed = p.pushed + 1]
  BY <1>2, <1>5 DEF Push, Pop
<1>7. Pop(a) = [priority |-> p.priority, tasks |-> u, pushed |-> p.pushed + 1]
  BY <1>5, <1>6
<1>8. Push(b, t) = [priority |-> p.priority, tasks |-> u, pushed |-> p.pushed + 1]
  BY <1>5, <1>6
<1> QED
  BY <1>4, <1>7, <1>8

\* tryToStartMoreThreads() with a waiting thread: the first runnable goes to
\* the end of the queue's pages of priority 0, and the others stay.
LEMMA RequeuedIs ==
  ASSUME NEW q, Full(q), q # <<>>
  PROVE  LET e == Enqueued(q, First(q), 0)
         IN  /\ Full(Trim(FirstPopped(e))) /\ InQueue(Trim(FirstPopped(e))) = InQueue(q)
             /\ FirstPopped(e) = [e EXCEPT ![1] = Pop(e[1])] /\ FirstPopped(e)[1] = Pop(e[1])
<1>1. PICK r, t, e, d : /\ r = FirstPopped(q) /\ t = First(q)
                        /\ e = Enqueued(q, t, 0) /\ d = Enqueued(r, t, 0)
  OBVIOUS
<1>2. /\ q \in Seq(AnyPage) /\ Len(q) \in Nat /\ 1 \in 1..Len(q) /\ Orderly(q)
      /\ PageOk(q[1]) /\ q[1].tasks # <<>>
  <2>1. Orderly(q) /\ q \in Seq(AnyPage)
    BY DEF Full, Orderly
  <2>2. 1 \in 1..Len(q) /\ Len(q) \in Nat
    BY <2>1
  <2> QED
    BY <2>1, <2>2 DEF Full, Orderly
<1>3. /\ Orderly(r) /\ r # <<>> /\ InQueue(r) = InQueue(q) \ {t}
      /\ \A k \in 1..Len(r) : k # 1 => r[k].tasks # <<>>
      /\ t \in InQueue(q) /\ t \in Tasks /\ r[1] = Pop(q[1]) /\ Len(r) = Len(q)
  BY <1>1, FirstPoppedIs
<1>4. /\ r \in Seq(AnyPage) /\ \A k \in 1..Len(q) : k # 1 => r[k] = q[k]
      /\ r[1].priority = q[1].priority /\ r[1].pushed = q[1].pushed
  BY <1>1, <1>2, <1>3, PopIs DEF Orderly, FirstPopped
<1>5. /\ Orderly(d) /\ d # <<>> /\ InQueue(d) = InQueue(r) \cup {t}
      /\ \A k \in 1..Len(d) : k # 1 => d[k].tasks # <<>>
  BY <1>1, <1>3, EnqueuedIs
<1>6. FirstPopped(e) = d /\ FirstPopped(e) = [e EXCEPT ![1] = Pop(e[1])]
      /\ FirstPopped(e)[1] = Pop(e[1])
  <2> DEFINE room == {i \in DOMAIN q : q[i].priority = 0 /\ ~IsFull(q[i])}
             S    == {i \in DOMAIN q : q[i].priority >= 0}
  <2>1. DOMAIN q = 1..Len(q) /\ DOMAIN r = 1..Len(q)
    BY <1>2, <1>3, <1>4
  <2>2. \A k \in 1..Len(q) : r[k].priority = q[k].priority /\ r[k].pushed = q[k].pushed
    BY <1>4
  <2>3. /\ room = {i \in DOMAIN r : r[i].priority = 0 /\ ~IsFull(r[i])}
        /\ S = {i \in DOMAIN r : r[i].priority >= 0}
    BY <2>1, <2>2 DEF IsFull
  <2>4. CASE room # {}
    <3>1. PICK i : i = Min(room)
      OBVIOUS
    <3>2. i \in 1..Len(q)
      <4>1. room \in SUBSET Nat
        BY <1>2, <2>1
      <4> HIDE DEF room
      <4>2. i \in room
        BY <2>4, <3>1, <4>1, MinIs
      <4> QED
        BY <2>1, <4>2 DEF room
    <3>3. e = [q EXCEPT ![i] = Push(q[i], t)]
      BY <1>1, <2>4, <3>1 DEF Enqueued
    <3>4. d = [r EXCEPT ![i] = Push(r[i], t)]
      BY <1>1, <2>3, <2>4, <3>1 DEF Enqueued
    <3> HIDE DEF room, S
    <3>5. /\ DOMAIN e = 1..Len(q) /\ DOMAIN d = 1..Len(q) /\ e[i] = Push(q[i], t) /\ d[i] = Push(r[i], t)
          /\ \A k \in 1..Len(q) : k # i => e[k] = q[k] /\ d[k] = r[k]
          /\ e = [k \in 1..Len(q) |-> e[k]] /\ d = [k \in 1..Len(q) |-> d[k]]
      BY <1>2, <1>4, <2>1, <3>2, <3>3, <3>4
    <3>6. Pop(e[1]) = d[1]
      <4>1. CASE i = 1
        <5>1. Pop(Push(q[1], t)) = Push(Pop(q[1]), t)
          BY <1>2, <1>3, PushPopIs
        <5> QED
          BY <1>3, <3>5, <4>1, <5>1
      <4>2. CASE i # 1
        BY <1>2, <1>3, <3>5, <4>2
      <4> QED
        BY <4>1, <4>2
    <3>7. \A k \in 1..Len(q) : k # 1 => e[k] = d[k]
      BY <1>4, <3>5
    <3> QED
      BY <1>2, <3>5, <3>6, <3>7 DEF FirstPopped
  <2>5. CASE room = {}
    <3>1. PICK b, p : b = Cardinality(S) /\ p = NewPage(t, 0)
      OBVIOUS
    <3>2. b \in 0..Len(q) /\ S = 1..b
      BY <1>2, <3>1, BehindIs
    <3>3. \A k \in 1..Len(q) : k \in S
      BY <1>2, <2>1 DEF Orderly, PageOk
    <3>4. b = Len(q)
      BY <1>2, <3>2, <3>3
    <3>5. e = InsertAt(q, b + 1, p)
      BY <1>1, <2>5, <3>1 DEF Enqueued
    <3>6. d = InsertAt(r, b + 1, p)
      BY <1>1, <2>3, <2>5, <3>1 DEF Enqueued
    <3> HIDE DEF room, S
    <3>7. p \in AnyPage
      BY <1>3, <3>1, NewPageIs DEF PageOk
    <3>8. PICK i : i = b + 1
      OBVIOUS
    <3>9. i \in 1..(Len(q) + 1) /\ i = Len(q) + 1 /\ i - 1 = Len(q)
      BY <1>2, <3>4, <3>8
    <3>10. LET s == InsertAt(q, i, p)
           IN  /\ s \in Seq(AnyPage) /\ Len(s) = Len(q) + 1
               /\ \A k \in 1..(i - 1) : s[k] = q[k]
               /\ s[i] = p
               /\ \A k \in (i + 1)..(Len(q) + 1) : s[k] = q[k - 1]
      <4>1. i \in 1..(Len(q) + 1)
        BY <3>9
      <4> QED
        BY <1>2, <3>7, <4>1, InsertAtIs
    <3>11. LET s == InsertAt(r, i, p)
           IN  /\ s \in Seq(AnyPage) /\ Len(s) = Len(r) + 1
               /\ \A k \in 1..(i - 1) : s[k] = r[k]
               /\ s[i] = p
               /\ \A k \in (i + 1)..(Len(r) + 1) : s[k] = r[k - 1]
      <4>1. i \in 1..(Len(r) + 1)
        BY <1>3, <3>9
      <4> QED
        BY <1>4, <3>7, <4>1, InsertAtIs
    <3>12. /\ e \in Seq(AnyPage) /\ Len(e) = Len(q) + 1 /\ e[Len(q) + 1] = p
           /\ \A k \in 1..Len(q) : e[k] = q[k]
      BY <3>5, <3>8, <3>9, <3>10
    <3>13. /\ d \in Seq(AnyPage) /\ Len(d) = Len(q) + 1 /\ d[Len(q) + 1] = p
           /\ \A k \in 1..Len(q) : d[k] = r[k]
      <4>1. d = InsertAt(r, i, p) /\ Len(r) = Len(q)
        BY <1>3, <3>6, <3>8
      <4>2. d \in Seq(AnyPage) /\ Len(d) = Len(r) + 1 /\ d[i] = p /\ \A k \in 1..(i - 1) : d[k] = r[k]
        BY <3>11, <4>1
      <4> QED
        BY <3>9, <4>1, <4>2
    <3>14. Pop(e[1]) = d[1]
      BY <1>2, <1>3, <3>12, <3>13
    <3>15. \A k \in 1..(Len(q) + 1) : k # 1 => e[k] = d[k]
      BY <1>2, <1>4, <3>12, <3>13
    <3>16. /\ DOMAIN e = 1..(Len(q) + 1) /\ DOMAIN d = 1..(Len(q) + 1) /\ 1 \in 1..(Len(q) + 1)
           /\ e = [k \in 1..(Len(q) + 1) |-> e[k]] /\ d = [k \in 1..(Len(q) + 1) |-> d[k]]
      BY <1>2, <3>12, <3>13
    <3> QED
      BY <3>14, <3>15, <3>16 DEF FirstPopped
  <2> QED
    BY <2>4, <2>5
<1>7. Full(Trim(d)) /\ InQueue(Trim(d)) = InQueue(d)
  BY <1>5, TrimIs
<1>8. InQueue(d) = InQueue(q)
  BY <1>3, <1>5
<1> QED
  BY <1>1, <1>6, <1>7, <1>8

\* r is q without its page i, or with p in its place.
Without(q, i, r) ==
  /\ r \in Seq(AnyPage) /\ Len(r) = Len(q) - 1
  /\ \A m \in 1..(i - 1) : r[m] = q[m]
  /\ \A m \in i..(Len(q) - 1) : r[m] = q[m + 1]

Instead(q, i, p, r) ==
  /\ r \in Seq(AnyPage) /\ Len(r) = Len(q) /\ r[i] = p
  /\ \A j \in 1..Len(q) : j # i => r[j] = q[j]

\* A page loses a runnable, or was taken out with its last.
LEMMA OneLess ==
  ASSUME NEW q, Full(q), NEW i \in 1..Len(q), NEW x \in Range(q[i].tasks),
         NEW p, PageOk(p), p.priority = q[i].priority, Range(p.tasks) = Range(q[i].tasks) \ {x},
         NEW r, IF p.tasks = <<>> THEN Without(q, i, r) ELSE Instead(q, i, p, r)
  PROVE  Full(r) /\ InQueue(r) = InQueue(q) \ {x} /\ x \in InQueue(q)
<1>1. q \in Seq(AnyPage) /\ Orderly(q) /\ \A m \in 1..Len(q) : q[m].tasks # <<>>
  BY DEF Full, Orderly
<1>2. Range(q[i].tasks) \subseteq InQueue(q)
  BY <1>1, InQueueIs
<1>3. CASE p.tasks = <<>>
  <2>0. Range(p.tasks) = {}
    BY <1>3 DEF Range
  <2>1. Range(q[i].tasks) = {x}
    BY <2>0
  <2>2. /\ r \in Seq(AnyPage) /\ Len(r) = Len(q) - 1
        /\ \A m \in 1..(i - 1) : r[m] = q[m]
        /\ \A m \in i..(Len(q) - 1) : r[m] = q[m + 1]
    BY <1>3 DEF Without
  <2>3. /\ InQueue(r) = InQueue(q) \ Range(q[i].tasks)
        /\ (\A m \in 1..Len(q) : m # i => q[m].tasks # <<>>) => Full(r)
    BY <1>1, <2>2, PageDropped
  <2> QED
    BY <1>1, <1>2, <2>1, <2>3
<1>4. CASE p.tasks # <<>>
  <2>0. /\ r \in Seq(AnyPage) /\ Len(r) = Len(q) /\ r[i] = p
        /\ \A j \in 1..Len(q) : j # i => r[j] = q[j]
    BY <1>4 DEF Instead
  <2>1. \A j \in 1..Len(q) : j # i => Range(p.tasks) \cap Range(q[j].tasks) = {}
    BY <1>1 DEF Orderly
  <2>2. Orderly(r) /\ InQueue(r) = (InQueue(q) \ Range(q[i].tasks)) \cup Range(p.tasks)
    BY <1>1, <1>4, <2>1, <2>0, PageReplaced
  <2>3. Full(r)
    BY <1>1, <1>4, <2>0, <2>2 DEF Full
  <2> QED
    BY <1>2, <2>2, <2>3
<1> QED
  BY <1>3, <1>4

\* tryTake() takes its runnable and nothing else.
LEMMA TakenIs ==
  ASSUME NEW q, Full(q), NEW i \in 1..Len(q), NEW k \in 1..Len(q[i].tasks)
  PROVE  LET p == [q[i] EXCEPT !.tasks = RemoveAt(@, k)]
             r == IF IsFinished(p) THEN RemoveAt(q, i) ELSE [q EXCEPT ![i] = p]
         IN  /\ Full(r) /\ InQueue(r) = InQueue(q) \ {q[i].tasks[k]}
             /\ q[i].tasks[k] \in InQueue(q)
<1>0. PICK p, r : /\ p = [q[i] EXCEPT !.tasks = RemoveAt(@, k)]
                  /\ r = IF IsFinished(p) THEN RemoveAt(q, i) ELSE [q EXCEPT ![i] = p]
  OBVIOUS
<1>1. q \in Seq(AnyPage) /\ PageOk(q[i])
  BY DEF Full, Orderly
<1>2. /\ PageOk(p) /\ p.priority = q[i].priority
      /\ Range(p.tasks) = Range(q[i].tasks) \ {q[i].tasks[k]}
      /\ q[i].tasks[k] \in Range(q[i].tasks)
  <2>1. LET s == [q[i] EXCEPT !.tasks = RemoveAt(@, k)]
        IN  /\ PageOk(s) /\ s.priority = q[i].priority
            /\ Range(s.tasks) = Range(q[i].tasks) \ {q[i].tasks[k]}
            /\ q[i].tasks[k] \in Range(q[i].tasks)
    BY <1>1, TakeOutIs
  <2> QED
    BY <1>0, <2>1
<1>3. LET s == RemoveAt(q, i)
      IN  /\ s \in Seq(AnyPage) /\ Len(s) = Len(q) - 1
          /\ \A m \in 1..(i - 1) : s[m] = q[m]
          /\ \A m \in i..(Len(q) - 1) : s[m] = q[m + 1]
  BY <1>1, RemoveAtIs
<1>4. IF p.tasks = <<>> THEN Without(q, i, r) ELSE Instead(q, i, p, r)
  <2>1. CASE p.tasks = <<>>
    BY <1>0, <1>3, <2>1 DEF IsFinished, Without
  <2>2. CASE p.tasks # <<>>
    BY <1>0, <1>1, <1>2, <2>2 DEF IsFinished, PageOk, Instead
  <2> QED
    BY <2>1, <2>2
<1>5. PICK x : x = q[i].tasks[k]
  OBVIOUS
<1>6. x \in Range(q[i].tasks) /\ Range(p.tasks) = Range(q[i].tasks) \ {x} /\ PageOk(p)
  BY <1>2, <1>5
<1>7. Full(r) /\ InQueue(r) = InQueue(q) \ {x} /\ x \in InQueue(q)
  BY <1>2, <1>4, <1>6, OneLess
<1> QED
  BY <1>0, <1>5, <1>7

\* clear() takes the last page.
LEMMA LastIs ==
  ASSUME NEW q, Full(q), q # <<>>
  PROVE  /\ Full(Front(q)) /\ InQueue(Front(q)) = InQueue(q) \ Range(Last(q).tasks)
         /\ Range(Last(q).tasks) \subseteq InQueue(q) /\ Last(q).tasks \in Seq(Tasks)
         /\ Last(q).tasks # <<>> /\ Distinct(Last(q).tasks)
<1>1. /\ q \in Seq(AnyPage) /\ Orderly(q)
  BY DEF Full, Orderly
<1>2. PICK n : n = Len(q)
  OBVIOUS
<1>3. n \in 1..Len(q) /\ Len(q) \in Nat /\ n = Len(q) /\ Last(q) = q[n] /\ PageOk(q[n]) /\ q[n].tasks # <<>>
  <2>1. n \in 1..Len(q) /\ Len(q) \in Nat
    BY <1>1, <1>2
  <2> QED
    BY <1>2, <2>1 DEF Full, Orderly, Last
<1>4. PICK r : r = Front(q)
  OBVIOUS
<1>5. /\ r \in Seq(AnyPage) /\ Len(r) = Len(q) - 1 /\ \A k \in 1..(Len(q) - 1) : r[k] = q[k]
  <2>1. r = SubSeq(q, 1, Len(q) - 1)
    BY <1>4 DEF Front
  <2>2. Len(q) - 1 \in Nat
    BY <1>3
  <2> QED
    BY <1>1, <1>3, <2>1, <2>2
<1>6. /\ \A m \in 1..(n - 1) : r[m] = q[m]
      /\ \A m \in n..(Len(q) - 1) : r[m] = q[m + 1]
  BY <1>3, <1>5
<1>7. /\ InQueue(r) = InQueue(q) \ Range(q[n].tasks)
      /\ (\A m \in 1..Len(q) : m # n => q[m].tasks # <<>>) => Full(r)
  BY <1>1, <1>3, <1>5, <1>6, PageDropped
<1>8. Range(q[n].tasks) \subseteq InQueue(q)
  BY <1>1, <1>3, InQueueIs
<1>9. q[n].tasks \in Seq(Tasks) /\ Distinct(q[n].tasks)
  BY <1>3 DEF PageOk, AnyPage
<1> QED
  BY <1>3, <1>4, <1>7, <1>8, <1>9 DEF Full

-----------------------------------------------------------------------------
\* What an iteration of tryToStartMoreThreads() does to the queue.
LEMMA StartMoreQueue ==
  ASSUME Full(queue), queue # <<>>
  PROVE  LET r == PopFromOldFirst(QueueAfterStart(First(queue)))
         IN  /\ Full(r)
             /\ InQueue(r) = IF waitingThreads # <<>> THEN InQueue(queue)
                             ELSE InQueue(queue) \ {First(queue)}
<1>1. Head(queue) = queue[1] /\ ~(Head(queue).priority < 0)
  <2>1. queue \in Seq(AnyPage) /\ 1 \in 1..Len(queue) /\ PageOk(queue[1])
    BY DEF Full, Orderly
  <2> QED
    BY <2>1 DEF PageOk, AnyPage
<1>2. PICK e : e = QueueAfterStart(First(queue))
  OBVIOUS
<1>3. PICK d : d = FirstPopped(e)
  OBVIOUS
<1>4. ASSUME d = [e EXCEPT ![1] = Pop(e[1])], d[1] = Pop(e[1])
      PROVE  PopFromOldFirst(e) = Trim(d)
  BY <1>1, <1>4 DEF PopFromOldFirst, Trim
<1>5. CASE waitingThreads # <<>>
  <2>1. e = Enqueued(queue, First(queue), 0)
    BY <1>2, <1>5 DEF QueueAfterStart
  <2>2. Full(Trim(d)) /\ InQueue(Trim(d)) = InQueue(queue)
        /\ d = [e EXCEPT ![1] = Pop(e[1])] /\ d[1] = Pop(e[1])
    BY <1>3, <2>1, RequeuedIs
  <2> QED
    BY <1>2, <1>4, <1>5, <2>2
<1>6. CASE waitingThreads = <<>>
  <2>1. e = queue
    BY <1>2, <1>6 DEF QueueAfterStart
  <2>2. /\ Orderly(d) /\ d # <<>> /\ InQueue(d) = InQueue(queue) \ {First(queue)}
        /\ \A k \in 1..Len(d) : k # 1 => d[k].tasks # <<>>
        /\ d[1] = Pop(queue[1])
    BY <1>3, <2>1, FirstPoppedIs
  <2>3. Full(Trim(d)) /\ InQueue(Trim(d)) = InQueue(d)
    BY <2>2, TrimIs
  <2>4. d = [e EXCEPT ![1] = Pop(e[1])]
    BY <1>3 DEF FirstPopped
  <2> QED
    BY <1>2, <1>4, <1>6, <2>1, <2>2, <2>3, <2>4
<1> QED
  BY <1>5, <1>6

-----------------------------------------------------------------------------
(* The invariant: where the runnables are.                                 *)

\* A runnable is the pool's while it is in the queue, with a thread or in a
\* page clear() is deleting, and it is in one of these only.
Homes ==
  /\ \A t \in Tasks :
       status[t] = "pool" <=> \/ t \in InQueue(queue)
                              \/ \E w \in Workers : task[w] = t
                              \/ \E c \in Clients : t \in Range(page[c])
  /\ \A w \in Workers :
       task[w] # NoTask =>
         /\ task[w] \notin InQueue(queue)
         /\ \A v \in Workers : task[v] = task[w] => v = w
         /\ \A c \in Clients : task[w] \notin Range(page[c])
  /\ \A c \in Clients :
       /\ Distinct(page[c])
       /\ \A t \in Range(page[c]) :
            /\ t \notin InQueue(queue)
            /\ \A d \in Clients : t \in Range(page[d]) => d = c

\* A runnable comes to the queue.
LEMMA Queued ==
  ASSUME Types, Homes, NEW t \in Tasks, Accept(t), InQueue(queue)' = InQueue(queue) \cup {t},
         task' = task, page' = page
  PROVE  Homes' /\ t \notin InQueue(queue)
<1>1. /\ status[t] = "free" /\ status'[t] = "pool" /\ \A u \in Tasks \ {t} : status'[u] = status[u]
  BY DEF Accept, Types
<1>2. \A w \in Workers : task[w] # t
  BY <1>1 DEF Homes
<1>3. \A c \in Clients : t \notin Range(page[c])
  BY <1>1 DEF Homes
<1>4. t \notin InQueue(queue)
  BY <1>1 DEF Homes
<1>5. NoTask \notin Tasks
  BY PoolAssumption
<1> QED
  BY <1>1, <1>2, <1>3, <1>4, <1>5 DEF Homes

\* A runnable comes to a thread.
LEMMA Assigned ==
  ASSUME Types, Homes, NEW t \in Tasks, Accept(t), InQueue(queue)' = InQueue(queue),
         NEW w \in Workers, task[w] = NoTask, task' = [task EXCEPT ![w] = t], page' = page
  PROVE  Homes'
<1>1. /\ status[t] = "free" /\ status'[t] = "pool" /\ \A u \in Tasks \ {t} : status'[u] = status[u]
  BY DEF Accept, Types
<1>2. \A v \in Workers : task[v] # t
  BY <1>1 DEF Homes
<1>3. \A c \in Clients : t \notin Range(page[c])
  BY <1>1 DEF Homes
<1>4. t \notin InQueue(queue)
  BY <1>1 DEF Homes
<1>5. NoTask \notin Tasks
  BY PoolAssumption
<1>6. task'[w] = t /\ \A v \in Workers \ {w} : task'[v] = task[v]
  BY DEF Types
<1> QED
  BY <1>1, <1>2, <1>3, <1>4, <1>5, <1>6 DEF Homes

\* The thread w, whose runnable if any has returned, takes one off the queue.
LEMMA HandedOver ==
  ASSUME Types, Homes, NEW w \in Workers, NEW t \in InQueue(queue), t \in Tasks,
         task' = [task EXCEPT ![w] = t], page' = page,
         InQueue(queue)' = InQueue(queue) \ {t},
         IF task[w] = NoTask THEN status' = status ELSE status' = Left(task[w])
  PROVE  Homes'
<1>1. task'[w] = t /\ \A v \in Workers \ {w} : task'[v] = task[v]
  BY DEF Types
<1>2. NoTask \notin Tasks /\ task[w] \in Tasks \cup {NoTask}
  BY PoolAssumption DEF Types
<1>3. /\ \A v \in Workers : task[v] # t
      /\ \A c \in Clients : t \notin Range(page[c])
      /\ status[t] = "pool"
  BY <1>2 DEF Homes
<1>4. CASE task[w] = NoTask
  BY <1>1, <1>2, <1>3, <1>4 DEF Homes
<1>5. CASE task[w] # NoTask
  <2>1. /\ status'[task[w]] # "pool" /\ \A u \in Tasks \ {task[w]} : status'[u] = status[u]
        /\ task[w] # t
    BY <1>2, <1>3, <1>5 DEF Left, Types
  <2>2. /\ task[w] \notin InQueue(queue)
        /\ \A v \in Workers : task[v] = task[w] => v = w
        /\ \A c \in Clients : task[w] \notin Range(page[c])
    BY <1>5 DEF Homes
  <2> QED
    BY <1>1, <1>2, <1>3, <2>1, <2>2 DEF Homes
<1> QED
  BY <1>4, <1>5

\* A thread's runnable, if it had one, has returned.
LEMMA Returned ==
  ASSUME Types, Homes, NEW w \in Workers, task' = [task EXCEPT ![w] = NoTask], page' = page,
         InQueue(queue)' = InQueue(queue),
         IF task[w] = NoTask THEN status' = status ELSE status' = Left(task[w])
  PROVE  Homes'
<1>1. task'[w] = NoTask /\ \A v \in Workers \ {w} : task'[v] = task[v]
  BY DEF Types
<1>2. NoTask \notin Tasks /\ task[w] \in Tasks \cup {NoTask}
  BY PoolAssumption DEF Types
<1>3. CASE task[w] = NoTask
  <2>1. \A v \in Workers : task'[v] = task[v]
    BY <1>1, <1>3
  <2> QED
    BY <1>3, <2>1 DEF Homes
<1>4. CASE task[w] # NoTask
  <2>1. status'[task[w]] # "pool" /\ \A u \in Tasks \ {task[w]} : status'[u] = status[u]
    BY <1>2, <1>4 DEF Left, Types
  <2>2. /\ task[w] \notin InQueue(queue)
        /\ \A v \in Workers : task[v] = task[w] => v = w
        /\ \A c \in Clients : task[w] \notin Range(page[c])
    BY <1>4 DEF Homes
  <2> QED
    BY <1>1, <1>2, <2>1, <2>2 DEF Homes
<1> QED
  BY <1>3, <1>4

\* A runnable is taken off the queue and given back.
LEMMA GivenBack ==
  ASSUME Types, Homes, NEW t \in Tasks, t \in InQueue(queue), status' = Left(t),
         InQueue(queue)' = InQueue(queue) \ {t}, task' = task, page' = page
  PROVE  Homes'
<1>1. status'[t] # "pool" /\ \A u \in Tasks \ {t} : status'[u] = status[u]
  BY DEF Left, Types
<1>2. /\ \A v \in Workers : task[v] # t
      /\ \A c \in Clients : t \notin Range(page[c])
  BY PoolAssumption DEF Homes
<1> QED
  BY <1>1, <1>2 DEF Homes

\* clear() deletes the first runnable of a page, which it has just taken off
\* the queue or was deleting already.
LEMMA Discarded ==
  ASSUME Types, Homes, NEW c \in Clients, NEW s \in Seq(Tasks), s # <<>>, Discard(c, s),
         \/ s = page[c] /\ InQueue(queue)' = InQueue(queue)
         \/ /\ page[c] = <<>> /\ Distinct(s) /\ Range(s) \subseteq InQueue(queue)
            /\ InQueue(queue)' = InQueue(queue) \ Range(s),
         task' = task
  PROVE  Homes' /\ page' \in [Clients -> Seq(Tasks)]
<1>1. PICK t, rest : t = Head(s) /\ rest = Tail(s)
  OBVIOUS
<1>2. Distinct(s)
  BY DEF Homes
<1>3. /\ t \in Tasks /\ rest \in Seq(Tasks) /\ Distinct(rest)
      /\ Range(rest) = Range(s) \ {t} /\ t \in Range(s)
  BY <1>1, <1>2, DistinctTail, TailIs
<1>4. /\ page'[c] = rest /\ \A d \in Clients \ {c} : page'[d] = page[d]
      /\ page' \in [Clients -> Seq(Tasks)]
  BY <1>1, <1>3 DEF Discard, Types
<1>5. status'[t] # "pool" /\ \A u \in Tasks \ {t} : status'[u] = status[u]
  BY <1>1, <1>3 DEF Discard, Left, Types
<1>6. /\ \A v \in Workers : task[v] \notin Range(s)
      /\ \A d \in Clients \ {c} : Range(page[d]) \cap Range(s) = {}
  <2>1. Range(s) \subseteq Tasks /\ NoTask \notin Tasks
    BY RangeIs, PoolAssumption
  <2>2. CASE s = page[c]
    BY <2>1, <2>2 DEF Homes
  <2>3. CASE Range(s) \subseteq InQueue(queue)
    BY <2>1, <2>3 DEF Homes
  <2> QED
    BY <2>2, <2>3
<1>7. Range(<<>>) = {}
  BY DEF Range
<1>8. /\ \A x : x \in InQueue(queue)' <=> x \in InQueue(queue) /\ x \notin Range(s)
      /\ \A x \in Range(s) : x \in InQueue(queue) \/ x \in Range(page[c])
      /\ \A x \in Range(page[c]) : x \in Range(s)
  <2>1. CASE s = page[c] /\ InQueue(queue)' = InQueue(queue)
    <3>1. \A x \in Range(s) : x \notin InQueue(queue)
      BY <2>1 DEF Homes
    <3> QED
      BY <2>1, <3>1
  <2>2. CASE /\ page[c] = <<>> /\ Range(s) \subseteq InQueue(queue)
             /\ InQueue(queue)' = InQueue(queue) \ Range(s)
    BY <1>7, <2>2
  <2> QED
    BY <2>1, <2>2
<1>9. ASSUME NEW u \in Tasks
      PROVE  status'[u] = "pool" <=> \/ u \in InQueue(queue)'
                                     \/ \E w \in Workers : task'[w] = u
                                     \/ \E d \in Clients : u \in Range(page'[d])
  <2>0. status[u] = "pool" <=> \/ u \in InQueue(queue)
                               \/ \E w \in Workers : task[w] = u
                               \/ \E d \in Clients : u \in Range(page[d])
    BY DEF Homes
  <2>1. CASE u \in Range(s)
    <3>1. /\ status[u] = "pool" /\ u \notin InQueue(queue)'
          /\ ~(\E w \in Workers : task'[w] = u)
          /\ \A d \in Clients \ {c} : u \notin Range(page'[d])
      BY <1>4, <1>6, <1>8, <2>0, <2>1
    <3>2. u \in Range(page'[c]) <=> u # t
      BY <1>3, <1>4, <2>1
    <3> QED
      BY <1>5, <3>1, <3>2
  <2>2. CASE u \notin Range(s)
    <3>1. status'[u] = status[u] /\ (u \in InQueue(queue)' <=> u \in InQueue(queue))
      BY <1>3, <1>5, <1>8, <2>2
    <3>2. \A d \in Clients : u \in Range(page'[d]) <=> u \in Range(page[d])
      BY <1>3, <1>4, <1>8, <2>2
    <3> QED
      BY <2>0, <3>1, <3>2
  <2> QED
    BY <2>1, <2>2
<1>10. ASSUME NEW w \in Workers, task'[w] # NoTask
       PROVE  /\ task'[w] \notin InQueue(queue)'
              /\ \A v \in Workers : task'[v] = task'[w] => v = w
              /\ \A d \in Clients : task'[w] \notin Range(page'[d])
  <2>1. /\ task[w] \notin InQueue(queue) /\ task[w] \notin Range(s)
        /\ \A v \in Workers : task[v] = task[w] => v = w
        /\ \A d \in Clients : task[w] \notin Range(page[d])
    BY <1>6, <1>10 DEF Homes
  <2> QED
    BY <1>3, <1>4, <1>8, <2>1
<1>11. ASSUME NEW d \in Clients
       PROVE  /\ Distinct(page'[d])
              /\ \A u \in Range(page'[d]) :
                   /\ u \notin InQueue(queue)'
                   /\ \A e \in Clients : u \in Range(page'[e]) => e = d
  <2>1. CASE d = c
    BY <1>3, <1>4, <1>6, <1>8, <2>1
  <2>2. CASE d # c
    <3>1. page'[d] = page[d] /\ Range(page[d]) \cap Range(s) = {}
      BY <1>4, <1>6, <2>2
    <3>2. /\ Distinct(page[d])
          /\ \A u \in Range(page[d]) :
               /\ u \notin InQueue(queue)
               /\ \A e \in Clients : u \in Range(page[e]) => e = d
      BY DEF Homes
    <3> QED
      BY <1>3, <1>4, <1>8, <3>1, <3>2
  <2> QED
    BY <2>1, <2>2
<1> QED
  BY <1>4, <1>9, <1>10, <1>11 DEF Homes

-----------------------------------------------------------------------------
(* The invariant: work is not left lying.                                  *)

Numbers ==
  /\ BusyThreads = activeThreads + Cardinality(Called)
  /\ activeThreads \in Nat /\ Cardinality(Called) \in Nat
  /\ IsFiniteSet(InQueue(queue)) /\ Cardinality(InQueue(queue)) \in Nat
  /\ reservedThreads \in Int /\ MaxThreadCount \in Int /\ MaxThreadCount >= 1
  /\ allThreads = {} => BusyThreads = 0

LEMMA NumbersAre == Types /\ Threads => Numbers
<1>1. SUFFICES ASSUME Types, Threads PROVE Numbers
  OBVIOUS
<1>2. /\ BusyThreads = activeThreads + Cardinality(Called)
      /\ activeThreads \in Nat /\ Cardinality(Called) \in Nat
  BY <1>1, BusyIs
<1>3. IsFiniteSet(InQueue(queue)) /\ Cardinality(InQueue(queue)) \in Nat
  <2>1. InQueue(queue) \in SUBSET Tasks
    BY <1>1, InQueueIs DEF Types
  <2> QED
    BY <2>1, PoolAssumption, FS_Subset, FS_CardinalityType
<1>4. reservedThreads \in Int /\ MaxThreadCount \in Int /\ MaxThreadCount >= 1
  BY <1>1, PoolAssumption DEF Types, MaxThreadCount
<1>5. ASSUME allThreads = {} PROVE BusyThreads = 0
  <2>1. Called = {} /\ Running = {}
    BY <1>1, <1>5 DEF Called, Summoned, Running, Threads, Lists
  <2> QED
    BY <1>1, <1>2, <2>1, FS_EmptySet DEF Threads, Counted
<1> QED
  BY <1>2, <1>3, <1>4, <1>5 DEF Numbers

LEMMA NumbersThen ==
  ASSUME Types', Threads' PROVE Numbers'
<1>1. (Types /\ Threads => Numbers)'
  BY NumbersAre, PTL
<1> QED
  BY <1>1

LEMMA StayActive ==
  ASSUME Numbers, Numbers', AreAllThreadsActive(reservedThreads), maxThreads' = maxThreads,
         BusyThreads' + reservedThreads' >= BusyThreads + reservedThreads,
         BusyThreads' >= BusyThreads
  PROVE  AreAllThreadsActive(reservedThreads)'
<1>1. PICK b, c, r, s, m : /\ b = BusyThreads /\ c = BusyThreads' /\ r = reservedThreads
                           /\ s = reservedThreads' /\ m = MaxThreadCount
  OBVIOUS
<1>2. MaxThreadCount' = m
  BY <1>1 DEF MaxThreadCount
<1>3. b \in Int /\ c \in Int /\ r \in Int /\ s \in Int /\ m \in Int
  BY <1>1 DEF Numbers
<1>4. b + r >= m /\ b >= 1 /\ c + s >= b + r /\ c >= b
  BY <1>1 DEF AreAllThreadsActive, ActiveThreadCount
<1>5. c + s >= m /\ c >= 1
  BY <1>3, <1>4
<1> QED
  BY <1>1, <1>2, <1>5 DEF AreAllThreadsActive, ActiveThreadCount

\* Nothing is added: a runnable leaves for every woken thread that leaves.
LEMMA WorkKept ==
  ASSUME Numbers, Numbers', WorkConserving, ~Locked \/ Locked', queue = <<>> => queue' = <<>>,
         BusyThreads' = BusyThreads, reservedThreads' >= reservedThreads, maxThreads' = maxThreads,
         \/ /\ InQueue(queue)' \subseteq InQueue(queue)
            /\ Cardinality(Called') = Cardinality(Called)
         \/ /\ \E t \in InQueue(queue) : InQueue(queue)' = InQueue(queue) \ {t}
            /\ Cardinality(Called') = Cardinality(Called) - 1
  PROVE  WorkConserving'
<1>1. SUFFICES ASSUME queue' # <<>>, ~Locked', queue # <<>>, ~Locked
               PROVE  \/ AreAllThreadsActive(reservedThreads)'
                      \/ Cardinality(InQueue(queue)') <= Cardinality(Called')
  BY DEF WorkConserving, Called
<1>2. CASE AreAllThreadsActive(reservedThreads)
  <2>1. /\ BusyThreads' + reservedThreads' >= BusyThreads + reservedThreads
        /\ BusyThreads' >= BusyThreads
    BY DEF Numbers
  <2> QED
    BY <1>2, <2>1, StayActive
<1>3. CASE Cardinality(InQueue(queue)) <= Cardinality(Called)
  <2>1. CASE /\ InQueue(queue)' \subseteq InQueue(queue)
             /\ Cardinality(Called') = Cardinality(Called)
    <3>1. Cardinality(InQueue(queue)') <= Cardinality(InQueue(queue))
      BY <2>1, FS_Subset DEF Numbers
    <3> QED
      BY <1>3, <2>1, <3>1 DEF Numbers
  <2>2. CASE /\ \E t \in InQueue(queue) : InQueue(queue)' = InQueue(queue) \ {t}
             /\ Cardinality(Called') = Cardinality(Called) - 1
    <3>1. Cardinality(InQueue(queue)') = Cardinality(InQueue(queue)) - 1
      BY <2>2, FS_RemoveElement DEF Numbers
    <3> QED
      BY <1>3, <2>2, <3>1 DEF Numbers
  <2> QED
    BY <2>1, <2>2
<1> QED
  BY <1>1, <1>2, <1>3 DEF WorkConserving, Called

\* Whoever leaves one in the queue has seen all threads active.
LEMMA WorkWaits ==
  ASSUME Numbers, Numbers', AreAllThreadsActive(reservedThreads'),
         BusyThreads' = BusyThreads, maxThreads' = maxThreads
  PROVE  WorkConserving'
<1>1. AreAllThreadsActive(reservedThreads)'
  BY DEF AreAllThreadsActive, ActiveThreadCount, Numbers, MaxThreadCount
<1> QED
  BY <1>1 DEF WorkConserving

\* A thread stops for lack of work, or because there are enough without it.
LEMMA WorkRefused ==
  ASSUME Numbers, Numbers', TooManyThreadsActive \/ queue = <<>>, queue' = queue,
         BusyThreads' = BusyThreads - 1, UNCHANGED limits
  PROVE  WorkConserving'
<1>1. CASE queue = <<>>
  BY <1>1 DEF WorkConserving
<1>2. CASE TooManyThreadsActive
  <2>1. AreAllThreadsActive(reservedThreads)'
    <3>1. PICK b, c, s, m : b = BusyThreads /\ c = BusyThreads' /\ s = reservedThreads /\ m = MaxThreadCount
      OBVIOUS
    <3>2. /\ b \in Int /\ s \in Int /\ m \in Int /\ c = b - 1
          /\ reservedThreads' = s /\ MaxThreadCount' = m
      BY <3>1 DEF Numbers, MaxThreadCount, limits
    <3>3. b + s > m /\ b > 1
      BY <1>2, <3>1 DEF TooManyThreadsActive, ActiveThreadCount
    <3>4. c + s >= m /\ c >= 1
      BY <3>2, <3>3
    <3> QED
      BY <3>1, <3>2, <3>4 DEF AreAllThreadsActive, ActiveThreadCount
  <2> QED
    BY <2>1 DEF WorkConserving
<1> QED
  BY <1>1, <1>2

\* A thread more is busy: it is woken for the runnable that is queued, or has
\* got it.
LEMMA WorkStarted ==
  ASSUME Numbers, Numbers', WorkConserving, ~Locked, ~AreAllThreadsActive(reservedThreads'),
         BusyThreads' = BusyThreads + 1, maxThreads' = maxThreads,
         reservedThreads' \in {reservedThreads, reservedThreads - 1},
         \/ /\ \E t : InQueue(queue)' = InQueue(queue) \cup {t}
            /\ Cardinality(Called') = Cardinality(Called) + 1
         \/ /\ queue' = queue
            /\ Cardinality(Called') = Cardinality(Called),
         queue = <<>> => InQueue(queue) = {}
  PROVE  WorkConserving'
<1>1. CASE AreAllThreadsActive(reservedThreads)
  <2>1. AreAllThreadsActive(reservedThreads)'
    <3>1. BusyThreads \in Int /\ reservedThreads \in Int
      BY DEF Numbers
    <3>2. PICK b, c, s, u : /\ b = BusyThreads /\ c = BusyThreads'
                            /\ s = reservedThreads /\ u = reservedThreads'
      OBVIOUS
    <3>3. b \in Int /\ s \in Int /\ c = b + 1 /\ u \in {s, s - 1}
      BY <3>1, <3>2
    <3>4. c + u >= b + s /\ c >= b
      BY <3>3
    <3>5. /\ BusyThreads' + reservedThreads' >= BusyThreads + reservedThreads
          /\ BusyThreads' >= BusyThreads
      BY <3>2, <3>4
    <3> QED
      BY <1>1, <3>5, StayActive
  <2> QED
    BY <2>1 DEF WorkConserving
<1>2. CASE queue = <<>> \/ Cardinality(InQueue(queue)) <= Cardinality(Called)
  <2>1. Cardinality(InQueue(queue)) <= Cardinality(Called)
    <3>1. Cardinality(Called) \in Nat
      BY DEF Numbers
    <3>2. queue = <<>> => Cardinality(InQueue(queue)) = 0
      BY FS_EmptySet
    <3> QED
      BY <1>2, <3>1, <3>2
  <2>2. Cardinality(InQueue(queue)') <= Cardinality(Called')
    <3>1. CASE /\ \E t : InQueue(queue)' = InQueue(queue) \cup {t}
               /\ Cardinality(Called') = Cardinality(Called) + 1
      <4>1. Cardinality(InQueue(queue)') <= Cardinality(InQueue(queue)) + 1
        <5>1. PICK t : InQueue(queue)' = InQueue(queue) \cup {t}
          BY <3>1
        <5>2. Cardinality(InQueue(queue) \cup {t})
                = IF t \in InQueue(queue) THEN Cardinality(InQueue(queue))
                  ELSE Cardinality(InQueue(queue)) + 1
          BY FS_AddElement DEF Numbers
        <5>3. Cardinality(InQueue(queue)) \in Nat
          BY DEF Numbers
        <5> QED
          BY <5>1, <5>2, <5>3
      <4>2. /\ Cardinality(InQueue(queue)) \in Nat /\ Cardinality(InQueue(queue)') \in Nat
            /\ Cardinality(Called) \in Nat
        BY DEF Numbers
      <4> QED
        <5>1. PICK a, b, c, d : /\ a = Cardinality(InQueue(queue)) /\ b = Cardinality(InQueue(queue)')
                                /\ c = Cardinality(Called) /\ d = Cardinality(Called')
          OBVIOUS
        <5>2. a \in Nat /\ b \in Nat /\ c \in Nat /\ a <= c /\ b <= a + 1 /\ d = c + 1
          BY <2>1, <3>1, <4>1, <4>2, <5>1
        <5>3. b <= d
          BY <5>2
        <5> QED
          BY <5>1, <5>3
    <3>2. CASE /\ queue' = queue
               /\ Cardinality(Called') = Cardinality(Called)
      BY <2>1, <3>2
    <3> QED
      BY <3>1, <3>2
  <2> QED
    BY <2>2 DEF WorkConserving, Called
<1> QED
  BY <1>1, <1>2 DEF WorkConserving, Called

-----------------------------------------------------------------------------
(* The steps.                                                              *)

PoolInv == Types /\ Threads /\ Full(queue) /\ Homes /\ WorkConserving

LEMMA EmptyQueue == InQueue(<<>>) = {}
  BY DEF InQueue

\* tryStart() gives the runnable to a thread, or wakes one for it.
LEMMA Given ==
  ASSUME Types, Threads, NEW t \in Tasks, GiveToThread(t), joining' = joining
  PROVE  /\ Threads'
         /\ allThreads' \subseteq Workers /\ waitingThreads' \in Seq(Workers)
         /\ expiredThreads' \in Seq(Workers) /\ activeThreads' \in Int
         /\ pc' \in [Workers -> WorkerStates] /\ task' \in [Workers -> Tasks \cup {NoTask}]
         /\ IF waitingThreads # <<>>
            THEN /\ task' = task /\ activeThreads' = activeThreads
                 /\ Cardinality(Called') = Cardinality(Called) + 1
            ELSE /\ \E w \in Workers : task[w] = NoTask /\ task' = [task EXCEPT ![w] = t]
                 /\ activeThreads' = activeThreads + 1
                 /\ Cardinality(Called') = Cardinality(Called)
<1>0. /\ allThreads \subseteq Workers /\ waitingThreads \in Seq(Workers)
      /\ expiredThreads \in Seq(Workers) /\ activeThreads \in Int
      /\ pc \in [Workers -> WorkerStates] /\ task \in [Workers -> Tasks \cup {NoTask}]
      /\ Lists
  BY DEF Types, Threads
<1>1. CASE RecycleWaiting(t)
  <2>1. /\ waitingThreads # <<>> /\ waitingThreads' = Tail(waitingThreads)
        /\ pc' = [pc EXCEPT ![Head(waitingThreads)] = "woken"]
        /\ UNCHANGED <<allThreads, expiredThreads, activeThreads, task, joining>>
    BY <1>1 DEF RecycleWaiting
  <2>2. Threads' /\ Cardinality(Called') = Cardinality(Called) + 1
    BY <2>1, Recycled
  <2>3. waitingThreads' \in Seq(Workers) /\ Head(waitingThreads) \in Workers
    BY <1>0, <2>1, TailIs
  <2>4. pc' \in [Workers -> WorkerStates]
    BY <1>0, <2>1, <2>3 DEF WorkerStates
  <2> QED
    BY <1>0, <2>1, <2>2, <2>3, <2>4
<1>2. CASE RestartExpired(t)
  <2>1. /\ waitingThreads = <<>> /\ expiredThreads # <<>> /\ expiredThreads' = Tail(expiredThreads)
        /\ Runs(Head(expiredThreads), t) /\ activeThreads' = activeThreads + 1
        /\ UNCHANGED <<allThreads, waitingThreads, joining>>
    BY <1>2 DEF RestartExpired
  <2>2. Threads' /\ Cardinality(Called') = Cardinality(Called)
    BY <2>1, Restarted
  <2>3. /\ expiredThreads' \in Seq(Workers) /\ Head(expiredThreads) \in Workers
        /\ Head(expiredThreads) \in Range(expiredThreads)
    BY <1>0, <2>1, TailIs, DistinctTail DEF Lists
  <2>4. task[Head(expiredThreads)] = NoTask
    BY <1>0, <2>3 DEF Lists, Expired
  <2>5. pc' \in [Workers -> WorkerStates] /\ task' \in [Workers -> Tasks \cup {NoTask}]
    BY <1>0, <2>1, <2>3 DEF WorkerStates, Runs
  <2>6. \E w \in Workers : task[w] = NoTask /\ task' = [task EXCEPT ![w] = t]
    BY <2>1, <2>3, <2>4 DEF Runs
  <2>7. waitingThreads = <<>> /\ activeThreads' = activeThreads + 1
    BY <2>1
  <2>8. /\ allThreads' \subseteq Workers /\ waitingThreads' \in Seq(Workers)
        /\ expiredThreads' \in Seq(Workers) /\ activeThreads' \in Int
    BY <1>0, <2>1, <2>3
  <2> QED
    BY <2>2, <2>5, <2>6, <2>7, <2>8, Zenon
<1>3. CASE StartThread(t)
  <2>1. PICK w \in Workers : pc[w] = "none" /\ allThreads' = allThreads \cup {w} /\ Runs(w, t)
    BY <1>3 DEF StartThread
  <2>2. /\ waitingThreads = <<>> /\ activeThreads' = activeThreads + 1
        /\ UNCHANGED <<waitingThreads, expiredThreads, joining>>
    BY <1>3 DEF StartThread
  <2>3. Threads' /\ Cardinality(Called') = Cardinality(Called)
    BY <2>1, <2>2, NewThread
  <2>4. task[w] = NoTask
    BY <1>0, <2>1 DEF Lists
  <2>5. pc' \in [Workers -> WorkerStates] /\ task' \in [Workers -> Tasks \cup {NoTask}]
    BY <1>0, <2>1 DEF WorkerStates, Runs
  <2>6. \E v \in Workers : task[v] = NoTask /\ task' = [task EXCEPT ![v] = t]
    BY <2>1, <2>4 DEF Runs
  <2>7. allThreads' \subseteq Workers
    BY <1>0, <2>1
  <2>8. /\ waitingThreads' \in Seq(Workers) /\ expiredThreads' \in Seq(Workers)
        /\ activeThreads' \in Int
    BY <1>0, <2>2
  <2> QED
    BY <2>2, <2>3, <2>5, <2>6, <2>7, <2>8, Zenon
<1> QED
  BY <1>1, <1>2, <1>3 DEF GiveToThread

LEMMA NoMoreBusy ==
  ASSUME Numbers, Numbers', BusyThreads' <= BusyThreads PROVE LimitKept
<1>1. BusyThreads \in Int /\ BusyThreads' \in Int
  BY DEF Numbers
<1> QED
  BY <1>1 DEF LimitKept

LEMMA AcceptIs ==
  ASSUME Types, NEW t \in Tasks, Accept(t) PROVE status' \in [Tasks -> {"free", "pool", "done"}]
  BY DEF Accept, Types

LEMMA LeftIs ==
  ASSUME Types, NEW t, status' = Left(t) PROVE status' \in [Tasks -> {"free", "pool", "done"}]
  BY DEF Left, Types

\* tryStart() succeeds, with r reserved threads.
LEMMA TryStartKeeps ==
  ASSUME PoolInv, ~Locked, NEW t \in Tasks, Accept(t), NEW r \in Reserved,
         \A n \in 0..r : n \in Reserved, r \in {reservedThreads, reservedThreads - 1},
         reservedThreads' = r, maxThreads' = maxThreads, UNCHANGED clients,
         CanStart(r), GiveToThread(t), queue' = QueueAfterStart(t)
  PROVE  PoolInv' /\ LimitKept
<1>1. /\ Types /\ Threads /\ Full(queue) /\ Homes /\ WorkConserving
      /\ cpc' = cpc /\ page' = page /\ joining' = joining
  BY DEF PoolInv, clients
<1>2. /\ Threads'
      /\ allThreads' \subseteq Workers /\ waitingThreads' \in Seq(Workers)
      /\ expiredThreads' \in Seq(Workers) /\ activeThreads' \in Int
      /\ pc' \in [Workers -> WorkerStates] /\ task' \in [Workers -> Tasks \cup {NoTask}]
      /\ IF waitingThreads # <<>>
         THEN /\ task' = task /\ activeThreads' = activeThreads
              /\ Cardinality(Called') = Cardinality(Called) + 1
         ELSE /\ \E w \in Workers : task[w] = NoTask /\ task' = [task EXCEPT ![w] = t]
              /\ activeThreads' = activeThreads + 1
              /\ Cardinality(Called') = Cardinality(Called)
  BY <1>1, Given
<1>3. status' \in [Tasks -> {"free", "pool", "done"}] /\ t \notin InQueue(queue)
  BY <1>1, AcceptIs DEF Homes, Accept
<1>4. /\ Full(queue') /\ Homes'
      /\ IF waitingThreads # <<>> THEN InQueue(queue)' = InQueue(queue) \cup {t} ELSE queue' = queue
  <2>1. CASE waitingThreads # <<>>
    <3>1. queue' = Enqueued(queue, t, 0)
      BY <2>1 DEF QueueAfterStart
    <3>2. Full(queue') /\ InQueue(queue)' = InQueue(queue) \cup {t}
      BY <1>1, <1>3, <3>1, EnqueuedIs DEF Full
    <3>3. Homes'
      BY <1>1, <1>2, <2>1, <3>2, Queued
    <3> QED
      BY <2>1, <3>2, <3>3
  <2>2. CASE waitingThreads = <<>>
    <3>1. queue' = queue
      BY <2>2 DEF QueueAfterStart
    <3>2. PICK w \in Workers : task[w] = NoTask /\ task' = [task EXCEPT ![w] = t]
      BY <1>2, <2>2
    <3>3. Homes'
      BY <1>1, <3>1, <3>2, Assigned
    <3> QED
      BY <1>1, <2>2, <3>1, <3>3
  <2> QED
    BY <2>1, <2>2
<1>5. Types'
  BY <1>1, <1>2, <1>3, <1>4 DEF Types, Full, Orderly
<1>6. Numbers /\ Numbers'
  BY <1>1, <1>2, <1>5, NumbersAre, NumbersThen
<1>7. BusyThreads' = BusyThreads + 1
  <2>1. /\ BusyThreads = activeThreads + Cardinality(Called)
        /\ BusyThreads' = activeThreads' + Cardinality(Called')
        /\ activeThreads \in Nat /\ Cardinality(Called) \in Nat
    BY <1>6 DEF Numbers
  <2> QED
    BY <1>2, <2>1
<1>8. ~AreAllThreadsActive(r)
  BY <1>6 DEF CanStart, AreAllThreadsActive, Numbers
<1>9. WorkConserving'
  <2>1. queue = <<>> => InQueue(queue) = {}
    BY EmptyQueue
  <2>2. ~AreAllThreadsActive(reservedThreads')
    BY <1>8
  <2>3. \/ /\ \E u : InQueue(queue)' = InQueue(queue) \cup {u}
           /\ Cardinality(Called') = Cardinality(Called) + 1
        \/ /\ queue' = queue
           /\ Cardinality(Called') = Cardinality(Called)
    BY <1>2, <1>4
  <2> QED
    BY <1>1, <1>6, <1>7, <2>1, <2>2, <2>3, WorkStarted
<1>10. LimitKept
  <2>1. PICK b, m : b = BusyThreads /\ m = MaxThreadCount
    OBVIOUS
  <2>2. b \in Nat /\ m \in Int /\ r \in Int
    BY <1>6, <2>1, PoolAssumption DEF Numbers
  <2>3. b + r < m \/ b < 1
    BY <1>8, <2>1, <2>2 DEF AreAllThreadsActive, ActiveThreadCount
  <2>4. (b + 1) + r <= m \/ b + 1 = 1
    BY <2>2, <2>3
  <2>5. ActiveThreadCount(reservedThreads)' = (b + 1) + r
    BY <1>7, <2>1 DEF ActiveThreadCount
  <2> QED
    BY <1>7, <2>1, <2>4, <2>5 DEF LimitKept
<1> QED
  BY <1>1, <1>2, <1>4, <1>5, <1>9, <1>10 DEF PoolInv

\* tryStart() has failed, and the runnable is queued.
LEMMA EnqueueKeeps ==
  ASSUME PoolInv, NEW t \in Tasks, Accept(t), NEW r \in Reserved, NEW prio \in Int, prio >= 0,
         \A n \in 0..r : n \in Reserved,
         reservedThreads' = r, maxThreads' = maxThreads, UNCHANGED clients,
         Enqueue(t, prio, r)
  PROVE  PoolInv' /\ LimitKept
<1>1. /\ Types /\ Threads /\ Full(queue) /\ Homes
      /\ cpc' = cpc /\ page' = page /\ joining' = joining
      /\ UNCHANGED <<pool, activeThreads, pc, task>> /\ queue' = Enqueued(queue, t, prio)
      /\ UNCHANGED <<allThreads, waitingThreads, expiredThreads>>
  BY DEF PoolInv, clients, Enqueue, pool
<1>2. status' \in [Tasks -> {"free", "pool", "done"}] /\ t \notin InQueue(queue)
  BY <1>1, AcceptIs DEF Homes, Accept
<1>3. Full(queue') /\ InQueue(queue)' = InQueue(queue) \cup {t}
  BY <1>1, <1>2, EnqueuedIs DEF Full
<1>4. Homes'
  BY <1>1, <1>3, Queued
<1>5. Threads' /\ Cardinality(Called') = Cardinality(Called)
  BY <1>1, SameThreads
<1>6. Types'
  BY <1>1, <1>2, <1>3 DEF Types, Full, Orderly
<1>7. Numbers /\ Numbers'
  BY <1>1, <1>5, <1>6, NumbersAre, NumbersThen
<1>8. BusyThreads' = BusyThreads /\ BusyThreads \in Int
  BY <1>1, <1>5, <1>7 DEF Numbers
<1>9. AreAllThreadsActive(reservedThreads')
  BY DEF Enqueue, CanStart
<1>10. WorkConserving'
  BY <1>7, <1>8, <1>9, WorkWaits
<1>11. LimitKept
  BY <1>7, <1>8, NoMoreBusy
<1> QED
  BY <1>3, <1>4, <1>5, <1>6, <1>10, <1>11 DEF PoolInv


LEMMA StartKeeps ==
  ASSUME NonNegative, PoolInv, NEW c \in Clients, NEW t \in Tasks, NEW prio \in Priorities,
         Start(c, t, prio)
  PROVE  PoolInv' /\ LimitKept
<1>1. PICK r : r = reservedThreads
  OBVIOUS
<1>2. /\ ~Locked /\ Accept(t) /\ UNCHANGED <<limits, clients>>
      /\ TryStart(t, r) \/ Enqueue(t, prio, r)
  BY <1>1 DEF Start, Calls
<1>3. /\ r \in Reserved /\ (\A n \in 0..r : n \in Reserved) /\ r \in {reservedThreads, reservedThreads - 1}
      /\ reservedThreads' = r /\ maxThreads' = maxThreads /\ UNCHANGED clients
      /\ prio \in Int /\ prio >= 0
  BY <1>1, <1>2, PoolAssumption DEF PoolInv, Types, limits, NonNegative
<1>4. CASE TryStart(t, r)
  <2>1. CanStart(r) /\ GiveToThread(t) /\ queue' = QueueAfterStart(t)
    BY <1>4 DEF TryStart
  <2> QED
    BY <1>2, <1>3, <2>1, TryStartKeeps
<1>5. CASE Enqueue(t, prio, r)
  BY <1>2, <1>3, <1>5, EnqueueKeeps
<1> QED
  BY <1>2, <1>4, <1>5

LEMMA TryStartOnlyKeeps ==
  ASSUME PoolInv, NEW c \in Clients, NEW t \in Tasks, TryStartOnly(c, t)
  PROVE  PoolInv' /\ LimitKept
<1>1. PICK r : r = reservedThreads
  OBVIOUS
<1>2. /\ ~Locked /\ Accept(t) /\ UNCHANGED <<limits, clients>>
      /\ TryStart(t, r)
  BY <1>1 DEF TryStartOnly, Calls
<1>3. /\ r \in Reserved /\ (\A n \in 0..r : n \in Reserved) /\ r \in {reservedThreads, reservedThreads - 1}
      /\ reservedThreads' = r /\ maxThreads' = maxThreads /\ UNCHANGED clients
  BY <1>1, <1>2 DEF PoolInv, Types, limits
<1>4. CanStart(r) /\ GiveToThread(t) /\ queue' = QueueAfterStart(t)
  BY <1>2 DEF TryStart
<1> QED
  BY <1>2, <1>3, <1>4, TryStartKeeps

LEMMA StartOnReservedThreadKeeps ==
  ASSUME NonNegative, PoolInv, NEW c \in Clients, NEW t \in Tasks, StartOnReservedThread(c, t)
  PROVE  PoolInv' /\ LimitKept
<1>1. PICK r : r = reservedThreads - 1
  OBVIOUS
<1>2. /\ ~Locked /\ Accept(t) /\ maxThreads' = maxThreads /\ UNCHANGED clients
      /\ reservedThreads > 0 /\ reservedThreads' = r
      /\ TryStart(t, r) \/ Enqueue(t, IntMax, r)
  BY <1>1 DEF StartOnReservedThread, Calls
<1>3. reservedThreads \in Int /\ \A n \in 0..reservedThreads : n \in Reserved
  BY PoolAssumption DEF PoolInv, Types
<1>4. /\ r \in Reserved /\ (\A n \in 0..r : n \in Reserved) /\ r \in {reservedThreads, reservedThreads - 1}
      /\ IntMax \in Int /\ IntMax >= 0
  BY <1>1, <1>2, <1>3, PoolAssumption DEF NonNegative
<1>5. CASE TryStart(t, r)
  <2>1. CanStart(r) /\ GiveToThread(t) /\ queue' = QueueAfterStart(t)
    BY <1>5 DEF TryStart
  <2> QED
    BY <1>2, <1>4, <2>1, TryStartKeeps
<1>6. CASE Enqueue(t, IntMax, r)
  BY <1>2, <1>4, <1>6, EnqueueKeeps
<1> QED
  BY <1>2, <1>5, <1>6


\* A thread, done with its runnable or woken, takes the next one.
LEMMA TakeNextKeeps ==
  ASSUME PoolInv, ~Locked, NEW w \in allThreads, pc[w] \in {"running", "woken"},
         NEW active, active = IF pc[w] = "running" THEN activeThreads ELSE activeThreads + 1,
         IF task[w] = NoTask THEN status' = status ELSE status' = Left(task[w]),
         UNCHANGED limits, TakeNext(w, active)
  PROVE  PoolInv' /\ LimitKept
<1>1. /\ Types /\ Threads /\ Full(queue) /\ Homes /\ WorkConserving
      /\ cpc' = cpc /\ page' = page /\ joining' = joining
      /\ UNCHANGED <<allThreads, waitingThreads, expiredThreads>> /\ UNCHANGED <<pool, joining>>
      /\ reservedThreads' = reservedThreads /\ maxThreads' = maxThreads
      /\ queue # <<>> /\ queue' = Popped(queue) /\ Runs(w, First(queue)) /\ activeThreads' = active
      /\ w \in Workers
  BY DEF PoolInv, clients, TakeNext, pool, limits, Types
<1>2. PICK t : t = First(queue)
  OBVIOUS
<1>3. /\ Full(queue') /\ InQueue(queue)' = InQueue(queue) \ {t}
      /\ t \in InQueue(queue) /\ t \in Tasks
  BY <1>1, <1>2, PoppedIs
<1>4. Runs(w, t) /\ pc' = [pc EXCEPT ![w] = "running"] /\ task' = [task EXCEPT ![w] = t]
  BY <1>1, <1>2 DEF Runs
<1>5. /\ Threads'
      /\ activeThreads' + Cardinality(Called') = activeThreads + Cardinality(Called)
      /\ Cardinality(Called') \in {Cardinality(Called), Cardinality(Called) - 1}
  <2>0. activeThreads \in Int /\ Cardinality(Called) \in Nat
    BY <1>1, BusyIs
  <2>1. CASE pc[w] = "running"
    <3>1. Threads' /\ Cardinality(Called') = Cardinality(Called)
      BY <1>1, <1>3, <1>4, <2>1, TookMore
    <3> QED
      BY <1>1, <2>0, <2>1, <3>1
  <2>2. CASE pc[w] = "woken"
    <3>1. Threads' /\ Cardinality(Called') = Cardinality(Called) - 1
      BY <1>1, <1>3, <1>4, <2>2, TookWoken
    <3> QED
      BY <1>1, <2>0, <2>2, <3>1
  <2> QED
    BY <2>1, <2>2
<1>6. Homes'
  BY <1>1, <1>3, <1>4, HandedOver
<1>7. Types'
  <2>1. status' \in [Tasks -> {"free", "pool", "done"}]
    BY <1>1, LeftIs DEF Types
  <2>2. pc' \in [Workers -> WorkerStates] /\ task' \in [Workers -> Tasks \cup {NoTask}]
    BY <1>1, <1>3, <1>4 DEF Types, WorkerStates
  <2>3. activeThreads' \in Int
    BY <1>1 DEF Types
  <2> QED
    BY <1>1, <1>3, <2>1, <2>2, <2>3 DEF Types, Full, Orderly
<1>8. Numbers /\ Numbers'
  BY <1>1, <1>5, <1>7, NumbersAre, NumbersThen
<1>9. BusyThreads' = BusyThreads /\ BusyThreads \in Int
  <2>1. /\ BusyThreads = activeThreads + Cardinality(Called)
        /\ BusyThreads' = activeThreads' + Cardinality(Called')
        /\ activeThreads \in Nat /\ Cardinality(Called) \in Nat
    BY <1>8 DEF Numbers
  <2> QED
    BY <1>5, <2>1
<1>10. WorkConserving'
  <2>1. \/ /\ InQueue(queue)' \subseteq InQueue(queue)
           /\ Cardinality(Called') = Cardinality(Called)
        \/ /\ \E u \in InQueue(queue) : InQueue(queue)' = InQueue(queue) \ {u}
           /\ Cardinality(Called') = Cardinality(Called) - 1
    BY <1>3, <1>5
  <2>2. reservedThreads' >= reservedThreads
    BY <1>1, <1>8 DEF Numbers
  <2> QED
    BY <1>1, <1>8, <1>9, <2>1, <2>2, WorkKept
<1>11. LimitKept
  BY <1>8, <1>9, NoMoreBusy
<1> QED
  BY <1>3, <1>5, <1>6, <1>7, <1>10, <1>11 DEF PoolInv

\* It finds no work, or enough threads without it, and waits or ends.
LEMMA RetireKeeps ==
  ASSUME PoolInv, ~Locked, NEW w \in allThreads, pc[w] \in {"running", "woken"},
         NEW active, active = IF pc[w] = "running" THEN activeThreads ELSE activeThreads + 1,
         IF task[w] = NoTask THEN status' = status ELSE status' = Left(task[w]),
         UNCHANGED limits, Retire(w, active)
  PROVE  PoolInv' /\ LimitKept
<1>1. /\ Types /\ Threads /\ Full(queue) /\ Homes
      /\ allThreads' = allThreads /\ queue' = queue /\ page' = page /\ joining' = joining
      /\ reservedThreads' = reservedThreads /\ maxThreads' = maxThreads
      /\ activeThreads' = active - 1 /\ RegisterThreadInactive(active)
      /\ TooManyThreadsActive \/ queue = <<>>
      /\ w \in Workers
  BY DEF PoolInv, Retire, RegisterThreadInactive, limits, Types
<1>2. activeThreads \in Int /\ Cardinality(Called) \in Nat
  BY <1>1, BusyIs
<1>3. activeThreads' = IF pc[w] = "running" THEN activeThreads - 1 ELSE activeThreads
  BY <1>1, <1>2
<1>4. /\ Threads'
      /\ Cardinality(Called') = Cardinality(Called) - IF pc[w] = "running" THEN 0 ELSE 1
      /\ waitingThreads' \in Seq(Workers) /\ expiredThreads' \in Seq(Workers)
      /\ pc' \in [Workers -> WorkerStates] /\ task' = [task EXCEPT ![w] = NoTask]
  <2>0. /\ waitingThreads \in Seq(Workers) /\ expiredThreads \in Seq(Workers)
        /\ pc \in [Workers -> WorkerStates]
    BY <1>1 DEF Types
  <2>1. CASE /\ Stops(w, "finished") /\ expiredThreads' = Append(expiredThreads, w)
             /\ UNCHANGED waitingThreads
    <3>1. /\ Threads'
          /\ Cardinality(Called') = Cardinality(Called) - IF pc[w] = "running" THEN 0 ELSE 1
      BY <1>1, <1>3, <2>1, Ended
    <3> QED
      BY <1>1, <2>0, <2>1, <3>1 DEF Stops, WorkerStates
  <2>2. CASE /\ Stops(w, "asleep") /\ waitingThreads' = Append(waitingThreads, w)
             /\ UNCHANGED expiredThreads
    <3>1. /\ Threads'
          /\ Cardinality(Called') = Cardinality(Called) - IF pc[w] = "running" THEN 0 ELSE 1
      BY <1>1, <1>3, <2>2, FellAsleep
    <3> QED
      BY <1>1, <2>0, <2>2, <3>1 DEF Stops, WorkerStates
  <2> QED
    BY <2>1, <2>2 DEF Retire
<1>5. Homes'
  BY <1>1, <1>4, Returned
<1>6. Types'
  <2>1. status' \in [Tasks -> {"free", "pool", "done"}]
    BY <1>1, LeftIs DEF Types
  <2>2. task' \in [Workers -> Tasks \cup {NoTask}]
    BY <1>1, <1>4 DEF Types
  <2>3. activeThreads' \in Int
    BY <1>2, <1>3
  <2>4. cpc' \in [Clients -> ClientStates]
    BY <1>1 DEF Types, RegisterThreadInactive, ClientStates
  <2> QED
    BY <1>1, <1>4, <2>1, <2>2, <2>3, <2>4 DEF Types
<1>7. Numbers /\ Numbers'
  BY <1>1, <1>4, <1>6, NumbersAre, NumbersThen
<1>8. BusyThreads' = BusyThreads - 1 /\ BusyThreads \in Int
  <2>1. /\ BusyThreads = activeThreads + Cardinality(Called)
        /\ BusyThreads' = activeThreads' + Cardinality(Called')
        /\ activeThreads \in Nat /\ Cardinality(Called) \in Nat
    BY <1>7 DEF Numbers
  <2> QED
    BY <1>2, <1>3, <1>4, <2>1
<1>9. WorkConserving'
  BY <1>1, <1>7, <1>8, WorkRefused
<1>10. LimitKept
  BY <1>7, <1>8, NoMoreBusy
<1> QED
  BY <1>1, <1>4, <1>5, <1>6, <1>9, <1>10 DEF PoolInv

LEMMA FinishTaskKeeps ==
  ASSUME PoolInv, NEW w \in Workers, FinishTask(w)
  PROVE  PoolInv' /\ LimitKept
<1>1. PICK active : active = activeThreads
  OBVIOUS
<1>2. /\ pc[w] = "running" /\ ~Locked /\ status' = Left(task[w]) /\ UNCHANGED limits
      /\ TakeNext(w, active) \/ Retire(w, active)
  BY <1>1 DEF FinishTask
<1>3. w \in allThreads /\ task[w] # NoTask
  BY <1>2, PoolAssumption DEF PoolInv, Threads, Lists
<1> QED
  BY <1>1, <1>2, <1>3, TakeNextKeeps, RetireKeeps

LEMMA GoOnKeeps ==
  ASSUME PoolInv, NEW w \in Workers, GoOn(w)
  PROVE  PoolInv' /\ LimitKept
<1>1. PICK active : active = activeThreads + 1
  OBVIOUS
<1>2. /\ pc[w] \in {"asleep", "woken"} /\ ~Locked /\ status' = status /\ UNCHANGED limits
      /\ w \in allThreads /\ w \notin Range(waitingThreads)
      /\ TakeNext(w, active) \/ Retire(w, active)
  BY <1>1 DEF GoOn
<1>3. pc[w] = "woken" /\ task[w] = NoTask
  BY <1>2 DEF PoolInv, Threads, Lists, Waiting
<1> QED
  BY <1>1, <1>2, <1>3, TakeNextKeeps, RetireKeeps


\* A thread that holds no runnable and is not working ends.
LEMMA EndsKeeps ==
  ASSUME PoolInv, ~Locked, NEW w \in Workers, pc[w] \in {"asleep", "woken"}, Stops(w, "finished"),
         UNCHANGED <<queue, activeThreads, limits, clients, status>>,
         allThreads' = allThreads,
         waitingThreads' \in Seq(Workers), expiredThreads' \in Seq(Workers),
         Threads', Cardinality(Called') = Cardinality(Called)
  PROVE  PoolInv' /\ LimitKept
<1>1. /\ Types /\ Threads /\ Full(queue) /\ Homes /\ WorkConserving
      /\ queue' = queue /\ activeThreads' = activeThreads /\ status' = status
      /\ reservedThreads' = reservedThreads /\ maxThreads' = maxThreads
      /\ cpc' = cpc /\ page' = page /\ joining' = joining
  BY DEF PoolInv, limits, clients
<1>2. /\ pc' = [pc EXCEPT ![w] = "finished"] /\ task' = [task EXCEPT ![w] = NoTask]
      /\ task[w] = NoTask
  BY <1>1 DEF Stops, Threads, Lists
<1>3. Homes'
  BY <1>1, <1>2, Returned
<1>4. Types'
  <2>1. pc' \in [Workers -> WorkerStates] /\ task' \in [Workers -> Tasks \cup {NoTask}]
    BY <1>1, <1>2 DEF Types, WorkerStates
  <2> QED
    BY <1>1, <2>1 DEF Types
<1>5. Numbers /\ Numbers'
  BY <1>1, <1>4, NumbersAre, NumbersThen
<1>6. BusyThreads' = BusyThreads /\ BusyThreads \in Int
  BY <1>1, <1>5 DEF Numbers
<1>7. WorkConserving'
  <2>1. reservedThreads' >= reservedThreads
    BY <1>1, <1>5 DEF Numbers
  <2> QED
    BY <1>1, <1>5, <1>6, <2>1, WorkKept
<1>8. LimitKept
  BY <1>5, <1>6, NoMoreBusy
<1> QED
  BY <1>1, <1>3, <1>4, <1>7, <1>8 DEF PoolInv

LEMMA LeaveForgottenKeeps ==
  ASSUME PoolInv, NEW w \in Workers, LeaveForgotten(w)
  PROVE  PoolInv' /\ LimitKept
<1>1. /\ Types /\ Threads /\ ~Locked /\ w \notin allThreads /\ pc[w] \in {"asleep", "woken"}
      /\ Stops(w, "finished") /\ UNCHANGED <<pool, queue, activeThreads, limits, clients, status>>
      /\ UNCHANGED <<pool, activeThreads, joining>>
      /\ UNCHANGED <<queue, activeThreads, limits, clients, status>>
      /\ UNCHANGED <<allThreads, waitingThreads, expiredThreads>>
      /\ pc \in [Workers -> WorkerStates] /\ task \in [Workers -> Tasks \cup {NoTask}]
      /\ waitingThreads \in Seq(Workers) /\ expiredThreads \in Seq(Workers)
  BY DEF PoolInv, LeaveForgotten, pool, clients, Types
<1>2. /\ pc' \in [Workers -> WorkerStates] /\ pc'[w] = "finished" /\ task'[w] = NoTask
      /\ Others(w)
  BY <1>1 DEF Stops, Others, WorkerStates
<1>3. Threads' /\ Cardinality(Called') = Cardinality(Called)
  BY <1>1, <1>2, ForgottenMoves
<1>4. allThreads' = allThreads /\ waitingThreads' \in Seq(Workers) /\ expiredThreads' \in Seq(Workers)
  BY <1>1
<1> QED
  BY <1>1, <1>3, <1>4, EndsKeeps

LEMMA ExpireKeeps ==
  ASSUME PoolInv, NEW w \in Workers, Expire(w)
  PROVE  PoolInv' /\ LimitKept
<1>1. /\ Types /\ Threads /\ ~Locked /\ w \in allThreads /\ pc[w] \in {"asleep", "woken"}
      /\ Stops(w, "finished") /\ UNCHANGED <<allThreads, queue, activeThreads, limits, clients, status>>
      /\ UNCHANGED <<allThreads, activeThreads, joining>>
      /\ UNCHANGED <<queue, activeThreads, limits, clients, status>> /\ allThreads' = allThreads
      /\ expiredThreads' = Append(expiredThreads, w)
      /\ waitingThreads \in Seq(Workers) /\ expiredThreads \in Seq(Workers)
  BY DEF PoolInv, Expire, clients, Types
<1>2. PICK i \in DOMAIN waitingThreads :
        waitingThreads[i] = w /\ waitingThreads' = RemoveAt(waitingThreads, i)
  BY DEF Expire
<1>3. Threads' /\ Cardinality(Called') = Cardinality(Called)
  BY <1>1, <1>2, TimedOut
<1>4. i \in 1..Len(waitingThreads)
  BY <1>1, <1>2
<1>5. waitingThreads' \in Seq(Workers) /\ expiredThreads' \in Seq(Workers)
  BY <1>1, <1>2, <1>4, RemoveAtIs, AppendIs
<1> QED
  BY <1>1, <1>3, <1>5, EndsKeeps

LEMMA TryTakeKeeps ==
  ASSUME PoolInv, NEW c \in Clients, NEW t \in Tasks, TryTake(c, t)
  PROVE  PoolInv' /\ LimitKept
<1>1. /\ Types /\ Threads /\ Full(queue) /\ Homes /\ WorkConserving /\ ~Locked
      /\ UNCHANGED <<allThreads, waitingThreads, expiredThreads, activeThreads, pc, task, joining>>
      /\ UNCHANGED <<pool, activeThreads, pc, task, joining>>
      /\ reservedThreads' = reservedThreads /\ maxThreads' = maxThreads
      /\ cpc' = cpc /\ page' = page /\ task' = task /\ status' = Left(t)
  BY DEF PoolInv, TryTake, Calls, pool, limits, clients
<1>0. PICK i \in DOMAIN queue :
        \E j \in DOMAIN queue[i].tasks :
          /\ queue[i].tasks[j] = t
          /\ LET p == [queue[i] EXCEPT !.tasks = RemoveAt(@, j)]
             IN  queue' = IF IsFinished(p) THEN RemoveAt(queue, i)
                          ELSE [queue EXCEPT ![i] = p]
  BY DEF TryTake
<1>2. PICK j \in DOMAIN queue[i].tasks :
        /\ queue[i].tasks[j] = t
        /\ LET p == [queue[i] EXCEPT !.tasks = RemoveAt(@, j)]
           IN  queue' = IF IsFinished(p) THEN RemoveAt(queue, i)
                        ELSE [queue EXCEPT ![i] = p]
  BY <1>0
<1>3. /\ i \in 1..Len(queue) /\ queue[i] \in AnyPage /\ j \in 1..Len(queue[i].tasks)
  <2>1. i \in 1..Len(queue) /\ queue[i] \in AnyPage
    BY <1>0, <1>1 DEF Full, Orderly
  <2>2. queue[i].tasks \in Seq(Tasks)
    BY <2>1 DEF AnyPage
  <2> QED
    BY <1>2, <2>1, <2>2
<1>4. Full(queue') /\ InQueue(queue)' = InQueue(queue) \ {t} /\ t \in InQueue(queue)
  <2>1. LET p == [queue[i] EXCEPT !.tasks = RemoveAt(@, j)]
            r == IF IsFinished(p) THEN RemoveAt(queue, i) ELSE [queue EXCEPT ![i] = p]
        IN  /\ Full(r) /\ InQueue(r) = InQueue(queue) \ {queue[i].tasks[j]}
            /\ queue[i].tasks[j] \in InQueue(queue)
    BY <1>1, <1>3, TakenIs
  <2> QED
    BY <1>2, <2>1
<1>5. Homes'
  BY <1>1, <1>4, GivenBack
<1>6. Threads' /\ Cardinality(Called') = Cardinality(Called)
  BY <1>1, SameThreads
<1>7. Types'
  <2>1. status' \in [Tasks -> {"free", "pool", "done"}]
    BY <1>1, LeftIs
  <2> QED
    BY <1>1, <1>4, <2>1 DEF Types, Full, Orderly
<1>8. Numbers /\ Numbers'
  BY <1>1, <1>6, <1>7, NumbersAre, NumbersThen
<1>9. BusyThreads' = BusyThreads /\ BusyThreads \in Int
  BY <1>1, <1>6, <1>8 DEF Numbers
<1>10. WorkConserving'
  <2>1. reservedThreads' >= reservedThreads
    BY <1>1, <1>8 DEF Numbers
  <2>2. queue # <<>>
    BY <1>4, EmptyQueue
  <2> QED
    BY <1>1, <1>4, <1>6, <1>8, <1>9, <2>1, <2>2, WorkKept
<1>11. LimitKept
  BY <1>8, <1>9, NoMoreBusy
<1> QED
  BY <1>4, <1>5, <1>6, <1>7, <1>10, <1>11 DEF PoolInv


\* The steps of a call that touch neither threads nor runnables.
LEMMA CallStays ==
  ASSUME PoolInv, UNCHANGED <<pool, queue, activeThreads, pc, task, page, joining, status>>,
         cpc' \in [Clients -> ClientStates], maxThreads' \in Limits, reservedThreads' \in Reserved,
         \A n \in 0..reservedThreads' : n \in Reserved
  PROVE  /\ Types' /\ Threads' /\ Full(queue)' /\ Homes' /\ LimitKept
         /\ Numbers /\ Numbers' /\ BusyThreads' = BusyThreads /\ BusyThreads \in Int
         /\ Cardinality(Called') = Cardinality(Called) /\ InQueue(queue)' = InQueue(queue)
<1>1. /\ Types /\ Threads /\ Full(queue) /\ Homes
      /\ UNCHANGED <<allThreads, waitingThreads, expiredThreads>>
      /\ UNCHANGED <<pool, activeThreads, pc, task, joining>>
      /\ queue' = queue /\ page' = page /\ status' = status /\ task' = task
      /\ activeThreads' = activeThreads
  BY DEF PoolInv, pool
<1>2. Threads' /\ Cardinality(Called') = Cardinality(Called)
  BY <1>1, SameThreads
<1>3. Types'
  BY <1>1 DEF Types
<1>4. Full(queue)' /\ InQueue(queue)' = InQueue(queue)
  BY <1>1
<1>5. Homes'
  BY <1>1 DEF Homes
<1>6. Numbers /\ Numbers'
  BY <1>1, <1>2, <1>3, NumbersAre, NumbersThen
<1>7. BusyThreads' = BusyThreads /\ BusyThreads \in Int
  BY <1>1, <1>2, <1>6 DEF Numbers
<1> QED
  BY <1>2, <1>3, <1>4, <1>5, <1>6, <1>7, NoMoreBusy

\* A client is in tryToStartMoreThreads() now.
LEMMA LockedThen ==
  ASSUME Types, NEW c \in Clients, cpc' = [cpc EXCEPT ![c] = "startMore"]
  PROVE  cpc' \in [Clients -> ClientStates] /\ Locked' /\ WorkConserving'
  BY DEF Types, ClientStates, Locked, WorkConserving

LEMMA SetMaxThreadCountKeeps ==
  ASSUME PoolInv, NEW c \in Clients, NEW n \in Limits, SetMaxThreadCount(c, n)
  PROVE  PoolInv' /\ LimitKept
<1>1. /\ UNCHANGED <<pool, queue, activeThreads, pc, task, page, joining, status>>
      /\ maxThreads' \in Limits /\ reservedThreads' \in Reserved
      /\ \A k \in 0..reservedThreads' : k \in Reserved
  BY DEF SetMaxThreadCount, PoolInv, Types
<1>2. cpc' \in [Clients -> ClientStates] /\ WorkConserving'
  BY LockedThen DEF SetMaxThreadCount, PoolInv
<1> QED
  BY <1>1, <1>2, CallStays DEF PoolInv

LEMMA ReleaseThreadKeeps ==
  ASSUME PoolInv, NEW c \in Clients, ReleaseThread(c)
  PROVE  PoolInv' /\ LimitKept
<1>1. /\ UNCHANGED <<pool, queue, activeThreads, pc, task, page, joining, status>>
      /\ maxThreads' \in Limits /\ reservedThreads' \in Reserved
      /\ \A k \in 0..reservedThreads' : k \in Reserved
  BY PoolAssumption DEF ReleaseThread, PoolInv, Types
<1>2. cpc' \in [Clients -> ClientStates] /\ WorkConserving'
  BY LockedThen DEF ReleaseThread, PoolInv
<1> QED
  BY <1>1, <1>2, CallStays DEF PoolInv

LEMMA ReserveThreadKeeps ==
  ASSUME PoolInv, NEW c \in Clients, ReserveThread(c)
  PROVE  PoolInv' /\ LimitKept
<1>1. /\ UNCHANGED <<pool, queue, activeThreads, pc, task, page, joining, status>>
      /\ maxThreads' \in Limits /\ reservedThreads' \in Reserved /\ maxThreads' = maxThreads
      /\ cpc' \in [Clients -> ClientStates] /\ reservedThreads' = reservedThreads + 1
      /\ queue' = queue /\ ~Locked
  BY DEF ReserveThread, PoolInv, Types, clients, Calls
<1>2. \A k \in 0..reservedThreads' : k \in Reserved
  <2>1. reservedThreads \in Int /\ 0 \in Reserved
    BY PoolAssumption DEF PoolInv, Types
  <2>2. \A k \in 0..(reservedThreads + 1) : k = reservedThreads + 1 \/ k \in 0..reservedThreads \/ k = 0
    BY <2>1
  <2> QED
    BY <1>1, <2>1, <2>2 DEF PoolInv, Types
<1>3. /\ Types' /\ Threads' /\ Full(queue)' /\ Homes' /\ LimitKept
      /\ Numbers /\ Numbers' /\ BusyThreads' = BusyThreads
      /\ Cardinality(Called') = Cardinality(Called) /\ InQueue(queue)' = InQueue(queue)
  BY <1>1, <1>2, CallStays
<1>4. reservedThreads' >= reservedThreads
  BY <1>1, <1>3 DEF Numbers
<1>5. WorkConserving'
  BY <1>1, <1>3, <1>4, WorkKept DEF PoolInv
<1> QED
  BY <1>3, <1>5 DEF PoolInv

\* Steps that leave the client without the mutex, and all else as it is.
LEMMA IdleStays ==
  ASSUME PoolInv, UNCHANGED <<pool, queue, activeThreads, limits, pc, task, page, joining, status>>,
         cpc' \in [Clients -> ClientStates],
         ~Locked \/ queue = <<>> \/ AreAllThreadsActive(reservedThreads)
  PROVE  PoolInv' /\ LimitKept
<1>1. /\ UNCHANGED <<pool, queue, activeThreads, pc, task, page, joining, status>>
      /\ maxThreads' \in Limits /\ reservedThreads' \in Reserved
      /\ \A k \in 0..reservedThreads' : k \in Reserved
      /\ maxThreads' = maxThreads /\ reservedThreads' = reservedThreads /\ queue' = queue
  BY DEF limits, PoolInv, Types
<1>2. /\ Types' /\ Threads' /\ Full(queue)' /\ Homes' /\ LimitKept
      /\ Numbers /\ Numbers' /\ BusyThreads' = BusyThreads
      /\ Cardinality(Called') = Cardinality(Called) /\ InQueue(queue)' = InQueue(queue)
  BY <1>1, CallStays
<1>3. WorkConserving'
  <2>1. CASE ~Locked
    <3>1. reservedThreads' >= reservedThreads
      BY <1>1, <1>2 DEF Numbers
    <3> QED
      BY <1>1, <1>2, <2>1, <3>1, WorkKept DEF PoolInv
  <2>2. CASE queue = <<>>
    BY <1>1, <2>2 DEF WorkConserving
  <2>3. CASE AreAllThreadsActive(reservedThreads)
    <3>1. AreAllThreadsActive(reservedThreads')
      BY <1>1, <2>3
    <3> QED
      BY <1>1, <1>2, <3>1, WorkWaits
  <2> QED
    BY <2>1, <2>2, <2>3
<1> QED
  BY <1>2, <1>3 DEF PoolInv

LEMMA StartNoMoreKeeps ==
  ASSUME PoolInv, NEW c \in Clients, StartNoMore(c)
  PROVE  PoolInv' /\ LimitKept
<1>1. /\ UNCHANGED <<pool, queue, activeThreads, limits, pc, task, page, joining, status>>
      /\ cpc' \in [Clients -> ClientStates]
      /\ queue = <<>> \/ AreAllThreadsActive(reservedThreads)
  BY DEF StartNoMore, CanStart, PoolInv, Types, ClientStates
<1> QED
  BY <1>1, IdleStays


\* An iteration of tryToStartMoreThreads().
LEMMA StartMoreKeeps ==
  ASSUME PoolInv, NEW c \in Clients, StartMore(c)
  PROVE  PoolInv' /\ LimitKept
<1>1. /\ Types /\ Threads /\ Full(queue) /\ Homes
      /\ cpc' = cpc /\ page' = page /\ joining' = joining /\ status' = status
      /\ reservedThreads' = reservedThreads /\ maxThreads' = maxThreads
      /\ cpc[c] = "startMore" /\ queue # <<>> /\ CanStart(reservedThreads)
      /\ queue' = PopFromOldFirst(QueueAfterStart(First(queue)))
      /\ GiveToThread(First(queue))
  BY DEF PoolInv, StartMore, clients, limits
<1>2. PICK t : t = First(queue)
  OBVIOUS
<1>3. t \in InQueue(queue) /\ t \in Tasks
  BY <1>1, <1>2, PoppedIs
<1>4. GiveToThread(t)
  BY <1>1, <1>2 DEF GiveToThread, RecycleWaiting, RestartExpired, StartThread, Runs
<1>5. /\ Threads'
      /\ allThreads' \subseteq Workers /\ waitingThreads' \in Seq(Workers)
      /\ expiredThreads' \in Seq(Workers) /\ activeThreads' \in Int
      /\ pc' \in [Workers -> WorkerStates] /\ task' \in [Workers -> Tasks \cup {NoTask}]
      /\ IF waitingThreads # <<>>
         THEN /\ task' = task /\ activeThreads' = activeThreads
              /\ Cardinality(Called') = Cardinality(Called) + 1
         ELSE /\ \E w \in Workers : task[w] = NoTask /\ task' = [task EXCEPT ![w] = t]
              /\ activeThreads' = activeThreads + 1
              /\ Cardinality(Called') = Cardinality(Called)
  BY <1>1, <1>3, <1>4, Given
<1>6. /\ Full(queue')
      /\ InQueue(queue)' = IF waitingThreads # <<>> THEN InQueue(queue) ELSE InQueue(queue) \ {t}
  <2>1. LET r == PopFromOldFirst(QueueAfterStart(First(queue)))
        IN  /\ Full(r)
            /\ InQueue(r) = IF waitingThreads # <<>> THEN InQueue(queue)
                            ELSE InQueue(queue) \ {First(queue)}
    BY <1>1, StartMoreQueue
  <2> QED
    BY <1>1, <1>2, <2>1
<1>7. Homes'
  <2>1. CASE waitingThreads # <<>>
    <3>1. task' = task /\ InQueue(queue)' = InQueue(queue)
      BY <1>5, <1>6, <2>1
    <3> QED
      BY <1>1, <3>1 DEF Homes
  <2>2. CASE waitingThreads = <<>>
    <3>1. PICK w \in Workers : task[w] = NoTask /\ task' = [task EXCEPT ![w] = t]
      BY <1>5, <2>2
    <3> QED
      BY <1>1, <1>3, <1>6, <2>2, <3>1, HandedOver
  <2> QED
    BY <2>1, <2>2
<1>8. Types'
  BY <1>1, <1>5, <1>6 DEF Types, Full, Orderly
<1>9. WorkConserving'
  BY <1>1 DEF WorkConserving, Locked
<1>10. Numbers /\ Numbers'
  BY <1>1, <1>5, <1>8, NumbersAre, NumbersThen
<1>11. BusyThreads' = BusyThreads + 1
  <2>1. /\ BusyThreads = activeThreads + Cardinality(Called)
        /\ BusyThreads' = activeThreads' + Cardinality(Called')
        /\ activeThreads \in Nat /\ Cardinality(Called) \in Nat
    BY <1>10 DEF Numbers
  <2> QED
    BY <1>5, <2>1
<1>12. LimitKept
  <2>1. PICK b, m, r : b = BusyThreads /\ m = MaxThreadCount /\ r = reservedThreads
    OBVIOUS
  <2>2. b \in Nat /\ m \in Int /\ r \in Int
    BY <1>10, <2>1 DEF Numbers
  <2>3. b + r < m \/ b < 1
    <3>1. ~AreAllThreadsActive(reservedThreads) \/ BusyThreads = 0
      BY <1>1, <1>10 DEF CanStart, Numbers
    <3>2. CASE b = 0
      BY <3>2
    <3>3. CASE ~AreAllThreadsActive(reservedThreads)
      <4>1. ~(b + r >= m /\ b >= 1)
        BY <2>1, <3>3 DEF AreAllThreadsActive, ActiveThreadCount
      <4> QED
        BY <2>2, <4>1
    <3> QED
      BY <2>1, <3>1, <3>2, <3>3
  <2>4. (b + 1) + r <= m \/ b + 1 = 1
    BY <2>2, <2>3
  <2>5. ActiveThreadCount(reservedThreads)' = (b + 1) + r
    BY <1>1, <1>11, <2>1 DEF ActiveThreadCount
  <2> QED
    BY <1>11, <2>1, <2>4, <2>5 DEF LimitKept
<1> QED
  BY <1>5, <1>6, <1>7, <1>8, <1>9, <1>12 DEF PoolInv

\* clear() deletes a runnable.
LEMMA DiscardKeeps ==
  ASSUME PoolInv, ~Locked, NEW c \in Clients, NEW s \in Seq(Tasks), s # <<>>, Discard(c, s),
         \/ s = page[c] /\ queue' = queue
         \/ /\ page[c] = <<>> /\ Distinct(s) /\ Range(s) \subseteq InQueue(queue)
            /\ Full(queue') /\ queue # <<>> /\ InQueue(queue)' = InQueue(queue) \ Range(s),
         UNCHANGED <<pool, activeThreads, limits, pc, task, joining>>
  PROVE  PoolInv' /\ LimitKept
<1>1. /\ Types /\ Threads /\ Full(queue) /\ Homes /\ WorkConserving
      /\ UNCHANGED <<allThreads, waitingThreads, expiredThreads>>
      /\ UNCHANGED <<pool, activeThreads, pc, task, joining>>
      /\ reservedThreads' = reservedThreads /\ maxThreads' = maxThreads
      /\ activeThreads' = activeThreads /\ task' = task
  BY DEF PoolInv, pool, limits
<1>2. Homes' /\ page' \in [Clients -> Seq(Tasks)]
  BY <1>1, Discarded
<1>3. Full(queue') /\ (queue = <<>> => queue' = <<>>) /\ InQueue(queue)' \subseteq InQueue(queue)
  BY <1>1
<1>4. Threads' /\ Cardinality(Called') = Cardinality(Called)
  BY <1>1, SameThreads
<1>5. Types'
  <2>1. status' \in [Tasks -> {"free", "pool", "done"}] /\ cpc' \in [Clients -> ClientStates]
    BY <1>1, LeftIs DEF Discard, Types, ClientStates
  <2> QED
    BY <1>1, <1>2, <1>3, <2>1 DEF Types, Full, Orderly
<1>6. Numbers /\ Numbers'
  BY <1>1, <1>4, <1>5, NumbersAre, NumbersThen
<1>7. BusyThreads' = BusyThreads /\ BusyThreads \in Int
  BY <1>1, <1>4, <1>6 DEF Numbers
<1>8. WorkConserving'
  <2>1. reservedThreads' >= reservedThreads
    BY <1>1, <1>6 DEF Numbers
  <2> QED
    BY <1>1, <1>3, <1>4, <1>6, <1>7, <2>1, WorkKept
<1> QED
  BY <1>2, <1>3, <1>4, <1>5, <1>6, <1>7, <1>8, NoMoreBusy DEF PoolInv

LEMMA ClearKeeps ==
  ASSUME PoolInv, NEW c \in Clients, ClearPage(c) \/ ClearNext(c) \/ ClearDone(c)
  PROVE  PoolInv' /\ LimitKept
<1>1. CASE ClearPage(c)
  <2>1. /\ ~Locked /\ page[c] = <<>> /\ queue # <<>> /\ Discard(c, Last(queue).tasks)
        /\ queue' = Front(queue) /\ UNCHANGED <<pool, activeThreads, limits, pc, task, joining>>
        /\ Full(queue)
    BY <1>1 DEF ClearPage, Calls, PoolInv
  <2>2. PICK s : s = Last(queue).tasks
    OBVIOUS
  <2>3. /\ Full(queue') /\ InQueue(queue)' = InQueue(queue) \ Range(s)
        /\ Range(s) \subseteq InQueue(queue) /\ s \in Seq(Tasks) /\ s # <<>> /\ Distinct(s)
    BY <2>1, <2>2, LastIs
  <2>4. Discard(c, s)
    BY <2>1, <2>2 DEF Discard
  <2> QED
    BY <2>1, <2>3, <2>4, DiscardKeeps
<1>2. CASE ClearNext(c)
  <2>1. /\ ~Locked /\ page[c] # <<>> /\ Discard(c, page[c]) /\ queue' = queue
        /\ UNCHANGED <<pool, activeThreads, limits, pc, task, joining>>
    BY <1>2 DEF ClearNext
  <2>2. PICK s : s = page[c]
    OBVIOUS
  <2>3. Discard(c, s) /\ s \in Seq(Tasks) /\ s # <<>>
    BY <2>1, <2>2 DEF Discard, PoolInv, Types
  <2> QED
    BY <2>1, <2>2, <2>3, DiscardKeeps
<1>3. CASE ClearDone(c)
  <2>1. /\ UNCHANGED <<pool, queue, activeThreads, limits, pc, task, page, joining, status>>
        /\ cpc' \in [Clients -> ClientStates] /\ ~Locked
    BY <1>3 DEF ClearDone, PoolInv, Types, ClientStates
  <2> QED
    BY <2>1, IdleStays
<1> QED
  BY <1>1, <1>2, <1>3


\* waitForDone() has found everything done and forgets the threads.
LEMMA ResetKeeps ==
  ASSUME PoolInv, NEW c \in Clients, AllDone, Reset(c),
         UNCHANGED <<queue, activeThreads, limits, pc, task, page, status>>
  PROVE  PoolInv' /\ LimitKept
<1>1. /\ Types /\ Threads /\ Full(queue) /\ Homes
      /\ UNCHANGED <<activeThreads, pc, task>> /\ activeThreads = 0
      /\ reservedThreads' = reservedThreads /\ maxThreads' = maxThreads
      /\ queue = <<>> /\ queue' = queue /\ page' = page /\ status' = status /\ task' = task
      /\ pc' = pc /\ activeThreads' = activeThreads
  BY DEF PoolInv, AllDone, limits
<1>2. Threads' /\ joining' \in [Clients -> Seq(Workers)] /\ Called' = {} /\ Running = {}
  BY <1>1, AllForgotten
<1>3. Types'
  <2>1. /\ cpc' \in [Clients -> ClientStates]
        /\ allThreads' = {} /\ waitingThreads' = <<>> /\ expiredThreads' = <<>>
    BY <1>1 DEF Reset, Types, ClientStates
  <2>2. allThreads' \subseteq Workers /\ waitingThreads' \in Seq(Workers) /\ expiredThreads' \in Seq(Workers)
    BY <2>1
  <2> QED
    BY <1>1, <1>2, <2>1, <2>2 DEF Types
<1>4. Homes'
  BY <1>1 DEF Homes
<1>5. Numbers /\ Numbers'
  BY <1>1, <1>2, <1>3, NumbersAre, NumbersThen
<1>6. BusyThreads' <= BusyThreads
  <2>1. Cardinality(Called') = 0
    BY <1>2, FS_EmptySet
  <2> QED
    BY <1>1, <1>5, <2>1 DEF Numbers
<1>7. WorkConserving'
  BY <1>1 DEF WorkConserving
<1>8. Full(queue')
  BY <1>1
<1> QED
  BY <1>2, <1>3, <1>4, <1>5, <1>6, <1>7, <1>8, NoMoreBusy DEF PoolInv

LEMMA WaitForDoneKeeps ==
  ASSUME PoolInv, NEW c \in Clients, WaitForDone(c) \/ WaitForDoneExpired(c)
  PROVE  PoolInv' /\ LimitKept
<1>1. /\ ~Locked /\ UNCHANGED <<queue, activeThreads, limits, pc, task, page, status>>
      /\ IF AllDone THEN Reset(c)
         ELSE cpc' \in [Clients -> ClientStates] /\ UNCHANGED <<pool, joining>>
  BY DEF WaitForDone, WaitForDoneExpired, PoolInv, Types, ClientStates
<1>2. CASE AllDone
  BY <1>1, <1>2, ResetKeeps
<1>3. CASE ~AllDone
  BY <1>1, <1>3, IdleStays
<1> QED
  BY <1>2, <1>3

\* reset() wakes or deletes the thread it waits for.
LEMMA JoinKeeps ==
  ASSUME PoolInv, NEW c \in Clients, ResetWake(c) \/ ResetDelete(c)
  PROVE  PoolInv' /\ LimitKept
<1>1. /\ Types /\ Threads /\ Full(queue) /\ Homes /\ WorkConserving
      /\ UNCHANGED <<allThreads, waitingThreads, expiredThreads>>
      /\ UNCHANGED pool
      /\ queue' = queue /\ activeThreads' = activeThreads /\ task' = task
      /\ reservedThreads' = reservedThreads /\ maxThreads' = maxThreads
      /\ cpc' = cpc /\ page' = page /\ status' = status
  BY DEF PoolInv, ResetWake, ResetDelete, pool, limits, clients
<1>2. /\ Threads' /\ Cardinality(Called') = Cardinality(Called)
      /\ joining' \in [Clients -> Seq(Workers)] /\ pc' \in [Workers -> WorkerStates]
  <2>1. CASE ResetWake(c)
    <3>1. PICK w : w = Head(joining[c])
      OBVIOUS
    <3>2. /\ joining[c] # <<>> /\ pc[w] = "asleep" /\ pc' = [pc EXCEPT ![w] = "woken"]
          /\ joining' = joining /\ UNCHANGED <<pool, activeThreads, joining>>
          /\ joining[c] \in Seq(Workers) /\ pc \in [Workers -> WorkerStates]
          /\ joining \in [Clients -> Seq(Workers)]
      BY <1>1, <2>1, <3>1 DEF ResetWake, clients, Types
    <3>3. Distinct(joining[c])
      BY <1>1 DEF Threads, Joined
    <3>4. w \in Workers /\ w \in Range(joining[c])
      BY <3>1, <3>2, <3>3, TailIs, DistinctTail
    <3>5. w \notin allThreads /\ task[w] = NoTask
      BY <1>1, <3>2, <3>4 DEF Threads, Joined, Lists
    <3>6. /\ pc' \in [Workers -> WorkerStates] /\ pc'[w] \in {"woken", "finished"}
          /\ task'[w] = NoTask /\ Others(w) /\ pc[w] \in {"asleep", "woken"}
      BY <1>1, <3>2, <3>4, <3>5 DEF Others, WorkerStates
    <3>7. Threads' /\ Cardinality(Called') = Cardinality(Called)
      BY <1>1, <3>2, <3>4, <3>5, <3>6, ForgottenMoves
    <3> QED
      BY <3>2, <3>6, <3>7
  <2>2. CASE ResetDelete(c)
    BY <1>1, <2>2, Deleted
  <2> QED
    BY <2>1, <2>2
<1>3. Types'
  BY <1>1, <1>2 DEF Types
<1>4. Homes' /\ Full(queue')
  BY <1>1 DEF Homes
<1>5. Numbers /\ Numbers'
  BY <1>1, <1>2, <1>3, NumbersAre, NumbersThen
<1>6. BusyThreads' = BusyThreads /\ BusyThreads \in Int
  BY <1>1, <1>2, <1>5 DEF Numbers
<1>7. WorkConserving'
  <2>1. reservedThreads' >= reservedThreads /\ (Locked' <=> Locked)
    BY <1>1, <1>5 DEF Numbers, Locked
  <2> QED
    BY <1>1, <1>2, <1>5, <1>6, <2>1, WorkKept
<1> QED
  BY <1>2, <1>3, <1>4, <1>5, <1>6, <1>7, NoMoreBusy DEF PoolInv

LEMMA ResetDoneKeeps ==
  ASSUME PoolInv, NEW c \in Clients, ResetDone(c)
  PROVE  PoolInv' /\ LimitKept
<1>1. /\ UNCHANGED <<pool, queue, activeThreads, limits, pc, task, page, joining, status>>
      /\ cpc' \in [Clients -> ClientStates] /\ ~Locked
  BY DEF ResetDone, PoolInv, Types, ClientStates
<1> QED
  BY <1>1, IdleStays

LEMMA StutterKeeps ==
  ASSUME PoolInv, UNCHANGED vars PROVE PoolInv' /\ LimitKept
<1>1. /\ Types /\ Threads /\ Full(queue) /\ Homes /\ WorkConserving
      /\ UNCHANGED <<pool, activeThreads, pc, task, joining>>
      /\ UNCHANGED <<allThreads, waitingThreads, expiredThreads, activeThreads, pc, task, queue,
                     reservedThreads, maxThreads, cpc, page, joining, status>>
  BY DEF PoolInv, vars, pool, limits, clients
<1>2. Types' /\ Full(queue)' /\ Homes'
  BY <1>1 DEF Types, Homes
<1>3. Threads' /\ Cardinality(Called') = Cardinality(Called)
  BY <1>1, SameThreads
<1>4. Numbers /\ Numbers'
  BY <1>1, <1>2, <1>3, NumbersAre, NumbersThen
<1>5. BusyThreads' = BusyThreads /\ BusyThreads \in Int
  BY <1>1, <1>3, <1>4 DEF Numbers
<1>6. WorkConserving'
  <2>1. reservedThreads' >= reservedThreads /\ (Locked' <=> Locked)
    BY <1>1, <1>4 DEF Numbers, Locked
  <2> QED
    BY <1>1, <1>3, <1>4, <1>5, <2>1, WorkKept
<1> QED
  BY <1>2, <1>3, <1>4, <1>5, <1>6, NoMoreBusy DEF PoolInv


LEMMA InitKeeps ==
  ASSUME Init PROVE PoolInv
<1>1. /\ allThreads = {} /\ waitingThreads = <<>> /\ expiredThreads = <<>> /\ queue = <<>>
      /\ activeThreads = 0 /\ reservedThreads = 0 /\ maxThreads \in Limits
      /\ pc = [w \in Workers |-> "none"] /\ task = [w \in Workers |-> NoTask]
      /\ cpc = [c \in Clients |-> "idle"] /\ page = [c \in Clients |-> <<>>]
      /\ joining = [c \in Clients |-> <<>>] /\ status = [t \in Tasks |-> "free"]
  BY DEF Init
<1>2. Types
  <2>1. pc \in [Workers -> WorkerStates] /\ cpc \in [Clients -> ClientStates]
    BY <1>1 DEF WorkerStates, ClientStates
  <2>2. \A n \in 0..reservedThreads : n \in Reserved
    BY <1>1, PoolAssumption
  <2>3. /\ waitingThreads \in Seq(Workers) /\ expiredThreads \in Seq(Workers)
        /\ queue \in Seq(AnyPage) /\ page \in [Clients -> Seq(Tasks)]
        /\ joining \in [Clients -> Seq(Workers)]
    BY <1>1
  <2> QED
    BY <1>1, <2>1, <2>2, <2>3, PoolAssumption DEF Types
<1>3. Threads
  <2>1. Range(<<>>) = {} /\ Distinct(<<>>)
    BY DEF Range, Distinct
  <2>2. Lists
    <3>1. Waiting = {} /\ Expired = {}
      BY <1>1 DEF Waiting, Expired
    <3> QED
      BY <1>1, <2>1, <3>1 DEF Lists
  <2>3. Joined
    BY <1>1, <2>1 DEF Joined
  <2>4. Counted
    <3>1. Running = {} /\ Waiting = {} /\ Expired = {}
      BY <1>1 DEF Running, Waiting, Expired
    <3>2. Cardinality(Running) = 0 /\ Cardinality(Waiting) = 0 /\ Cardinality(Expired) = 0
      BY <3>1, FS_EmptySet
    <3> QED
      BY <1>1, <3>2 DEF Counted
  <2> QED
    BY <2>2, <2>3, <2>4 DEF Threads
<1>4. Full(queue)
  BY <1>1 DEF Full, Orderly
<1>5. Homes
  <2>1. Range(<<>>) = {} /\ Distinct(<<>>)
    BY DEF Range, Distinct
  <2>2. \A t \in Tasks : t # NoTask
    BY PoolAssumption
  <2> QED
    BY <1>1, <2>1, <2>2, EmptyQueue DEF Homes
<1>6. WorkConserving
  BY <1>1 DEF WorkConserving
<1> QED
  BY <1>2, <1>3, <1>4, <1>5, <1>6 DEF PoolInv

LEMMA StepKeeps ==
  ASSUME NonNegative, PoolInv, [Next]_vars PROVE PoolInv' /\ LimitKept
<1>1. CASE UNCHANGED vars
  BY <1>1, StutterKeeps
<1>2. ASSUME NEW w \in Workers, WorkerStep(w) PROVE PoolInv' /\ LimitKept
  BY <1>2, FinishTaskKeeps, LeaveForgottenKeeps, ExpireKeeps, GoOnKeeps DEF WorkerStep
<1>3. ASSUME NEW c \in Clients, ClientStep(c) PROVE PoolInv' /\ LimitKept
  BY <1>3, StartMoreKeeps, StartNoMoreKeeps, ClearKeeps, WaitForDoneKeeps, JoinKeeps, ResetDoneKeeps
  DEF ClientStep
<1>4. ASSUME NEW c \in Clients, ClientCall(c) PROVE PoolInv' /\ LimitKept
  BY <1>4, StartKeeps, TryStartOnlyKeeps, StartOnReservedThreadKeeps, TryTakeKeeps,
     SetMaxThreadCountKeeps, ReleaseThreadKeeps, ReserveThreadKeeps, ClearKeeps, WaitForDoneKeeps
  DEF ClientCall
<1> QED
  BY <1>1, <1>2, <1>3, <1>4 DEF Next

\* With priorities that are not negative, PoolInv holds in every state.
THEOREM Invariance == NonNegative => (Spec => []PoolInv)
<1>1. SUFFICES ASSUME NonNegative PROVE Spec => []PoolInv
  OBVIOUS
<1>2. Init => PoolInv
  BY InitKeeps
<1>3. PoolInv /\ [Next]_vars => PoolInv'
  BY <1>1, StepKeeps
<1> QED
  BY <1>2, <1>3, PTL DEF Spec


-----------------------------------------------------------------------------
(* What follows from the invariant.                                        *)

LEMMA BooksRight == PoolInv => PoolSane
<1>1. SUFFICES ASSUME PoolInv PROVE PoolSane
  OBVIOUS
<1>2. Types /\ Threads /\ Full(queue) /\ Orderly(queue) /\ Lists /\ Counted
  BY <1>1 DEF PoolInv, Threads, Full
<1>3. DOMAIN queue = 1..Len(queue) /\ \A i \in 1..Len(queue) : queue[i] \in AnyPage
  BY <1>2 DEF Types
<1>4. TypeOK
  <2>1. activeThreads \in 0..Cardinality(Workers)
    <3>1. Running \in SUBSET Workers /\ Cardinality(Workers) \in Nat
      BY PoolAssumption, FS_CardinalityType DEF Running
    <3>2. Cardinality(Running) \in Nat /\ Cardinality(Running) <= Cardinality(Workers)
      BY <3>1, SetCounts
    <3> QED
      BY <1>2, <3>1, <3>2 DEF Counted
  <2>2. ASSUME NEW i \in DOMAIN queue
        PROVE  /\ queue[i].priority \in Int /\ queue[i].pushed \in 1..PageSize
               /\ queue[i].tasks \in Seq(Tasks)
    BY <1>3 DEF AnyPage
  <2> QED
    BY <1>2, <2>1, <2>2 DEF TypeOK, Types
<1>5. QueueSane
  <2>1. ASSUME NEW i \in DOMAIN queue
        PROVE  /\ ~IsFinished(queue[i])
               /\ \A j \in 1..(i - 1) : queue[j].priority >= queue[i].priority
    <3>1. i \in 1..Len(queue)
      BY <1>3
    <3>2. \A j \in 1..(i - 1) : j \in 1..Len(queue) /\ j < i
      BY <3>1
    <3> QED
      BY <1>2, <3>1, <3>2 DEF Full, Orderly, IsFinished
  <2> QED
    BY <2>1 DEF QueueSane
<1>6. CountsAgree
  <2>1. BusyThreads = activeThreads + Cardinality({w \in Workers : Summoned(w)})
    BY <1>2, BusyIs DEF Called
  <2>2. activeThreads = Cardinality({w \in Workers : pc[w] = "running"})
    BY <1>2 DEF Counted, Running
  <2>3. \A w \in Workers : pc[w] = "running" =>
          w \in allThreads \ (Range(waitingThreads) \cup Range(expiredThreads))
    BY <1>2 DEF Lists, Waiting, Expired
  <2> QED
    BY <2>1, <2>2, <2>3 DEF CountsAgree
<1> QED
  BY <1>4, <1>5, <1>6 DEF PoolSane

\* A runnable is once in the queue, or not at all.
LEMMA PlacesIs ==
  ASSUME NEW q, Full(q), NEW t,
         NEW P, P = {p \in (1..Len(q)) \X (1..PageSize) :
                       /\ p[2] \in DOMAIN q[p[1]].tasks
                       /\ q[p[1]].tasks[p[2]] = t}
  PROVE  Cardinality(P) = IF t \in InQueue(q) THEN 1 ELSE 0
<1>1. /\ q \in Seq(AnyPage) /\ Len(q) \in Nat
      /\ \A i \in 1..Len(q) : PageOk(q[i])
      /\ \A i, j \in 1..Len(q) : i # j => Range(q[i].tasks) \cap Range(q[j].tasks) = {}
  <2>1. Orderly(q)
    BY DEF Full
  <2>2. q \in Seq(AnyPage) /\ \A i \in 1..Len(q) : PageOk(q[i])
    BY <2>1 DEF Orderly
  <2>3. \A i, j \in 1..Len(q) : i # j => Range(q[i].tasks) \cap Range(q[j].tasks) = {}
    BY <2>1 DEF Orderly
  <2> QED
    BY <2>2, <2>3
<1>2. ASSUME NEW i \in 1..Len(q)
      PROVE  /\ q[i].tasks \in Seq(Tasks) /\ DOMAIN q[i].tasks = 1..Len(q[i].tasks)
             /\ Len(q[i].tasks) \in Nat /\ Len(q[i].tasks) <= PageSize /\ Distinct(q[i].tasks)
             /\ Range(q[i].tasks) = {q[i].tasks[k] : k \in 1..Len(q[i].tasks)}
  <2>1. q[i] \in AnyPage /\ Len(q[i].tasks) <= q[i].pushed /\ Distinct(q[i].tasks)
    BY <1>1 DEF PageOk
  <2>2. q[i].tasks \in Seq(Tasks) /\ q[i].pushed \in 1..PageSize
    BY <2>1 DEF AnyPage
  <2>3. Len(q[i].tasks) \in Nat /\ PageSize \in Nat
    BY <2>2, PoolAssumption
  <2> QED
    BY <2>1, <2>2, <2>3, RangeIs
<1>3. CASE t \notin InQueue(q)
  <2>1. P = {}
    <3>1. ASSUME NEW p \in P PROVE FALSE
      <4>1. PICK i \in 1..Len(q), k \in 1..PageSize : p = <<i, k>>
        BY <3>1
      <4>2. k \in DOMAIN q[i].tasks /\ q[i].tasks[k] = t
        BY <3>1, <4>1
      <4>3. t \in Range(q[i].tasks)
        BY <1>2, <4>2
      <4> QED
        BY <1>1, <1>3, <4>3, InQueueIs
    <3> QED
      BY <3>1
  <2> QED
    BY <1>3, <2>1, FS_EmptySet
<1>4. CASE t \in InQueue(q)
  <2>1. PICK i \in 1..Len(q) : t \in Range(q[i].tasks)
    BY <1>1, <1>4, InQueueIs
  <2>2. PICK k \in 1..Len(q[i].tasks) : q[i].tasks[k] = t
    BY <1>2, <2>1
  <2>3. k \in 1..PageSize /\ k \in DOMAIN q[i].tasks
    <3>1. /\ Len(q[i].tasks) \in Nat /\ Len(q[i].tasks) <= PageSize /\ PageSize \in Nat
          /\ DOMAIN q[i].tasks = 1..Len(q[i].tasks)
      BY <1>2, PoolAssumption
    <3> QED
      BY <2>2, <3>1
  <2>4. <<i, k>> \in P
    BY <2>2, <2>3
  <2>5. ASSUME NEW p \in P PROVE p = <<i, k>>
    <3>1. PICK j \in 1..Len(q), m \in 1..PageSize : p = <<j, m>>
      BY <2>5
    <3>2. m \in 1..Len(q[j].tasks) /\ q[j].tasks[m] = t
      BY <1>2, <2>5, <3>1
    <3>3. t \in Range(q[j].tasks)
      BY <1>2, <3>2
    <3>4. j = i
      BY <1>1, <2>1, <3>3
    <3>5. m = k
      BY <1>2, <2>2, <3>2, <3>4 DEF Distinct
    <3> QED
      BY <3>1, <3>4, <3>5
  <2>6. P = {<<i, k>>}
    BY <2>4, <2>5
  <2> QED
    BY <1>4, <2>6, FS_Singleton
<1> QED
  BY <1>3, <1>4

LEMMA OnceOrNot ==
  ASSUME NEW S, \A x, y \in S : x = y
  PROVE  Cardinality(S) = IF S = {} THEN 0 ELSE 1
<1>1. CASE S = {}
  BY <1>1, FS_EmptySet
<1>2. CASE S # {}
  <2>1. PICK x : x \in S
    BY <1>2
  <2>2. S = {x}
    BY <2>1
  <2> QED
    BY <1>2, <2>2, FS_Singleton
<1> QED
  BY <1>1, <1>2

LEMMA EachInOnePlace == PoolInv => TasksAccounted
<1>1. SUFFICES ASSUME PoolInv, NEW t \in Tasks
      PROVE  LET inQueue == Cardinality({p \in (1..Len(queue)) \X (1..PageSize) :
                                            /\ p[2] \in DOMAIN queue[p[1]].tasks
                                            /\ queue[p[1]].tasks[p[2]] = t})
                 running == Cardinality({w \in Workers : task[w] = t})
                 cleared == Cardinality({c \in Clients : t \in Range(page[c])})
             IN  inQueue + running + cleared = IF status[t] = "pool" THEN 1 ELSE 0
  BY DEF TasksAccounted
<1> DEFINE P == {p \in (1..Len(queue)) \X (1..PageSize) :
                    /\ p[2] \in DOMAIN queue[p[1]].tasks
                    /\ queue[p[1]].tasks[p[2]] = t}
           W == {w \in Workers : task[w] = t}
           C == {c \in Clients : t \in Range(page[c])}
<1>2. Full(queue) /\ Homes /\ t # NoTask
  BY <1>1, PoolAssumption DEF PoolInv
<1>3. Cardinality(P) = IF t \in InQueue(queue) THEN 1 ELSE 0
  BY <1>2, PlacesIs
<1>4. Cardinality(W) = IF W = {} THEN 0 ELSE 1
  <2>1. \A v, w \in W : v = w
    BY <1>2 DEF Homes
  <2> QED
    BY <2>1, OnceOrNot
<1>5. Cardinality(C) = IF C = {} THEN 0 ELSE 1
  <2>1. \A c, d \in C : c = d
    BY <1>2 DEF Homes
  <2> QED
    BY <2>1, OnceOrNot
<1>6. status[t] = "pool" <=> t \in InQueue(queue) \/ W # {} \/ C # {}
  BY <1>2 DEF Homes
<1>7. t \in InQueue(queue) => W = {} /\ C = {}
  BY <1>2 DEF Homes
<1>8. W # {} => C = {}
  BY <1>2 DEF Homes
<1> HIDE DEF P, W, C
<1>9. Cardinality(P) + Cardinality(W) + Cardinality(C) = IF status[t] = "pool" THEN 1 ELSE 0
  BY <1>3, <1>4, <1>5, <1>6, <1>7, <1>8
<1> QED
  BY <1>9 DEF P, W, C


\* A client comes to reset() only through waitForDone(), with all done.
LEMMA ResetIsDone ==
  ASSUME PoolInv, [Next]_vars, NEW c \in Clients, cpc[c] # "reset", cpc'[c] = "reset"
  PROVE  AllDone
<1>0. cpc \in [Clients -> ClientStates]
  BY DEF PoolInv, Types
<1>1. CASE UNCHANGED vars
  BY <1>1 DEF vars, clients
<1>2. ASSUME NEW w \in Workers, WorkerStep(w) PROVE AllDone
  <2>1. CASE FinishTask(w)
    BY <1>0, <2>1 DEF FinishTask, TakeNext, Retire, RegisterThreadInactive, clients
  <2>2. CASE GoOn(w)
    BY <1>0, <2>2 DEF GoOn, TakeNext, Retire, RegisterThreadInactive, clients
  <2>3. CASE LeaveForgotten(w) \/ Expire(w)
    BY <2>3 DEF LeaveForgotten, Expire, clients
  <2> QED
    BY <1>2, <2>1, <2>2, <2>3 DEF WorkerStep
<1>3. ASSUME NEW d \in Clients, WaitForDone(d) \/ WaitForDoneExpired(d) PROVE AllDone
  BY <1>0, <1>3 DEF WaitForDone, WaitForDoneExpired
<1>4. ASSUME NEW d \in Clients, ClearPage(d) \/ ClearNext(d) \/ ClearDone(d) PROVE AllDone
  BY <1>0, <1>4 DEF ClearPage, ClearNext, ClearDone, Discard
<1>5. ASSUME NEW d \in Clients, ClientStep(d) PROVE AllDone
  <2>1. CASE StartMore(d) \/ StartNoMore(d)
    BY <1>0, <2>1 DEF StartMore, StartNoMore, clients
  <2>2. CASE ResetWake(d) \/ ResetDelete(d) \/ ResetDone(d)
    BY <1>0, <2>2 DEF ResetWake, ResetDelete, ResetDone, clients
  <2> QED
    BY <1>3, <1>4, <1>5, <2>1, <2>2 DEF ClientStep
<1>6. ASSUME NEW d \in Clients, ClientCall(d) PROVE AllDone
  <2>1. ASSUME NEW t \in Tasks, NEW prio \in Priorities,
               \/ Start(d, t, prio) \/ TryStartOnly(d, t)
               \/ StartOnReservedThread(d, t) \/ TryTake(d, t)
        PROVE  AllDone
    BY <2>1 DEF Start, TryStartOnly, StartOnReservedThread, TryTake, clients
  <2>2. ASSUME NEW t \in Tasks, TryStartOnly(d, t) \/ StartOnReservedThread(d, t) \/ TryTake(d, t)
        PROVE  AllDone
    BY <2>2 DEF TryStartOnly, StartOnReservedThread, TryTake, clients
  <2>3. ASSUME NEW n \in Limits, SetMaxThreadCount(d, n) PROVE AllDone
    BY <1>0, <2>3 DEF SetMaxThreadCount
  <2>4. CASE ReleaseThread(d) \/ ReserveThread(d)
    BY <1>0, <2>4 DEF ReleaseThread, ReserveThread, clients
  <2> QED
    BY <1>3, <1>4, <1>6, <2>1, <2>2, <2>3, <2>4 DEF ClientCall
<1> QED
  BY <1>1, <1>2, <1>5, <1>6 DEF Next

LEMMA DoneIsDone ==
  ASSUME PoolInv, [Next]_vars PROVE DoneMeansDone
<1>1. SUFFICES ASSUME NEW c \in Clients, cpc[c] # "reset", cpc'[c] = "reset",
                      NEW t \in Tasks, status[t] = "pool"
               PROVE  \E d \in Clients : t \in Range(page[d])
  BY DEF DoneMeansDone
<1>2. queue = <<>> /\ activeThreads = 0
  BY <1>1, ResetIsDone DEF AllDone
<1>3. t \notin InQueue(queue)
  BY <1>2, EmptyQueue
<1>4. ASSUME NEW w \in Workers, task[w] = t PROVE FALSE
  <2>1. Running \in SUBSET Workers /\ Cardinality(Running) = 0
    BY <1>2 DEF PoolInv, Threads, Counted, Running
  <2>2. Running = {}
    BY <2>1, SetCounts
  <2>3. pc[w] # "running"
    BY <2>2 DEF Running
  <2> QED
    BY <1>4, <2>3, PoolAssumption DEF PoolInv, Threads, Lists
<1> QED
  BY <1>1, <1>3, <1>4 DEF PoolInv, Homes

-----------------------------------------------------------------------------
\* The pool's books are right in every state: a queue sorted by falling
\* priority without a finished page, and two counts of active threads, the
\* threads' own (activeThreads) and the one activeThreadCount() computes from
\* the lists, that differ by the threads woken and not yet heard of.
THEOREM PoolSaneHolds == NonNegative => (Spec => []PoolSane)
<1>1. SUFFICES ASSUME NonNegative PROVE Spec => []PoolSane
  OBVIOUS
<1>2. Spec => []PoolInv
  BY <1>1, Invariance
<1> QED
  BY <1>2, BooksRight, PTL

\* No runnable is lost or run twice: what start(), tryStart() or
\* startOnReservedThread() has accepted and no thread has run, tryTake() not
\* given back and clear() not deleted is in exactly one place.
THEOREM TasksAccountedHolds == NonNegative => (Spec => []TasksAccounted)
<1>1. SUFFICES ASSUME NonNegative PROVE Spec => []TasksAccounted
  OBVIOUS
<1>2. Spec => []PoolInv
  BY <1>1, Invariance
<1> QED
  BY <1>2, EachInOnePlace, PTL

\* Runnables wait in the queue only while all threads are active or for a
\* thread that has been woken for each of them, whatever tryStart(), the end of
\* a thread and tryToStartMoreThreads() do in between.
THEOREM WorkConservingHolds == NonNegative => (Spec => []WorkConserving)
<1>1. SUFFICES ASSUME NonNegative PROVE Spec => []WorkConserving
  OBVIOUS
<1>2. Spec => []PoolInv
  BY <1>1, Invariance
<1>3. PoolInv => WorkConserving
  BY DEF PoolInv
<1> QED
  BY <1>2, <1>3, PTL

\* No step makes more threads busy than the limit and the reservations allow,
\* and waitForDone() finds everything done only when each runnable has been run
\* or taken from the pool.
THEOREM PoolStepsHold == NonNegative => (Spec => PoolSteps)
<1>1. SUFFICES ASSUME NonNegative PROVE Spec => PoolSteps
  OBVIOUS
<1>2. Spec => []PoolInv
  BY <1>1, Invariance
<1>3. PoolInv /\ [Next]_vars => [LimitKept /\ DoneMeansDone]_vars
  BY <1>1, StepKeeps, DoneIsDone
<1> QED
  BY <1>2, <1>3, PTL DEF Spec, PoolSteps

=============================================================================

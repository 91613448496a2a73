------------------------- MODULE QEventLoop_proofs -------------------------
(***************************************************************************)
(* TLAPS proofs about QEventLoop, for any number of threads, events,       *)
(* receivers and nested calls.                                             *)
(***************************************************************************)
EXTENDS QEventLoop, FiniteSetTheorems, SequenceTheorems, NaturalsInduction, TLAPS

-----------------------------------------------------------------------------
(* Ascending lists of numbers, and insertion into a sequence.              *)

\* f, from lo to hi, lists the members of K in ascending order.
Lists(f, lo, hi, K) ==
  /\ \A i \in lo..hi : f[i] \in K
  /\ \A i, j \in lo..hi : i < j => f[i] < f[j]
  /\ \A k \in K : \E i \in lo..hi : f[i] = k

\* A set of numbers that is not empty has a least one.
LEMMA Least ==
  ASSUME NEW S \in SUBSET Nat, S # {}
  PROVE  \E x \in S : \A y \in S : x <= y
<1> DEFINE R == OpToRel(<, Nat)
<1>1. IsWellFoundedOn(R, Nat)
  BY NatLessThanWellFounded
<1>2. \A x, y \in Nat : <<y, x>> \in R <=> y < x
  BY DEF OpToRel
<1> HIDE DEF R
<1>3. PICK x \in S : \A y \in S : ~ (<<y, x>> \in R)
  BY <1>1, WFMin
<1>4. ASSUME NEW y \in S PROVE x <= y
  <2>1. x \in Nat /\ y \in Nat /\ ~ (<<y, x>> \in R)
    BY <1>3
  <2>2. ~(y < x)
    BY <1>2, <2>1
  <2> QED
    BY <2>1, <2>2
<1> QED
  BY <1>3, <1>4

\* The numbers below a bound can be listed.
LEMMA Listable ==
  ASSUME NEW m \in Nat, NEW S \in SUBSET (0..m - 1)
  PROVE  \E n \in Nat : \E q \in [1..n -> S] : Lists(q, 1, n, S)
<1> DEFINE Good(k, T) == \E n \in Nat : \E q \in [1..n -> T] : Lists(q, 1, n, T)
           Bad == {k \in Nat : \E T \in SUBSET (0..k - 1) : ~Good(k, T)}
<1> SUFFICES ASSUME Bad # {} PROVE FALSE
  OBVIOUS
<1>1. PICK k \in Bad : \A y \in Bad : k <= y
  BY Least
<1>2. PICK T \in SUBSET (0..k - 1) : ~Good(k, T)
  BY <1>1
<1>3. k \in Nat
  BY <1>1
<1>4. k # 0
  <2> SUFFICES ASSUME k = 0 PROVE FALSE
    OBVIOUS
  <2>1. T = {}
    BY <1>2
  <2> DEFINE q == [i \in 1..0 |-> 0]
  <2>2. q \in [1..0 -> T] /\ Lists(q, 1, 0, T)
    BY <2>1 DEF Lists
  <2> QED
    BY <2>2, <1>2
<1>5. k - 1 \in Nat /\ k - 1 \notin Bad
  <2> HIDE DEF Bad
  <2> QED
    BY <1>1, <1>3, <1>4
<1> DEFINE U == T \ {k - 1}
<1>6. U \in SUBSET (0..(k - 1) - 1)
  BY <1>2, <1>3
<1>7. Good(k - 1, U)
  BY <1>5, <1>6
<1>8. PICK n \in Nat : \E q \in [1..n -> U] : Lists(q, 1, n, U)
  BY <1>7
<1>9. PICK q \in [1..n -> U] : Lists(q, 1, n, U)
  BY <1>8
<1>10. CASE k - 1 \notin T
  <2>1. U = T
    BY <1>10
  <2> QED
    BY <2>1, <1>9, <1>2
<1>11. CASE k - 1 \in T
  <2> DEFINE p == [i \in 1..n + 1 |-> IF i = n + 1 THEN k - 1 ELSE q[i]]
  <2>1. p \in [1..n + 1 -> T]
    BY <1>9, <1>11
  <2>2. \A i, j \in 1..n + 1 : i < j => p[i] < p[j]
    <3> SUFFICES ASSUME NEW i \in 1..n + 1, NEW j \in 1..n + 1, i < j PROVE p[i] < p[j]
      OBVIOUS
    <3>1. i \in 1..n /\ p[i] = q[i] /\ q[i] \in U
      OBVIOUS
    <3>2. CASE j = n + 1
      <4>1. q[i] \in 0..(k - 1) - 1
        BY <3>1, <1>6, Zenon
      <4>2. q[i] < k - 1
        BY <4>1, <1>3
      <4> QED
        BY <4>2, <3>1, <3>2
    <3>3. CASE j \in 1..n
      BY <3>1, <3>3, <1>9 DEF Lists
    <3> QED
      BY <3>2, <3>3
  <2>3. \A x \in T : \E i \in 1..n + 1 : p[i] = x
    <3> SUFFICES ASSUME NEW x \in T PROVE \E i \in 1..n + 1 : p[i] = x
      OBVIOUS
    <3>1. CASE x = k - 1
      BY <3>1
    <3>2. CASE x \in U
      <4>1. PICK i \in 1..n : q[i] = x
        BY <3>2, <1>9 DEF Lists
      <4>2. i \in 1..n + 1 /\ p[i] = x
        BY <4>1
      <4> QED
        BY <4>2
    <3> QED
      BY <3>1, <3>2
  <2> HIDE DEF p
  <2>4. Lists(p, 1, n + 1, T)
    BY <2>1, <2>2, <2>3 DEF Lists
  <2> QED
    BY <2>1, <2>4, <1>2
<1> QED
  BY <1>10, <1>11

\* Ascending(S) lists S.
LEMMA AscendingLists ==
  ASSUME NEW m \in Nat, NEW S \in SUBSET (0..m - 1)
  PROVE  /\ IsFiniteSet(S) /\ Cardinality(S) \in Nat
         /\ Ascending(S) \in [1..Cardinality(S) -> S]
         /\ Lists(Ascending(S), 1, Cardinality(S), S)
<1>0. S \subseteq Int
  OBVIOUS
<1>1. PICK n \in Nat : \E q \in [1..n -> S] : Lists(q, 1, n, S)
  BY Listable
<1>2. PICK q \in [1..n -> S] : Lists(q, 1, n, S)
  BY <1>1
<1>3. \A i, j \in 1..n : q[i] = q[j] => i = j
  <2> SUFFICES ASSUME NEW i \in 1..n, NEW j \in 1..n, q[i] = q[j], i # j PROVE FALSE
    OBVIOUS
  <2>1. q[i] \in Int /\ q[j] \in Int
    BY <1>0
  <2>2. q[i] < q[j] \/ q[j] < q[i]
    BY <1>2 DEF Lists
  <2> QED
    BY <2>1, <2>2
<1>4. q \in Bijection(1..n, S)
  BY <1>2, <1>3 DEF Bijection, Injection, Surjection, IsInjective, Lists
<1>5. IsFiniteSet(1..n) /\ Cardinality(1..n) = n
  BY FS_Interval
<1>6. IsFiniteSet(S) /\ Cardinality(S) = n
  BY <1>4, <1>5, FS_Bijection DEF ExistsBijection
<1> DEFINE Rises(f) == \A i, j \in 1..Cardinality(S) : i < j => f[i] < f[j]
<1>7. q \in [1..Cardinality(S) -> S] /\ Rises(q)
  BY <1>2, <1>6 DEF Lists
<1>8. Ascending(S) \in [1..Cardinality(S) -> S] /\ Rises(Ascending(S))
  BY <1>7 DEF Ascending
<1> DEFINE a == Ascending(S)
<1> HIDE DEF a
<1>9. a \in [1..n -> S] /\ \A i, j \in 1..n : i < j => a[i] < a[j]
  BY <1>8, <1>6 DEF a
<1>10. \A i, j \in 1..n : a[i] = a[j] => i = j
  <2> SUFFICES ASSUME NEW i \in 1..n, NEW j \in 1..n, a[i] = a[j], i # j PROVE FALSE
    OBVIOUS
  <2>1. a[i] \in Int /\ a[j] \in Int
    BY <1>0, <1>9
  <2>2. a[i] < a[j] \/ a[j] < a[i]
    BY <1>9
  <2> QED
    BY <2>1, <2>2
<1>11. a \in Injection(1..n, S)
  BY <1>9, <1>10 DEF Injection, IsInjective
<1>12. a \in Surjection(1..n, S)
  BY <1>11, <1>5, <1>6, FS_Injection
<1>13. \A x \in S : \E i \in 1..n : a[i] = x
  BY <1>12 DEF Surjection
<1>14. Lists(a, 1, n, S)
  BY <1>9, <1>13 DEF Lists
<1> QED
  BY <1>6, <1>9, <1>14 DEF a

LEMMA InsertAtIs ==
  ASSUME NEW S, NEW s \in Seq(S), NEW i \in 1..(Len(s) + 1), NEW e \in S
  PROVE  LET r == InsertAt(s, i, e)
         IN  /\ r \in Seq(S) /\ Len(r) = Len(s) + 1
             /\ \A k \in 1..(i - 1) : r[k] = s[k]
             /\ r[i] = e
             /\ \A k \in (i + 1)..(Len(s) + 1) : r[k] = s[k - 1]
<1> DEFINE a == SubSeq(s, 1, i - 1)
           b == SubSeq(s, i, Len(s))
           c == a \o <<e>>
<1>1. /\ a \in Seq(S) /\ Len(a) = i - 1 /\ \A k \in 1..(i - 1) : a[k] = s[k]
      /\ b \in Seq(S) /\ Len(b) = Len(s) + 1 - i
      /\ \A k \in 1..(Len(s) + 1 - i) : b[k] = s[k + i - 1]
  OBVIOUS
<1>2. InsertAt(s, i, e) = c \o b
  BY DEF InsertAt
<1> HIDE DEF a, b
<1>3. c \in Seq(S) /\ Len(c) = i /\ (\A k \in 1..(i - 1) : c[k] = a[k]) /\ c[i] = e
  BY <1>1
<1> HIDE DEF c
<1>4. /\ c \o b \in Seq(S) /\ Len(c \o b) = Len(s) + 1
      /\ \A k \in 1..i : (c \o b)[k] = c[k]
  <2>1. c \o b \in Seq(S) /\ Len(c \o b) = Len(s) + 1
    BY <1>1, <1>3
  <2>2. \A k \in 1..i : k \in 1..(Len(c) + Len(b)) /\ k <= Len(c)
    BY <1>1, <1>3
  <2> QED
    BY <1>1, <1>3, <2>1, <2>2, ConcatProperties
<1>5. ASSUME NEW k \in (i + 1)..(Len(s) + 1) PROVE (c \o b)[k] = s[k - 1]
  <2>1. /\ k \in 1..(Len(c) + Len(b)) /\ k > Len(c)
        /\ k - i \in 1..(Len(s) + 1 - i) /\ (k - i) + i - 1 = k - 1
    BY <1>1, <1>3
  <2>2. (c \o b)[k] = b[k - i]
    BY <1>1, <1>3, <2>1, ConcatProperties
  <2> QED
    BY <1>1, <2>1, <2>2
<1> QED
  BY <1>1, <1>2, <1>3, <1>4, <1>5

-----------------------------------------------------------------------------
(* The list of posted events, as a sequence of entries.                    *)

Entries == [event : Events, live : BOOLEAN]

Entry(e, live) == [event |-> e, live |-> live]

\* The entries of r.
At(l, r) == {k \in 1..Len(l) : Of(r, l[k])}

Once(l) ==
  \A j, k \in 1..Len(l) : l[j].live /\ l[k].live /\ l[j].event = l[k].event => j = k

DeadTo(l, n)   == \A k \in 1..n : ~l[k].live
DeadFrom(l, n) == \A k \in n + 1 .. Len(l) : ~l[k].live

\* The priorities fall behind n, those of dead entries included.
Falls(l, n) ==
  \A j, k \in n + 1 .. Len(l) : j < k => Priority[l[j].event] >= Priority[l[k].event]

\* The list with its counts and offsets.
Queue(l, p, start, ins) ==
  /\ l \in Seq(Entries) /\ Len(l) <= MaxList
  /\ start \in 0..MaxList /\ ins \in 0..MaxList /\ start <= ins /\ start <= Len(l)
  /\ p \in [Receivers -> Nat] /\ \A r \in Receivers : p[r] = Cardinality(At(l, r))
  /\ Once(l) /\ DeadTo(l, start) /\ Falls(l, ins)

\* Every entry of m is one of l, in the same order, and alive only if that is.
Thins(q, m, l) ==
  /\ \A n \in 1..Len(m) : /\ q[n] \in 1..Len(l)
                          /\ m[n].event = l[q[n]].event
                          /\ m[n].live => l[q[n]].live
  /\ \A j, k \in 1..Len(m) : j < k => q[j] < q[k]

Thinned(m, l) == \E q : Thins(q, m, l)

LEMMA EntryFacts ==
  ASSUME NEW l \in Seq(Entries), NEW k \in 1..Len(l)
  PROVE  /\ l[k] \in Entries /\ l[k] = Entry(l[k].event, l[k].live)
         /\ l[k].event \in Events /\ l[k].live \in BOOLEAN
         /\ Priority[l[k].event] \in Int
         /\ Receiver[l[k].event] \in Receivers
<1>1. l[k] \in Entries
  BY ElementOfSeq
<1>2. l[k] = Entry(l[k].event, l[k].live) /\ l[k].event \in Events /\ l[k].live \in BOOLEAN
  BY <1>1 DEF Entries, Entry
<1> QED
  BY <1>1, <1>2, EventLoopAssumption DEF Receivers

LEMMA AtFinite ==
  ASSUME NEW l \in Seq(Entries), NEW r
  PROVE  IsFiniteSet(At(l, r)) /\ Cardinality(At(l, r)) \in Nat
<1>1. Len(l) \in Nat /\ IsFiniteSet(1..Len(l))
  BY FS_Interval
<1>2. IsFiniteSet(At(l, r))
  BY <1>1, FS_Subset DEF At
<1> QED
  BY <1>2, FS_CardinalityType

\* Sets between which q goes to and fro have as many members.
LEMMA SameCount ==
  ASSUME NEW S, NEW T, IsFiniteSet(S), NEW q,
         \A x \in S : q[x] \in T,
         \A x, y \in S : q[x] = q[y] => x = y,
         \A z \in T : \E x \in S : q[x] = z
  PROVE  Cardinality(S) = Cardinality(T)
<1> DEFINE f == [x \in S |-> q[x]]
<1>1. f \in [S -> T] /\ \A x \in S : f[x] = q[x]
  OBVIOUS
<1> HIDE DEF f
<1>2. f \in Injection(S, T)
  BY <1>1 DEF Injection, IsInjective
<1>3. f \in Surjection(S, T)
  BY <1>1 DEF Surjection
<1>4. f \in Bijection(S, T)
  BY <1>2, <1>3 DEF Bijection
<1> QED
  BY <1>4, FS_Bijection DEF ExistsBijection

LEMMA ThinnedSeq ==
  ASSUME NEW l \in Seq(Entries), NEW m \in Seq(Entries), NEW q, Thins(q, m, l)
  PROVE  /\ Once(l) => Once(m)
         /\ \A n, i \in Nat : Falls(l, n) /\ (\A k \in i + 1 .. Len(m) : q[k] > n) => Falls(m, i)
         /\ \A n, i \in Nat : DeadFrom(l, n) /\ (\A k \in i + 1 .. Len(m) : q[k] > n) => DeadFrom(m, i)
<1>0. Len(l) \in Nat /\ Len(m) \in Nat /\ \A n \in 1..Len(m) : q[n] \in 1..Len(l)
  BY DEF Thins
<1>1. ASSUME Once(l), NEW j \in 1..Len(m), NEW k \in 1..Len(m),
             m[j].live, m[k].live, m[j].event = m[k].event, j # k
      PROVE  FALSE
  <2>1. q[j] = q[k]
    BY <1>1 DEF Once, Thins
  <2>2. q[j] < q[k] \/ q[k] < q[j]
    <3>1. j < k \/ k < j
      BY <1>0, <1>1
    <3> QED
      BY <3>1 DEF Thins
  <2> QED
    BY <2>1, <2>2, <1>0
<1>2. ASSUME NEW n \in Nat, NEW i \in Nat, Falls(l, n), \A k \in i + 1 .. Len(m) : q[k] > n,
             NEW j \in i + 1 .. Len(m), NEW k \in i + 1 .. Len(m), j < k
      PROVE  Priority[m[j].event] >= Priority[m[k].event]
  <2>1. j \in 1..Len(m) /\ k \in 1..Len(m)
    BY <1>0
  <2>2. q[j] \in n + 1 .. Len(l) /\ q[k] \in n + 1 .. Len(l) /\ q[j] < q[k]
    BY <1>0, <1>2, <2>1 DEF Thins
  <2>3. m[j].event = l[q[j]].event /\ m[k].event = l[q[k]].event
    BY <2>1 DEF Thins
  <2> QED
    BY <1>2, <2>2, <2>3 DEF Falls
<1>3. ASSUME NEW n \in Nat, NEW i \in Nat, DeadFrom(l, n), \A k \in i + 1 .. Len(m) : q[k] > n,
             NEW k \in i + 1 .. Len(m), m[k].live
      PROVE  FALSE
  <2>1. k \in 1..Len(m)
    BY <1>0
  <2>2. q[k] \in n + 1 .. Len(l) /\ l[q[k]].live
    BY <1>0, <1>3, <2>1 DEF Thins
  <2> QED
    BY <1>3, <2>2 DEF DeadFrom
<1>4. Once(l) => Once(m)
  BY <1>1 DEF Once
<1>5. \A n, i \in Nat : Falls(l, n) /\ (\A k \in i + 1 .. Len(m) : q[k] > n) => Falls(m, i)
  BY <1>2 DEF Falls
<1>6. \A n, i \in Nat : DeadFrom(l, n) /\ (\A k \in i + 1 .. Len(m) : q[k] > n) => DeadFrom(m, i)
  BY <1>3 DEF DeadFrom
<1> QED
  BY <1>4, <1>5, <1>6

-----------------------------------------------------------------------------
(* Posting.                                                                *)

LEMMA UpperBoundIs ==
  ASSUME list \in Seq(Entries), insertionOffset \in Nat, insertionOffset < Len(list),
         NEW p \in Int
  PROVE  LET k == UpperBound(p)
         IN  /\ k \in insertionOffset + 1 .. Len(list) + 1
             /\ k = Len(list) + 1 \/ PriorityAt(k) < p
             /\ \A j \in insertionOffset + 1 .. k - 1 : PriorityAt(j) >= p
<1> DEFINE Good == {k \in insertionOffset + 1 .. Len(list) + 1 : k = Len(list) + 1 \/ PriorityAt(k) < p}
<1>1. Len(list) \in Nat /\ Good \in SUBSET Nat /\ Len(list) + 1 \in Good
  OBVIOUS
<1>2. PICK k \in Good : \A y \in Good : k <= y
  BY <1>1, Least
<1>3. \A j \in insertionOffset + 1 .. k - 1 : PriorityAt(j) >= p
  <2> SUFFICES ASSUME NEW j \in insertionOffset + 1 .. k - 1, ~(PriorityAt(j) >= p) PROVE FALSE
    OBVIOUS
  <2>1. j \in insertionOffset + 1 .. Len(list) /\ j < k /\ j \in 1..Len(list)
    BY <1>1
  <2>2. PriorityAt(j) \in Int
    BY <2>1, EntryFacts DEF PriorityAt
  <2>3. j \in Good
    BY <2>1, <2>2
  <2> QED
    BY <2>1, <2>3, <1>2, <1>1
<1>4. \E x \in insertionOffset + 1 .. Len(list) + 1 :
        /\ x = Len(list) + 1 \/ PriorityAt(x) < p
        /\ \A j \in insertionOffset + 1 .. x - 1 : PriorityAt(j) >= p
  BY <1>2, <1>3
<1> QED
  BY <1>4 DEF UpperBound

\* The position that addEvent() finds: behind the insertion offset or at the
\* end, behind what has at least the priority and before all that has less.
LEMMA PositionIs ==
  ASSUME Queue(list, posted, startOffset, insertionOffset), NEW p \in Int
  PROVE  LET k == Position(p)
         IN  /\ k \in startOffset + 1 .. Len(list) + 1
             /\ k > insertionOffset \/ k = Len(list) + 1
             /\ \A j \in insertionOffset + 1 .. k - 1 : PriorityAt(j) >= p
             /\ \A j \in k .. Len(list) : PriorityAt(j) < p
<1>1. /\ list \in Seq(Entries) /\ Len(list) \in Nat /\ insertionOffset \in Nat /\ startOffset \in Nat
      /\ startOffset <= insertionOffset /\ startOffset <= Len(list)
  BY DEF Queue
<1>2. \A j \in 1..Len(list) : PriorityAt(j) \in Int
  BY <1>1, EntryFacts DEF PriorityAt
<1>3. \A j, k \in insertionOffset + 1 .. Len(list) : j < k => PriorityAt(j) >= PriorityAt(k)
  BY DEF Queue, Falls, PriorityAt
<1>4. CASE list = <<>> \/ insertionOffset >= Len(list)
  <2>1. Position(p) = Len(list) + 1
    BY <1>4 DEF Position
  <2>2. insertionOffset >= Len(list)
    BY <1>4, <1>1
  <2> QED
    BY <2>1, <2>2, <1>1
<1>5. CASE list # <<>> /\ insertionOffset < Len(list) /\ PriorityAt(Len(list)) >= p
  <2>1. Position(p) = Len(list) + 1
    BY <1>5 DEF Position
  <2>2. ASSUME NEW j \in insertionOffset + 1 .. Len(list) PROVE PriorityAt(j) >= p
    <3>1. j \in 1..Len(list) /\ Len(list) \in 1..Len(list) /\ Len(list) \in insertionOffset + 1 .. Len(list)
      BY <1>1, <1>5
    <3>2. PriorityAt(j) >= PriorityAt(Len(list)) \/ j = Len(list)
      BY <3>1, <1>3, <1>1
    <3> QED
      BY <3>1, <3>2, <1>2, <1>5
  <2> QED
    BY <2>1, <2>2, <1>1
<1>6. CASE list # <<>> /\ insertionOffset < Len(list) /\ ~(PriorityAt(Len(list)) >= p)
  <2> DEFINE k == UpperBound(p)
  <2>1. Position(p) = k
    BY <1>6, <1>1 DEF Position
  <2>2. /\ k \in insertionOffset + 1 .. Len(list) + 1
        /\ k = Len(list) + 1 \/ PriorityAt(k) < p
        /\ \A j \in insertionOffset + 1 .. k - 1 : PriorityAt(j) >= p
    BY <1>1, <1>6, UpperBoundIs
  <2> HIDE DEF k
  <2>3. ASSUME NEW j \in k .. Len(list) PROVE PriorityAt(j) < p
    <3>1. j \in 1..Len(list) /\ k \in 1..Len(list) /\ j \in insertionOffset + 1 .. Len(list)
          /\ k \in insertionOffset + 1 .. Len(list)
      BY <1>1, <2>2
    <3>2. PriorityAt(k) >= PriorityAt(j) \/ j = k
      BY <3>1, <1>3, <1>1
    <3>3. PriorityAt(k) < p
      BY <3>1, <2>2, <1>1
    <3> QED
      BY <3>1, <3>2, <3>3, <1>2
  <2> QED
    BY <2>1, <2>2, <2>3, <1>1
<1> QED
  BY <1>1, <1>4, <1>5, <1>6

\* What an insertion at i does to the entries of each receiver.
LEMMA InsertedAt ==
  ASSUME NEW l \in Seq(Entries), NEW i \in 1..Len(l) + 1, NEW e \in Events,
         NEW m \in Seq(Entries), Len(m) = Len(l) + 1,
         \A k \in 1..i - 1 : m[k] = l[k],
         m[i] = Entry(e, TRUE),
         \A k \in i + 1 .. Len(l) + 1 : m[k] = l[k - 1],
         NEW r \in Receivers
  PROVE  Cardinality(At(m, r)) = IF r = Receiver[e] THEN Cardinality(At(l, r)) + 1
                                                    ELSE Cardinality(At(l, r))
<1> DEFINE q == [n \in 1..Len(m) |-> IF n < i THEN n ELSE n - 1]
           S == At(m, r) \ {i}
<1>1. Len(l) \in Nat /\ i \in Nat /\ i \in 1..Len(m)
  OBVIOUS
<1>2. IsFiniteSet(At(m, r)) /\ IsFiniteSet(S) /\ Cardinality(At(l, r)) \in Nat
  BY AtFinite, FS_RemoveElement
<1>3. ASSUME NEW n \in S
      PROVE  n \in 1..Len(m) /\ n # i /\ q[n] \in 1..Len(l) /\ m[n] = l[q[n]]
  <2>1. n \in 1..Len(m) /\ n # i
    BY <1>3 DEF At
  <2>2. CASE n < i
    BY <2>1, <2>2, <1>1
  <2>3. CASE n > i
    BY <2>1, <2>3, <1>1
  <2> QED
    BY <2>1, <2>2, <2>3, <1>1
<1>4. ASSUME NEW n \in S PROVE q[n] \in At(l, r)
  <2>1. Of(r, m[n])
    BY <1>4 DEF At
  <2> QED
    BY <2>1, <1>3, <1>4 DEF At
<1>5. ASSUME NEW x \in S, NEW y \in S, q[x] = q[y] PROVE x = y
  <2>1. x \in 1..Len(m) /\ y \in 1..Len(m) /\ x # i /\ y # i
    BY <1>3
  <2> QED
    BY <2>1, <1>1, <1>5
<1>6. ASSUME NEW z \in At(l, r) PROVE \E x \in S : q[x] = z
  <2>1. z \in 1..Len(l) /\ Of(r, l[z])
    BY DEF At
  <2>2. CASE z < i
    <3>1. z \in 1..Len(m) /\ m[z] = l[z] /\ q[z] = z /\ z # i
      BY <2>1, <2>2, <1>1
    <3> QED
      BY <3>1, <2>1 DEF At
  <2>3. CASE z >= i
    <3>1. z + 1 \in 1..Len(m) /\ m[z + 1] = l[z] /\ q[z + 1] = z /\ z + 1 # i
      BY <2>1, <2>3, <1>1
    <3> QED
      BY <3>1, <2>1 DEF At
  <2>4. z < i \/ z >= i
    BY <2>1, <1>1
  <2> HIDE DEF q, S
  <2> QED
    BY <2>2, <2>3, <2>4
<1>7. Cardinality(S) = Cardinality(At(l, r))
  <2> HIDE DEF q, S
  <2> QED
    BY <1>2, <1>4, <1>5, <1>6, SameCount
<1>8. i \in At(m, r) <=> r = Receiver[e]
  BY <1>1 DEF At, Of, Entry
<1>9. CASE r = Receiver[e]
  <2>1. Cardinality(S) = Cardinality(At(m, r)) - 1 /\ Cardinality(At(m, r)) \in Nat
    BY <1>2, <1>8, <1>9, FS_RemoveElement, AtFinite
  <2> QED
    BY <2>1, <1>7, <1>9, <1>2
<1>10. CASE r # Receiver[e]
  <2>1. S = At(m, r)
    BY <1>8, <1>10
  <2> QED
    BY <2>1, <1>7, <1>10
<1> QED
  BY <1>9, <1>10

\* m is l with x put in at i.
Spliced(m, l, i, x) ==
  \A k \in 1..Len(l) + 1 : \/ k < i /\ k \in 1..Len(l) /\ m[k] = l[k]
                           \/ k = i /\ m[k] = x
                           \/ k > i /\ k - 1 \in i..Len(l) /\ m[k] = l[k - 1]

LEMMA SplicedIs ==
  ASSUME NEW l, NEW m, Len(l) \in Nat, NEW i \in 1..Len(l) + 1, NEW x,
         \A k \in 1..i - 1 : m[k] = l[k], m[i] = x,
         \A k \in i + 1 .. Len(l) + 1 : m[k] = l[k - 1]
  PROVE  Spliced(m, l, i, x)
<1> SUFFICES ASSUME NEW k \in 1..Len(l) + 1
             PROVE  \/ k < i /\ k \in 1..Len(l) /\ m[k] = l[k]
                    \/ k = i /\ m[k] = x
                    \/ k > i /\ k - 1 \in i..Len(l) /\ m[k] = l[k - 1]
  BY DEF Spliced
<1>1. CASE k < i
  <2>1. k \in 1..i - 1 /\ k \in 1..Len(l)
    BY <1>1
  <2> QED
    BY <2>1, <1>1
<1>2. CASE k > i
  <2>1. k \in i + 1 .. Len(l) + 1 /\ k - 1 \in i..Len(l)
    BY <1>2
  <2> QED
    BY <2>1, <1>2
<1> QED
  BY <1>1, <1>2

LEMMA SplicedOnce ==
  ASSUME NEW l, NEW m, Len(l) \in Nat, Len(m) = Len(l) + 1, NEW i \in 1..Len(l) + 1, NEW x,
         Spliced(m, l, i, x), Once(l),
         \A k \in 1..Len(l) : ~(l[k].live /\ l[k].event = x.event)
  PROVE  Once(m)
<1> SUFFICES ASSUME NEW j \in 1..Len(l) + 1, NEW k \in 1..Len(l) + 1,
                    m[j].live, m[k].live, m[j].event = m[k].event
             PROVE  j = k
  BY DEF Once
<1> DEFINE c(n) == IF n < i THEN n ELSE n - 1
<1>1. ASSUME NEW n \in 1..Len(l) + 1, n # i PROVE c(n) \in 1..Len(l) /\ m[n] = l[c(n)]
  BY <1>1 DEF Spliced
<1>2. m[i] = x
  BY DEF Spliced
<1>3. CASE j = i /\ k # i
  BY <1>1, <1>2, <1>3
<1>4. CASE j # i /\ k = i
  BY <1>1, <1>2, <1>4
<1>5. CASE j # i /\ k # i
  <2>1. c(j) \in 1..Len(l) /\ c(k) \in 1..Len(l) /\ m[j] = l[c(j)] /\ m[k] = l[c(k)]
    BY <1>1, <1>5
  <2>2. c(j) = c(k)
    <3> HIDE DEF c
    <3> QED
      BY <2>1 DEF Once
  <2> QED
    BY <2>2, <1>5
<1> QED
  BY <1>3, <1>4, <1>5

LEMMA SplicedFalls ==
  ASSUME NEW l, NEW m, Len(l) \in Nat, Len(m) = Len(l) + 1, NEW i \in 1..Len(l) + 1, NEW x,
         Spliced(m, l, i, x), NEW n \in Nat, Falls(l, n), i > n \/ i = Len(l) + 1,
         Priority[x.event] \in Int, \A k \in 1..Len(l) : Priority[l[k].event] \in Int,
         \A k \in n + 1 .. i - 1 : Priority[l[k].event] >= Priority[x.event],
         \A k \in i .. Len(l) : Priority[l[k].event] < Priority[x.event]
  PROVE  Falls(m, n)
<1> SUFFICES ASSUME NEW j \in n + 1 .. Len(l) + 1, NEW k \in n + 1 .. Len(l) + 1, j < k
             PROVE  Priority[m[j].event] >= Priority[m[k].event]
  BY DEF Falls
<1>1. j \in 1..Len(l) + 1 /\ k \in 1..Len(l) + 1
  OBVIOUS
<1>2. \A a, b \in n + 1 .. Len(l) : a < b => Priority[l[a].event] >= Priority[l[b].event]
  BY DEF Falls
<1>3. CASE k < i
  <2>1. m[j] = l[j] /\ m[k] = l[k] /\ j \in n + 1 .. Len(l) /\ k \in n + 1 .. Len(l)
    BY <1>1, <1>3 DEF Spliced
  <2> QED
    BY <2>1, <1>2
<1>4. CASE k = i
  <2>1. m[j] = l[j] /\ m[k] = x /\ j \in n + 1 .. i - 1
    BY <1>1, <1>4 DEF Spliced
  <2> QED
    BY <2>1
<1>5. CASE k > i
  <2>1. m[k] = l[k - 1] /\ k - 1 \in i..Len(l) /\ i > n
    BY <1>1, <1>5 DEF Spliced
  <2>2. CASE j > i
    <3>1. m[j] = l[j - 1] /\ j - 1 \in i..Len(l)
      <4>1. j \in Int /\ i \in Int /\ ~(j < i) /\ j # i
        BY <2>2
      <4> QED
        BY <4>1, <1>1, Zenon DEF Spliced
    <3>2. j - 1 \in n + 1 .. Len(l) /\ k - 1 \in n + 1 .. Len(l) /\ j - 1 < k - 1
      BY <2>1, <3>1
    <3> QED
      BY <3>1, <3>2, <2>1, <1>2
  <2>3. Priority[l[k - 1].event] < Priority[x.event] /\ k - 1 \in 1..Len(l)
    BY <2>1
  <2>4. CASE j = i
    <3>1. m[j] = x
      BY <2>4, <1>1 DEF Spliced
    <3> QED
      BY <3>1, <2>1, <2>3
  <2>5. CASE j < i
    <3>1. m[j] = l[j] /\ j \in n + 1 .. i - 1 /\ j \in 1..Len(l)
      BY <1>1, <2>5 DEF Spliced
    <3>2. Priority[l[j].event] >= Priority[x.event]
      BY <3>1
    <3> QED
      BY <3>1, <3>2, <2>1, <2>3
  <2> QED
    BY <2>2, <2>4, <2>5
<1> QED
  BY <1>3, <1>4, <1>5

LEMMA InsertedQueue ==
  ASSUME NEW l, NEW p, NEW start, NEW ins, Queue(l, p, start, ins), Len(l) < MaxList,
         NEW e \in Events, \A k \in 1..Len(l) : ~(l[k].live /\ l[k].event = e),
         NEW i \in start + 1 .. Len(l) + 1, i > ins \/ i = Len(l) + 1,
         \A j \in ins + 1 .. i - 1 : Priority[l[j].event] >= Priority[e],
         \A j \in i .. Len(l) : Priority[l[j].event] < Priority[e]
  PROVE  LET m == InsertAt(l, i, Entry(e, TRUE))
         IN  /\ Queue(m, [p EXCEPT ![Receiver[e]] = p[Receiver[e]] + 1], start, ins)
             /\ m \in Seq(Entries) /\ Len(m) = Len(l) + 1 /\ Spliced(m, l, i, Entry(e, TRUE))
<1> DEFINE x == Entry(e, TRUE)
           m == InsertAt(l, i, x)
           u == [p EXCEPT ![Receiver[e]] = p[Receiver[e]] + 1]
<1>1. /\ l \in Seq(Entries) /\ Len(l) \in Nat /\ MaxList \in Nat /\ ins \in Nat /\ start \in Nat
      /\ start <= Len(l) /\ start <= ins /\ ins <= MaxList /\ start <= MaxList
      /\ i \in 1..Len(l) + 1 /\ Len(l) + 1 <= MaxList
      /\ p \in [Receivers -> Nat]
  BY EventLoopAssumption DEF Queue
<1>2. x \in Entries /\ x.event = e /\ x.live = TRUE
  BY DEF Entries, Entry
<1>3. /\ m \in Seq(Entries) /\ Len(m) = Len(l) + 1 /\ \A k \in 1..(i - 1) : m[k] = l[k]
      /\ m[i] = x
      /\ \A k \in (i + 1)..(Len(l) + 1) : m[k] = l[k - 1]
  <2> HIDE DEF x
  <2> QED
    BY <1>1, <1>2, InsertAtIs
<1> HIDE DEF m
<1>4. Spliced(m, l, i, x)
  <2> HIDE DEF x
  <2> QED
    BY <1>1, <1>3, SplicedIs
<1>5. \A r \in Receivers : u[r] = Cardinality(At(m, r)) /\ u \in [Receivers -> Nat]
  <2> SUFFICES ASSUME NEW r \in Receivers
               PROVE  u[r] = Cardinality(At(m, r)) /\ u \in [Receivers -> Nat]
    OBVIOUS
  <2>1. p[r] = Cardinality(At(l, r)) /\ p[r] \in Nat /\ Receiver[e] \in Receivers
    BY <1>1 DEF Queue, Receivers
  <2>2. u[r] = IF r = Receiver[e] THEN p[r] + 1 ELSE p[r]
    BY <1>1, <2>1
  <2>3. u \in [Receivers -> Nat]
    BY <1>1, <2>1
  <2>4. Cardinality(At(m, r)) = IF r = Receiver[e] THEN Cardinality(At(l, r)) + 1
                                                    ELSE Cardinality(At(l, r))
    BY <1>1, <1>3, InsertedAt
  <2> QED
    BY <2>1, <2>2, <2>3, <2>4, Zenon
<1>6. Once(m)
  <2>1. Once(l)
    BY DEF Queue
  <2> HIDE DEF x
  <2> QED
    BY <2>1, <1>1, <1>2, <1>3, <1>4, SplicedOnce
<1>7. DeadTo(m, start)
  <2>1. DeadTo(l, start)
    BY DEF Queue
  <2>2. \A k \in 1..start : k \in 1..i - 1
    BY <1>1
  <2> QED
    BY <2>1, <2>2, <1>3 DEF DeadTo
<1>8. Falls(m, ins)
  <2>1. Falls(l, ins)
    BY DEF Queue
  <2>2. Priority[e] \in Int /\ \A a \in 1..Len(l) : Priority[l[a].event] \in Int
    BY <1>1, EntryFacts, EventLoopAssumption
  <2> HIDE DEF x
  <2> QED
    BY <2>1, <2>2, <1>1, <1>2, <1>3, <1>4, SplicedFalls
<1>9. start \in 0..MaxList /\ ins \in 0..MaxList /\ start <= ins /\ start <= Len(m) /\ Len(m) <= MaxList
  BY <1>1, <1>3
<1>10. Queue(m, u, start, ins)
  <2> HIDE DEF u
  <2>1. u \in [Receivers -> Nat] /\ \A r \in Receivers : u[r] = Cardinality(At(m, r))
    <3>1. Receiver[e] \in Receivers
      BY DEF Receivers
    <3> QED
      BY <3>1, <1>5
  <2> QED
    BY <2>1, <1>3, <1>6, <1>7, <1>8, <1>9 DEF Queue
<1> QED
  BY <1>3, <1>4, <1>10 DEF m

\* What posting does to the list.
LEMMA EnqueueQueue ==
  ASSUME Queue(list, posted, startOffset, insertionOffset), NEW e \in Events, Enqueue(e)
  PROVE  /\ Queue(list', posted', startOffset', insertionOffset')
         /\ \A j, k \in 1..Len(list') :
              ( /\ list'[j].live /\ ~Live(list'[j].event)
                /\ list'[k].live /\ list'[k].event # list'[j].event
                /\ Priority[list'[k].event] >= Priority[list'[j].event] )
              => k < j
<1> DEFINE i == Position(Priority[e])
           x == Entry(e, TRUE)
<1>1. /\ list \in Seq(Entries) /\ Len(list) \in Nat /\ insertionOffset \in Nat /\ startOffset \in Nat
      /\ startOffset <= Len(list) /\ Priority[e] \in Int
  BY EventLoopAssumption DEF Queue
<1>2. /\ i \in startOffset + 1 .. Len(list) + 1
      /\ i > insertionOffset \/ i = Len(list) + 1
      /\ \A j \in insertionOffset + 1 .. i - 1 : Priority[list[j].event] >= Priority[e]
      /\ \A j \in i .. Len(list) : Priority[list[j].event] < Priority[e]
  BY <1>1, PositionIs DEF PriorityAt
<1>3. list' = InsertAt(list, i, x) /\ Len(list) < MaxList
      /\ posted' = [posted EXCEPT ![Receiver[e]] = posted[Receiver[e]] + 1]
      /\ startOffset' = startOffset /\ insertionOffset' = insertionOffset
  BY DEF Enqueue, Entry
<1>4. \A k \in 1..Len(list) : ~(list[k].live /\ list[k].event = e)
  BY DEF Enqueue, Live
<1> HIDE DEF i
<1>5. /\ Queue(list', posted', startOffset', insertionOffset')
      /\ Len(list') = Len(list) + 1 /\ Spliced(list', list, i, x)
  <2>1. LET m == InsertAt(list, i, Entry(e, TRUE))
        IN  /\ Queue(m, [posted EXCEPT ![Receiver[e]] = posted[Receiver[e]] + 1],
                     startOffset, insertionOffset)
            /\ m \in Seq(Entries) /\ Len(m) = Len(list) + 1
            /\ Spliced(m, list, i, Entry(e, TRUE))
    BY <1>2, <1>3, <1>4, InsertedQueue
  <2> QED
    BY <2>1, <1>3, Zenon
<1>6. i \in 1..Len(list) + 1
  BY <1>1, <1>2
<1>7. ASSUME NEW j \in 1..Len(list'), NEW k \in 1..Len(list'),
             list'[j].live, ~Live(list'[j].event), list'[k].event # list'[j].event,
             Priority[list'[k].event] >= Priority[list'[j].event]
      PROVE  k < j
  <2>1. j \in 1..Len(list) + 1 /\ k \in 1..Len(list) + 1
    BY <1>5
  <2>2. j = i /\ list'[j] = x
    <3>1. ASSUME NEW n \in 1..Len(list), list'[j] = list[n] PROVE FALSE
      BY <3>1, <1>7 DEF Live
    <3>2. \A n \in i..Len(list) : n \in 1..Len(list)
      BY <1>6
    <3> HIDE DEF x
    <3> QED
      BY <2>1, <3>1, <3>2, <1>5, Zenon DEF Spliced
  <2>3. list'[j].event = e
    BY <2>2 DEF Entry
  <2>4. k # i
    BY <2>2, <1>7
  <2>5. SUFFICES ASSUME k > i PROVE FALSE
    BY <2>1, <2>2, <2>4, <1>6
  <2>6. k - 1 \in i..Len(list) /\ list'[k] = list[k - 1]
    <3>1. ~(k < i)
      BY <2>1, <2>5, <1>6
    <3> HIDE DEF x
    <3> QED
      BY <2>1, <2>4, <3>1, <1>5, Zenon DEF Spliced
  <2>7. Priority[list[k - 1].event] < Priority[e]
    BY <2>6, <1>2
  <2>8. k - 1 \in 1..Len(list)
    BY <2>6, <1>6
  <2>9. Priority[list[k - 1].event] \in Int
    BY <2>8, <1>1, EntryFacts
  <2> QED
    BY <2>3, <2>6, <2>7, <2>9, <1>1, <1>7
<1> QED
  BY <1>5, <1>7

-----------------------------------------------------------------------------
(* Removing and delivering.                                                *)

\* An entry at its own place, or dead.
Deadened(m, l) ==
  /\ Len(m) = Len(l)
  /\ \A k \in 1..Len(l) : m[k].event = l[k].event /\ (m[k].live => l[k].live)

LEMMA DeadenedIs ==
  ASSUME NEW l \in Seq(Entries), NEW m \in Seq(Entries), Deadened(m, l)
  PROVE  /\ Once(l) => Once(m)
         /\ \A n \in Nat : Falls(l, n) => Falls(m, n)
         /\ \A n \in Nat : DeadFrom(l, n) => DeadFrom(m, n)
         /\ \A n \in 0..Len(l) : DeadTo(l, n) => DeadTo(m, n)
<1>0. Len(l) \in Nat /\ Len(m) = Len(l)
  BY DEF Deadened
<1> DEFINE q == [n \in 1..Len(l) |-> n]
<1>1. \A n \in 1..Len(l) : q[n] = n
  OBVIOUS
<1> HIDE DEF q
<1>2. Thins(q, m, l)
  BY <1>0, <1>1 DEF Thins, Deadened
<1>3. \A n \in Nat : \A k \in n + 1 .. Len(m) : q[k] > n
  BY <1>0, <1>1
<1>4. /\ Once(l) => Once(m)
      /\ \A n \in Nat : Falls(l, n) => Falls(m, n)
      /\ \A n \in Nat : DeadFrom(l, n) => DeadFrom(m, n)
  BY <1>2, <1>3, ThinnedSeq
<1>5. \A n \in 0..Len(l) : DeadTo(l, n) => DeadTo(m, n)
  BY <1>0 DEF DeadTo, Deadened
<1> QED
  BY <1>4, <1>5

\* What removePostedEvents() does to the list while a pass is under way ...
LEMMA RemovedInPlace ==
  ASSUME NEW l, NEW p, NEW start, NEW ins, Queue(l, p, start, ins), NEW r \in Receivers,
         NEW m, m = [k \in 1..Len(l) |-> IF Of(r, l[k]) THEN [l[k] EXCEPT !.live = FALSE] ELSE l[k]]
  PROVE  /\ Deadened(m, l) /\ m \in Seq(Entries)
         /\ Queue(m, [p EXCEPT ![r] = p[r] - Cardinality(At(l, r))], start, ins)
<1> DEFINE u == [p EXCEPT ![r] = p[r] - Cardinality(At(l, r))]
<1>1. /\ l \in Seq(Entries) /\ Len(l) \in Nat /\ Len(l) <= MaxList
      /\ start \in Nat /\ ins \in Nat /\ start <= Len(l) /\ p \in [Receivers -> Nat]
  BY EventLoopAssumption DEF Queue
<1>2. ASSUME NEW k \in 1..Len(l)
      PROVE  m[k] \in Entries /\ m[k].event = l[k].event /\ m[k].live = (l[k].live /\ ~Of(r, l[k]))
  <2>1. l[k] \in Entries /\ l[k].live \in BOOLEAN
    BY <1>1, EntryFacts
  <2> QED
    BY <2>1 DEF Entries, Of
<1>3. m \in [1..Len(l) -> Entries]
  <2>1. m = [k \in 1..Len(l) |-> m[k]]
    OBVIOUS
  <2> QED
    BY <2>1, <1>2
<1>4. m \in Seq(Entries) /\ Len(m) = Len(l)
  BY <1>1, <1>3, SeqDef, LenProperties
<1>5. Deadened(m, l)
  BY <1>2, <1>4 DEF Deadened
<1>6. ASSUME NEW s \in Receivers PROVE u[s] = Cardinality(At(m, s)) /\ u[s] \in Nat
  <2>1. p[s] = Cardinality(At(l, s)) /\ p[s] \in Nat
    BY <1>1 DEF Queue
  <2>2. CASE s = r
    <3>1. At(m, s) = {}
      BY <2>2, <1>2, <1>4 DEF At, Of
    <3>2. Cardinality(At(m, s)) = 0
      BY <3>1, FS_EmptySet, Zenon
    <3>3. u[s] = p[s] - Cardinality(At(l, s))
      BY <2>2, <1>1
    <3> HIDE DEF u
    <3> QED
      BY <3>2, <3>3, <2>1
  <2>3. CASE s # r
    <3>1. \A k \in 1..Len(l) : Of(s, m[k]) <=> Of(s, l[k])
      <4> SUFFICES ASSUME NEW k \in 1..Len(l) PROVE Of(s, m[k]) <=> Of(s, l[k])
        OBVIOUS
      <4>1. l[k].live \in BOOLEAN /\ (Of(s, l[k]) => ~Of(r, l[k]))
        BY <1>1, EntryFacts, <2>3 DEF Of
      <4> QED
        BY <4>1, <1>2 DEF Of
    <3>2. At(m, s) = At(l, s)
      BY <3>1, <1>4 DEF At
    <3> QED
      BY <3>2, <2>1, <2>3, <1>1
  <2> QED
    BY <2>2, <2>3
<1>7. u \in [Receivers -> Nat]
  <2>1. u \in [Receivers -> Int]
    BY <1>1, AtFinite
  <2> HIDE DEF u
  <2> QED
    BY <2>1, <1>6
<1>8. Once(m) /\ Falls(m, ins) /\ DeadTo(m, start)
  <2>1. Once(l) /\ Falls(l, ins) /\ DeadTo(l, start) /\ start \in 0..Len(l)
    BY <1>1 DEF Queue
  <2> QED
    BY <2>1, <1>1, <1>4, <1>5, DeadenedIs
<1>9. Queue(m, u, start, ins)
  <2> HIDE DEF u
  <2> QED
    BY <1>4, <1>6, <1>7, <1>8, <1>1 DEF Queue
<1> QED
  BY <1>4, <1>5, <1>9

\* ... and when there is none: the list is compacted.
LEMMA CompactedIs ==
  ASSUME NEW r, list \in Seq(Entries)
  PROVE  /\ Compacted(r) \in Seq(Entries) /\ Len(Compacted(r)) <= Len(list)
         /\ \E q : /\ Thins(q, Compacted(r), list)
                   /\ \A n \in 1..Len(Compacted(r)) :
                        q[n] >= n /\ Compacted(r)[n] = list[q[n]] /\ ~Of(r, list[q[n]])
                   /\ \A k \in 1..Len(list) :
                        ~Of(r, list[k]) => \E n \in 1..Len(Compacted(r)) : q[n] = k
<1> DEFINE S == {k \in 1..Len(list) : ~Of(r, list[k])}
           q == Ascending(S)
           c == Cardinality(S)
           m == [n \in DOMAIN q |-> list[q[n]]]
<1>1. Len(list) \in Nat /\ S \in SUBSET (0..(Len(list) + 1) - 1)
  OBVIOUS
<1>2. c \in Nat /\ q \in [1..c -> S] /\ Lists(q, 1, c, S)
  <2> HIDE DEF S
  <2> DEFINE n == Len(list) + 1
  <2>1. n \in Nat /\ S \in SUBSET (0..n - 1)
    BY <1>1
  <2> HIDE DEF n
  <2> QED
    BY <2>1, AscendingLists, Zenon
<1>3. m = Compacted(r)
  BY DEF Compacted
<1>4. \A x \in S : x \in 1..Len(list) /\ ~Of(r, list[x]) /\ list[x] \in Entries
  BY EntryFacts
<1>5. \A k \in 1..Len(list) : ~Of(r, list[k]) => k \in S
  OBVIOUS
<1> HIDE DEF q, c, S
<1>6. m \in [1..c -> Entries] /\ \A n \in 1..c : m[n] = list[q[n]]
  BY <1>2, <1>4
<1> HIDE DEF m
<1>7. m \in Seq(Entries) /\ Len(m) = c
  BY <1>2, <1>6, SeqDef, LenProperties
<1>8. \A n \in 1..c : q[n] \in 1..Len(list) /\ ~Of(r, list[q[n]])
  BY <1>2, <1>4
<1>9. \A i, j \in 1..c : i < j => q[i] < q[j]
  BY <1>2 DEF Lists
<1>10. \A n \in 1..c : q[n] >= n
  <2> DEFINE Bad == {n \in 1..c : ~(q[n] >= n)}
  <2> SUFFICES ASSUME Bad # {} PROVE FALSE
    OBVIOUS
  <2>1. Bad \in SUBSET Nat
    BY <1>2
  <2>2. PICK n \in Bad : \A y \in Bad : n <= y
    BY <2>1, Least
  <2>3. n \in 1..c /\ ~(q[n] >= n) /\ q[n] \in 1..Len(list)
    BY <1>8
  <2>4. n > 1
    BY <2>3, <1>1
  <2>5. n - 1 \in 1..c /\ ~(n - 1 \in Bad)
    BY <2>2, <2>3, <2>4, <1>2
  <2>6. q[n - 1] >= n - 1 /\ q[n - 1] < q[n] /\ q[n - 1] \in Int
    BY <2>3, <2>5, <1>2, <1>8, <1>9, <1>1
  <2> QED
    BY <2>3, <2>6, <1>1, <1>2
<1>11. c <= Len(list)
  <2> SUFFICES ASSUME c > Len(list) PROVE FALSE
    BY <1>1, <1>2
  <2>1. c \in 1..c
    BY <1>1, <1>2
  <2> QED
    BY <2>1, <1>8, <1>10, <1>1
<1>12. Thins(q, m, list)
  BY <1>6, <1>7, <1>8, <1>9 DEF Thins
<1>13. \A k \in 1..Len(list) : ~Of(r, list[k]) => \E n \in 1..c : q[n] = k
  BY <1>5, <1>2 DEF Lists
<1> QED
  BY <1>3, <1>6, <1>7, <1>8, <1>10, <1>11, <1>12, <1>13

LEMMA CompactedQueue ==
  ASSUME NEW p, NEW ins, Queue(list, p, 0, ins), NEW r \in Receivers
  PROVE  /\ Queue(Compacted(r), [p EXCEPT ![r] = p[r] - Cardinality(At(list, r))], 0, ins)
         /\ \A n \in Nat : DeadFrom(list, n) => DeadFrom(Compacted(r), n)
         /\ \A j \in 1..Len(Compacted(r)) : Compacted(r)[j].live => Live(Compacted(r)[j].event)
<1> DEFINE u == [p EXCEPT ![r] = p[r] - Cardinality(At(list, r))]
           m == Compacted(r)
<1>1. /\ list \in Seq(Entries) /\ Len(list) \in Nat /\ Len(list) <= MaxList /\ MaxList \in Nat
      /\ ins \in Nat /\ ins <= MaxList /\ p \in [Receivers -> Nat]
      /\ Once(list) /\ Falls(list, ins)
      /\ \A s \in Receivers : p[s] = Cardinality(At(list, s)) /\ p[s] \in Nat
  BY EventLoopAssumption DEF Queue
<1>2. m \in Seq(Entries) /\ Len(m) <= Len(list) /\ Len(m) \in Nat
  BY <1>1, CompactedIs
<1>3. PICK q : /\ Thins(q, m, list)
               /\ \A n \in 1..Len(m) : q[n] >= n /\ m[n] = list[q[n]] /\ ~Of(r, list[q[n]])
               /\ \A k \in 1..Len(list) : ~Of(r, list[k]) => \E n \in 1..Len(m) : q[n] = k
  BY <1>1, CompactedIs
<1> HIDE DEF m
<1>4. \A n \in 1..Len(m) : q[n] \in 1..Len(list)
  BY <1>3 DEF Thins
<1>5. \A n \in Nat : \A k \in n + 1 .. Len(m) : q[k] > n
  <2> SUFFICES ASSUME NEW n \in Nat, NEW k \in n + 1 .. Len(m) PROVE q[k] > n
    OBVIOUS
  <2>1. k \in 1..Len(m)
    BY <1>2
  <2> QED
    BY <2>1, <1>3, <1>4, <1>1
<1>6. Once(m) /\ Falls(m, ins) /\ \A n \in Nat : DeadFrom(list, n) => DeadFrom(m, n)
  BY <1>1, <1>2, <1>3, <1>5, ThinnedSeq
<1>7. ASSUME NEW s \in Receivers, s # r PROVE Cardinality(At(m, s)) = Cardinality(At(list, s))
  <2>1. IsFiniteSet(At(m, s))
    BY <1>2, AtFinite
  <2>2. \A x \in At(m, s) : q[x] \in At(list, s)
    BY <1>3, <1>4 DEF At
  <2>3. ASSUME NEW x \in At(m, s), NEW y \in At(m, s), q[x] = q[y], x # y PROVE FALSE
    <3>1. x \in 1..Len(m) /\ y \in 1..Len(m)
      BY DEF At
    <3>2. q[x] \in 1..Len(list)
      BY <3>1, <1>4
    <3>3. q[x] < q[y] \/ q[y] < q[x]
      BY <3>1, <1>3, <2>3, <1>2 DEF Thins
    <3> QED
      BY <3>2, <3>3, <2>3, <1>1
  <2>4. ASSUME NEW z \in At(list, s) PROVE \E x \in At(m, s) : q[x] = z
    <3>1. z \in 1..Len(list) /\ Of(s, list[z]) /\ ~Of(r, list[z])
      BY <1>7 DEF At, Of
    <3>2. PICK n \in 1..Len(m) : q[n] = z
      BY <3>1, <1>3
    <3> QED
      BY <3>1, <3>2, <1>3 DEF At
  <2> QED
    BY <2>1, <2>2, <2>3, <2>4, SameCount
<1>8. Cardinality(At(m, r)) = 0
  <2>1. At(m, r) = {}
    BY <1>3 DEF At
  <2> QED
    BY <2>1, FS_EmptySet, Zenon
<1>9. ASSUME NEW s \in Receivers PROVE u[s] = Cardinality(At(m, s)) /\ u[s] \in Nat
  <2>1. u[s] = IF s = r THEN p[s] - Cardinality(At(list, s)) ELSE p[s]
    BY <1>1
  <2> HIDE DEF u
  <2> QED
    BY <2>1, <1>1, <1>7, <1>8
<1>10. u \in [Receivers -> Nat]
  <2>1. u \in [Receivers -> Int]
    BY <1>1, AtFinite
  <2> HIDE DEF u
  <2> QED
    BY <2>1, <1>9
<1>11. Queue(m, u, 0, ins)
  <2>1. DeadTo(m, 0) /\ 0 \in 0..MaxList /\ ins \in 0..MaxList /\ 0 <= ins /\ 0 <= Len(m) /\ Len(m) <= MaxList
    BY <1>1, <1>2 DEF DeadTo
  <2> HIDE DEF u
  <2> QED
    BY <2>1, <1>2, <1>6, <1>9, <1>10 DEF Queue
<1>12. \A j \in 1..Len(m) : m[j].live => Live(m[j].event)
  BY <1>3, <1>4 DEF Live
<1> QED
  BY <1>6, <1>11, <1>12 DEF m

\* What removePostedEvents() does to the list.
LEMMA RemoveQueue ==
  ASSUME Queue(list, posted, startOffset, insertionOffset), recursion = 0 => startOffset = 0,
         NEW r \in Receivers, RemoveEvents(r)
  PROVE  /\ Queue(list', posted', startOffset', insertionOffset')
         /\ \A n \in Nat : DeadFrom(list, n) => DeadFrom(list', n)
         /\ \A j \in 1..Len(list') : list'[j].live => Live(list'[j].event)
<1>1. /\ posted' = [posted EXCEPT ![r] = posted[r] - Cardinality(At(list, r))]
      /\ startOffset' = startOffset /\ insertionOffset' = insertionOffset
      /\ recursion = 0 => list' = Compacted(r)
      /\ recursion # 0 =>
           list' = [k \in 1..Len(list) |-> IF Of(r, list[k]) THEN [list[k] EXCEPT !.live = FALSE]
                                                            ELSE list[k]]
  BY DEF RemoveEvents, At
<1>2. CASE recursion = 0
  <2>1. startOffset = 0 /\ startOffset' = 0 /\ list' = Compacted(r)
    BY <1>1, <1>2
  <2>2. Queue(list, posted, 0, insertionOffset)
    BY <2>1
  <2>3. /\ Queue(Compacted(r), [posted EXCEPT ![r] = posted[r] - Cardinality(At(list, r))],
                 0, insertionOffset)
        /\ \A n \in Nat : DeadFrom(list, n) => DeadFrom(Compacted(r), n)
        /\ \A j \in 1..Len(Compacted(r)) : Compacted(r)[j].live => Live(Compacted(r)[j].event)
    BY <2>2, CompactedQueue
  <2> QED
    BY <1>1, <2>1, <2>3, Zenon
<1>3. CASE recursion # 0
  <2> DEFINE m == [k \in 1..Len(list) |-> IF Of(r, list[k]) THEN [list[k] EXCEPT !.live = FALSE]
                                                           ELSE list[k]]
  <2>1. list' = m
    BY <1>1, <1>3
  <2>2. /\ Deadened(m, list) /\ m \in Seq(Entries)
        /\ Queue(m, [posted EXCEPT ![r] = posted[r] - Cardinality(At(list, r))],
                 startOffset, insertionOffset)
    BY RemovedInPlace
  <2> HIDE DEF m
  <2>3. Queue(list', posted', startOffset', insertionOffset') /\ Deadened(list', list)
    BY <1>1, <2>1, <2>2, Zenon
  <2>4. list \in Seq(Entries) /\ list' \in Seq(Entries)
    BY <2>3 DEF Queue
  <2>5. \A n \in Nat : DeadFrom(list, n) => DeadFrom(list', n)
    BY <2>3, <2>4, DeadenedIs
  <2>6. \A j \in 1..Len(list') : list'[j].live => Live(list'[j].event)
    BY <2>3 DEF Deadened, Live
  <2> QED
    BY <2>3, <2>5, <2>6
<1> QED
  BY <1>2, <1>3

\* What a delivery does to the list.
LEMMA DeliveredQueue ==
  ASSUME NEW l, NEW p, NEW start, NEW ins, Queue(l, p, start, ins),
         NEW k \in 1..Len(l), l[k].live,
         NEW m, m = [l EXCEPT ![k].live = FALSE],
         NEW there, NEW here, here \in 0..MaxList, there <= here,
         there = start \/ (there = k /\ \A j \in start + 1 .. k - 1 : ~l[j].live),
         Falls(l, here)
  PROVE  /\ Deadened(m, l) /\ m \in Seq(Entries)
         /\ Queue(m, [p EXCEPT ![Receiver[l[k].event]] = p[Receiver[l[k].event]] - 1], there, here)
<1> DEFINE r == Receiver[l[k].event]
           u == [p EXCEPT ![r] = p[r] - 1]
<1>1. /\ l \in Seq(Entries) /\ Len(l) \in Nat /\ Len(l) <= MaxList /\ MaxList \in Nat
      /\ start \in Nat /\ ins \in Nat /\ start <= Len(l) /\ p \in [Receivers -> Nat]
      /\ Once(l) /\ DeadTo(l, start) /\ k \in Nat
      /\ \A s \in Receivers : p[s] = Cardinality(At(l, s)) /\ p[s] \in Nat
  BY EventLoopAssumption DEF Queue
<1>2. r \in Receivers /\ l[k] \in Entries
  BY <1>1, EntryFacts
<1> HIDE DEF r
<1>3. m \in Seq(Entries) /\ Len(m) = Len(l) /\ \A j \in 1..Len(l) : m[j] = IF j = k THEN [l[k] EXCEPT !.live = FALSE] ELSE l[j]
  <2>1. [l[k] EXCEPT !.live = FALSE] \in Entries
    BY <1>2 DEF Entries
  <2>2. m = [l EXCEPT ![k] = [l[k] EXCEPT !.live = FALSE]]
    OBVIOUS
  <2> QED
    BY <1>1, <2>1, <2>2
<1>4. \A j \in 1..Len(l) : m[j].event = l[j].event /\ (j # k => m[j] = l[j]) /\ (j = k => m[j].live = FALSE)
  BY <1>2, <1>3 DEF Entries
<1>5. Deadened(m, l)
  BY <1>3, <1>4 DEF Deadened
<1>6. ASSUME NEW s \in Receivers PROVE u[s] = Cardinality(At(m, s)) /\ u[s] \in Nat
  <2>1. CASE s = r
    <3>1. k \in At(l, s)
      BY <2>1 DEF At, Of, r
    <3>2. At(m, s) = At(l, s) \ {k}
      <4>1. \A j \in 1..Len(l) : j # k => (Of(s, m[j]) <=> Of(s, l[j]))
        BY <1>4
      <4>2. ~Of(s, m[k])
        BY <1>4 DEF Of
      <4> QED
        BY <4>1, <4>2, <1>3 DEF At
    <3>3. Cardinality(At(m, s)) = Cardinality(At(l, s)) - 1 /\ Cardinality(At(m, s)) \in Nat
      <4>1. IsFiniteSet(At(l, s)) /\ Cardinality(At(m, s)) \in Nat
        BY <1>1, <1>3, AtFinite
      <4>2. Cardinality(At(l, s) \ {k}) = Cardinality(At(l, s)) - 1
        BY <3>1, <4>1, FS_RemoveElement
      <4> QED
        BY <3>2, <4>1, <4>2
    <3>4. u[s] = p[s] - 1
      BY <2>1, <1>1, <1>2
    <3> QED
      BY <3>3, <3>4, <1>1
  <2>2. CASE s # r
    <3>1. ~Of(s, l[k]) /\ ~Of(s, m[k])
      BY <2>2, <1>4 DEF Of, r
    <3>2. \A j \in 1..Len(l) : Of(s, m[j]) <=> Of(s, l[j])
      BY <3>1, <1>4
    <3>3. At(m, s) = At(l, s)
      BY <3>2, <1>3 DEF At
    <3> QED
      BY <3>3, <2>2, <1>1, <1>2
  <2> QED
    BY <2>1, <2>2
<1>7. u \in [Receivers -> Nat]
  <2>1. u \in [Receivers -> Int]
    BY <1>1, <1>2
  <2> HIDE DEF u
  <2> QED
    BY <2>1, <1>6
<1>8. Once(m) /\ Falls(m, here)
  <2>1. here \in Nat
    BY <1>1
  <2> QED
    BY <2>1, <1>1, <1>3, <1>5, DeadenedIs
<1>9. DeadTo(m, there) /\ there \in 0..MaxList /\ there <= Len(m)
  <2>1. CASE there = start
    <3>1. start \in 0..Len(l)
      BY <1>1
    <3>2. DeadTo(m, start)
      BY <3>1, <1>1, <1>3, <1>5, DeadenedIs
    <3> QED
      BY <3>1, <3>2, <2>1, <1>1, <1>3
  <2>2. CASE there = k /\ \A j \in start + 1 .. k - 1 : ~l[j].live
    <3>1. ASSUME NEW j \in 1..k PROVE ~m[j].live
      <4>1. j \in 1..Len(l) /\ j <= k
        BY <1>1
      <4>2. j = k \/ j \in 1..start \/ j \in start + 1 .. k - 1
        BY <4>1, <1>1
      <4> QED
        BY <4>1, <4>2, <2>2, <1>1, <1>4 DEF DeadTo
    <3> QED
      BY <3>1, <2>2, <1>1, <1>3 DEF DeadTo
  <2> QED
    BY <2>1, <2>2
<1>10. Queue(m, u, there, here)
  <2> HIDE DEF u
  <2> QED
    BY <1>1, <1>3, <1>6, <1>7, <1>8, <1>9 DEF Queue
<1> QED
  BY <1>3, <1>5, <1>10 DEF r

\* m is what the list holds behind i; here was the insertion offset.
Erased(m, l, p, here, i) ==
  /\ Queue(m, p, 0, here - i)
  /\ DeadFrom(l, here) => DeadFrom(m, here - i)
  /\ DeadFrom(l, i) => DeadFrom(m, 0)
  /\ \A j \in 1..Len(m) : m[j].live => \E k \in 1..Len(l) : l[k] = m[j]

\* What is left of the list after the end of a pass for all receivers.
LEMMA ErasedQueue ==
  ASSUME NEW l, NEW p, NEW start, NEW ins, Queue(l, p, start, ins),
         NEW here \in 0..MaxList, Falls(l, here),
         NEW i \in start..Len(l), i <= here, \A j \in start + 1 .. i : ~l[j].live,
         NEW m, m = SubSeq(l, i + 1, Len(l))
  PROVE  Erased(m, l, p, here, i)
<1>1. /\ l \in Seq(Entries) /\ Len(l) \in Nat /\ Len(l) <= MaxList /\ MaxList \in Nat
      /\ start \in Nat /\ ins \in Nat /\ here \in Nat /\ i \in Nat /\ start <= Len(l)
      /\ p \in [Receivers -> Nat] /\ Once(l) /\ DeadTo(l, start)
      /\ \A s \in Receivers : p[s] = Cardinality(At(l, s))
  BY EventLoopAssumption DEF Queue
<1>2. i \in 0..Len(l)
  BY <1>1
<1>3. m \in Seq(Entries) /\ Len(m) = Len(l) - i /\ \A k \in 1..Len(l) - i : m[k] = l[k + i]
  <2> DEFINE a == i + 1
             b == Len(l)
  <2>1. a \in Int /\ b \in Int /\ a = i + 1 /\ b = Len(l) /\ i <= b
    BY <1>1, <1>2
  <2>2. \A k \in a..b : l[k] \in Entries
    BY <1>1, <1>2, ElementOfSeq
  <2>3. m = SubSeq(l, a, b)
    OBVIOUS
  <2> HIDE DEF a, b
  <2>4. /\ m \in Seq(Entries) /\ Len(m) = IF a <= b THEN b - a + 1 ELSE 0
        /\ \A k \in 1..b - a + 1 : m[k] = l[a + k - 1]
    BY <2>1, <2>2, <2>3, SubSeqProperties
  <2>5. b - a + 1 = Len(l) - i /\ (~(a <= b) => Len(l) - i = 0)
    BY <2>1, <1>1, <1>2
  <2>6. \A k \in 1..Len(l) - i : a + k - 1 = k + i
    BY <2>1, <1>2
  <2> QED
    BY <2>4, <2>5, <2>6
<1> DEFINE q == [n \in 1..Len(m) |-> n + i]
<1>4. \A n \in 1..Len(m) : q[n] = n + i
  OBVIOUS
<1> HIDE DEF q
<1>5. \A n \in 1..Len(m) : q[n] \in i + 1 .. Len(l) /\ q[n] \in 1..Len(l) /\ m[n] = l[q[n]]
  BY <1>2, <1>3, <1>4, <1>1
<1>6. Thins(q, m, l)
  <2>1. \A j, k \in 1..Len(m) : j < k => q[j] < q[k]
    BY <1>2, <1>4, <1>1, <1>3
  <2> QED
    BY <2>1, <1>5 DEF Thins
<1>7. here - i \in Nat /\ here - i \in 0..MaxList
  BY <1>1, <1>2
<1>8. \A k \in (here - i) + 1 .. Len(m) : q[k] > here
  BY <1>1, <1>2, <1>3, <1>4, <1>7
<1>9. \A k \in 0 + 1 .. Len(m) : q[k] > i
  BY <1>1, <1>2, <1>3, <1>4
<1>10. Once(m)
  BY <1>1, <1>3, <1>6, ThinnedSeq
<1>11. Falls(m, here - i) /\ (DeadFrom(l, here) => DeadFrom(m, here - i))
  <2> DEFINE d == here - i
  <2>1. d \in Nat /\ \A k \in d + 1 .. Len(m) : q[k] > here
    BY <1>7, <1>8
  <2> HIDE DEF d
  <2>2. Falls(m, d) /\ (DeadFrom(l, here) => DeadFrom(m, d))
    BY <2>1, <1>1, <1>3, <1>6, ThinnedSeq
  <2> QED
    BY <2>2 DEF d
<1>12. DeadFrom(l, i) => DeadFrom(m, 0)
  <2>1. \A a, b \in Nat : DeadFrom(l, a) /\ (\A k \in b + 1 .. Len(m) : q[k] > a) => DeadFrom(m, b)
    BY <1>1, <1>3, <1>6, ThinnedSeq
  <2> QED
    BY <2>1, <1>1, <1>9
<1>13. ASSUME NEW j \in 1..i PROVE ~l[j].live
  <2>1. j \in 1..start \/ j \in start + 1 .. i
    BY <1>1, <1>2
  <2> QED
    BY <2>1, <1>1 DEF DeadTo
<1>14. ASSUME NEW s \in Receivers PROVE Cardinality(At(m, s)) = Cardinality(At(l, s))
  <2>1. IsFiniteSet(At(m, s))
    BY <1>3, AtFinite
  <2>2. \A x \in At(m, s) : q[x] \in At(l, s)
    BY <1>5 DEF At
  <2>3. ASSUME NEW x \in At(m, s), NEW y \in At(m, s), q[x] = q[y] PROVE x = y
    <3>1. x \in 1..Len(m) /\ y \in 1..Len(m)
      BY DEF At
    <3> QED
      BY <3>1, <1>4, <1>2, <2>3
  <2>4. ASSUME NEW z \in At(l, s) PROVE \E x \in At(m, s) : q[x] = z
    <3>1. z \in 1..Len(l) /\ Of(s, l[z]) /\ l[z].live
      BY DEF At, Of
    <3>2. ~(z \in 1..i)
      BY <3>1, <1>13
    <3>3. z - i \in 1..Len(m) /\ (z - i) + i = z
      BY <3>1, <3>2, <1>1, <1>2, <1>3
    <3>4. q[z - i] = z
      BY <3>3, <1>4
    <3>5. z - i \in At(m, s)
      BY <3>1, <3>3, <3>4, <1>5 DEF At
    <3> QED
      BY <3>4, <3>5
  <2> QED
    BY <2>1, <2>2, <2>3, <2>4, SameCount
<1>15. Queue(m, p, 0, here - i)
  <2>1. DeadTo(m, 0) /\ 0 \in 0..MaxList /\ 0 <= here - i /\ 0 <= Len(m) /\ Len(m) <= MaxList
    BY <1>1, <1>2, <1>3, <1>7 DEF DeadTo
  <2>2. \A s \in Receivers : p[s] = Cardinality(At(m, s))
    BY <1>1, <1>14
  <2> QED
    BY <2>1, <2>2, <1>1, <1>3, <1>7, <1>10, <1>11 DEF Queue
<1>16. \A j \in 1..Len(m) : m[j].live => \E k \in 1..Len(l) : l[k] = m[j]
  BY <1>5
<1> QED
  BY <1>11, <1>12, <1>15, <1>16 DEF Erased

\* The loop of sendPostedEvents() delivers an entry that is due, or ends.
LEMMA SendFromIs ==
  ASSUME list \in Seq(Entries), NEW i \in Nat, NEW here \in Nat, NEW mayWait \in BOOLEAN,
         mayWait => DeadFrom(list, here),
         top.receiver = All => i <= Len(list) /\ i <= here,
         SendFrom(i, here, mayWait)
  PROVE  \/ \E k \in i + 1 .. Len(list), wait \in BOOLEAN :
              /\ k <= here /\ For(top.receiver, list[k]) /\ (wait => mayWait)
              /\ top.receiver = All => \A j \in i + 1 .. k - 1 : ~list[j].live
              /\ Deliver(k, here, wait)
         \/ \E n \in Nat, wait \in BOOLEAN :
              /\ wait => mayWait
              /\ top.receiver = All =>
                   /\ i <= n /\ n <= Len(list) /\ n <= here
                   /\ \A j \in i + 1 .. n : ~list[j].live
                   /\ wait => DeadFrom(list, n)
              /\ Finish(n, here, wait)
<1> DEFINE end    == IF here < Len(list) THEN here ELSE Len(list)
           due    == {k \in i + 1 .. end : For(top.receiver, list[k])}
           next   == CHOOSE k \in due : \A j \in due : k <= j
           last   == IF due # {} THEN next - 1 ELSE end
           passes == \E k \in i + 1 .. last : list[k].live
           wait   == mayWait /\ ~passes
           n      == IF i < end THEN end ELSE i
<1>1. Len(list) \in Nat /\ end \in Nat /\ end <= here /\ end <= Len(list)
  OBVIOUS
<1>2. IF due # {} THEN Deliver(next, here, wait) ELSE Finish(n, here, wait)
  BY DEF SendFrom
<1>3. end = here \/ end = Len(list)
  OBVIOUS
<1>4. wait \in BOOLEAN /\ (wait => mayWait)
  OBVIOUS
<1>5. wait /\ due = {} => \A k \in i + 1 .. end : ~list[k].live
  OBVIOUS
<1>6. \A k \in due : k \in i + 1 .. end /\ For(top.receiver, list[k])
  OBVIOUS
<1>7. \A k \in i + 1 .. end : For(top.receiver, list[k]) => k \in due
  OBVIOUS
<1> HIDE DEF end, wait
<1>8. CASE due # {}
  <2>1. due \in SUBSET Nat
    BY <1>1
  <2>2. \E k \in due : \A j \in due : k <= j
    <3> HIDE DEF due
    <3> QED
      BY <2>1, <1>8, Least
  <2>3. next \in due /\ \A j \in due : next <= j
    BY <2>2
  <2>4. Deliver(next, here, wait)
    BY <1>2, <1>8
  <2> HIDE DEF next, due
  <2>5. next \in i + 1 .. Len(list) /\ next <= here /\ For(top.receiver, list[next])
    BY <2>3, <1>1, <1>6
  <2>6. ASSUME top.receiver = All, NEW j \in i + 1 .. next - 1, list[j].live PROVE FALSE
    <3>1. j \in i + 1 .. end /\ ~(next <= j)
      BY <2>3, <1>6, <1>1
    <3>2. For(top.receiver, list[j])
      BY <2>6 DEF For
    <3> QED
      BY <3>1, <3>2, <2>3, <1>7
  <2> QED
    BY <2>4, <2>5, <2>6, <1>4
<1>9. CASE due = {}
  <2>1. Finish(n, here, wait)
    BY <1>2, <1>9
  <2>2. n \in Nat /\ (n = end \/ n = i) /\ n >= end /\ n >= i /\ (i < end => n = end)
    BY <1>1
  <2> HIDE DEF n, due
  <2>3. ASSUME top.receiver = All
        PROVE  /\ i <= n /\ n <= Len(list) /\ n <= here
               /\ \A j \in i + 1 .. n : ~list[j].live
               /\ wait => DeadFrom(list, n)
    <3>1. i <= n /\ n <= Len(list) /\ n <= here
      BY <2>2, <2>3, <1>1
    <3>2. ASSUME NEW j \in i + 1 .. n, list[j].live PROVE FALSE
      <4>1. j \in i + 1 .. end
        BY <2>2, <1>1
      <4>2. For(top.receiver, list[j])
        BY <2>3, <3>2 DEF For
      <4> QED
        BY <4>1, <4>2, <1>7, <1>9
    <3>3. ASSUME wait PROVE DeadFrom(list, n)
      <4>1. CASE end = here
        <5>1. n = here
          BY <4>1, <2>2, <3>1, <1>1
        <5> QED
          BY <5>1, <3>3, <1>4
      <4>2. CASE end = Len(list)
        <5>1. n = Len(list)
          BY <4>2, <2>2, <3>1, <1>1
        <5> QED
          BY <5>1, <1>1 DEF DeadFrom
      <4> QED
        BY <4>1, <4>2, <1>3
    <3> QED
      BY <3>1, <3>2, <3>3
  <2> QED
    BY <2>1, <2>2, <2>3, <1>4
<1> QED
  BY <1>8, <1>9

-----------------------------------------------------------------------------
(* The stack.                                                              *)

\* A call of processEvents() is in the midst of sendPostedEvents(), or of the
\* handler of a timer or socket, when another frame lies on it.
Under(f, g) ==
  f.fn = "process" => \/ f.at = "sent" /\ g.fn = "send" /\ g.receiver = All
                      \/ f.at = "done" /\ g.fn = "handler"

Framed(s) == s \in Seq(Frames) /\ \A k \in 1..Len(s) - 1 : Under(s[k], s[k + 1])

Senders(s) == {k \in 1..Len(s) : s[k].fn = "send"}

\* A pass for all receivers has begun: its frame is f.
Pass(f) == f.fn = "send" /\ f.at = "loop" /\ f.receiver = All

Passing(s) == \E k \in 1..Len(s) : Pass(s[k])

\* m has the frames of s but for what does not count here.
Alike(m, s) ==
  /\ m \in Seq(Frames) /\ Len(m) = Len(s)
  /\ \A k \in 1..Len(s) :
       /\ m[k].fn = s[k].fn
       /\ k < Len(s) /\ s[k].fn = "process" => m[k].at = s[k].at
       /\ s[k].fn = "send" => m[k].receiver = s[k].receiver /\ (s[k].at = "loop" => m[k].at = "loop")

LEMMA SendersFinite ==
  ASSUME NEW s \in Seq(Frames)
  PROVE  IsFiniteSet(Senders(s)) /\ Cardinality(Senders(s)) \in Nat
<1>1. IsFiniteSet(1..Len(s))
  BY FS_Interval
<1>2. IsFiniteSet(Senders(s))
  BY <1>1, FS_Subset DEF Senders
<1> QED
  BY <1>2, FS_CardinalityType

LEMMA StackAlike ==
  ASSUME NEW s, Framed(s), NEW m, Alike(m, s)
  PROVE  /\ Framed(m) /\ Senders(m) = Senders(s)
         /\ Passing(s) => Passing(m)
<1>1. Len(s) \in Nat /\ Len(m) = Len(s) /\ m \in Seq(Frames)
  BY DEF Framed, Alike
<1>2. ASSUME NEW k \in 1..Len(m) - 1 PROVE Under(m[k], m[k + 1])
  <2>1. k \in 1..Len(s) /\ k + 1 \in 1..Len(s) /\ k < Len(s) /\ Under(s[k], s[k + 1])
    BY <1>1 DEF Framed
  <2> QED
    BY <2>1 DEF Under, Alike
<1>3. Senders(m) = Senders(s)
  BY <1>1 DEF Senders, Alike
<1>4. Passing(s) => Passing(m)
  BY <1>1 DEF Passing, Pass, Alike
<1> QED
  BY <1>1, <1>2, <1>3, <1>4 DEF Framed

LEMMA StackPushed ==
  ASSUME NEW s, Framed(s), NEW g \in Frames, s # <<>> => Under(s[Len(s)], g),
         NEW m, m = Append(s, g)
  PROVE  /\ Framed(m) /\ m # <<>> /\ Len(m) = Len(s) + 1 /\ m[Len(m)] = g
         /\ Cardinality(Senders(m)) = Cardinality(Senders(s)) + (IF g.fn = "send" THEN 1 ELSE 0)
         /\ Passing(s) => Passing(m)
<1>1. s \in Seq(Frames) /\ Len(s) \in Nat
  BY DEF Framed
<1>2. m \in Seq(Frames) /\ Len(m) = Len(s) + 1 /\ m[Len(s) + 1] = g
      /\ \A k \in 1..Len(s) : m[k] = s[k]
  BY <1>1
<1>3. ASSUME NEW k \in 1..Len(m) - 1 PROVE Under(m[k], m[k + 1])
  <2>1. k \in 1..Len(s) /\ m[k] = s[k]
    BY <1>1, <1>2
  <2>2. CASE k = Len(s)
    <3>1. s # <<>> /\ m[k + 1] = g
      BY <2>1, <2>2, <1>1, <1>2
    <3> QED
      BY <3>1, <2>1, <2>2
  <2>3. CASE k # Len(s)
    <3>1. k \in 1..Len(s) - 1 /\ m[k + 1] = s[k + 1]
      BY <2>1, <2>3, <1>1, <1>2
    <3> QED
      BY <3>1, <2>1 DEF Framed
  <2> QED
    BY <2>2, <2>3
<1>4. IsFiniteSet(Senders(s)) /\ Cardinality(Senders(s)) \in Nat
  BY <1>1, SendersFinite
<1>5. ASSUME g.fn = "send" PROVE Cardinality(Senders(m)) = Cardinality(Senders(s)) + 1
  <2>1. Senders(m) = Senders(s) \cup {Len(s) + 1} /\ ~(Len(s) + 1 \in Senders(s))
    BY <1>1, <1>2, <1>5 DEF Senders
  <2>2. Cardinality(Senders(s) \cup {Len(s) + 1}) = Cardinality(Senders(s)) + 1
    BY <2>1, <1>4, FS_AddElement
  <2> QED
    BY <2>1, <2>2, Zenon
<1>6. ASSUME g.fn # "send" PROVE Cardinality(Senders(m)) = Cardinality(Senders(s)) + 0
  <2>1. Senders(m) = Senders(s)
    BY <1>1, <1>2, <1>6 DEF Senders
  <2>2. Cardinality(Senders(s)) + 0 = Cardinality(Senders(s))
    BY <1>4
  <2> QED
    BY <2>1, <2>2, Zenon
<1>7. Cardinality(Senders(m)) = Cardinality(Senders(s)) + (IF g.fn = "send" THEN 1 ELSE 0)
  BY <1>5, <1>6
<1>8. Passing(s) => Passing(m)
  BY <1>1, <1>2 DEF Passing
<1>9. m # <<>>
  BY <1>1, <1>2
<1> QED
  BY <1>2, <1>3, <1>7, <1>8, <1>9 DEF Framed

LEMMA StackPopped ==
  ASSUME NEW s, Framed(s), s # <<>>, NEW m, m = Front(s)
  PROVE  /\ Framed(m) /\ Len(m) = Len(s) - 1
         /\ Cardinality(Senders(m)) = Cardinality(Senders(s)) - (IF s[Len(s)].fn = "send" THEN 1 ELSE 0)
         /\ Passing(s) /\ ~Pass(s[Len(s)]) => Passing(m)
         /\ m # <<>> => Under(m[Len(m)], s[Len(s)])
<1>1. s \in Seq(Frames) /\ Len(s) \in Nat /\ Len(s) >= 1
  BY DEF Framed
<1>2. m \in Seq(Frames) /\ Len(m) = Len(s) - 1 /\ \A k \in 1..Len(s) - 1 : m[k] = s[k]
  <2> DEFINE b == Len(s) - 1
  <2>1. b \in Nat /\ \A k \in 1..b : s[k] \in Frames
    BY <1>1, ElementOfSeq
  <2>2. m = SubSeq(s, 1, b)
    BY DEF Front
  <2> HIDE DEF b
  <2>3. (1 <= b => b - 1 + 1 = b) /\ (~(1 <= b) => b = 0)
    BY <2>1
  <2>4. /\ m \in Seq(Frames) /\ Len(m) = IF 1 <= b THEN b - 1 + 1 ELSE 0
        /\ \A k \in 1..b - 1 + 1 : m[k] = s[1 + k - 1]
    BY <2>1, <2>2, SubSeqProperties
  <2>5. \A k \in 1..b : k \in 1..b - 1 + 1 /\ 1 + k - 1 = k
    BY <2>1
  <2>6. m \in Seq(Frames) /\ Len(m) = b /\ \A k \in 1..b : m[k] = s[k]
    BY <2>3, <2>4, <2>5
  <2> QED
    BY <2>6 DEF b
<1>3. ASSUME NEW k \in 1..Len(m) - 1 PROVE Under(m[k], m[k + 1])
  <2>1. k \in 1..Len(s) - 1 /\ k + 1 \in 1..Len(s) - 1
    BY <1>1, <1>2
  <2> QED
    BY <2>1, <1>2 DEF Framed
<1>4. IsFiniteSet(Senders(s)) /\ Cardinality(Senders(s)) \in Nat
  BY <1>1, SendersFinite
<1>5. ASSUME s[Len(s)].fn = "send" PROVE Cardinality(Senders(m)) = Cardinality(Senders(s)) - 1
  <2>1. Senders(m) = Senders(s) \ {Len(s)} /\ Len(s) \in Senders(s)
    BY <1>1, <1>2, <1>5 DEF Senders
  <2>2. Cardinality(Senders(s) \ {Len(s)}) = Cardinality(Senders(s)) - 1
    BY <2>1, <1>4, FS_RemoveElement
  <2> QED
    BY <2>1, <2>2, Zenon
<1>6. ASSUME s[Len(s)].fn # "send" PROVE Cardinality(Senders(m)) = Cardinality(Senders(s)) - 0
  <2>1. Senders(m) = Senders(s)
    BY <1>1, <1>2, <1>6 DEF Senders
  <2>2. Cardinality(Senders(s)) - 0 = Cardinality(Senders(s))
    BY <1>4
  <2> QED
    BY <2>1, <2>2, Zenon
<1>7. Cardinality(Senders(m)) = Cardinality(Senders(s)) - (IF s[Len(s)].fn = "send" THEN 1 ELSE 0)
  BY <1>5, <1>6
<1>8. Passing(s) /\ ~Pass(s[Len(s)]) => Passing(m)
  BY <1>1, <1>2 DEF Passing
<1>9. m # <<>> => Under(m[Len(m)], s[Len(s)])
  <2> SUFFICES ASSUME m # <<>> PROVE Under(m[Len(m)], s[Len(s)])
    OBVIOUS
  <2>1. Len(s) - 1 \in 1..Len(s) - 1 /\ (Len(s) - 1) + 1 = Len(s)
    BY <1>1, <1>2
  <2>2. Under(s[Len(s) - 1], s[(Len(s) - 1) + 1])
    BY <2>1 DEF Framed
  <2> QED
    BY <2>1, <2>2, <1>2
<1> QED
  BY <1>2, <1>3, <1>7, <1>8, <1>9 DEF Framed

Places == {"begin", "awake", "sent", "interrupted", "poll", "check", "reset", "timers", "done"}

LEMMA FrameFacts ==
  ASSUME NEW f \in Frames
  PROVE  /\ f.fn \in {"exec", "process", "send", "handler"}
         /\ f.fn = "exec" => f.exit \in BOOLEAN
         /\ f.fn = "process" => f.at \in Places /\ f.wait \in BOOLEAN
         /\ f.fn = "send" => /\ f.at \in {"begin", "loop"} /\ f.receiver \in Receivers \cup {All}
                             /\ f.index \in 0..MaxList
         /\ f.fn = "handler" => f.used \in BOOLEAN
BY DEF Frames, Places

\* What the steps make of a frame.
LEMMA FrameChanges ==
  ASSUME NEW f \in Frames
  PROVE  /\ f.fn = "exec" => [f EXCEPT !.exit = TRUE] \in Frames /\ [f EXCEPT !.exit = TRUE].fn = "exec"
         /\ f.fn = "handler" => [f EXCEPT !.used = TRUE] \in Frames /\ [f EXCEPT !.used = TRUE].fn = "handler"
<1>1. ASSUME f.fn = "exec" PROVE [f EXCEPT !.exit = TRUE] \in Frames /\ [f EXCEPT !.exit = TRUE].fn = "exec"
  <2>1. f \in [fn : {"exec"}, exit : BOOLEAN]
    BY <1>1 DEF Frames
  <2>2. [f EXCEPT !.exit = TRUE] \in [fn : {"exec"}, exit : BOOLEAN]
    BY <2>1
  <2> QED
    BY <2>2 DEF Frames
<1>2. ASSUME f.fn = "handler" PROVE [f EXCEPT !.used = TRUE] \in Frames /\ [f EXCEPT !.used = TRUE].fn = "handler"
  <2>1. f \in [fn : {"handler"}, used : BOOLEAN]
    BY <1>2 DEF Frames
  <2>2. [f EXCEPT !.used = TRUE] \in [fn : {"handler"}, used : BOOLEAN]
    BY <2>1
  <2> QED
    BY <2>2 DEF Frames
<1> QED
  BY <1>1, <1>2, Zenon

LEMMA ProcessMoves ==
  ASSUME NEW f \in Frames, f.fn = "process", NEW w \in Places,
         NEW g, g = [f EXCEPT !.at = w]
  PROVE  g \in Frames /\ g.fn = "process" /\ g.at = w /\ g.wait = f.wait
<1>1. f \in [fn : {"process"}, wait : BOOLEAN, at : Places]
  BY DEF Frames, Places
<1>2. g \in [fn : {"process"}, wait : BOOLEAN, at : Places] /\ g.at = w /\ g.wait = f.wait
  BY <1>1
<1> QED
  BY <1>2 DEF Frames, Places

LEMMA SendMoves ==
  ASSUME NEW f \in Frames, f.fn = "send", NEW n \in 0..MaxList,
         NEW g, g = [f EXCEPT !.at = "loop", !.index = n]
  PROVE  g \in Frames /\ g.fn = "send" /\ g.at = "loop" /\ g.receiver = f.receiver
<1> DEFINE F == [fn : {"send"}, at : {"begin", "loop"}, receiver : Receivers \cup {All}, index : 0..MaxList]
<1>1. f \in F
  BY DEF Frames
<1>2. g \in F /\ g.at = "loop" /\ g.receiver = f.receiver
  BY <1>1
<1>3. \A x \in F : x \in Frames /\ x.fn = "send"
  BY DEF Frames
<1> HIDE DEF F
<1> QED
  BY <1>2, <1>3, Zenon

LEMMA ProcessWaits ==
  ASSUME NEW f \in Frames, f.fn = "process", NEW b \in BOOLEAN,
         NEW g, g = [f EXCEPT !.wait = b]
  PROVE  g \in Frames /\ g.fn = "process" /\ g.at = f.at /\ g.wait = b
<1>1. f \in [fn : {"process"}, wait : BOOLEAN, at : Places]
  BY DEF Frames, Places
<1>2. g \in [fn : {"process"}, wait : BOOLEAN, at : Places] /\ g.at = f.at /\ g.wait = b
  BY <1>1
<1> QED
  BY <1>2 DEF Frames, Places

LEMMA NewFrames ==
  /\ ExecFrame \in Frames /\ ExecFrame.fn = "exec"
  /\ HandlerFrame \in Frames /\ HandlerFrame.fn = "handler"
  /\ \A b \in BOOLEAN : /\ ProcessFrame(b) \in Frames /\ ProcessFrame(b).fn = "process"
                        /\ ProcessFrame(b).at = "begin"
  /\ \A r \in Receivers \cup {All} : /\ SendFrame(r) \in Frames /\ SendFrame(r).fn = "send"
                                     /\ SendFrame(r).receiver = r
BY EventLoopAssumption DEF ExecFrame, HandlerFrame, ProcessFrame, SendFrame, Frames

\* Where the thread is: in processEvents(), at w; about to sleep or asleep.
IsAt(s, w) == s # <<>> /\ s[Len(s)].fn = "process" /\ s[Len(s)].at = w

Waiting(s) ==
  /\ s # <<>> /\ s[Len(s)].fn = "process" /\ s[Len(s)].at \in {"interrupted", "poll"}
  /\ s[Len(s)].wait

\* The thread goes on in frame g.
LandsOn(g) ==
  /\ \A w : IsAt(stack', w) <=> g.fn = "process" /\ g.at = w
  /\ Waiting(stack') <=> g.fn = "process" /\ g.at \in {"interrupted", "poll"} /\ g.wait

LEMMA TopIs ==
  ASSUME Framed(stack), stack # <<>>
  PROVE  Len(stack) \in 1..Len(stack) /\ top \in Frames /\ Len(stack) \in Nat
<1>1. stack \in Seq(Frames) /\ Len(stack) \in Nat /\ Len(stack) >= 1
  BY DEF Framed
<1>2. Len(stack) \in 1..Len(stack)
  BY <1>1
<1> QED
  BY <1>1, <1>2, ElementOfSeq DEF top

LEMMA LandsOnTop ==
  ASSUME stack' # <<>>, NEW g, stack'[Len(stack')] = g
  PROVE  LandsOn(g)
BY DEF LandsOn, IsAt, Waiting

LEMMA ReplaceIs ==
  ASSUME Framed(stack), stack # <<>>, NEW f \in Frames, f.fn = top.fn,
         top.fn = "send" => f.receiver = top.receiver /\ f.at = "loop",
         NEW m, m = [stack EXCEPT ![Len(stack)] = f]
  PROVE  /\ Alike(m, stack) /\ m # <<>> /\ m[Len(m)] = f
         /\ Framed(m) /\ Senders(m) = Senders(stack) /\ (Passing(stack) => Passing(m))
<1>1. stack \in Seq(Frames) /\ Len(stack) \in 1..Len(stack) /\ Len(stack) \in Nat
  BY TopIs DEF Framed
<1>2. /\ m \in Seq(Frames) /\ Len(m) = Len(stack) /\ m[Len(stack)] = f
      /\ \A k \in 1..Len(stack) : k # Len(stack) => m[k] = stack[k]
  BY <1>1
<1>3. Alike(m, stack)
  <2> SUFFICES ASSUME NEW k \in 1..Len(stack)
               PROVE  /\ m[k].fn = stack[k].fn
                      /\ k < Len(stack) /\ stack[k].fn = "process" => m[k].at = stack[k].at
                      /\ stack[k].fn = "send" =>
                           m[k].receiver = stack[k].receiver /\ (stack[k].at = "loop" => m[k].at = "loop")
    BY <1>2 DEF Alike
  <2>1. CASE k = Len(stack)
    BY <2>1, <1>1, <1>2 DEF top
  <2>2. CASE k # Len(stack)
    BY <2>2, <1>2
  <2> QED
    BY <2>1, <2>2
<1>4. m # <<>>
  BY <1>1, <1>2
<1> QED
  BY <1>2, <1>3, <1>4, StackAlike

\* QEventLoop::exit() marks the frame of its loop.
LEMMA MarkIs ==
  ASSUME Framed(stack), NEW k \in Loops, NEW m, m = [stack EXCEPT ![k].exit = TRUE]
  PROVE  /\ Alike(m, stack) /\ m # <<>>
         /\ Framed(m) /\ Senders(m) = Senders(stack) /\ (Passing(stack) => Passing(m))
         /\ \A w : IsAt(m, w) <=> IsAt(stack, w)
         /\ Waiting(m) <=> Waiting(stack)
         /\ \A j \in 1..Len(stack) : j # k => m[j] = stack[j]
<1>1. stack \in Seq(Frames) /\ Len(stack) \in Nat /\ k \in 1..Len(stack) /\ stack[k].fn = "exec"
      /\ stack[k] \in Frames
  BY ElementOfSeq DEF Framed, Loops
<1>2. [stack[k] EXCEPT !.exit = TRUE] \in Frames /\ [stack[k] EXCEPT !.exit = TRUE].fn = "exec"
  BY <1>1, FrameChanges
<1>3. m = [stack EXCEPT ![k] = [stack[k] EXCEPT !.exit = TRUE]]
  OBVIOUS
<1>4. /\ m \in Seq(Frames) /\ Len(m) = Len(stack) /\ m[k].fn = "exec"
      /\ \A j \in 1..Len(stack) : j # k => m[j] = stack[j]
  BY <1>1, <1>2, <1>3
<1>5. Alike(m, stack)
  BY <1>1, <1>4 DEF Alike
<1>6. m # <<>> /\ stack # <<>> /\ Len(stack) \in 1..Len(stack)
  BY <1>1, <1>4
<1>7. CASE k = Len(stack)
  <2>1. m[Len(m)].fn = "exec" /\ stack[Len(stack)].fn = "exec"
    BY <1>1, <1>4, <1>7
  <2>2. (\A w : IsAt(m, w) <=> IsAt(stack, w)) /\ (Waiting(m) <=> Waiting(stack))
    BY <2>1 DEF IsAt, Waiting
  <2> QED
    BY <2>2, <1>4, <1>5, <1>6, StackAlike
<1>8. CASE k # Len(stack)
  <2>1. m[Len(m)] = stack[Len(stack)]
    BY <1>4, <1>6, <1>8
  <2>2. (\A w : IsAt(m, w) <=> IsAt(stack, w)) /\ (Waiting(m) <=> Waiting(stack))
    BY <2>1, <1>6 DEF IsAt, Waiting
  <2> QED
    BY <2>2, <1>4, <1>5, <1>6, StackAlike
<1> QED
  BY <1>7, <1>8

LEMMA Replacing ==
  ASSUME Framed(stack), stack # <<>>, NEW f \in Frames, f.fn = top.fn,
         top.fn = "send" => f.receiver = top.receiver /\ f.at = "loop",
         Replace(f)
  PROVE  /\ Framed(stack') /\ Senders(stack') = Senders(stack)
         /\ Passing(stack) => Passing(stack')
         /\ LandsOn(f)
<1> DEFINE m == [stack EXCEPT ![Len(stack)] = f]
<1>1. stack' = m
  BY DEF Replace
<1>2. /\ m # <<>> /\ m[Len(m)] = f
      /\ Framed(m) /\ Senders(m) = Senders(stack) /\ (Passing(stack) => Passing(m))
  <2> DEFINE n == m
  <2>1. n = [stack EXCEPT ![Len(stack)] = f]
    OBVIOUS
  <2> HIDE DEF n, m
  <2>2. /\ n # <<>> /\ n[Len(n)] = f
        /\ Framed(n) /\ Senders(n) = Senders(stack) /\ (Passing(stack) => Passing(n))
    BY <2>1, ReplaceIs
  <2> QED
    BY <2>2 DEF n
<1> HIDE DEF m
<1>3. stack' # <<>> /\ stack'[Len(stack')] = f
  BY <1>1, <1>2
<1> QED
  BY <1>1, <1>2, <1>3, LandsOnTop

LEMMA Pushing ==
  ASSUME Framed(stack), stack # <<>>, NEW f \in Frames, f.fn = top.fn,
         top.fn = "send" => f.receiver = top.receiver /\ f.at = "loop",
         NEW g \in Frames, Under(f, g),
         ReplaceAndPush(f, g)
  PROVE  /\ Framed(stack')
         /\ Cardinality(Senders(stack')) = Cardinality(Senders(stack)) + (IF g.fn = "send" THEN 1 ELSE 0)
         /\ Passing(stack) \/ Pass(f) => Passing(stack')
         /\ LandsOn(g)
<1> DEFINE m == [stack EXCEPT ![Len(stack)] = f]
           n == Append(m, g)
<1>1. stack' = n
  BY DEF ReplaceAndPush
<1>2. m = [stack EXCEPT ![Len(stack)] = f]
  OBVIOUS
<1>3. n = Append(m, g)
  OBVIOUS
<1> HIDE DEF m, n
<1>4. /\ m # <<>> /\ m[Len(m)] = f
      /\ Framed(m) /\ Senders(m) = Senders(stack) /\ (Passing(stack) => Passing(m))
  BY <1>2, ReplaceIs
<1>5. Pass(f) => Passing(m)
  <2>1. Len(m) \in 1..Len(m)
    <3>1. m \in Seq(Frames) /\ m # <<>>
      BY <1>4 DEF Framed
    <3> QED
      BY <3>1
  <2> QED
    BY <2>1, <1>4 DEF Passing
<1>6. /\ Framed(n) /\ n # <<>> /\ n[Len(n)] = g
      /\ Cardinality(Senders(n)) = Cardinality(Senders(m)) + (IF g.fn = "send" THEN 1 ELSE 0)
      /\ Passing(m) => Passing(n)
  <2>1. m # <<>> => Under(m[Len(m)], g)
    BY <1>4
  <2> QED
    BY <2>1, <1>3, <1>4, StackPushed
<1>7. LandsOn(g)
  BY <1>1, <1>6, LandsOnTop
<1>8. /\ Framed(n) /\ (Passing(stack) \/ Pass(f) => Passing(n))
      /\ Cardinality(Senders(n)) = Cardinality(Senders(stack)) + (IF g.fn = "send" THEN 1 ELSE 0)
  BY <1>4, <1>5, <1>6, Zenon
<1> QED
  BY <1>1, <1>7, <1>8, Zenon

LEMMA Popping ==
  ASSUME Framed(stack), stack # <<>>, Pop
  PROVE  /\ Framed(stack')
         /\ Cardinality(Senders(stack')) = Cardinality(Senders(stack)) - (IF top.fn = "send" THEN 1 ELSE 0)
         /\ Passing(stack) /\ ~Pass(top) => Passing(stack')
         /\ \A w : IsAt(stack', w) => \/ w = "sent" /\ top.fn = "send" /\ top.receiver = All
                                      \/ w = "done" /\ top.fn = "handler"
         /\ ~Waiting(stack')
<1> DEFINE m == Front(stack)
<1>1. stack' = m /\ m = Front(stack)
  BY DEF Pop
<1> HIDE DEF m
<1>2. /\ Framed(m)
      /\ Cardinality(Senders(m)) = Cardinality(Senders(stack)) - (IF top.fn = "send" THEN 1 ELSE 0)
      /\ Passing(stack) /\ ~Pass(top) => Passing(m)
      /\ m # <<>> => Under(m[Len(m)], top)
  <2>1. /\ Framed(m)
        /\ Cardinality(Senders(m)) = Cardinality(Senders(stack)) - (IF stack[Len(stack)].fn = "send" THEN 1 ELSE 0)
        /\ Passing(stack) /\ ~Pass(stack[Len(stack)]) => Passing(m)
        /\ m # <<>> => Under(m[Len(m)], stack[Len(stack)])
    BY <1>1, StackPopped
  <2> QED
    BY <2>1 DEF top
<1>3. ASSUME NEW w, IsAt(m, w)
      PROVE  \/ w = "sent" /\ top.fn = "send" /\ top.receiver = All
             \/ w = "done" /\ top.fn = "handler"
  BY <1>2, <1>3 DEF IsAt, Under
<1>4. ~Waiting(m)
  BY <1>2 DEF Waiting, Under
<1> QED
  BY <1>1, <1>2, <1>3, <1>4, Zenon

-----------------------------------------------------------------------------
(* The invariant.                                                          *)

Types ==
  /\ canWait \in BOOLEAN /\ interrupt \in BOOLEAN /\ wakeUps \in BOOLEAN
  /\ readable \in BOOLEAN /\ swallowed \in BOOLEAN
  /\ at \in [Threads -> {"idle", "interrupt", "wakeUp", "write"}]

Stacked == Framed(stack) /\ recursion = Cardinality(Senders(stack))

Held == Queue(list, posted, startOffset, insertionOffset)

\* The shared position is not at the beginning only while a pass for all is under way.
Counted == startOffset > 0 => Passing(stack)

\* canWait promises that nothing was posted behind the insertion offset, and
\* to processEvents(), once the events are sent, that the list holds nothing.
Promised == canWait => DeadFrom(list, insertionOffset)

Sent == IsAt(stack, "sent") /\ canWait => DeadFrom(list, 0)

Coming == readable \/ \E t \in Threads : at[t] \in {"wakeUp", "write"}

\* The thread is about to sleep over an event only if it will be woken.
Woken == Waiting(stack) => DeadFrom(list, 0) \/ Coming

\* wakeUps is set when exactly one of these holds: the pipe is readable, the
\* thread has read it and is about to reset wakeUps, a thread is about to write.
OneToken ==
  /\ readable => wakeUps /\ ~IsAt(stack, "reset") /\ \A t \in Threads : at[t] # "write"
  /\ IsAt(stack, "check") => readable
  /\ IsAt(stack, "reset") => wakeUps /\ \A t \in Threads : at[t] # "write"
  /\ \A t, u \in Threads : at[t] = "write" => wakeUps /\ (at[u] = "write" => t = u)
  /\ wakeUps => readable \/ IsAt(stack, "reset") \/ \E t \in Threads : at[t] = "write"

IInv == Types /\ Stacked /\ Held /\ Counted /\ Promised /\ Sent /\ Woken /\ OneToken

\* With no call of sendPostedEvents() under way the shared position is at the beginning.
LEMMA AtRest ==
  ASSUME Stacked, Held, Counted
  PROVE  recursion = 0 => startOffset = 0
<1> SUFFICES ASSUME recursion = 0, startOffset # 0 PROVE FALSE
  OBVIOUS
<1>1. startOffset \in Nat
  BY EventLoopAssumption DEF Held, Queue
<1>2. PICK k \in 1..Len(stack) : Pass(stack[k])
  BY <1>1 DEF Counted, Passing
<1>3. k \in Senders(stack)
  BY <1>2 DEF Pass, Senders
<1>4. IsFiniteSet(Senders(stack)) /\ Cardinality(Senders(stack)) = 0
  BY SendersFinite DEF Stacked, Framed
<1>5. Senders(stack) = {}
  BY <1>4, FS_EmptySet
<1> QED
  BY <1>3, <1>5

LEMMA Calling ==
  ASSUME Framed(stack), NEW g \in Frames, stack # <<>> => Under(top, g),
         stack' = Append(stack, g)
  PROVE  /\ Framed(stack')
         /\ Cardinality(Senders(stack')) = Cardinality(Senders(stack)) + (IF g.fn = "send" THEN 1 ELSE 0)
         /\ Passing(stack) => Passing(stack')
         /\ LandsOn(g)
<1>1. stack # <<>> => Under(stack[Len(stack)], g)
  BY DEF top
<1>2. /\ Framed(stack') /\ stack' # <<>> /\ stack'[Len(stack')] = g
      /\ Cardinality(Senders(stack')) = Cardinality(Senders(stack)) + (IF g.fn = "send" THEN 1 ELSE 0)
      /\ Passing(stack) => Passing(stack')
  <2> DEFINE m == stack'
  <2>1. m = Append(stack, g)
    OBVIOUS
  <2> HIDE DEF m
  <2>2. /\ Framed(m) /\ m # <<>> /\ m[Len(m)] = g
        /\ Cardinality(Senders(m)) = Cardinality(Senders(stack)) + (IF g.fn = "send" THEN 1 ELSE 0)
        /\ Passing(stack) => Passing(m)
    BY <1>1, <2>1, StackPushed
  <2> QED
    BY <2>2 DEF m
<1> QED
  BY <1>2, LandsOnTop

LEMMA TopOf ==
  ASSUME IInv, NEW fn, In(fn)
  PROVE  /\ Framed(stack) /\ stack # <<>> /\ top \in Frames /\ top.fn = fn
         /\ \A w : IsAt(stack, w) <=> fn = "process" /\ top.at = w
         /\ Waiting(stack) <=> fn = "process" /\ top.at \in {"interrupted", "poll"} /\ top.wait
BY TopIs DEF In, IInv, Stacked, IsAt, Waiting, top

\* The list and its offsets are left alone.
LEMMA ListLeft ==
  ASSUME IInv, UNCHANGED <<list, startOffset, insertionOffset, posted, canWait>>,
         Passing(stack) => Passing(stack')
  PROVE  Held' /\ Counted' /\ Promised'
<1>1. Held' /\ Promised'
  BY DEF IInv, Held, Promised
<1>2. Counted'
  BY DEF IInv, Counted
<1> QED
  BY <1>1, <1>2

\* The pipe is left alone.
LEMMA TokenLeft ==
  ASSUME OneToken, UNCHANGED <<wakeUps, readable, at>>,
         IsAt(stack', "check") => readable, IsAt(stack', "reset") <=> IsAt(stack, "reset")
  PROVE  OneToken'
BY DEF OneToken

\* The thread wakes itself.
LEMMA TokenWoken ==
  ASSUME Types, OneToken, WakeSelf, UNCHANGED at,
         ~IsAt(stack, "reset"), ~IsAt(stack', "check"), ~IsAt(stack', "reset")
  PROVE  OneToken'
<1>1. wakeUps \in BOOLEAN /\ readable \in BOOLEAN
  BY DEF Types
<1>2. CASE wakeUps
  <2>1. readable' = readable /\ wakeUps'
    BY <1>1, <1>2 DEF WakeSelf
  <2> QED
    BY <2>1, <1>2 DEF OneToken
<1>3. CASE ~wakeUps
  <2>1. readable' /\ wakeUps'
    BY <1>1, <1>3 DEF WakeSelf
  <2>2. \A t \in Threads : at[t] # "write"
    BY <1>3 DEF OneToken
  <2> QED
    BY <2>1, <2>2 DEF OneToken
<1> QED
  BY <1>2, <1>3

LEMMA WakeSelfTypes ==
  ASSUME Types, WakeSelf
  PROVE  wakeUps' \in BOOLEAN /\ readable' \in BOOLEAN
BY DEF Types, WakeSelf

-----------------------------------------------------------------------------
(* The steps of the loop.                                                  *)

LEMMA ExecInv ==
  ASSUME IInv, Exec
  PROVE  IInv'
<1>1. /\ stack = <<>> /\ stack' = Append(stack, ExecFrame)
      /\ UNCHANGED <<queueVars, interrupt, pipeVars, at, swallowed>>
  BY DEF Exec
<1>2. Framed(stack) /\ ExecFrame \in Frames /\ ExecFrame.fn = "exec"
  BY NewFrames DEF IInv, Stacked
<1>3. /\ Framed(stack') /\ Cardinality(Senders(stack')) = Cardinality(Senders(stack)) + 0
      /\ Passing(stack) => Passing(stack')
      /\ LandsOn(ExecFrame)
  BY <1>1, <1>2, Calling
<1>4. ~Waiting(stack') /\ \A w : ~IsAt(stack', w)
  BY <1>2, <1>3 DEF LandsOn
<1>5. \A w : ~IsAt(stack, w)
  BY <1>1 DEF IsAt
<1>6. Stacked'
  <2>1. Cardinality(Senders(stack)) \in Nat
    BY <1>2, SendersFinite DEF Framed
  <2> QED
    BY <2>1, <1>1, <1>3 DEF IInv, Stacked, queueVars
<1>7. Types'
  BY <1>1 DEF IInv, Types, queueVars, pipeVars
<1>8. Held' /\ Counted' /\ Promised'
  BY <1>1, <1>3, ListLeft DEF queueVars
<1>9. OneToken'
  BY <1>1, <1>4, <1>5, TokenLeft DEF IInv, pipeVars
<1>10. Sent' /\ Woken'
  BY <1>4 DEF Sent, Woken
<1> QED
  BY <1>6, <1>7, <1>8, <1>9, <1>10 DEF IInv

\* A step that moves nothing but the stack.
LEMMA CalmStep ==
  ASSUME IInv, Framed(stack'), recursion' = Cardinality(Senders(stack')),
         UNCHANGED <<list, startOffset, insertionOffset, posted, canWait, pipeVars, at>>,
         interrupt' \in BOOLEAN, swallowed' \in BOOLEAN,
         Passing(stack) => Passing(stack'),
         IsAt(stack', "check") => readable, IsAt(stack', "reset") <=> IsAt(stack, "reset"),
         IsAt(stack', "sent") /\ canWait => DeadFrom(list, 0),
         Waiting(stack') => DeadFrom(list, 0) \/ Coming
  PROVE  IInv'
<1>1. Stacked'
  BY DEF Stacked
<1>2. Types'
  BY DEF IInv, Types, pipeVars
<1>3. Held' /\ Counted' /\ Promised'
  BY ListLeft
<1>4. OneToken'
  BY TokenLeft DEF IInv, pipeVars
<1>5. Sent'
  BY DEF Sent
<1>6. Woken'
  BY DEF Woken, Coming, pipeVars
<1> QED
  BY <1>1, <1>2, <1>3, <1>4, <1>5, <1>6 DEF IInv

\* A call returns.
LEMMA CalmPop ==
  ASSUME IInv, stack # <<>>, top.fn \in {"exec", "process", "handler"}, Pop,
         ~IsAt(stack, "reset"),
         UNCHANGED <<queueVars, pipeVars, at>>, interrupt' \in BOOLEAN, swallowed' \in BOOLEAN
  PROVE  IInv'
<1>1. Framed(stack) /\ recursion = Cardinality(Senders(stack)) /\ Cardinality(Senders(stack)) \in Nat
  BY SendersFinite DEF IInv, Stacked, Framed
<1>2. /\ Framed(stack')
      /\ Cardinality(Senders(stack')) = Cardinality(Senders(stack)) - 0
      /\ Passing(stack) => Passing(stack')
      /\ \A w : IsAt(stack', w) => w = "done"
      /\ ~Waiting(stack')
  BY <1>1, Popping DEF Pass
<1>3. recursion' = Cardinality(Senders(stack'))
  BY <1>1, <1>2 DEF queueVars
<1>4. ~IsAt(stack', "check") /\ ~IsAt(stack', "reset") /\ ~IsAt(stack', "sent")
  BY <1>2
<1>5. UNCHANGED <<list, startOffset, insertionOffset, posted, canWait, pipeVars, at>>
  BY DEF queueVars
<1> QED
  BY <1>2, <1>3, <1>4, <1>5, CalmStep

\* The thread goes from place to place in its frame.
LEMMA CalmReplace ==
  ASSUME IInv, stack # <<>>, NEW f \in Frames, f.fn = top.fn, f.fn # "send", Replace(f),
         ~IsAt(stack, "reset"),
         f.fn = "process" => /\ f.at = "check" => readable
                             /\ f.at # "reset"
                             /\ f.at # "sent"
                             /\ f.at \in {"interrupted", "poll"} /\ f.wait => DeadFrom(list, 0) \/ Coming,
         UNCHANGED <<queueVars, pipeVars, at>>, interrupt' \in BOOLEAN, swallowed' \in BOOLEAN
  PROVE  IInv'
<1>1. Framed(stack) /\ recursion = Cardinality(Senders(stack))
  BY DEF IInv, Stacked
<1>2. /\ Framed(stack') /\ Senders(stack') = Senders(stack)
      /\ Passing(stack) => Passing(stack')
      /\ LandsOn(f)
  BY <1>1, Replacing
<1>3. recursion' = Cardinality(Senders(stack'))
  BY <1>1, <1>2 DEF queueVars
<1>4. /\ IsAt(stack', "check") => readable
      /\ ~IsAt(stack', "reset") /\ ~IsAt(stack', "sent")
      /\ Waiting(stack') => DeadFrom(list, 0) \/ Coming
  BY <1>2 DEF LandsOn
<1>5. UNCHANGED <<list, startOffset, insertionOffset, posted, canWait, pipeVars, at>>
  BY DEF queueVars
<1> QED
  BY <1>2, <1>3, <1>4, <1>5, CalmStep

\* A call is made.
LEMMA CalmPush ==
  ASSUME IInv, stack # <<>>, NEW f \in Frames, f.fn = top.fn, f.fn # "send",
         NEW g \in Frames, Under(f, g), ReplaceAndPush(f, g),
         ~IsAt(stack, "reset"), g.fn = "process" => g.at = "begin",
         recursion' = IF g.fn = "send" THEN recursion + 1 ELSE recursion,
         UNCHANGED <<list, startOffset, insertionOffset, posted, canWait, interrupt, pipeVars, at, swallowed>>
  PROVE  IInv'
<1>1. Framed(stack) /\ recursion = Cardinality(Senders(stack)) /\ Cardinality(Senders(stack)) \in Nat
  BY SendersFinite DEF IInv, Stacked, Framed
<1>2. /\ Framed(stack')
      /\ Cardinality(Senders(stack')) = Cardinality(Senders(stack)) + (IF g.fn = "send" THEN 1 ELSE 0)
      /\ Passing(stack) => Passing(stack')
      /\ LandsOn(g)
  BY <1>1, Pushing
<1>3. recursion' = Cardinality(Senders(stack'))
  <2>1. CASE g.fn = "send"
    BY <2>1, <1>1, <1>2
  <2>2. CASE g.fn # "send"
    BY <2>2, <1>1, <1>2
  <2> QED
    BY <2>1, <2>2
<1>4. ~IsAt(stack', "check") /\ ~IsAt(stack', "reset") /\ ~IsAt(stack', "sent") /\ ~Waiting(stack')
  BY <1>2 DEF LandsOn
<1>5. interrupt' \in BOOLEAN /\ swallowed' \in BOOLEAN
  BY DEF IInv, Types
<1> QED
  BY <1>2, <1>3, <1>4, <1>5, CalmStep

LEMMA LoopAgainInv ==
  ASSUME IInv, LoopAgain
  PROVE  IInv'
<1> DEFINE g == ProcessFrame(TRUE)
<1>1. /\ In("exec") /\ stack' = Append(stack, g)
      /\ UNCHANGED <<queueVars, interrupt, pipeVars, at, swallowed>>
  BY DEF LoopAgain
<1>2. g \in Frames /\ g.fn = "process" /\ g.at = "begin"
  BY NewFrames
<1> HIDE DEF g
<1>3. Framed(stack) /\ top.fn = "exec" /\ \A w : ~IsAt(stack, w)
  BY <1>1, TopOf
<1>4. recursion = Cardinality(Senders(stack)) /\ Cardinality(Senders(stack)) \in Nat
  BY SendersFinite DEF IInv, Stacked, Framed
<1>5. stack # <<>> => Under(top, g)
  BY <1>3 DEF Under
<1>6. /\ Framed(stack') /\ Cardinality(Senders(stack')) = Cardinality(Senders(stack)) + 0
      /\ Passing(stack) => Passing(stack')
      /\ LandsOn(g)
  BY <1>1, <1>2, <1>3, <1>5, Calling
<1>7. recursion' = Cardinality(Senders(stack'))
  BY <1>1, <1>4, <1>6 DEF queueVars
<1>8. ~IsAt(stack', "check") /\ ~IsAt(stack', "reset") /\ ~IsAt(stack', "sent") /\ ~Waiting(stack')
  BY <1>2, <1>6 DEF LandsOn
<1>9. /\ UNCHANGED <<list, startOffset, insertionOffset, posted, canWait, pipeVars, at>>
      /\ interrupt' \in BOOLEAN /\ swallowed' \in BOOLEAN
  BY <1>1 DEF queueVars, IInv, Types
<1> QED
  BY <1>3, <1>6, <1>7, <1>8, <1>9, CalmStep

LEMMA LoopEndsInv ==
  ASSUME IInv, LoopEnds
  PROVE  IInv'
<1>1. /\ In("exec") /\ Pop /\ swallowed' \in BOOLEAN
      /\ UNCHANGED <<queueVars, interrupt, pipeVars, at>>
  BY DEF LoopEnds, IInv, Types
<1>2. stack # <<>> /\ top.fn = "exec" /\ ~IsAt(stack, "reset")
  BY <1>1, TopOf
<1>3. interrupt' \in BOOLEAN
  BY <1>1 DEF IInv, Types
<1> QED
  BY <1>1, <1>2, <1>3, CalmPop

LEMMA HandlerReturnsInv ==
  ASSUME IInv, HandlerReturns
  PROVE  IInv'
<1>1. In("handler") /\ Pop /\ UNCHANGED <<queueVars, interrupt, pipeVars, at, swallowed>>
  BY DEF HandlerReturns
<1>2. stack # <<>> /\ top.fn = "handler" /\ ~IsAt(stack, "reset")
  BY <1>1, TopOf
<1>3. interrupt' \in BOOLEAN /\ swallowed' \in BOOLEAN
  BY <1>1 DEF IInv, Types
<1> QED
  BY <1>1, <1>2, <1>3, CalmPop

LEMMA HandlerNestsInv ==
  ASSUME IInv, NEW g \in Callees, HandlerNests(g)
  PROVE  IInv'
<1> DEFINE f == [top EXCEPT !.used = TRUE]
<1>1. /\ In("handler") /\ ReplaceAndPush(f, g)
      /\ recursion' = IF g.fn = "send" THEN recursion + 1 ELSE recursion
      /\ UNCHANGED <<list, startOffset, insertionOffset, posted, canWait,
                     interrupt, pipeVars, at, swallowed>>
  BY DEF HandlerNests
<1>2. stack # <<>> /\ top \in Frames /\ top.fn = "handler" /\ ~IsAt(stack, "reset")
  BY <1>1, TopOf
<1>3. f \in Frames /\ f.fn = "handler"
  BY <1>2, FrameChanges
<1>4. g \in Frames /\ (g.fn = "process" => g.at = "begin")
  <2>1. /\ ExecFrame \in Frames /\ ExecFrame.fn = "exec"
        /\ ProcessFrame(FALSE) \in Frames /\ ProcessFrame(FALSE).at = "begin"
        /\ \A r \in Receivers \cup {All} : SendFrame(r) \in Frames /\ SendFrame(r).fn = "send"
    BY NewFrames
  <2>2. g = ExecFrame \/ g = ProcessFrame(FALSE) \/ \E r \in Receivers \cup {All} : g = SendFrame(r)
    BY DEF Callees
  <2>3. CASE g = ExecFrame
    BY <2>1, <2>3
  <2>4. CASE g = ProcessFrame(FALSE)
    BY <2>1, <2>4
  <2>5. CASE \E r \in Receivers \cup {All} : g = SendFrame(r)
    BY <2>1, <2>5
  <2> QED
    BY <2>2, <2>3, <2>4, <2>5
<1> HIDE DEF f
<1>5. Under(f, g)
  BY <1>3 DEF Under
<1> QED
  BY <1>1, <1>2, <1>3, <1>4, <1>5, CalmPush

LEMMA ProcessBeginInv ==
  ASSUME IInv, ProcessBegin
  PROVE  IInv'
<1> DEFINE f == [top EXCEPT !.at = "awake"]
<1>1. /\ In("process") /\ top.at = "begin" /\ interrupt' = FALSE /\ Replace(f)
      /\ UNCHANGED <<queueVars, pipeVars, at>>
  BY DEF ProcessBegin, InAt, Advance
<1>2. swallowed' \in BOOLEAN
  BY DEF ProcessBegin, IInv, Types
<1>3. stack # <<>> /\ top \in Frames /\ top.fn = "process" /\ ~IsAt(stack, "reset")
  BY <1>1, TopOf
<1>4. f \in Frames /\ f.fn = "process" /\ f.at = "awake"
  <2>1. "awake" \in Places
    BY DEF Places
  <2>2. f = [top EXCEPT !.at = "awake"]
    OBVIOUS
  <2> HIDE DEF f
  <2> QED
    BY <1>3, <2>1, <2>2, ProcessMoves
<1> HIDE DEF f
<1> QED
  BY <1>1, <1>2, <1>3, <1>4, CalmReplace

LEMMA ProcessSendsInv ==
  ASSUME IInv, ProcessSends
  PROVE  IInv'
<1> DEFINE f == [top EXCEPT !.at = "sent"]
           g == SendFrame(All)
<1>1. /\ In("process") /\ top.at = "awake" /\ ReplaceAndPush(f, g) /\ recursion' = recursion + 1
      /\ UNCHANGED <<list, startOffset, insertionOffset, posted, canWait,
                     interrupt, pipeVars, at, swallowed>>
  BY DEF ProcessSends, InAt
<1>2. stack # <<>> /\ top \in Frames /\ top.fn = "process" /\ ~IsAt(stack, "reset")
  BY <1>1, TopOf
<1>3. f \in Frames /\ f.fn = "process" /\ f.at = "sent"
  <2>1. "sent" \in Places
    BY DEF Places
  <2>2. f = [top EXCEPT !.at = "sent"]
    OBVIOUS
  <2> HIDE DEF f
  <2> QED
    BY <1>2, <2>1, <2>2, ProcessMoves
<1>4. g \in Frames /\ g.fn = "send" /\ g.receiver = All
  BY NewFrames
<1> HIDE DEF f, g
<1>5. Under(f, g)
  BY <1>3, <1>4 DEF Under
<1> QED
  BY <1>1, <1>2, <1>3, <1>4, <1>5, CalmPush

LEMMA ReadCanWaitInv ==
  ASSUME IInv, ReadCanWait
  PROVE  IInv'
<1> DEFINE f == [top EXCEPT !.at = "interrupted", !.wait = top.wait /\ canWait]
<1>1. /\ In("process") /\ top.at = "sent" /\ Replace(f)
      /\ UNCHANGED <<queueVars, interrupt, pipeVars, at, swallowed>>
  BY DEF ReadCanWait, InAt
<1>2. stack # <<>> /\ top \in Frames /\ top.fn = "process" /\ ~IsAt(stack, "reset") /\ IsAt(stack, "sent")
  BY <1>1, TopOf
<1>3. top.wait \in BOOLEAN /\ canWait \in BOOLEAN
  BY <1>2, FrameFacts DEF IInv, Types
<1>4. f \in Frames /\ f.fn = "process" /\ f.at = "interrupted" /\ f.wait = (top.wait /\ canWait)
  <2> DEFINE b == top.wait /\ canWait
  <2>1. b \in BOOLEAN
    OBVIOUS
  <2> HIDE DEF b
  <2> DEFINE h == [top EXCEPT !.at = "interrupted"]
  <2>2. h = [top EXCEPT !.at = "interrupted"] /\ f = [h EXCEPT !.wait = b]
    BY DEF b
  <2>3. "interrupted" \in Places
    BY DEF Places
  <2> HIDE DEF f, h
  <2>4. h \in Frames /\ h.fn = "process" /\ h.at = "interrupted"
    BY <1>2, <2>2, <2>3, ProcessMoves
  <2>5. f \in Frames /\ f.fn = "process" /\ f.at = "interrupted" /\ f.wait = b
    BY <2>1, <2>2, <2>4, ProcessWaits
  <2> QED
    BY <2>5 DEF b
<1> HIDE DEF f
<1>5. f.wait => DeadFrom(list, 0) \/ Coming
  BY <1>2, <1>3, <1>4 DEF IInv, Sent
<1>6. interrupt' \in BOOLEAN /\ swallowed' \in BOOLEAN
  BY <1>1 DEF IInv, Types
<1> QED
  BY <1>1, <1>2, <1>4, <1>5, <1>6, CalmReplace

LEMMA ReadInterruptInv ==
  ASSUME IInv, ReadInterrupt
  PROVE  IInv'
<1> DEFINE f == [top EXCEPT !.at = "poll"]
<1>1. /\ In("process") /\ top.at = "interrupted"
      /\ IF interrupt THEN Pop ELSE Replace(f)
      /\ UNCHANGED <<queueVars, interrupt, pipeVars, at, swallowed>>
  BY DEF ReadInterrupt, InAt, Advance
<1>2. /\ stack # <<>> /\ top \in Frames /\ top.fn = "process" /\ ~IsAt(stack, "reset")
      /\ Waiting(stack) <=> top.wait
  BY <1>1, TopOf
<1>3. f \in Frames /\ f.fn = "process" /\ f.at = "poll" /\ f.wait = top.wait
  <2>1. "poll" \in Places
    BY DEF Places
  <2>2. f = [top EXCEPT !.at = "poll"]
    OBVIOUS
  <2> HIDE DEF f
  <2> QED
    BY <1>2, <2>1, <2>2, ProcessMoves
<1> HIDE DEF f
<1>4. f.wait => DeadFrom(list, 0) \/ Coming
  BY <1>2, <1>3 DEF IInv, Woken
<1>5. interrupt' \in BOOLEAN /\ swallowed' \in BOOLEAN
  BY <1>1 DEF IInv, Types
<1>6. CASE Pop
  BY <1>1, <1>2, <1>5, <1>6, CalmPop
<1>7. CASE Replace(f)
  BY <1>1, <1>2, <1>3, <1>4, <1>5, <1>7, CalmReplace
<1> QED
  BY <1>1, <1>6, <1>7

LEMMA PollReturnsInv ==
  ASSUME IInv, PollReturns
  PROVE  IInv'
<1> DEFINE w == IF readable THEN "check" ELSE "timers"
           f == [top EXCEPT !.at = w]
<1>1. /\ In("process") /\ top.at = "poll" /\ Replace(f)
      /\ UNCHANGED <<queueVars, interrupt, pipeVars, at, swallowed>>
  BY DEF PollReturns, InAt, Advance
<1>2. stack # <<>> /\ top \in Frames /\ top.fn = "process" /\ ~IsAt(stack, "reset")
  BY <1>1, TopOf
<1>3. w \in Places /\ w \in {"check", "timers"} /\ (w = "check" => readable)
  BY DEF Places
<1> HIDE DEF w
<1>4. f \in Frames /\ f.fn = "process" /\ f.at = w
  <2>2. f = [top EXCEPT !.at = w]
    OBVIOUS
  <2> HIDE DEF f
  <2> QED
    BY <1>2, <1>3, <2>2, ProcessMoves
<1> HIDE DEF f
<1>5. interrupt' \in BOOLEAN /\ swallowed' \in BOOLEAN
  BY <1>1 DEF IInv, Types
<1> QED
  BY <1>1, <1>2, <1>3, <1>4, <1>5, CalmReplace

LEMMA PollTimesOutInv ==
  ASSUME IInv, PollTimesOut
  PROVE  IInv'
<1> DEFINE f == [top EXCEPT !.at = "timers"]
<1>1. /\ In("process") /\ top.at = "poll" /\ Replace(f)
      /\ UNCHANGED <<queueVars, interrupt, pipeVars, at, swallowed>>
  BY DEF PollTimesOut, InAt, Advance
<1>2. stack # <<>> /\ top \in Frames /\ top.fn = "process" /\ ~IsAt(stack, "reset")
  BY <1>1, TopOf
<1>3. f \in Frames /\ f.fn = "process" /\ f.at = "timers"
  <2>1. "timers" \in Places
    BY DEF Places
  <2>2. f = [top EXCEPT !.at = "timers"]
    OBVIOUS
  <2> HIDE DEF f
  <2> QED
    BY <1>2, <2>1, <2>2, ProcessMoves
<1> HIDE DEF f
<1>4. interrupt' \in BOOLEAN /\ swallowed' \in BOOLEAN
  BY <1>1 DEF IInv, Types
<1> QED
  BY <1>1, <1>2, <1>3, <1>4, CalmReplace

LEMMA ActivateInv ==
  ASSUME IInv, Activate
  PROVE  IInv'
<1> DEFINE f == [top EXCEPT !.at = "done"]
           g == HandlerFrame
<1>1. /\ In("process") /\ top.at = "timers" /\ ReplaceAndPush(f, g)
      /\ UNCHANGED <<queueVars, interrupt, pipeVars, at, swallowed>>
  BY DEF Activate, InAt
<1>2. stack # <<>> /\ top \in Frames /\ top.fn = "process" /\ ~IsAt(stack, "reset")
  BY <1>1, TopOf
<1>3. f \in Frames /\ f.fn = "process" /\ f.at = "done"
  <2>1. "done" \in Places
    BY DEF Places
  <2>2. f = [top EXCEPT !.at = "done"]
    OBVIOUS
  <2> HIDE DEF f
  <2> QED
    BY <1>2, <2>1, <2>2, ProcessMoves
<1>4. g \in Frames /\ g.fn = "handler"
  BY NewFrames
<1> HIDE DEF f, g
<1>5. Under(f, g)
  BY <1>3, <1>4 DEF Under
<1>6. /\ recursion' = IF g.fn = "send" THEN recursion + 1 ELSE recursion
      /\ UNCHANGED <<list, startOffset, insertionOffset, posted, canWait, interrupt, pipeVars, at, swallowed>>
  BY <1>1, <1>4 DEF queueVars
<1> QED
  BY <1>1, <1>2, <1>3, <1>4, <1>5, <1>6, CalmPush

LEMMA ProcessEndsInv ==
  ASSUME IInv, ProcessEnds
  PROVE  IInv'
<1>1. /\ In("process") /\ top.at \in {"timers", "done"} /\ Pop
      /\ UNCHANGED <<queueVars, interrupt, pipeVars, at, swallowed>>
  BY DEF ProcessEnds
<1>2. stack # <<>> /\ top.fn = "process" /\ ~IsAt(stack, "reset")
  BY <1>1, TopOf
<1>3. interrupt' \in BOOLEAN /\ swallowed' \in BOOLEAN
  BY <1>1 DEF IInv, Types
<1> QED
  BY <1>1, <1>2, <1>3, CalmPop

\* The two steps of QThreadPipe::check(): the token is in the thread's hands.
LEMMA CheckInv ==
  ASSUME IInv, CheckRead \/ CheckReset
  PROVE  IInv'
<1> DEFINE w == IF CheckRead THEN "reset" ELSE "timers"
           f == [top EXCEPT !.at = w]
<1>1. /\ In("process") /\ Replace(f) /\ UNCHANGED <<queueVars, interrupt, at, swallowed>>
      /\ \/ w = "reset" /\ top.at = "check" /\ readable' = FALSE /\ wakeUps' = wakeUps
         \/ w = "timers" /\ top.at = "reset" /\ wakeUps' = FALSE /\ readable' = readable
  BY DEF CheckRead, CheckReset, InAt, Advance
<1> HIDE DEF w
<1>2. /\ Framed(stack) /\ stack # <<>> /\ top \in Frames /\ top.fn = "process"
      /\ \A x : IsAt(stack, x) <=> top.at = x
  BY <1>1, TopOf
<1>3. f \in Frames /\ f.fn = "process" /\ f.at = w
  <2>1. w \in Places
    BY <1>1 DEF Places
  <2>2. f = [top EXCEPT !.at = w]
    OBVIOUS
  <2> HIDE DEF f
  <2> QED
    BY <1>2, <2>1, <2>2, ProcessMoves
<1> HIDE DEF f
<1>4. /\ Framed(stack') /\ Senders(stack') = Senders(stack)
      /\ Passing(stack) => Passing(stack')
      /\ LandsOn(f)
  BY <1>1, <1>2, <1>3, Replacing
<1>5. (\A x : IsAt(stack', x) <=> x = w) /\ ~Waiting(stack') /\ ~IsAt(stack', "sent")
  BY <1>1, <1>3, <1>4 DEF LandsOn
<1>6. Stacked' /\ Types'
  <2>1. Stacked'
    BY <1>1, <1>4 DEF IInv, Stacked, queueVars
  <2>2. Types'
    BY <1>1 DEF IInv, Types, queueVars
  <2> QED
    BY <2>1, <2>2
<1>7. Held' /\ Counted' /\ Promised'
  BY <1>1, <1>4, ListLeft DEF queueVars
<1>8. Sent' /\ Woken'
  BY <1>5 DEF Sent, Woken
<1>9. OneToken'
  <2>1. CASE w = "reset" /\ top.at = "check" /\ readable' = FALSE /\ wakeUps' = wakeUps
    <3>1. readable /\ wakeUps /\ \A t \in Threads : at[t] # "write"
      BY <2>1, <1>2 DEF IInv, OneToken
    <3> QED
      BY <3>1, <2>1, <1>1, <1>5 DEF OneToken
  <2>2. CASE w = "timers" /\ top.at = "reset" /\ wakeUps' = FALSE /\ readable' = readable
    <3>1. ~readable /\ \A t \in Threads : at[t] # "write"
      BY <2>2, <1>2 DEF IInv, OneToken
    <3> QED
      BY <3>1, <2>2, <1>1, <1>5 DEF OneToken
  <2> QED
    BY <1>1, <2>1, <2>2
<1> QED
  BY <1>6, <1>7, <1>8, <1>9 DEF IInv

-----------------------------------------------------------------------------
(* What handlers do.                                                       *)

LEMMA HandlerUses ==
  ASSUME IInv, In("handler"), Replace([top EXCEPT !.used = TRUE])
  PROVE  /\ Framed(stack') /\ Senders(stack') = Senders(stack)
         /\ Passing(stack) => Passing(stack')
         /\ \A w : ~IsAt(stack, w) /\ ~IsAt(stack', w)
         /\ ~Waiting(stack')
<1> DEFINE f == [top EXCEPT !.used = TRUE]
<1>1. Framed(stack) /\ stack # <<>> /\ top \in Frames /\ top.fn = "handler" /\ \A w : ~IsAt(stack, w)
  BY TopOf
<1>2. f \in Frames /\ f.fn = "handler" /\ Replace(f)
  BY <1>1, FrameChanges
<1> HIDE DEF f
<1>3. /\ Framed(stack') /\ Senders(stack') = Senders(stack)
      /\ Passing(stack) => Passing(stack')
      /\ LandsOn(f)
  BY <1>1, <1>2, Replacing
<1>4. ~Waiting(stack') /\ \A w : ~IsAt(stack', w)
  BY <1>2, <1>3 DEF LandsOn
<1> QED
  BY <1>1, <1>3, <1>4

LEMMA HandlerPostsInv ==
  ASSUME IInv, NEW e \in Events, HandlerPosts(e)
  PROVE  IInv'
<1>1. /\ In("handler") /\ Enqueue(e) /\ WakeSelf /\ Replace([top EXCEPT !.used = TRUE])
      /\ UNCHANGED <<interrupt, at, swallowed>>
  BY DEF HandlerPosts
<1>2. /\ Framed(stack') /\ Senders(stack') = Senders(stack)
      /\ Passing(stack) => Passing(stack')
      /\ \A w : ~IsAt(stack, w) /\ ~IsAt(stack', w)
      /\ ~Waiting(stack')
  BY <1>1, HandlerUses
<1>3. Queue(list, posted, startOffset, insertionOffset)
  BY DEF IInv, Held
<1>4. Held'
  <2>1. Queue(list', posted', startOffset', insertionOffset')
    BY <1>1, <1>3, EnqueueQueue
  <2> QED
    BY <2>1 DEF Held
<1>5. canWait' = FALSE /\ startOffset' = startOffset /\ recursion' = recursion
  BY <1>1 DEF Enqueue
<1>6. Promised' /\ Sent' /\ Woken'
  BY <1>2, <1>5 DEF Promised, Sent, Woken
<1>7. Counted' /\ Stacked'
  BY <1>2, <1>5 DEF IInv, Counted, Stacked
<1>8. Types'
  <2>1. wakeUps' \in BOOLEAN /\ readable' \in BOOLEAN
    BY <1>1, WakeSelfTypes DEF IInv
  <2> QED
    BY <2>1, <1>1, <1>5 DEF IInv, Types
<1>9. OneToken'
  BY <1>1, <1>2, TokenWoken DEF IInv
<1> QED
  BY <1>4, <1>6, <1>7, <1>8, <1>9 DEF IInv

\* What a removal leaves of the invariant, whoever removes.
LEMMA Removing ==
  ASSUME IInv, NEW r \in Receivers, RemoveEvents(r), Passing(stack) => Passing(stack')
  PROVE  /\ Held' /\ Counted' /\ Promised'
         /\ DeadFrom(list, 0) => DeadFrom(list', 0)
         /\ canWait' = canWait /\ recursion' = recursion
<1>1. /\ startOffset' = startOffset /\ insertionOffset' = insertionOffset
      /\ canWait' = canWait /\ recursion' = recursion
  BY DEF RemoveEvents
<1>2. /\ Queue(list', posted', startOffset', insertionOffset')
      /\ \A n \in Nat : DeadFrom(list, n) => DeadFrom(list', n)
  <2>1. recursion = 0 => startOffset = 0
    BY AtRest DEF IInv
  <2> QED
    BY <2>1, RemoveQueue DEF IInv, Held
<1>3. insertionOffset \in Nat
  BY EventLoopAssumption DEF IInv, Held, Queue
<1>4. Promised'
  BY <1>1, <1>2, <1>3 DEF IInv, Promised
<1>5. Counted'
  BY <1>1 DEF IInv, Counted
<1>6. Held'
  BY <1>2 DEF Held
<1> QED
  BY <1>1, <1>2, <1>4, <1>5, <1>6

LEMMA HandlerRemovesInv ==
  ASSUME IInv, NEW r \in Receivers, HandlerRemoves(r)
  PROVE  IInv'
<1>1. /\ In("handler") /\ RemoveEvents(r) /\ Replace([top EXCEPT !.used = TRUE])
      /\ UNCHANGED <<interrupt, pipeVars, at, swallowed>>
  BY DEF HandlerRemoves
<1>2. /\ Framed(stack') /\ Senders(stack') = Senders(stack)
      /\ Passing(stack) => Passing(stack')
      /\ \A w : ~IsAt(stack, w) /\ ~IsAt(stack', w)
      /\ ~Waiting(stack')
  BY <1>1, HandlerUses
<1>3. /\ Held' /\ Counted' /\ Promised'
      /\ canWait' = canWait /\ recursion' = recursion
  BY <1>1, <1>2, Removing
<1>4. Sent' /\ Woken'
  BY <1>2 DEF Sent, Woken
<1>5. Stacked' /\ Types'
  BY <1>1, <1>2, <1>3 DEF IInv, Stacked, Types, pipeVars
<1>6. OneToken'
  BY <1>1, <1>2, TokenLeft DEF IInv, pipeVars
<1> QED
  BY <1>3, <1>4, <1>5, <1>6 DEF IInv

LEMMA HandlerExitsInv ==
  ASSUME IInv, NEW k \in Loops, HandlerExits(k)
  PROVE  IInv'
<1> DEFINE m == [stack EXCEPT ![k].exit = TRUE]
           n == Len(stack)
           f == [stack[n] EXCEPT !.used = TRUE]
<1>1. /\ In("handler") /\ stack' = [m EXCEPT ![n].used = TRUE] /\ interrupt' = TRUE /\ WakeSelf
      /\ UNCHANGED <<queueVars, at, swallowed>>
  BY DEF HandlerExits
<1>2. /\ Framed(stack) /\ stack # <<>> /\ stack[n] \in Frames /\ stack[n].fn = "handler"
      /\ \A w : ~IsAt(stack, w)
  BY <1>1, TopOf DEF top
<1>3. n \in 1..Len(stack) /\ n \in Nat /\ stack \in Seq(Frames)
  BY <1>2, TopIs DEF Framed
<1>4. k # n /\ k \in 1..Len(stack)
  BY <1>2 DEF Loops
<1>5. Alike(m, stack) /\ m[n] = stack[n]
  <2> DEFINE x == m
  <2>1. x = [stack EXCEPT ![k].exit = TRUE]
    OBVIOUS
  <2> HIDE DEF m, x
  <2>2. Alike(x, stack) /\ \A j \in 1..Len(stack) : j # k => x[j] = stack[j]
    BY <1>2, <2>1, MarkIs
  <2> QED
    BY <2>2, <1>3, <1>4 DEF x
<1>6. f \in Frames /\ f.fn = "handler"
  <2> DEFINE x == stack[n]
  <2>1. x \in Frames /\ x.fn = "handler"
    BY <1>2
  <2> HIDE DEF x
  <2>2. [x EXCEPT !.used = TRUE] \in Frames /\ [x EXCEPT !.used = TRUE].fn = "handler"
    BY <2>1, FrameChanges
  <2> QED
    BY <2>2 DEF x
<1>7. stack' = [m EXCEPT ![n] = f]
  BY <1>1, <1>5
<1> HIDE DEF m, f
<1>8. /\ m \in Seq(Frames) /\ Len(m) = n
      /\ stack' \in Seq(Frames) /\ Len(stack') = n /\ stack'[n] = f
      /\ \A j \in 1..n : j # n => stack'[j] = m[j]
  BY <1>3, <1>5, <1>6, <1>7 DEF Alike
<1>9. Alike(stack', stack)
  <2> SUFFICES ASSUME NEW j \in 1..Len(stack)
               PROVE  /\ stack'[j].fn = stack[j].fn
                      /\ j < Len(stack) /\ stack[j].fn = "process" => stack'[j].at = stack[j].at
                      /\ stack[j].fn = "send" =>
                           stack'[j].receiver = stack[j].receiver /\ (stack[j].at = "loop" => stack'[j].at = "loop")
    BY <1>8 DEF Alike
  <2>1. CASE j = n
    BY <2>1, <1>2, <1>3, <1>6, <1>8
  <2>2. CASE j # n
    BY <2>2, <1>5, <1>8 DEF Alike
  <2> QED
    BY <2>1, <2>2
<1>10. Framed(stack') /\ Senders(stack') = Senders(stack) /\ (Passing(stack) => Passing(stack'))
  BY <1>2, <1>9, StackAlike
<1>11. ~Waiting(stack') /\ \A w : ~IsAt(stack', w)
  <2>1. stack'[Len(stack')].fn = "handler"
    BY <1>6, <1>8
  <2> QED
    BY <2>1 DEF Waiting, IsAt
<1>12. Stacked'
  BY <1>1, <1>10 DEF IInv, Stacked, queueVars
<1>13. Types'
  <2>1. wakeUps' \in BOOLEAN /\ readable' \in BOOLEAN
    BY <1>1, WakeSelfTypes DEF IInv
  <2> QED
    BY <2>1, <1>1 DEF IInv, Types, queueVars
<1>14. Held' /\ Counted' /\ Promised'
  BY <1>1, <1>10, ListLeft DEF queueVars
<1>15. OneToken'
  BY <1>1, <1>2, <1>11, TokenWoken DEF IInv
<1>16. Sent' /\ Woken'
  BY <1>11 DEF Sent, Woken
<1> QED
  BY <1>12, <1>13, <1>14, <1>15, <1>16 DEF IInv

-----------------------------------------------------------------------------
(* sendPostedEvents()                                                      *)

LEMMA SendNothingInv ==
  ASSUME IInv, SendNothing
  PROVE  IInv'
<1>1. /\ In("send") /\ top.at = "begin" /\ Pop
      /\ canWait' = (list = <<>>) /\ recursion' = recursion - 1
      /\ UNCHANGED <<list, startOffset, insertionOffset, posted, interrupt, pipeVars, at, swallowed>>
  BY DEF SendNothing, InAt
<1>2. Framed(stack) /\ stack # <<>> /\ top.fn = "send" /\ \A w : ~IsAt(stack, w)
  BY <1>1, TopOf
<1>3. recursion = Cardinality(Senders(stack)) /\ ~Pass(top)
  BY <1>1 DEF IInv, Stacked, Pass
<1>4. /\ Framed(stack')
      /\ Cardinality(Senders(stack')) = Cardinality(Senders(stack)) - 1
      /\ Passing(stack) => Passing(stack')
      /\ \A w : IsAt(stack', w) => w = "sent" \/ w = "done"
      /\ ~Waiting(stack')
  BY <1>1, <1>2, <1>3, Popping
<1>5. Stacked'
  BY <1>1, <1>3, <1>4 DEF Stacked
<1>6. Types'
  BY <1>1 DEF IInv, Types, pipeVars
<1>7. Held'
  BY <1>1 DEF IInv, Held
<1>8. Counted'
  BY <1>1, <1>4 DEF IInv, Counted
<1>9. canWait' => \A n \in Nat : DeadFrom(list', n)
  <2> SUFFICES ASSUME canWait', NEW n \in Nat PROVE DeadFrom(list', n)
    OBVIOUS
  <2>1. list' = <<>> /\ Len(list') = 0
    BY <1>1
  <2> QED
    BY <2>1 DEF DeadFrom
<1>10. insertionOffset' \in Nat
  BY <1>1, EventLoopAssumption DEF IInv, Held, Queue
<1>11. Promised' /\ Sent' /\ Woken'
  BY <1>4, <1>9, <1>10 DEF Promised, Sent, Woken
<1>12. OneToken'
  BY <1>1, <1>2, <1>4, TokenLeft DEF IInv, pipeVars
<1> QED
  BY <1>5, <1>6, <1>7, <1>8, <1>11, <1>12 DEF IInv

\* Where a pass goes on from, and to: here is the insertion offset it will leave.
Resumes(i, here, mayWait) ==
  /\ i \in Nat /\ here \in 0..MaxList /\ mayWait \in BOOLEAN
  /\ startOffset <= here /\ Falls(list, here)
  /\ mayWait => DeadFrom(list, here)
  /\ top.receiver = All => i = startOffset

LEMMA DeliverInv ==
  ASSUME IInv, In("send"), NEW i, NEW here, NEW mayWait, Resumes(i, here, mayWait),
         UNCHANGED <<interrupt, at, swallowed>>,
         NEW k \in i + 1 .. Len(list), NEW wait \in BOOLEAN,
         k <= here, For(top.receiver, list[k]), wait => mayWait,
         top.receiver = All => \A j \in i + 1 .. k - 1 : ~list[j].live,
         Deliver(k, here, wait)
  PROVE  IInv' /\ Deadened(list', list)
<1> DEFINE all == top.receiver = All
           f == [top EXCEPT !.at = "loop", !.index = IF all THEN 0 ELSE k]
           there == IF all THEN k ELSE startOffset
<1>1. /\ list' = [list EXCEPT ![k].live = FALSE]
      /\ posted' = [posted EXCEPT ![Receiver[list[k].event]] = posted[Receiver[list[k].event]] - 1]
      /\ canWait' = wait /\ insertionOffset' = here /\ startOffset' = there
      /\ ReplaceAndPush(f, HandlerFrame) /\ recursion' = recursion /\ UNCHANGED pipeVars
  BY DEF Deliver
<1>2. /\ list \in Seq(Entries) /\ Len(list) \in Nat /\ Len(list) <= MaxList /\ MaxList \in Nat
      /\ startOffset \in Nat /\ here \in Nat /\ i \in Nat /\ startOffset <= Len(list)
      /\ Queue(list, posted, startOffset, insertionOffset)
  BY EventLoopAssumption DEF IInv, Held, Queue, Resumes
<1>3. k \in 1..Len(list) /\ k \in Nat /\ k \in 0..MaxList /\ list[k].live
  BY <1>2 DEF For
<1>4. Deadened(list', list) /\ list' \in Seq(Entries) /\ Queue(list', posted', there, here)
  <2>1. /\ here \in 0..MaxList /\ there <= here /\ Falls(list, here)
    BY DEF Resumes
  <2>2. there = startOffset \/ (there = k /\ \A j \in startOffset + 1 .. k - 1 : ~list[j].live)
    BY DEF Resumes
  <2> HIDE DEF there
  <2> DEFINE m == [list EXCEPT ![k].live = FALSE]
  <2>3. list' = m /\ m = [list EXCEPT ![k].live = FALSE]
    BY <1>1
  <2> HIDE DEF m
  <2>4. /\ Deadened(m, list) /\ m \in Seq(Entries)
        /\ Queue(m, [posted EXCEPT ![Receiver[list[k].event]] = posted[Receiver[list[k].event]] - 1],
                 there, here)
    BY <1>2, <1>3, <2>1, <2>2, <2>3, DeliveredQueue
  <2> QED
    BY <1>1, <2>3, <2>4, Zenon
<1>5. Held'
  BY <1>1, <1>4 DEF Held
<1>6. /\ Framed(stack) /\ stack # <<>> /\ top \in Frames /\ top.fn = "send"
      /\ \A w : ~IsAt(stack, w)
  BY TopOf
<1>7. f \in Frames /\ f.fn = "send" /\ f.at = "loop" /\ f.receiver = top.receiver
  <2> DEFINE n == IF all THEN 0 ELSE k
  <2>1. n \in 0..MaxList /\ f = [top EXCEPT !.at = "loop", !.index = n]
    BY <1>2, <1>3
  <2> HIDE DEF n, all, f
  <2> QED
    BY <2>1, <1>6, SendMoves
<1>8. all => Pass(f)
  BY <1>7 DEF Pass
<1>9. HandlerFrame \in Frames /\ HandlerFrame.fn = "handler"
  BY NewFrames
<1> HIDE DEF f
<1>10. Under(f, HandlerFrame)
  BY <1>7 DEF Under
<1>11. /\ Framed(stack')
       /\ Cardinality(Senders(stack')) = Cardinality(Senders(stack)) + 0
       /\ Passing(stack) \/ Pass(f) => Passing(stack')
       /\ LandsOn(HandlerFrame)
  BY <1>1, <1>6, <1>7, <1>9, <1>10, Pushing
<1>12. Stacked'
  <2>1. Cardinality(Senders(stack)) \in Nat
    BY <1>6, SendersFinite DEF Framed
  <2> QED
    BY <2>1, <1>1, <1>11 DEF IInv, Stacked
<1>13. Counted'
  <2>1. CASE all
    BY <2>1, <1>8, <1>11 DEF Counted
  <2>2. CASE ~all
    <3>1. startOffset' = startOffset
      BY <2>2, <1>1
    <3> QED
      BY <3>1, <1>11 DEF IInv, Counted
  <2> QED
    BY <2>1, <2>2
<1>14. ~Waiting(stack') /\ \A w : ~IsAt(stack', w)
  BY <1>9, <1>11 DEF LandsOn
<1>15. Promised'
  <2>1. wait => DeadFrom(list, here)
    BY DEF Resumes
  <2>2. wait => DeadFrom(list', here)
    BY <2>1, <1>2, <1>4, DeadenedIs
  <2> QED
    BY <2>2, <1>1 DEF Promised
<1>16. Sent' /\ Woken'
  BY <1>14 DEF Sent, Woken
<1>17. Types'
  BY <1>1 DEF IInv, Types, pipeVars
<1>18. OneToken'
  BY <1>1, <1>6, <1>14, TokenLeft DEF IInv, pipeVars
<1> QED
  BY <1>4, <1>5, <1>12, <1>13, <1>15, <1>16, <1>17, <1>18 DEF IInv

LEMMA FinishInv ==
  ASSUME IInv, In("send"), NEW i, NEW here, NEW mayWait, Resumes(i, here, mayWait),
         UNCHANGED <<interrupt, at, swallowed>>,
         NEW n \in Nat, NEW wait \in BOOLEAN, wait => mayWait,
         top.receiver = All =>
           /\ i <= n /\ n <= Len(list) /\ n <= here
           /\ \A j \in i + 1 .. n : ~list[j].live
           /\ wait => DeadFrom(list, n),
         Finish(n, here, wait)
  PROVE  /\ IInv'
         /\ \A j \in 1..Len(list') : list'[j].live => Live(list'[j].event)
<1>1. /\ recursion' = recursion - 1 /\ canWait' = wait /\ Pop /\ posted' = posted
      /\ WakeSelf \/ UNCHANGED pipeVars
      /\ top.receiver = All => /\ list' = SubSeq(list, n + 1, Len(list))
                               /\ insertionOffset' = here - n /\ startOffset' = 0
      /\ top.receiver # All => /\ insertionOffset' = here
                               /\ list' = list /\ startOffset' = startOffset
  BY DEF Finish
<1>2. /\ list \in Seq(Entries) /\ Len(list) \in Nat /\ Len(list) <= MaxList /\ MaxList \in Nat
      /\ startOffset \in Nat /\ here \in Nat /\ i \in Nat /\ startOffset <= Len(list)
      /\ Queue(list, posted, startOffset, insertionOffset)
  BY EventLoopAssumption DEF IInv, Held, Queue, Resumes
<1>3. Framed(stack) /\ stack # <<>> /\ top.fn = "send" /\ \A w : ~IsAt(stack, w)
  BY TopOf
<1>4. /\ Framed(stack')
      /\ Cardinality(Senders(stack')) = Cardinality(Senders(stack)) - 1
      /\ Passing(stack) /\ ~Pass(top) => Passing(stack')
      /\ \A w : IsAt(stack', w) => w = "sent" /\ top.receiver = All
      /\ ~Waiting(stack')
  BY <1>1, <1>3, Popping
<1>5. Stacked'
  BY <1>1, <1>4 DEF IInv, Stacked
<1>6. /\ Held' /\ Counted' /\ Promised' /\ Sent'
      /\ \A j \in 1..Len(list') : list'[j].live => Live(list'[j].event)
  <2>1. CASE top.receiver = All
    <3>1. /\ n \in startOffset..Len(list) /\ n <= here /\ here \in 0..MaxList /\ Falls(list, here)
          /\ \A j \in startOffset + 1 .. n : ~list[j].live
      BY <2>1, <1>2 DEF Resumes
    <3> DEFINE m == SubSeq(list, n + 1, Len(list))
               off == here - n
    <3>2. list' = m /\ m = SubSeq(list, n + 1, Len(list)) /\ insertionOffset' = off /\ startOffset' = 0
      BY <1>1, <2>1
    <3> HIDE DEF m
    <3>3. /\ Queue(m, posted, 0, off)
          /\ DeadFrom(list, here) => DeadFrom(m, off)
          /\ DeadFrom(list, n) => DeadFrom(m, 0)
          /\ \A j \in 1..Len(m) : m[j].live => \E k \in 1..Len(list) : list[k] = m[j]
      <4>1. Queue(list, posted, startOffset, insertionOffset)
        BY <1>2
      <4>2. n \in startOffset..Len(list) /\ m = SubSeq(list, n + 1, Len(list))
        BY <3>1, <3>2
      <4>3. here \in 0..MaxList /\ Falls(list, here) /\ n <= here
            /\ \A j \in startOffset + 1 .. n : ~list[j].live
        BY <3>1
      <4>4. Erased(m, list, posted, here, n)
        BY <4>1, <4>2, <4>3, ErasedQueue
      <4> QED
        BY <4>4, Zenon DEF Erased
    <3> HIDE DEF off
    <3>4. Held'
      BY <1>1, <3>2, <3>3 DEF Held
    <3>5. Counted'
      BY <3>2 DEF Counted
    <3>6. Promised'
      BY <1>1, <3>2, <3>3 DEF Promised, Resumes
    <3>7. Sent'
      BY <1>1, <2>1, <3>2, <3>3 DEF Sent
    <3>8. \A j \in 1..Len(list') : list'[j].live => Live(list'[j].event)
      BY <3>2, <3>3 DEF Live
    <3> QED
      BY <3>4, <3>5, <3>6, <3>7, <3>8
  <2>2. CASE top.receiver # All
    <3>1. list' = list /\ startOffset' = startOffset /\ insertionOffset' = here /\ ~Pass(top)
      BY <1>1, <2>2 DEF Pass
    <3>2. Held'
      BY <1>1, <1>2, <3>1 DEF Held, Queue, Resumes
    <3>3. Counted'
      BY <3>1, <1>4 DEF IInv, Counted
    <3>4. Promised'
      BY <1>1, <3>1 DEF Promised, Resumes
    <3>5. Sent'
      BY <2>2, <1>4 DEF Sent
    <3>6. \A j \in 1..Len(list') : list'[j].live => Live(list'[j].event)
      BY <3>1 DEF Live
    <3> QED
      BY <3>2, <3>3, <3>4, <3>5, <3>6
  <2> QED
    BY <2>1, <2>2
<1>7. Types'
  <2>1. wakeUps' \in BOOLEAN /\ readable' \in BOOLEAN
    BY <1>1, WakeSelfTypes DEF IInv, Types, pipeVars
  <2> QED
    BY <2>1, <1>1 DEF IInv, Types
<1>8. Woken'
  BY <1>4 DEF Woken
<1>9. OneToken'
  <2>1. ~IsAt(stack', "check") /\ ~IsAt(stack', "reset") /\ ~IsAt(stack, "reset")
    BY <1>3, <1>4
  <2>2. CASE WakeSelf
    BY <2>1, <2>2, TokenWoken DEF IInv
  <2>3. CASE UNCHANGED pipeVars
    BY <2>1, <2>3, TokenLeft DEF IInv, pipeVars
  <2> QED
    BY <1>1, <2>2, <2>3
<1> QED
  BY <1>5, <1>6, <1>7, <1>8, <1>9 DEF IInv

LEMMA SendFromInv ==
  ASSUME IInv, In("send"), NEW i, NEW here, NEW mayWait, Resumes(i, here, mayWait),
         SendFrom(i, here, mayWait), UNCHANGED <<interrupt, at, swallowed>>
  PROVE  /\ IInv'
         /\ \A j \in 1..Len(list') : list'[j].live => Live(list'[j].event)
<1>1. /\ list \in Seq(Entries) /\ i \in Nat /\ here \in Nat /\ mayWait \in BOOLEAN
      /\ mayWait => DeadFrom(list, here)
      /\ top.receiver = All => i <= Len(list) /\ i <= here
  BY EventLoopAssumption DEF IInv, Held, Queue, Resumes
<1>2. CASE \E k \in i + 1 .. Len(list), wait \in BOOLEAN :
              /\ k <= here /\ For(top.receiver, list[k]) /\ (wait => mayWait)
              /\ top.receiver = All => \A j \in i + 1 .. k - 1 : ~list[j].live
              /\ Deliver(k, here, wait)
  <2>1. IInv' /\ Deadened(list', list)
    BY <1>2, DeliverInv
  <2>2. \A j \in 1..Len(list') : list'[j].live => Live(list'[j].event)
    BY <2>1 DEF Deadened, Live
  <2> QED
    BY <2>1, <2>2
<1>3. CASE \E n \in Nat, wait \in BOOLEAN :
              /\ wait => mayWait
              /\ top.receiver = All =>
                   /\ i <= n /\ n <= Len(list) /\ n <= here
                   /\ \A j \in i + 1 .. n : ~list[j].live
                   /\ wait => DeadFrom(list, n)
              /\ Finish(n, here, wait)
  BY <1>3, FinishInv
<1> QED
  BY <1>1, <1>2, <1>3, SendFromIs

\* A call of sendPostedEvents() that has events to send begins, or goes on
\* after a handler has returned.
LEMMA SendInv ==
  ASSUME IInv, SendBegin \/ SendAgain
  PROVE  /\ IInv'
         /\ \A j \in 1..Len(list') : list'[j].live => Live(list'[j].event)
<1>1. /\ Len(list) \in Nat /\ Len(list) <= MaxList /\ MaxList \in Nat /\ startOffset \in Nat
      /\ insertionOffset \in 0..MaxList /\ startOffset <= insertionOffset /\ startOffset <= Len(list)
      /\ Falls(list, insertionOffset) /\ (canWait => DeadFrom(list, insertionOffset)) /\ canWait \in BOOLEAN
  BY EventLoopAssumption DEF IInv, Held, Queue, Promised, Types
<1>2. CASE SendBegin
  <2>1. In("send") /\ SendFrom(startOffset, Len(list), TRUE) /\ UNCHANGED <<interrupt, at, swallowed>>
    BY <1>2 DEF SendBegin, InAt
  <2>2. Falls(list, Len(list)) /\ DeadFrom(list, Len(list))
    BY <1>1 DEF Falls, DeadFrom
  <2>3. Resumes(startOffset, Len(list), TRUE)
    BY <1>1, <2>2 DEF Resumes
  <2> QED
    BY <2>1, <2>3, SendFromInv
<1>3. CASE SendAgain
  <2> DEFINE i == IF top.receiver = All THEN startOffset ELSE top.index
  <2>1. In("send") /\ SendFrom(i, insertionOffset, canWait) /\ UNCHANGED <<interrupt, at, swallowed>>
    BY <1>3 DEF SendAgain, InAt
  <2>2. top.index \in 0..MaxList
    BY <2>1, TopOf, FrameFacts
  <2>3. i \in Nat /\ (top.receiver = All => i = startOffset)
    BY <1>1, <2>2
  <2> HIDE DEF i
  <2>4. Resumes(i, insertionOffset, canWait)
    BY <1>1, <2>3 DEF Resumes
  <2> QED
    BY <2>1, <2>4, SendFromInv
<1> QED
  BY <1>2, <1>3

-----------------------------------------------------------------------------
(* The other threads.                                                      *)

LEMMA GoneTo ==
  ASSUME IInv, NEW t \in Threads, NEW w \in {"idle", "interrupt", "wakeUp", "write"}, Goto(t, w)
  PROVE  /\ at' \in [Threads -> {"idle", "interrupt", "wakeUp", "write"}]
         /\ at'[t] = w /\ \A u \in Threads : u # t => at'[u] = at[u]
BY DEF IInv, Types, Goto

\* A thread neither begins nor ends a write.
LEMMA TokenOther ==
  ASSUME OneToken, UNCHANGED <<wakeUps, readable>>,
         \A w : IsAt(stack', w) <=> IsAt(stack, w),
         \A u \in Threads : at'[u] = "write" <=> at[u] = "write"
  PROVE  OneToken'
BY DEF OneToken

LEMMA PostInv ==
  ASSUME IInv, NEW t \in Threads, NEW e \in Events, Post(t, e)
  PROVE  IInv'
<1>1. /\ at[t] = "idle" /\ Enqueue(e) /\ Goto(t, "wakeUp")
      /\ UNCHANGED <<interrupt, pipeVars, stack, swallowed>>
  BY DEF Post
<1>2. /\ at' \in [Threads -> {"idle", "interrupt", "wakeUp", "write"}]
      /\ at'[t] = "wakeUp" /\ \A u \in Threads : u # t => at'[u] = at[u]
  BY <1>1, GoneTo
<1>3. Queue(list, posted, startOffset, insertionOffset)
  BY DEF IInv, Held
<1>4. Held'
  <2>1. Queue(list', posted', startOffset', insertionOffset')
    BY <1>1, <1>3, EnqueueQueue
  <2> QED
    BY <2>1 DEF Held
<1>5. canWait' = FALSE /\ startOffset' = startOffset /\ recursion' = recursion
  BY <1>1 DEF Enqueue
<1>6. Promised' /\ Sent'
  BY <1>5 DEF Promised, Sent
<1>7. Woken'
  BY <1>2 DEF Woken, Coming
<1>8. Counted' /\ Stacked'
  BY <1>1, <1>5 DEF IInv, Counted, Stacked
<1>9. Types'
  BY <1>1, <1>2, <1>5 DEF IInv, Types, pipeVars
<1>10. OneToken'
  <2>1. \A u \in Threads : at'[u] = "write" <=> at[u] = "write"
    BY <1>1, <1>2
  <2> QED
    BY <2>1, <1>1, TokenOther DEF IInv, pipeVars
<1> QED
  BY <1>4, <1>6, <1>7, <1>8, <1>9, <1>10 DEF IInv

LEMMA RemovePostedInv ==
  ASSUME IInv, NEW t \in Threads, NEW r \in Receivers, RemovePosted(t, r)
  PROVE  IInv'
<1>1. RemoveEvents(r) /\ UNCHANGED <<interrupt, pipeVars, stack, at, swallowed>>
  BY DEF RemovePosted
<1>2. /\ Held' /\ Counted' /\ Promised'
      /\ DeadFrom(list, 0) => DeadFrom(list', 0)
      /\ canWait' = canWait /\ recursion' = recursion
  BY <1>1, Removing
<1>3. Sent' /\ Woken'
  BY <1>1, <1>2 DEF IInv, Sent, Woken, Coming, pipeVars
<1>4. Stacked' /\ Types'
  BY <1>1, <1>2 DEF IInv, Stacked, Types, pipeVars
<1>5. OneToken'
  <2>1. (\A w : IsAt(stack', w) <=> IsAt(stack, w)) /\ UNCHANGED <<wakeUps, readable>>
        /\ \A u \in Threads : at'[u] = "write" <=> at[u] = "write"
    BY <1>1 DEF pipeVars
  <2> QED
    BY <2>1, TokenOther DEF IInv
<1> QED
  BY <1>2, <1>3, <1>4, <1>5 DEF IInv

LEMMA ExitInv ==
  ASSUME IInv, NEW t \in Threads, NEW k \in Loops, Exit(t, k)
  PROVE  IInv'
<1> DEFINE m == [stack EXCEPT ![k].exit = TRUE]
<1>1. /\ at[t] = "idle" /\ stack' = m /\ Goto(t, "interrupt")
      /\ UNCHANGED <<queueVars, interrupt, pipeVars, swallowed>>
  BY DEF Exit
<1>2. m = [stack EXCEPT ![k].exit = TRUE] /\ Framed(stack)
  BY DEF IInv, Stacked
<1> HIDE DEF m
<1>3. /\ Framed(m) /\ Senders(m) = Senders(stack) /\ (Passing(stack) => Passing(m))
      /\ \A w : IsAt(m, w) <=> IsAt(stack, w)
      /\ Waiting(m) <=> Waiting(stack)
  BY <1>2, MarkIs
<1>4. /\ at' \in [Threads -> {"idle", "interrupt", "wakeUp", "write"}]
      /\ at'[t] = "interrupt" /\ \A u \in Threads : u # t => at'[u] = at[u]
  BY <1>1, GoneTo
<1>5. \A u \in Threads : /\ at'[u] = "write" <=> at[u] = "write"
                         /\ at[u] \in {"wakeUp", "write"} => at'[u] \in {"wakeUp", "write"}
  BY <1>1, <1>4
<1>6. Held' /\ Counted' /\ Promised'
  BY <1>1, <1>3, ListLeft DEF queueVars
<1>7. Sent' /\ Woken'
  BY <1>1, <1>3, <1>5 DEF IInv, Sent, Woken, Coming, queueVars, pipeVars
<1>8. Stacked' /\ Types'
  BY <1>1, <1>3, <1>4 DEF IInv, Stacked, Types, queueVars, pipeVars
<1>9. OneToken'
  BY <1>1, <1>3, <1>5, TokenOther DEF IInv, pipeVars
<1> QED
  BY <1>6, <1>7, <1>8, <1>9 DEF IInv

LEMMA InterruptInv ==
  ASSUME IInv, NEW t \in Threads, Interrupt(t)
  PROVE  IInv'
<1>1. /\ at[t] = "interrupt" /\ interrupt' = TRUE /\ Goto(t, "wakeUp")
      /\ UNCHANGED <<queueVars, pipeVars, stack, swallowed>>
  BY DEF Interrupt
<1>2. /\ at' \in [Threads -> {"idle", "interrupt", "wakeUp", "write"}]
      /\ at'[t] = "wakeUp" /\ \A u \in Threads : u # t => at'[u] = at[u]
  BY <1>1, GoneTo
<1>3. Held' /\ Counted' /\ Promised'
  BY <1>1, ListLeft DEF queueVars
<1>4. Sent' /\ Woken'
  BY <1>1, <1>2 DEF IInv, Sent, Woken, Coming, queueVars
<1>5. Stacked' /\ Types'
  BY <1>1, <1>2 DEF IInv, Stacked, Types, queueVars, pipeVars
<1>6. OneToken'
  <2>1. \A u \in Threads : at'[u] = "write" <=> at[u] = "write"
    BY <1>1, <1>2
  <2> QED
    BY <2>1, <1>1, TokenOther DEF IInv, pipeVars
<1> QED
  BY <1>3, <1>4, <1>5, <1>6 DEF IInv

\* Another thread takes the token when nobody has it, and writes it to the pipe.
LEMMA WakeUpInv ==
  ASSUME IInv, NEW t \in Threads, WakeUp(t)
  PROVE  IInv'
<1> DEFINE w == IF wakeUps THEN "idle" ELSE "write"
<1>1. /\ at[t] = "wakeUp" /\ wakeUps' = TRUE /\ Goto(t, w)
      /\ UNCHANGED <<queueVars, interrupt, readable, stack, swallowed>>
  BY DEF WakeUp
<1>2. /\ at' \in [Threads -> {"idle", "interrupt", "wakeUp", "write"}]
      /\ at'[t] = w /\ \A u \in Threads : u # t => at'[u] = at[u]
  BY <1>1, GoneTo
<1>3. Held' /\ Counted' /\ Promised'
  BY <1>1, ListLeft DEF queueVars
<1>4. Sent'
  BY <1>1 DEF IInv, Sent, queueVars
<1>5. Stacked' /\ Types'
  BY <1>1, <1>2 DEF IInv, Stacked, Types, queueVars
<1>6. wakeUps \in BOOLEAN /\ readable \in BOOLEAN
  BY DEF IInv, Types
<1>7. OneToken' /\ Woken'
  <2>1. CASE wakeUps
    <3>1. \A u \in Threads : at'[u] = "write" <=> at[u] = "write"
      BY <2>1, <1>1, <1>2
    <3>2. OneToken'
      BY <2>1, <3>1, <1>1, TokenOther DEF IInv
    <3>3. Waiting(stack) => ~IsAt(stack, "reset")
      BY DEF Waiting, IsAt
    <3>4. Waiting(stack) => readable \/ \E u \in Threads : at[u] = "write"
      BY <2>1, <3>3 DEF IInv, OneToken
    <3>5. Woken'
      BY <3>1, <3>4, <1>1 DEF Woken, Coming
    <3> QED
      BY <3>2, <3>5
  <2>2. CASE ~wakeUps
    <3>1. ~readable /\ ~IsAt(stack, "check") /\ ~IsAt(stack, "reset") /\ \A u \in Threads : at[u] # "write"
      BY <2>2 DEF IInv, OneToken
    <3>2. at'[t] = "write" /\ \A u \in Threads : at'[u] = "write" => u = t
      BY <2>2, <3>1, <1>2
    <3>3. OneToken'
      BY <3>1, <3>2, <1>1 DEF OneToken
    <3>4. Woken'
      BY <3>2 DEF Woken, Coming
    <3> QED
      BY <3>3, <3>4
  <2> QED
    BY <2>1, <2>2, <1>6
<1> QED
  BY <1>3, <1>4, <1>5, <1>7 DEF IInv

LEMMA WriteInv ==
  ASSUME IInv, NEW t \in Threads, Write(t)
  PROVE  IInv'
<1>1. /\ at[t] = "write" /\ readable' = TRUE /\ Goto(t, "idle")
      /\ UNCHANGED <<queueVars, interrupt, wakeUps, stack, swallowed>>
  BY DEF Write
<1>2. /\ at' \in [Threads -> {"idle", "interrupt", "wakeUp", "write"}]
      /\ at'[t] = "idle" /\ \A u \in Threads : u # t => at'[u] = at[u]
  BY <1>1, GoneTo
<1>3. Held' /\ Counted' /\ Promised'
  BY <1>1, ListLeft DEF queueVars
<1>4. Sent' /\ Woken'
  BY <1>1 DEF IInv, Sent, Woken, Coming, queueVars
<1>5. Stacked' /\ Types'
  BY <1>1, <1>2 DEF IInv, Stacked, Types, queueVars
<1>6. OneToken'
  <2>1. wakeUps /\ ~IsAt(stack, "reset") /\ \A u \in Threads : at[u] = "write" => u = t
    BY <1>1 DEF IInv, OneToken
  <2>2. \A u \in Threads : at'[u] # "write"
    BY <2>1, <1>2
  <2> QED
    BY <2>1, <2>2, <1>1 DEF OneToken
<1> QED
  BY <1>3, <1>4, <1>5, <1>6 DEF IInv

-----------------------------------------------------------------------------
(* The theorems.                                                           *)

LEMMA InitInv ==
  ASSUME Init
  PROVE  IInv
<1>1. /\ list = <<>> /\ recursion = 0 /\ startOffset = 0 /\ insertionOffset = 0
      /\ posted = [r \in Receivers |-> 0] /\ canWait = TRUE
      /\ interrupt = FALSE /\ wakeUps = FALSE /\ readable = FALSE
      /\ stack = <<>> /\ at = [t \in Threads |-> "idle"] /\ swallowed = FALSE
  BY DEF Init
<1>2. Types
  BY <1>1 DEF Types
<1>3. Stacked
  <2>1. stack \in Seq(Frames) /\ Len(stack) = 0
    BY <1>1
  <2>2. Framed(stack)
    BY <2>1 DEF Framed
  <2>3. Senders(stack) = {}
    BY <2>1 DEF Senders
  <2>4. Cardinality(Senders(stack)) = 0
    BY <2>3, FS_EmptySet, Zenon
  <2> QED
    BY <2>2, <2>4, <1>1 DEF Stacked
<1>4. Held
  <2>1. list \in Seq(Entries) /\ Len(list) = 0 /\ MaxList \in Nat
    BY <1>1, EventLoopAssumption
  <2>2. ASSUME NEW r \in Receivers PROVE posted[r] = Cardinality(At(list, r))
    <3>1. At(list, r) = {}
      BY <2>1 DEF At
    <3>2. Cardinality(At(list, r)) = 0
      BY <3>1, FS_EmptySet, Zenon
    <3> QED
      BY <3>2, <1>1
  <2>3. Once(list) /\ DeadTo(list, 0) /\ Falls(list, 0)
    BY <2>1 DEF Once, DeadTo, Falls
  <2>4. posted \in [Receivers -> Nat] /\ 0 \in 0..MaxList /\ 0 <= MaxList
    BY <1>1, <2>1
  <2> QED
    BY <1>1, <2>1, <2>2, <2>3, <2>4 DEF Held, Queue
<1>5. Counted /\ Promised /\ Sent /\ Woken
  <2>1. Len(list) = 0
    BY <1>1
  <2>2. ~Waiting(stack) /\ ~IsAt(stack, "sent")
    BY <1>1 DEF Waiting, IsAt
  <2> QED
    BY <1>1, <2>1, <2>2 DEF Counted, Promised, Sent, Woken, DeadFrom
<1>6. OneToken
  <2>1. ~IsAt(stack, "reset") /\ ~IsAt(stack, "check")
    BY <1>1 DEF IsAt
  <2> QED
    BY <2>1, <1>1 DEF OneToken
<1> QED
  BY <1>2, <1>3, <1>4, <1>5, <1>6 DEF IInv

LEMMA NextInv ==
  ASSUME IInv, [Next]_vars
  PROVE  IInv'
<1>1. CASE UNCHANGED vars
  <2>1. Types' /\ Stacked'
    BY <1>1 DEF vars, queueVars, pipeVars, IInv, Types, Stacked
  <2>2. Held' /\ Counted' /\ Promised'
    BY <1>1 DEF vars, queueVars, pipeVars, IInv, Held, Counted, Promised
  <2>3. Sent' /\ Woken'
    BY <1>1 DEF vars, queueVars, pipeVars, IInv, Sent, Woken, Coming
  <2>4. OneToken'
    BY <1>1 DEF vars, queueVars, pipeVars, IInv, OneToken
  <2> QED
    BY <2>1, <2>2, <2>3, <2>4 DEF IInv
<1>2. CASE Exec
  BY <1>2, ExecInv
<1>3. CASE Step
  BY <1>3, LoopAgainInv, LoopEndsInv, HandlerReturnsInv, SendNothingInv, SendInv, ProcessBeginInv,
     ProcessSendsInv, ReadCanWaitInv, ReadInterruptInv, PollReturnsInv, CheckInv, ProcessEndsInv
     DEF Step
<1>4. CASE Handle
  BY <1>4, HandlerPostsInv, HandlerRemovesInv, HandlerExitsInv, HandlerNestsInv DEF Handle
<1>5. CASE PollTimesOut \/ Activate
  BY <1>5, PollTimesOutInv, ActivateInv
<1>6. CASE \E t \in Threads : Other(t)
  BY <1>6, PostInv, RemovePostedInv, ExitInv, InterruptInv, WakeUpInv, WriteInv DEF Other, Finishing
<1> QED
  BY <1>1, <1>2, <1>3, <1>4, <1>5, <1>6 DEF Next

\* The list, the stack, the promises of canWait and the pipe's token agree in
\* every state of sendPostedEvents(), processEvents() and the calls that nest
\* in them.
THEOREM Invariance == Spec => []IInv
<1>1. Init => IInv
  BY InitInv
<1>2. IInv /\ [Next]_vars => IInv'
  BY NextInv
<1> QED
  BY <1>1, <1>2, PTL DEF Spec

LEMMA EveryLoopSane ==
  ASSUME IInv
  PROVE  LoopSane
<1>1. /\ list \in Seq(Entries) /\ Len(list) \in Nat /\ Len(list) <= MaxList
      /\ startOffset \in 0..MaxList /\ insertionOffset \in 0..MaxList /\ startOffset <= Len(list)
      /\ posted \in [Receivers -> Nat] /\ \A r \in Receivers : posted[r] = Cardinality(At(list, r))
      /\ Once(list) /\ DeadTo(list, startOffset)
  BY DEF IInv, Held, Queue
<1>2. TypeOK
  <2>1. recursion = Cardinality({k \in 1..Len(stack) : stack[k].fn = "send"}) /\ stack \in Seq(Frames)
    BY DEF IInv, Stacked, Framed, Senders
  <2>2. list \in Seq([event : Events, live : BOOLEAN])
    BY <1>1 DEF Entries
  <2>3. /\ {canWait, interrupt, wakeUps, readable, swallowed} \subseteq BOOLEAN
        /\ at \in [Threads -> {"idle", "interrupt", "wakeUp", "write"}]
    BY DEF IInv, Types
  <2> QED
    BY <1>1, <2>1, <2>2, <2>3 DEF TypeOK
<1>3. ListKept
  <2>1. recursion = 0 => startOffset = 0
    BY AtRest DEF IInv
  <2> QED
    BY <1>1, <2>1 DEF ListKept, At, Once, DeadTo
<1>4. NoLostEvent
  <2> SUFFICES ASSUME Asleep, \A t \in Threads : at[t] \notin {"wakeUp", "write"},
                      NEW e \in Events, Live(e)
               PROVE  FALSE
    BY DEF NoLostEvent
  <2>1. Waiting(stack) /\ ~Coming
    BY DEF Asleep, InAt, In, top, Waiting, Coming
  <2>2. DeadFrom(list, 0)
    BY <2>1 DEF IInv, Woken
  <2>3. PICK k \in 1..Len(list) : list[k].live
    BY DEF Live
  <2>4. k \in 0 + 1 .. Len(list)
    BY <1>1
  <2> QED
    BY <2>2, <2>3, <2>4 DEF DeadFrom
<1>5. PipeKept
  <2>1. \A w \in {"check", "reset"} : InAt("process", w) <=> IsAt(stack, w)
    BY DEF InAt, In, top, IsAt
  <2>2. (readable \/ IsAt(stack, "check") \/ IsAt(stack, "reset") => wakeUps)
        /\ (wakeUps => readable \/ IsAt(stack, "reset") \/ \E t \in Threads : at[t] = "write")
    BY DEF IInv, OneToken
  <2> QED
    BY <2>1, <2>2 DEF PipeKept
<1> QED
  BY <1>2, <1>3, <1>4, <1>5 DEF LoopSane

\* What the loop and its list hold is sound whatever nests in what, the early
\* returns on a receiver's count are right, nothing that waits for the thread
\* is erased by a nested pass, and the thread does not sleep over an event.
THEOREM SoundLoop == Spec => []LoopSane
BY EveryLoopSane, Invariance, PTL

LEMMA KeepsOrder ==
  ASSUME IInv, [Next]_vars
  PROVE  \A j, k \in 1..Len(list') :
           ( /\ list'[j].live /\ ~Live(list'[j].event)
             /\ list'[k].live /\ list'[k].event # list'[j].event
             /\ Priority[list'[k].event] >= Priority[list'[j].event] )
           => k < j
<1> DEFINE Fresh == \A j \in 1..Len(list') : list'[j].live => Live(list'[j].event)
<1>1. Queue(list, posted, startOffset, insertionOffset) /\ (recursion = 0 => startOffset = 0)
  BY AtRest DEF IInv, Held
<1>2. CASE list' = list
  <2>1. Fresh
    BY <1>2 DEF Live
  <2> QED
    BY <2>1
<1>3. CASE \E e \in Events : Enqueue(e)
  BY <1>1, <1>3, EnqueueQueue
<1>4. CASE \E r \in Receivers : RemoveEvents(r)
  <2>1. Fresh
    BY <1>1, <1>4, RemoveQueue
  <2> QED
    BY <2>1
<1>5. CASE SendBegin \/ SendAgain
  <2>1. Fresh
    BY <1>5, SendInv
  <2> QED
    BY <2>1
<1>6. CASE UNCHANGED vars
  BY <1>2, <1>6 DEF vars, queueVars
<1>7. CASE Exec \/ PollTimesOut \/ Activate
  BY <1>2, <1>7 DEF Exec, PollTimesOut, Activate, queueVars
<1>8. CASE Step
  <2>1. Step => list' = list \/ SendBegin \/ SendAgain
    BY DEF Step, LoopAgain, LoopEnds, HandlerReturns, SendNothing, ProcessBegin, ProcessSends,
           ReadCanWait, ReadInterrupt, PollReturns, CheckRead, CheckReset, ProcessEnds, queueVars
  <2> QED
    BY <2>1, <1>2, <1>5, <1>8
<1>9. CASE Handle
  <2>1. Handle => \/ list' = list \/ \E e \in Events : Enqueue(e)
                  \/ \E r \in Receivers : RemoveEvents(r)
    BY DEF Handle, HandlerPosts, HandlerRemoves, HandlerExits, HandlerNests, queueVars
  <2> QED
    BY <2>1, <1>2, <1>3, <1>4, <1>9
<1>10. CASE \E t \in Threads : Other(t)
  <2>1. PICK t \in Threads : Other(t)
    BY <1>10
  <2>2. \/ list' = list \/ \E e \in Events : Enqueue(e)
        \/ \E r \in Receivers : RemoveEvents(r)
    BY <2>1 DEF Other, Finishing, Post, RemovePosted, Exit, Interrupt, WakeUp, Write, queueVars
  <2> QED
    BY <2>2, <1>2, <1>3, <1>4
<1> QED
  BY <1>6, <1>7, <1>8, <1>9, <1>10 DEF Next

\* "Events with equal priority will be processed in the order posted": whoever
\* posts, and whatever pass or insertion is unfinished, postEvent() puts an
\* event behind all those of at least its priority.
THEOREM OrderKept == Spec => PostedInOrder
<1>1. IInv /\ [Next]_vars =>
        [\A j, k \in 1..Len(list') :
           ( /\ list'[j].live /\ ~Live(list'[j].event)
             /\ list'[k].live /\ list'[k].event # list'[j].event
             /\ Priority[list'[k].event] >= Priority[list'[j].event] )
           => k < j]_vars
  BY KeepsOrder
<1> QED
  BY <1>1, Invariance, PTL DEF Spec, PostedInOrder

=============================================================================

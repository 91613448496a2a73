---------------------- MODULE QFutureInterface_proofs ----------------------
(***************************************************************************)
(* TLAPS proofs about QFutureInterface, for any number of workers, waiters *)
(* and watchers and an input of any length.                                *)
(***************************************************************************)
EXTENDS QFutureInterface, FiniteSetTheorems, NaturalsInduction, TLAPS

USE DEF Bits

-----------------------------------------------------------------------------
(* Ascending lists.                                                        *)

\* f, from lo to hi, lists the members of K in ascending order.
Lists(f, lo, hi, K) ==
  /\ \A i \in lo..hi : f[i] \in K
  /\ \A i, j \in lo..hi : i < j => f[i] < f[j]
  /\ \A k \in K : \E i \in lo..hi : f[i] = k

\* A set of numbers that is not empty has a least one.
LEMMA Least ==
  ASSUME NEW S \in SUBSET Nat, S # {}
  PROVE  \E x \in S : \A y \in S : x <= y
<1> DEFINE R == OpToRel(<, Nat)
<1>1. IsWellFoundedOn(R, Nat)
  BY NatLessThanWellFounded
<1>2. \A x, y \in Nat : <<y, x>> \in R <=> y < x
  BY DEF OpToRel
<1> HIDE DEF R
<1>3. PICK x \in S : \A y \in S : ~ (<<y, x>> \in R)
  BY <1>1, WFMin
<1>4. ASSUME NEW y \in S PROVE x <= y
  <2>1. x \in Nat /\ y \in Nat /\ ~ (<<y, x>> \in R)
    BY <1>3
  <2>2. ~(y < x)
    BY <1>2, <2>1
  <2> QED
    BY <2>1, <2>2
<1> QED
  BY <1>3, <1>4

\* Two lists of the same numbers are the same.
LEMMA ListsAgree ==
  ASSUME NEW K \in SUBSET Int, NEW f, NEW g, NEW lo \in Int, NEW hi \in Int,
         NEW up \in Int, Lists(f, lo, hi, K), Lists(g, lo, up, K)
  PROVE  \A i \in lo..hi : i \in lo..up => f[i] = g[i]
<1> DEFINE Bad == {n \in Nat : lo + n \in lo..hi /\ lo + n \in lo..up /\ f[lo + n] # g[lo + n]}
<1> SUFFICES ASSUME NEW i \in lo..hi, i \in lo..up, f[i] # g[i] PROVE FALSE
  OBVIOUS
<1>1. i - lo \in Bad
  OBVIOUS
<1>2. PICK n \in Bad : \A y \in Bad : n <= y
  BY <1>1, Least
<1> DEFINE m == lo + n
<1>3. m \in lo..hi /\ m \in lo..up /\ f[m] # g[m] /\ f[m] \in K /\ g[m] \in K /\ m \in Int
  BY <1>2 DEF Lists
<1>4. \A j \in lo..m - 1 : f[j] = g[j]
  <2> SUFFICES ASSUME NEW j \in lo..m - 1, f[j] # g[j] PROVE FALSE
    OBVIOUS
  <2>1. j - lo \in Bad
    BY <1>2
  <2> QED
    BY <2>1, <1>2
<1> HIDE DEF m, Bad
<1>5. f[m] \in Int /\ g[m] \in Int
  BY <1>3
<1>6. CASE f[m] < g[m]
  <2>1. PICK j \in lo..up : g[j] = f[m]
    BY <1>3 DEF Lists
  <2>2. ~(m < j) /\ j # m
    BY <2>1, <1>3, <1>6, <1>5 DEF Lists
  <2>3. j \in lo..m - 1
    BY <2>2, <1>3
  <2>4. f[j] = f[m] /\ f[j] < f[m] /\ f[j] \in K
    BY <2>3, <2>1, <1>4, <1>3 DEF Lists
  <2> QED
    BY <2>4, <1>5
<1>7. CASE g[m] < f[m]
  <2>1. PICK j \in lo..hi : f[j] = g[m]
    BY <1>3 DEF Lists
  <2>2. ~(m < j) /\ j # m
    BY <2>1, <1>3, <1>7, <1>5 DEF Lists
  <2>3. j \in lo..m - 1
    BY <2>2, <1>3
  <2>4. g[j] = g[m] /\ g[j] < g[m] /\ g[j] \in K
    BY <2>3, <2>1, <1>4, <1>3 DEF Lists
  <2> QED
    BY <2>4, <1>5
<1> QED
  BY <1>3, <1>5, <1>6, <1>7

LEMMA ListsNotLonger ==
  ASSUME NEW K \in SUBSET Int, NEW f, NEW g, NEW lo \in Int, NEW hi \in Int,
         NEW up \in Int, Lists(f, lo, hi, K), Lists(g, lo, up, K),
         lo - 1 <= hi, lo - 1 <= up
  PROVE  ~(hi < up)
<1> SUFFICES ASSUME hi < up PROVE FALSE
  OBVIOUS
<1>1. hi + 1 \in lo..up
  OBVIOUS
<1>2. PICK j \in lo..hi : f[j] = g[hi + 1]
  BY <1>1 DEF Lists
<1>3. j \in lo..up /\ j < hi + 1
  OBVIOUS
<1>4. f[j] = g[j]
  BY <1>3, ListsAgree
<1>5. g[j] < g[hi + 1] /\ g[j] \in Int
  BY <1>1, <1>3 DEF Lists
<1> QED
  BY <1>2, <1>4, <1>5

LEMMA ListsSame ==
  ASSUME NEW K \in SUBSET Int, NEW f, NEW g, NEW lo \in Int, NEW hi \in Int,
         NEW up \in Int, Lists(f, lo, hi, K), Lists(g, lo, up, K),
         lo - 1 <= hi, lo - 1 <= up
  PROVE  hi = up /\ \A i \in lo..hi : f[i] = g[i]
<1>1. ~(hi < up) /\ ~(up < hi)
  BY ListsNotLonger
<1>2. hi = up
  BY <1>1
<1> QED
  BY <1>2, ListsAgree

\* The numbers below a bound can be listed.
LEMMA Listable ==
  ASSUME NEW m \in Nat, NEW S \in SUBSET (0..m - 1)
  PROVE  \E n \in Nat : \E q \in [1..n -> S] : Lists(q, 1, n, S)
<1> DEFINE Good(k, T) == \E n \in Nat : \E q \in [1..n -> T] : Lists(q, 1, n, T)
           Bad == {k \in Nat : \E T \in SUBSET (0..k - 1) : ~Good(k, T)}
<1> SUFFICES ASSUME Bad # {} PROVE FALSE
  OBVIOUS
<1>1. PICK k \in Bad : \A y \in Bad : k <= y
  BY Least
<1>2. PICK T \in SUBSET (0..k - 1) : ~Good(k, T)
  BY <1>1
<1>3. k \in Nat
  BY <1>1
<1>4. k # 0
  <2> SUFFICES ASSUME k = 0 PROVE FALSE
    OBVIOUS
  <2>1. T = {}
    BY <1>2
  <2> DEFINE q == [i \in 1..0 |-> 0]
  <2>2. q \in [1..0 -> T] /\ Lists(q, 1, 0, T)
    BY <2>1 DEF Lists
  <2> QED
    BY <2>2, <1>2
<1>5. k - 1 \in Nat /\ k - 1 \notin Bad
  <2> HIDE DEF Bad
  <2> QED
    BY <1>1, <1>3, <1>4
<1> DEFINE U == T \ {k - 1}
<1>6. U \in SUBSET (0..(k - 1) - 1)
  BY <1>2, <1>3
<1>7. Good(k - 1, U)
  BY <1>5, <1>6
<1>8. PICK n \in Nat : \E q \in [1..n -> U] : Lists(q, 1, n, U)
  BY <1>7
<1>9. PICK q \in [1..n -> U] : Lists(q, 1, n, U)
  BY <1>8
<1>10. CASE k - 1 \notin T
  <2>1. U = T
    BY <1>10
  <2> QED
    BY <2>1, <1>9, <1>2
<1>11. CASE k - 1 \in T
  <2> DEFINE p == [i \in 1..n + 1 |-> IF i = n + 1 THEN k - 1 ELSE q[i]]
  <2>1. p \in [1..n + 1 -> T]
    BY <1>9, <1>11
  <2>2. \A i, j \in 1..n + 1 : i < j => p[i] < p[j]
    <3> SUFFICES ASSUME NEW i \in 1..n + 1, NEW j \in 1..n + 1, i < j PROVE p[i] < p[j]
      OBVIOUS
    <3>1. i \in 1..n /\ p[i] = q[i] /\ q[i] \in U
      OBVIOUS
    <3>2. CASE j = n + 1
      <4>1. q[i] \in 0..(k - 1) - 1
        BY <3>1, <1>6, Zenon
      <4>2. q[i] < k - 1
        BY <4>1, <1>3
      <4> QED
        BY <4>2, <3>1, <3>2
    <3>3. CASE j \in 1..n
      BY <3>1, <3>3, <1>9 DEF Lists
    <3> QED
      BY <3>2, <3>3
  <2>3. \A x \in T : \E i \in 1..n + 1 : p[i] = x
    <3> SUFFICES ASSUME NEW x \in T PROVE \E i \in 1..n + 1 : p[i] = x
      OBVIOUS
    <3>1. CASE x = k - 1
      BY <3>1
    <3>2. CASE x \in U
      <4>1. PICK i \in 1..n : q[i] = x
        BY <3>2, <1>9 DEF Lists
      <4>2. i \in 1..n + 1 /\ p[i] = x
        BY <4>1
      <4> QED
        BY <4>2
    <3> QED
      BY <3>1, <3>2
  <2> HIDE DEF p
  <2>4. Lists(p, 1, n + 1, T)
    BY <2>1, <2>2, <2>3 DEF Lists
  <2> QED
    BY <2>1, <2>4, <1>2
<1> QED
  BY <1>10, <1>11

\* Ascending(S) lists S.
LEMMA AscendingLists ==
  ASSUME NEW m \in Nat, NEW S \in SUBSET (0..m - 1)
  PROVE  /\ IsFiniteSet(S) /\ Cardinality(S) \in Nat
         /\ Ascending(S) \in [1..Cardinality(S) -> S]
         /\ Lists(Ascending(S), 1, Cardinality(S), S)
<1>0. S \subseteq Int
  OBVIOUS
<1>1. PICK n \in Nat : \E q \in [1..n -> S] : Lists(q, 1, n, S)
  BY Listable
<1>2. PICK q \in [1..n -> S] : Lists(q, 1, n, S)
  BY <1>1
<1>3. \A i, j \in 1..n : q[i] = q[j] => i = j
  <2> SUFFICES ASSUME NEW i \in 1..n, NEW j \in 1..n, q[i] = q[j], i # j PROVE FALSE
    OBVIOUS
  <2>1. q[i] \in Int /\ q[j] \in Int
    BY <1>0
  <2>2. q[i] < q[j] \/ q[j] < q[i]
    BY <1>2 DEF Lists
  <2> QED
    BY <2>1, <2>2
<1>4. q \in Bijection(1..n, S)
  BY <1>2, <1>3 DEF Bijection, Injection, Surjection, IsInjective, Lists
<1>5. IsFiniteSet(1..n) /\ Cardinality(1..n) = n
  BY FS_Interval
<1>6. IsFiniteSet(S) /\ Cardinality(S) = n
  BY <1>4, <1>5, FS_Bijection DEF ExistsBijection
<1> DEFINE Rises(f) == \A i, j \in 1..Cardinality(S) : i < j => f[i] < f[j]
<1>7. q \in [1..Cardinality(S) -> S] /\ Rises(q)
  BY <1>2, <1>6 DEF Lists
<1>8. Ascending(S) \in [1..Cardinality(S) -> S] /\ Rises(Ascending(S))
  BY <1>7 DEF Ascending
<1> DEFINE a == Ascending(S)
<1> HIDE DEF a
<1>9. a \in [1..n -> S] /\ \A i, j \in 1..n : i < j => a[i] < a[j]
  BY <1>8, <1>6 DEF a
<1>10. \A i, j \in 1..n : a[i] = a[j] => i = j
  <2> SUFFICES ASSUME NEW i \in 1..n, NEW j \in 1..n, a[i] = a[j], i # j PROVE FALSE
    OBVIOUS
  <2>1. a[i] \in Int /\ a[j] \in Int
    BY <1>0, <1>9
  <2>2. a[i] < a[j] \/ a[j] < a[i]
    BY <1>9
  <2> QED
    BY <2>1, <2>2
<1>11. a \in Injection(1..n, S)
  BY <1>9, <1>10 DEF Injection, IsInjective
<1>12. a \in Surjection(1..n, S)
  BY <1>11, <1>5, <1>6, FS_Injection
<1>13. \A x \in S : \E i \in 1..n : a[i] = x
  BY <1>12 DEF Surjection
<1>14. Lists(a, 1, n, S)
  BY <1>9, <1>13 DEF Lists
<1> QED
  BY <1>6, <1>9, <1>14 DEF a


-----------------------------------------------------------------------------
(* The items a filter holds back, as tiles on the input: p is the map of   *)
(* the pending items, g the input whose turn it is, L those not reported,  *)
(* K those kept.                                                           *)

After(p, k) == k + p[k].count
Span(p, k)  == k..After(p, k) - 1

\* The tiles neither overlap nor cover what is not reported, and all that was
\* reported from g on is covered.
Tiled(p, g, L) ==
  /\ g \in 0..Count
  /\ \A k \in DOMAIN p :
       /\ k \in Nat /\ k >= g
       /\ p[k].count \in Nat \ {0} /\ After(p, k) <= Count
       /\ \A i \in L : i \notin Span(p, k)
  /\ \A j, k \in DOMAIN p : j < k => After(p, j) <= k
  /\ \A i \in g..Count - 1 : i \in L \/ \E k \in DOMAIN p : i \in Span(p, k)
  /\ \A i \in L : i \in Inputs /\ i >= g

\* The item at k holds what was kept of a block of n inputs, whose end may be
\* covered by an item without results of its own.
HeldFor(p, K, k, n) ==
  /\ Lists(p[k].results, 1, p[k].count, K \cap (k..k + n - 1))
  /\ \/ n = p[k].count
     \/ /\ n > p[k].count
        /\ After(p, k) \in DOMAIN p
        /\ p[After(p, k)].results = <<>>
        /\ p[After(p, k)].count = n - p[k].count

Held(p, K, k) == \E n \in Nat : HeldFor(p, K, k, n)

\* Nothing was kept of the inputs of the item at k, or it is the end of the
\* block of the item before it.
Blank(p, K, e, k) ==
  \/ K \cap Span(p, k) = {}
  \/ \E j \in DOMAIN p :
       /\ j >= e /\ p[j].results # <<>> /\ After(p, j) = k
       /\ Lists(p[j].results, 1, p[j].count, K \cap (j..After(p, k) - 1))

Pieces(p, K, e) ==
  \A k \in DOMAIN p :
    k >= e => IF p[k].results = <<>> THEN Blank(p, K, e, k) ELSE Held(p, K, k)

\* The results of the block that ends before e are in the store, but the item
\* for the end of the block may be pending still.
Half(p, g, e) ==
  \/ e = g
  \/ /\ e > g /\ g \in DOMAIN p
     /\ p[g].results = <<>> /\ After(p, g) = e

Without(p, g) == [k \in DOMAIN p \ {g} |-> p[k]]

LEMMA TiledTail ==
  ASSUME NEW p, NEW g, NEW L, Tiled(p, g, L), g \in DOMAIN p
  PROVE  Tiled(Without(p, g), After(p, g), L)
<1> DEFINE q == Without(p, g)
           h == After(p, g)
<1>1. DOMAIN q = DOMAIN p \ {g} /\ \A k \in DOMAIN q : q[k] = p[k]
  BY DEF Without
<1>2. h \in 0..Count /\ g \in Nat /\ p[g].count \in Nat \ {0} /\ h = g + p[g].count /\ Count \in Nat
  BY FutureAssumption DEF Tiled, After
<1>3. \A k \in DOMAIN q : After(q, k) = After(p, k) /\ Span(q, k) = Span(p, k)
  BY <1>1 DEF After, Span
<1> HIDE DEF q, h
<1>4. \A k \in DOMAIN q :
        /\ k \in Nat /\ k >= h
        /\ q[k].count \in Nat \ {0} /\ After(q, k) <= Count
        /\ \A i \in L : i \notin Span(q, k)
  <2> SUFFICES ASSUME NEW k \in DOMAIN q
               PROVE  /\ k \in Nat /\ k >= h
                      /\ q[k].count \in Nat \ {0} /\ After(q, k) <= Count
                      /\ \A i \in L : i \notin Span(q, k)
    OBVIOUS
  <2>1. k \in DOMAIN p /\ k # g
    BY <1>1
  <2>2. k \in Nat /\ k >= g /\ p[k].count \in Nat \ {0} /\ After(p, k) <= Count
        /\ \A i \in L : i \notin Span(p, k)
    BY <2>1 DEF Tiled
  <2>3. g < k
    BY <2>1, <2>2, <1>2
  <2>4. h <= k
    BY <2>1, <2>3 DEF Tiled, h
  <2> QED
    BY <2>2, <2>4, <1>1, <1>2, <1>3
<1>5. \A j, k \in DOMAIN q : j < k => After(q, j) <= k
  BY <1>1, <1>3 DEF Tiled
<1>6. \A i \in h..Count - 1 : i \in L \/ \E k \in DOMAIN q : i \in Span(q, k)
  <2> SUFFICES ASSUME NEW i \in h..Count - 1, i \notin L
               PROVE  \E k \in DOMAIN q : i \in Span(q, k)
    OBVIOUS
  <2>1. i \in g..Count - 1
    BY <1>2
  <2>2. PICK k \in DOMAIN p : i \in Span(p, k)
    BY <2>1 DEF Tiled
  <2>3. k # g
    BY <2>2, <1>2 DEF Span, h
  <2> QED
    BY <2>2, <2>3, <1>1, <1>3
<1>7. \A i \in L : i \in Inputs /\ i >= h
  <2> SUFFICES ASSUME NEW i \in L PROVE i \in Inputs /\ i >= h
    OBVIOUS
  <2>1. i \in Inputs /\ i >= g /\ i \notin Span(p, g)
    BY DEF Tiled
  <2> QED
    BY <2>1, <1>2 DEF Span, Inputs, h
<1> QED
  BY <1>2, <1>4, <1>5, <1>6, <1>7 DEF Tiled, q, h


LEMMA TileFacts ==
  ASSUME NEW p, NEW g, NEW L, Tiled(p, g, L), NEW k \in DOMAIN p
  PROVE  /\ g \in Nat /\ k \in Nat /\ k >= g /\ p[k].count \in Nat \ {0}
         /\ After(p, k) = k + p[k].count /\ After(p, k) <= Count
         /\ Span(p, k) = k..After(p, k) - 1
  BY FutureAssumption DEF Tiled, After, Span

\* An item behind the one taken away still holds what it held.
LEMMA HeldStays ==
  ASSUME NEW p, NEW g, NEW L, NEW K, Tiled(p, g, L), g \in DOMAIN p,
         NEW k \in DOMAIN p, k > g, Held(p, K, k)
  PROVE  Held(Without(p, g), K, k)
<1> DEFINE q == Without(p, g)
<1>1. PICK n \in Nat : HeldFor(p, K, k, n)
  BY DEF Held
<1>2. g \in Nat /\ k \in Nat /\ p[k].count \in Nat \ {0} /\ After(p, k) = k + p[k].count
  BY TileFacts
<1>3. After(p, k) # g
  BY <1>2
<1>4. q[k] = p[k] /\ After(q, k) = After(p, k)
  BY <1>2 DEF Without, After
<1>5. After(p, k) \in DOMAIN p => After(p, k) \in DOMAIN q /\ q[After(p, k)] = p[After(p, k)]
  BY <1>3 DEF Without
<1> HIDE DEF q
<1>6. HeldFor(q, K, k, n)
  BY <1>1, <1>4, <1>5 DEF HeldFor
<1> QED
  BY <1>6 DEF Held, q

\* So is it with an item without results, if the block it ends is not the one
\* that is taken away.
LEMMA BlankStays ==
  ASSUME NEW p, NEW g, NEW L, NEW K, NEW e, NEW h, Tiled(p, g, L), g \in DOMAIN p,
         NEW k \in DOMAIN p, k > g, Blank(p, K, e, k),
         \A j \in DOMAIN p : j >= e /\ p[j].results # <<>> /\ After(p, j) = k => j # g /\ j >= h
  PROVE  Blank(Without(p, g), K, h, k)
<1> DEFINE q == Without(p, g)
<1>1. g \in Nat /\ k \in Nat
  BY TileFacts
<1>2. q[k] = p[k] /\ After(q, k) = After(p, k) /\ Span(q, k) = Span(p, k)
  BY <1>1 DEF Without, After, Span
<1>3. CASE K \cap Span(p, k) = {}
  BY <1>3, <1>2 DEF Blank
<1>4. CASE \E j \in DOMAIN p :
             /\ j >= e /\ p[j].results # <<>> /\ After(p, j) = k
             /\ Lists(p[j].results, 1, p[j].count, K \cap (j..After(p, k) - 1))
  <2>1. PICK j \in DOMAIN p :
             /\ j >= e /\ p[j].results # <<>> /\ After(p, j) = k
             /\ Lists(p[j].results, 1, p[j].count, K \cap (j..After(p, k) - 1))
    BY <1>4
  <2>2. j # g /\ j >= h
    BY <2>1
  <2>3. j \in DOMAIN q /\ q[j] = p[j] /\ After(q, j) = After(p, j)
    BY <2>2 DEF Without, After
  <2> QED
    BY <2>1, <2>2, <2>3, <1>2 DEF Blank
<1> QED
  BY <1>3, <1>4 DEF Blank

LEMMA HalfTail ==
  ASSUME NEW p, NEW g, NEW L, NEW K, NEW e, Tiled(p, g, L),
         Half(p, g, e), e # g, Pieces(p, K, e)
  PROVE  After(p, g) = e /\ Pieces(Without(p, g), K, e)
<1> DEFINE q == Without(p, g)
<1>1. g \in DOMAIN p /\ e > g /\ After(p, g) = e
  BY DEF Half
<1>2. g \in Nat /\ e \in Nat
  BY <1>1, TileFacts
<1> SUFFICES ASSUME NEW k \in DOMAIN q, k >= e
             PROVE  IF q[k].results = <<>> THEN Blank(q, K, e, k) ELSE Held(q, K, k)
  BY <1>1 DEF Pieces
<1>3. k \in DOMAIN p /\ q[k] = p[k]
  BY DEF Without
<1>4. k \in Nat /\ k > g
  BY <1>1, <1>2, <1>3, TileFacts
<1>5. IF p[k].results = <<>> THEN Blank(p, K, e, k) ELSE Held(p, K, k)
  BY <1>3 DEF Pieces
<1>6. CASE p[k].results = <<>>
  <2>1. \A j \in DOMAIN p : j >= e /\ p[j].results # <<>> /\ After(p, j) = k => j # g /\ j >= e
    BY <1>1, <1>2
  <2>2. Blank(q, K, e, k)
    BY <2>1, <1>6, <1>5, <1>4, <1>3, <1>1, BlankStays
  <2> QED
    BY <2>2, <1>3, <1>6
<1>7. CASE p[k].results # <<>>
  <2>1. Held(q, K, k)
    BY <1>7, <1>5, <1>4, <1>3, <1>1, HeldStays
  <2> QED
    BY <2>1, <1>3, <1>7
<1> QED
  BY <1>6, <1>7

LEMMA BlankTail ==
  ASSUME NEW p, NEW g, NEW L, NEW K, Tiled(p, g, L), g \in DOMAIN p,
         p[g].results = <<>>, Pieces(p, K, g)
  PROVE  K \cap Span(p, g) = {} /\ Pieces(Without(p, g), K, After(p, g))
<1> DEFINE q == Without(p, g)
           h == After(p, g)
<1>1. g \in Nat /\ p[g].count \in Nat \ {0} /\ h = g + p[g].count
  BY TileFacts
<1>2. Blank(p, K, g, g)
  BY <1>1 DEF Pieces
<1>3. \A j \in DOMAIN p : ~(j >= g /\ After(p, j) = g)
  <2> SUFFICES ASSUME NEW j \in DOMAIN p, j >= g, After(p, j) = g PROVE FALSE
    OBVIOUS
  <2>1. j \in Nat /\ p[j].count \in Nat \ {0} /\ After(p, j) = j + p[j].count
    BY TileFacts
  <2> QED
    BY <2>1, <1>1
<1>4. K \cap Span(p, g) = {}
  BY <1>2, <1>3 DEF Blank
<1>5. ASSUME NEW k \in DOMAIN q, k >= h
      PROVE  IF q[k].results = <<>> THEN Blank(q, K, h, k) ELSE Held(q, K, k)
  <2>1. k \in DOMAIN p /\ q[k] = p[k]
    BY DEF Without
  <2>2. k \in Nat /\ k > g /\ k >= g
    BY <2>1, <1>1, <1>5, TileFacts
  <2>3. IF p[k].results = <<>> THEN Blank(p, K, g, k) ELSE Held(p, K, k)
    BY <2>1, <2>2 DEF Pieces
  <2>4. CASE p[k].results = <<>>
    <3>1. \A j \in DOMAIN p : j >= g /\ p[j].results # <<>> /\ After(p, j) = k => j # g /\ j >= h
      <4> SUFFICES ASSUME NEW j \in DOMAIN p, j >= g, p[j].results # <<>> PROVE j # g /\ j >= h
        OBVIOUS
      <4>1. j # g /\ j \in Nat
        BY TileFacts
      <4>2. g < j
        BY <4>1, <1>1
      <4> QED
        BY <4>1, <4>2, <1>1 DEF Tiled
    <3>2. Blank(q, K, h, k)
      BY <3>1, <2>4, <2>3, <2>2, <2>1, BlankStays
    <3> QED
      BY <3>2, <2>1, <2>4
  <2>5. CASE p[k].results # <<>>
    <3>1. Held(q, K, k)
      BY <2>5, <2>3, <2>2, <2>1, HeldStays
    <3> QED
      BY <3>1, <2>1, <2>5
  <2> QED
    BY <2>4, <2>5
<1> QED
  BY <1>4, <1>5 DEF Pieces

LEMMA HeldTail ==
  ASSUME NEW p, NEW g, NEW L, NEW K, NEW n \in Nat, Tiled(p, g, L), g \in DOMAIN p,
         p[g].results # <<>>, Pieces(p, K, g), HeldFor(p, K, g, n)
  PROVE  /\ Pieces(Without(p, g), K, g + n)
         /\ Half(Without(p, g), After(p, g), g + n)
         /\ g + n <= Count
<1> DEFINE q == Without(p, g)
           h == After(p, g)
<1>1. g \in Nat /\ p[g].count \in Nat \ {0} /\ h = g + p[g].count /\ h <= Count /\ Count \in Nat /\ h \in Nat
  BY TileFacts, FutureAssumption
<1>2. CASE n = p[g].count
  <2>1. g + n = h
    BY <1>1, <1>2
  <2>2. ASSUME NEW k \in DOMAIN q, k >= h
        PROVE  IF q[k].results = <<>> THEN Blank(q, K, h, k) ELSE Held(q, K, k)
    <3>1. k \in DOMAIN p /\ q[k] = p[k]
      BY DEF Without
    <3>2. k \in Nat /\ k > g /\ k >= g
      BY <3>1, <1>1, <2>2, TileFacts
    <3>3. IF p[k].results = <<>> THEN Blank(p, K, g, k) ELSE Held(p, K, k)
      BY <3>1, <3>2 DEF Pieces
    <3>4. CASE p[k].results = <<>> /\ K \cap Span(p, k) = {}
      <4>1. Span(q, k) = Span(p, k)
        BY <3>1 DEF Span, After
      <4> QED
        BY <4>1, <3>1, <3>4 DEF Blank
    <3>5. CASE p[k].results = <<>> /\ K \cap Span(p, k) # {}
      <4>1. \A j \in DOMAIN p : j >= g /\ p[j].results # <<>> /\ After(p, j) = k
                                /\ Lists(p[j].results, 1, p[j].count, K \cap (j..After(p, k) - 1)) => j # g
        <5> SUFFICES ASSUME Lists(p[g].results, 1, p[g].count, K \cap (g..After(p, k) - 1)),
                            h = k
                     PROVE  FALSE
          OBVIOUS
        <5>1. PICK x \in K \cap Span(p, k) : TRUE
          BY <3>5
        <5>a. /\ k \in Nat /\ p[k].count \in Nat \ {0} /\ After(p, k) = k + p[k].count
              /\ Span(p, k) = k..After(p, k) - 1
          BY <3>1, TileFacts, Zenon
        <5>2. x \in Span(p, k) /\ x \in k..After(p, k) - 1 /\ After(p, k) \in Nat
          BY <5>1, <5>a
        <5>3. x \in K \cap (g..After(p, k) - 1)
          BY <5>1, <5>2, <3>2, <1>1
        <5>4. PICK i \in 1..p[g].count : p[g].results[i] = x
          BY <5>3 DEF Lists
        <5>5. x \in K \cap (g..g + n - 1)
          BY <5>4 DEF HeldFor, Lists
        <5> QED
          BY <5>5, <5>2, <2>1, <1>1, <3>2
      <4>2. PICK j \in DOMAIN p : 
               /\ j >= g /\ p[j].results # <<>> /\ After(p, j) = k
               /\ Lists(p[j].results, 1, p[j].count, K \cap (j..After(p, k) - 1))
        BY <3>3, <3>5 DEF Blank
      <4>3. j # g
        BY <4>1, <4>2
      <4>4. j \in Nat
        BY <4>2, TileFacts
      <4>5. g < j
        BY <4>3, <4>4, <4>2, <1>1
      <4>6. h <= j
        BY <4>5 DEF Tiled
      <4>7. j \in DOMAIN q /\ q[j] = p[j] /\ After(q, j) = After(p, j) /\ After(q, k) = After(p, k)
        BY <4>3, <3>1 DEF Without, After
      <4>8. Blank(q, K, h, k)
        BY <4>2, <4>6, <4>4, <4>7, <1>1 DEF Blank
      <4> QED
        BY <4>8, <3>1, <3>5
    <3>6. CASE p[k].results # <<>>
      <4>1. Held(q, K, k)
        BY <3>6, <3>3, <3>2, <3>1, HeldStays
      <4> QED
        BY <4>1, <3>1, <3>6
    <3> QED
      BY <3>4, <3>5, <3>6
  <2> QED
    BY <2>1, <2>2, <1>1 DEF Pieces, Half
<1>3. CASE n # p[g].count
  <2>1. /\ h \in DOMAIN p /\ p[h].results = <<>> /\ p[h].count = n - p[g].count /\ n > p[g].count
    BY <1>3 DEF HeldFor
  <2>a. After(p, h) = h + p[h].count /\ After(p, h) <= Count
    BY <2>1, TileFacts, Zenon
  <2>2. After(p, h) = g + n /\ g + n > h /\ g + n <= Count /\ h # g
    <3> HIDE DEF h
    <3> QED
      BY <2>1, <2>a, <1>1
  <2>3. ASSUME NEW k \in DOMAIN q, k >= g + n
        PROVE  IF q[k].results = <<>> THEN Blank(q, K, g + n, k) ELSE Held(q, K, k)
    <3>1. k \in DOMAIN p /\ q[k] = p[k]
      BY DEF Without
    <3>2. k \in Nat /\ k > g /\ k >= g /\ k > h
      BY <3>1, <1>1, <2>2, <2>3, TileFacts
    <3>3. IF p[k].results = <<>> THEN Blank(p, K, g, k) ELSE Held(p, K, k)
      BY <3>1, <3>2 DEF Pieces
    <3>4. CASE p[k].results = <<>>
      <4>1. \A j \in DOMAIN p : j >= g /\ p[j].results # <<>> /\ After(p, j) = k => j # g /\ j >= g + n
        <5> SUFFICES ASSUME NEW j \in DOMAIN p, j >= g, p[j].results # <<>>, After(p, j) = k
                     PROVE  j # g /\ j >= g + n
          OBVIOUS
        <5>1. j # g
          BY <3>2
        <5>2. j \in Nat /\ g < j
          BY <5>1, <1>1, TileFacts
        <5>3. h <= j /\ j # h
          BY <5>2, <2>1 DEF Tiled
        <5>4. h < j
          BY <5>2, <5>3, <1>1
        <5>5. After(p, h) <= j
          BY <5>4, <2>1 DEF Tiled
        <5> QED
          BY <5>1, <5>5, <2>2, <5>2
      <4>2. Blank(q, K, g + n, k)
        BY <4>1, <3>4, <3>3, <3>2, <3>1, BlankStays
      <4> QED
        BY <4>2, <3>1, <3>4
    <3>5. CASE p[k].results # <<>>
      <4>1. Held(q, K, k)
        BY <3>5, <3>3, <3>2, <3>1, HeldStays
      <4> QED
        BY <4>1, <3>1, <3>5
    <3> QED
      BY <3>4, <3>5
  <2>4. Half(q, h, g + n)
    <3>1. h \in DOMAIN q /\ q[h] = p[h] /\ After(q, h) = After(p, h)
      BY <2>1, <2>2 DEF Without, After
    <3> QED
      BY <3>1, <2>1, <2>2 DEF Half
  <2> QED
    BY <2>2, <2>3, <2>4 DEF Pieces
<1> QED
  BY <1>2, <1>3


-----------------------------------------------------------------------------
(* One round of the loop that brings pending items into the store.         *)

Turn(s) == s.resultCount + s.filteredResults

IsFun(f) == f = [i \in DOMAIN f |-> f[i]]

IsStore(s) ==
  /\ s = [results |-> s.results, pending |-> s.pending, insertIndex |-> s.insertIndex,
          resultCount |-> s.resultCount, filteredResults |-> s.filteredResults]
  /\ IsFun(s.results) /\ IsFun(s.pending)
  /\ s.insertIndex \in Nat /\ s.resultCount \in Nat /\ s.filteredResults \in Nat

\* The store of a filter: what was kept of the inputs below e, and the tiles.
Filtered(s, L, K, e) ==
  /\ IsStore(s)
  /\ Tiled(s.pending, Turn(s), L)
  /\ DOMAIN s.results = 0..s.resultCount - 1
  /\ Lists(s.results, 0, s.resultCount - 1, K \cap (0..e - 1))
  /\ Half(s.pending, Turn(s), e)
  /\ Pieces(s.pending, K, e)

Fields(r, p, i, n, f) ==
  [results |-> r, pending |-> p, insertIndex |-> i, resultCount |-> n, filteredResults |-> f]

LEMMA WithField ==
  ASSUME NEW r, NEW p, NEW i, NEW n, NEW f, NEW x
  PROVE  /\ [Fields(r, p, i, n, f) EXCEPT !.results = x] = Fields(x, p, i, n, f)
         /\ [Fields(r, p, i, n, f) EXCEPT !.pending = x] = Fields(r, x, i, n, f)
         /\ [Fields(r, p, i, n, f) EXCEPT !.insertIndex = x] = Fields(r, p, x, n, f)
         /\ [Fields(r, p, i, n, f) EXCEPT !.resultCount = x] = Fields(r, p, i, x, f)
         /\ [Fields(r, p, i, n, f) EXCEPT !.filteredResults = x] = Fields(r, p, i, n, x)
  BY DEF Fields

LEMMA StoreIs ==
  ASSUME NEW s, IsStore(s)
  PROVE  s = Fields(s.results, s.pending, s.insertIndex, s.resultCount, s.filteredResults)
  BY DEF IsStore, Fields

LEMMA StoreWith ==
  ASSUME NEW s, IsStore(s), NEW x
  PROVE  /\ [s EXCEPT !.results = x]
              = Fields(x, s.pending, s.insertIndex, s.resultCount, s.filteredResults)
         /\ [s EXCEPT !.pending = x]
              = Fields(s.results, x, s.insertIndex, s.resultCount, s.filteredResults)
         /\ [s EXCEPT !.insertIndex = x]
              = Fields(s.results, s.pending, x, s.resultCount, s.filteredResults)
         /\ [s EXCEPT !.resultCount = x]
              = Fields(s.results, s.pending, s.insertIndex, x, s.filteredResults)
         /\ [s EXCEPT !.filteredResults = x]
              = Fields(s.results, s.pending, s.insertIndex, s.resultCount, x)
<1>1. PICK r, p, i, n, f : /\ s = Fields(r, p, i, n, f)
                          /\ s.results = r /\ s.pending = p /\ s.insertIndex = i
                          /\ s.resultCount = n /\ s.filteredResults = f
  BY StoreIs
<1> QED
  BY <1>1, WithField, SMTT(30)

LEMMA StoreWithTwo ==
  ASSUME NEW s, IsStore(s), NEW x, NEW y, NEW u, u = [s EXCEPT !.results = x]
  PROVE  [u EXCEPT !.resultCount = y]
           = Fields(x, s.pending, s.insertIndex, y, s.filteredResults)
<1>1. u = Fields(x, s.pending, s.insertIndex, s.resultCount, s.filteredResults)
  BY StoreWith, Zenon
<1>2. [Fields(x, s.pending, s.insertIndex, s.resultCount, s.filteredResults) EXCEPT !.resultCount = y]
        = Fields(x, s.pending, s.insertIndex, y, s.filteredResults)
  BY DEF Fields
<1> QED
  BY <1>1, <1>2, Zenon

\* The minimum of a set that has one.
LEMMA MinIs ==
  ASSUME NEW S \in SUBSET Int, NEW m \in S, \A x \in S : m <= x
  PROVE  Min(S) = m
<1>1. \E x \in S : \A y \in S : x <= y
  OBVIOUS
<1>2. Min(S) \in S /\ \A y \in S : Min(S) <= y
  BY <1>1 DEF Min
<1>3. PICK k \in S : k = Min(S)
  BY <1>2
<1>4. k <= m /\ m <= k /\ k \in Int /\ m \in Int
  BY <1>2, <1>3
<1> QED
  BY <1>3, <1>4

LEMMA SyncCountIs ==
  ASSUME NEW s, NEW r \in Nat, s.resultCount \in Nat, DOMAIN s.results = 0..r - 1,
         s.resultCount <= r, r <= 2 * Count
  PROVE  SyncResultCount(s) = [s EXCEPT !.resultCount = r]
<1> DEFINE behind == {i \in s.resultCount..2 * Count : i \notin DOMAIN s.results}
<1>1. behind \in SUBSET Int /\ r \in behind /\ \A x \in behind : r <= x
  BY FutureAssumption
<1>2. Min(behind) = r
  BY <1>1, MinIs
<1>3. SyncResultCount(s) = [s EXCEPT !.resultCount = Min(behind)]
  BY DEF SyncResultCount
<1> HIDE DEF behind
<1> QED
  BY <1>2, <1>3

\* h is f up to m and r behind that.
Joined(h, f, r, m, c) ==
  /\ \A i \in 0..m - 1 : h[i] = f[i]
  /\ \A i \in m..m + c - 1 : h[i] = r[i - m + 1]

LEMMA ListsJoin ==
  ASSUME NEW K \in SUBSET Int, NEW f, NEW r, NEW m \in Nat, NEW c \in Nat, NEW g \in Nat,
         NEW n \in Nat, NEW h,
         Lists(f, 0, m - 1, K \cap (0..g - 1)), Lists(r, 1, c, K \cap (g..g + n - 1)),
         Joined(h, f, r, m, c)
  PROVE  Lists(h, 0, m + c - 1, K \cap (0..g + n - 1))
<1> USE DEF Joined
<1>1. \A i \in 0..m - 1 : h[i] \in K \cap (0..g - 1) /\ h[i] \in Int
  BY DEF Lists
<1>2. \A i \in m..m + c - 1 : h[i] \in K \cap (g..g + n - 1) /\ h[i] \in Int
  <2> SUFFICES ASSUME NEW i \in m..m + c - 1
               PROVE  h[i] \in K \cap (g..g + n - 1) /\ h[i] \in Int
    OBVIOUS
  <2>1. i - m + 1 \in 1..c
    OBVIOUS
  <2> QED
    BY <2>1 DEF Lists
<1>3. \A i \in 0..m + c - 1 : i \in 0..m - 1 \/ i \in m..m + c - 1
  OBVIOUS
<1>4. \A i \in 0..m + c - 1 : h[i] \in K \cap (0..g + n - 1)
  BY <1>1, <1>2, <1>3
<1>5. \A i, j \in 0..m + c - 1 : i < j => h[i] < h[j]
  <2> SUFFICES ASSUME NEW i \in 0..m + c - 1, NEW j \in 0..m + c - 1, i < j
               PROVE  h[i] < h[j]
    OBVIOUS
  <2>1. CASE j \in 0..m - 1
    <3>1. i \in 0..m - 1
      BY <2>1
    <3> QED
      BY <3>1, <2>1 DEF Lists
  <2>2. CASE i \in 0..m - 1 /\ j \in m..m + c - 1
    BY <2>2, <1>1, <1>2
  <2>3. CASE i \in m..m + c - 1
    <3>1. j \in m..m + c - 1 /\ i - m + 1 \in 1..c /\ j - m + 1 \in 1..c /\ i - m + 1 < j - m + 1
      BY <2>3
    <3> QED
      BY <3>1, <2>3 DEF Lists
  <2> QED
    BY <1>3, <2>1, <2>2, <2>3
<1>6. \A k \in K \cap (0..g + n - 1) : \E i \in 0..m + c - 1 : h[i] = k
  <2> SUFFICES ASSUME NEW k \in K \cap (0..g + n - 1) PROVE \E i \in 0..m + c - 1 : h[i] = k
    OBVIOUS
  <2>1. CASE k \in 0..g - 1
    <3>1. PICK i \in 0..m - 1 : f[i] = k
      BY <2>1 DEF Lists
    <3>2. i \in 0..m + c - 1
      OBVIOUS
    <3> QED
      BY <3>1, <3>2
  <2>2. CASE k \in g..g + n - 1
    <3>1. PICK i \in 1..c : r[i] = k
      BY <2>2 DEF Lists
    <3>2. i + m - 1 \in m..m + c - 1 /\ (i + m - 1) - m + 1 = i /\ i + m - 1 \in 0..m + c - 1
      OBVIOUS
    <3>3. h[i + m - 1] = r[(i + m - 1) - m + 1]
      BY <3>2
    <3>4. h[i + m - 1] = k
      BY <3>1, <3>2, <3>3
    <3> QED
      BY <3>2, <3>4
  <2> QED
    BY <2>1, <2>2
<1> QED
  BY <1>4, <1>5, <1>6 DEF Lists

\* A new stretch of a function: what it holds, and where.
LEMMA UponIs ==
  ASSUME NEW f, NEW g
  PROVE  /\ DOMAIN Upon(f, g) = DOMAIN f \cup DOMAIN g
         /\ \A i \in DOMAIN f : Upon(f, g)[i] = f[i]
         /\ \A i \in DOMAIN g : i \notin DOMAIN f => Upon(f, g)[i] = g[i]
         /\ IsFun(Upon(f, g))
  BY DEF Upon, IsFun

\* The insertion of results behind the last of a filter.
LEMMA InsertResults ==
  ASSUME NEW s, IsStore(s), DOMAIN s.results = 0..s.resultCount - 1,
         NEW item, item.results # <<>>, item.count \in Nat \ {0},
         s.resultCount + item.count <= 2 * Count
  PROVE  LET t == InsertIfValid(s, s.resultCount, item)
         IN  /\ IsStore(t) /\ t.pending = s.pending /\ t.insertIndex = s.insertIndex
             /\ t.resultCount = s.resultCount + item.count
             /\ t.filteredResults = s.filteredResults
             /\ DOMAIN t.results = 0..t.resultCount - 1
             /\ Joined(t.results, s.results, item.results, s.resultCount, item.count)
<1> DEFINE m == s.resultCount
           c == item.count
           new == [i \in m..m + c - 1 |-> item.results[i - m + 1]]
           f == Upon(new, s.results)
           u == [s EXCEPT !.results = f]
           t == [u EXCEPT !.resultCount = m + c]
<1>1. m \in Nat /\ c \in Nat \ {0}
  BY DEF IsStore
<1>2. DOMAIN new = m..m + c - 1
  OBVIOUS
<1>3. DOMAIN f = 0..m + c - 1 /\ IsFun(f)
        /\ (\A i \in m..m + c - 1 : f[i] = new[i])
        /\ (\A i \in 0..m - 1 : f[i] = s.results[i])
  <2> HIDE DEF new
  <2>1. (m..m + c - 1) \cup (0..m - 1) = 0..m + c - 1
    BY <1>1
  <2>2. \A i \in 0..m - 1 : i \notin m..m + c - 1
    BY <1>1
  <2>3. /\ DOMAIN f = DOMAIN new \cup DOMAIN s.results /\ IsFun(f)
        /\ \A i \in DOMAIN new : f[i] = new[i]
        /\ \A i \in DOMAIN s.results : i \notin DOMAIN new => f[i] = s.results[i]
    BY UponIs, Zenon
  <2> HIDE DEF f
  <2> QED
    BY <1>2, <2>1, <2>2, <2>3
<1>4. \A i \in m..m + c - 1 : f[i] = item.results[i - m + 1]
  BY <1>3
<1> HIDE DEF f
<1>10. u = Fields(f, s.pending, s.insertIndex, m, s.filteredResults)
  BY StoreWith, Zenon
<1>11. t = Fields(f, s.pending, s.insertIndex, m + c, s.filteredResults)
  <2>1. u = [s EXCEPT !.results = f]
    OBVIOUS
  <2> HIDE DEF u
  <2> QED
    BY <2>1, StoreWithTwo
<1>5. /\ u.results = f /\ u.pending = s.pending /\ u.insertIndex = s.insertIndex
      /\ u.resultCount = m /\ u.filteredResults = s.filteredResults
  BY <1>10 DEF Fields
<1>6. SyncResultCount(u) = t
  <2> HIDE DEF u
  <2>1. DOMAIN u.results = 0..(m + c) - 1 /\ m + c \in Nat /\ u.resultCount <= m + c /\ m + c <= 2 * Count
        /\ u.resultCount \in Nat
    BY <1>1, <1>3, <1>5
  <2> QED
    BY <2>1, SyncCountIs
<1>7. InsertIfValid(s, m, item) = t
  BY <1>6 DEF InsertIfValid, f
<1>8. /\ t.results = f /\ t.pending = s.pending /\ t.insertIndex = s.insertIndex
      /\ t.resultCount = m + c /\ t.filteredResults = s.filteredResults
      /\ t = [results |-> t.results, pending |-> t.pending, insertIndex |-> t.insertIndex,
              resultCount |-> t.resultCount, filteredResults |-> t.filteredResults]
  BY <1>11 DEF Fields
<1> HIDE DEF t
<1>9. IsStore(t)
  BY <1>1, <1>3, <1>8 DEF IsStore
<1>12. Joined(t.results, s.results, item.results, m, c)
  BY <1>3, <1>4, <1>8 DEF Joined
<1>13. DOMAIN t.results = 0..t.resultCount - 1
  <2>1. m + c - 1 = t.resultCount - 1
    BY <1>1, <1>8
  <2> QED
    BY <1>3, <1>8, <2>1, Zenon
<1> HIDE DEF m, c
<1> QED
  BY <1>7, <1>8, <1>9, <1>12, <1>13 DEF m, c

LEMMA InsertNothing ==
  ASSUME NEW s, IsStore(s), NEW index, NEW item, item.results = <<>>, item.count \in Nat
  PROVE  LET t == InsertIfValid(s, index, item)
         IN  /\ IsStore(t) /\ t.pending = s.pending /\ t.insertIndex = s.insertIndex
             /\ t.resultCount = s.resultCount /\ t.results = s.results
             /\ t.filteredResults = s.filteredResults + item.count
  BY DEF IsStore, InsertIfValid


LEMMA SyncOneIs ==
  ASSUME NEW s, IsStore(s), NEW L, Tiled(s.pending, Turn(s), L)
  PROVE  /\ Turn(s) \notin DOMAIN s.pending => SyncOne(s) = s
         /\ Turn(s) \in DOMAIN s.pending =>
              LET t == InsertIfValid(s, s.resultCount, s.pending[Turn(s)])
              IN  SyncOne(s) = [t EXCEPT !.pending = Restrict(@, DOMAIN @ \ {Turn(s)})]
<1> DEFINE p == s.pending
           g == Turn(s)
           first == Min(DOMAIN p)
<1>1. SyncOne(s) = IF p # <<>> /\ first = g
                   THEN [InsertIfValid(s, first - s.filteredResults, p[first]) EXCEPT
                           !.pending = Restrict(@, DOMAIN @ \ {first})]
                   ELSE s
  BY DEF SyncOne, Turn
<1>2. DOMAIN p \in SUBSET Int /\ (\A k \in DOMAIN p : g <= k)
  BY DEF Tiled
<1>3. CASE g \in DOMAIN p
  <2>1. first = g
    BY <1>2, <1>3, MinIs
  <2>2. p # <<>>
    BY <1>3
  <2>3. g - s.filteredResults = s.resultCount
    BY DEF Turn, IsStore
  <2> HIDE DEF first, p, g
  <2>4. SyncOne(s) = [InsertIfValid(s, g - s.filteredResults, p[g]) EXCEPT
                        !.pending = Restrict(@, DOMAIN @ \ {g})]
    BY <1>1, <2>1, <2>2
  <2> QED
    BY <2>3, <2>4, <1>3 DEF p, g
<1>4. CASE g \notin DOMAIN p
  <2>1. CASE p = <<>>
    <3> HIDE DEF p, g, first
    <3> QED
      BY <2>1, <1>1, <1>4 DEF p, g
  <2>2. CASE p # <<>>
    <3>1. DOMAIN p # {}
      <4> SUFFICES ASSUME DOMAIN p = {} PROVE FALSE
        OBVIOUS
      <4>1. IsFun(p)
        BY DEF IsStore
      <4>2. p = <<>>
        BY <4>1 DEF IsFun
      <4> QED
        BY <4>2, <2>2
    <3>2. DOMAIN p \in SUBSET Nat
      BY DEF Tiled
    <3>3. PICK m \in DOMAIN p : \A y \in DOMAIN p : m <= y
      BY <3>1, <3>2, Least
    <3>4. first = m
      BY <1>2, <3>3, MinIs
    <3>5. first # g
      BY <3>3, <3>4, <1>4
    <3> HIDE DEF p, g, first
    <3> QED
      BY <3>5, <1>1, <1>4 DEF p, g
  <2> QED
    BY <2>1, <2>2
<1> QED
  BY <1>3, <1>4

\* A round leaves what the loop needs as it was, and takes the item whose turn
\* it is off the pending ones.
LEMMA SyncOneKeeps ==
  ASSUME NEW s, NEW L, NEW K \in SUBSET Inputs, NEW e, Filtered(s, L, K, e),
         Turn(s) \in DOMAIN s.pending
  PROVE  LET t == SyncOne(s)
         IN  /\ \E e2 : Filtered(t, L, K, e2)
             /\ t.pending = Without(s.pending, Turn(s))
             /\ t.insertIndex = s.insertIndex
             /\ Turn(t) > Turn(s)
             /\ t.resultCount >= s.resultCount
             /\ \A i \in DOMAIN s.results : i \in DOMAIN t.results /\ t.results[i] = s.results[i]
<1> DEFINE p == s.pending
           g == Turn(s)
           m == s.resultCount
           item == p[g]
           c == item.count
           in == InsertIfValid(s, m, item)
           q == Without(p, g)
           t == [in EXCEPT !.pending = Restrict(@, DOMAIN @ \ {g})]
<1>1. IsStore(s) /\ Tiled(p, g, L) /\ DOMAIN s.results = 0..m - 1
      /\ Lists(s.results, 0, m - 1, K \cap (0..e - 1)) /\ Half(p, g, e) /\ Pieces(p, K, e)
  BY DEF Filtered
<1>2. SyncOne(s) = t
  BY <1>1, SyncOneIs
<1>3. /\ g \in Nat /\ m \in Nat /\ s.filteredResults \in Nat /\ g = m + s.filteredResults
      /\ c \in Nat \ {0} /\ After(p, g) = g + c /\ After(p, g) <= Count /\ Count \in Nat
      /\ Span(p, g) = g..g + c - 1
  BY <1>1, TileFacts, FutureAssumption DEF IsStore, Turn
<1>4. m + c <= 2 * Count
  BY <1>3
<1>5. ASSUME IsStore(in), in.pending = p
      PROVE  /\ t = Fields(in.results, q, in.insertIndex, in.resultCount, in.filteredResults)
             /\ IsStore(t)
  <2>1. Restrict(in.pending, DOMAIN in.pending \ {g}) = q
    BY <1>5 DEF Restrict, Without
  <2>2. t = [in EXCEPT !.pending = Restrict(in.pending, DOMAIN in.pending \ {g})]
    OBVIOUS
  <2> HIDE DEF in, q
  <2>3. t = Fields(in.results, q, in.insertIndex, in.resultCount, in.filteredResults)
    BY <1>5, <2>1, <2>2, StoreWith, Zenon
  <2>4. IsFun(q)
    BY DEF IsFun, q, Without
  <2> HIDE DEF t
  <2> QED
    BY <1>5, <2>3, <2>4 DEF IsStore, Fields
<1>6. Tiled(q, After(p, g), L)
  BY <1>1, TiledTail
<1>7. CASE item.results # <<>>
  <2>1. /\ IsStore(in) /\ in.pending = p /\ in.insertIndex = s.insertIndex
        /\ in.resultCount = m + c /\ in.filteredResults = s.filteredResults
        /\ DOMAIN in.results = 0..in.resultCount - 1
        /\ Joined(in.results, s.results, item.results, m, c)
    <3> HIDE DEF item
    <3> QED
      BY <1>1, <1>3, <1>4, <1>7, InsertResults, SMTT(20)
  <2>2. /\ t = Fields(in.results, q, in.insertIndex, in.resultCount, in.filteredResults)
        /\ IsStore(t)
    BY <1>5, <2>1
  <2> HIDE DEF t, in
  <2>3. /\ t.results = in.results /\ t.pending = q /\ t.insertIndex = s.insertIndex
        /\ t.resultCount = m + c /\ t.filteredResults = s.filteredResults
    BY <2>1, <2>2 DEF Fields
  <2>4. Turn(t) = After(p, g) /\ Turn(t) > g
    <3> HIDE DEF p, g, m, c
    <3>1. Turn(t) = t.resultCount + t.filteredResults
      BY DEF Turn
    <3>2. PICK a, b \in Nat : a = m /\ b = s.filteredResults
      BY <1>3, Zenon
    <3> QED
      BY <3>1, <3>2, <2>3, <1>3
  <2>5. e = g
    BY <1>1, <1>7 DEF Half
  <2>6. Held(p, K, g)
    BY <1>1, <1>3, <1>7, <2>5 DEF Pieces
  <2>7. PICK n \in Nat : HeldFor(p, K, g, n)
    BY <2>6 DEF Held
  <2>8. Pieces(q, K, g + n) /\ Half(q, After(p, g), g + n)
    BY <1>1, <1>7, <2>5, <2>7, HeldTail
  <2>9. Lists(t.results, 0, m + c - 1, K \cap (0..g + n - 1))
    <3>1. Lists(item.results, 1, c, K \cap (g..g + n - 1))
      BY <2>7 DEF HeldFor
    <3>2. Joined(t.results, s.results, item.results, m, c)
      BY <2>1, <2>3
    <3>3. Lists(s.results, 0, m - 1, K \cap (0..g - 1)) /\ K \in SUBSET Int /\ c \in Nat
      BY <1>1, <2>5, <1>3 DEF Inputs
    <3> HIDE DEF item, g, m, c
    <3> QED
      BY <1>3, <3>1, <3>2, <3>3, ListsJoin
  <2>10. Filtered(t, L, K, g + n)
    <3> HIDE DEF p, g, m, c, q
    <3>1. t.resultCount = in.resultCount
      BY <2>1, <2>3
    <3>2. DOMAIN t.results = 0..t.resultCount - 1
      BY <2>1, <2>3, <3>1, Zenon
    <3>3. Lists(t.results, 0, t.resultCount - 1, K \cap (0..(g + n) - 1))
      <4>0. g \in Nat /\ m \in Nat /\ c \in Nat
        BY <1>3
      <4>1. m + c - 1 = (m + c) - 1 /\ g + n - 1 = (g + n) - 1
        BY <4>0
      <4>2. t.resultCount = m + c
        BY <2>3
      <4> QED
        BY <2>9, <4>1, <4>2, Zenon
    <3>4. Tiled(t.pending, Turn(t), L) /\ Half(t.pending, Turn(t), g + n) /\ Pieces(t.pending, K, g + n)
      BY <2>3, <2>4, <2>8, <1>6
    <3> QED
      BY <2>2, <3>2, <3>3, <3>4 DEF Filtered
  <2>11. t.resultCount >= m /\ \A i \in 0..m - 1 : i \in DOMAIN t.results /\ t.results[i] = s.results[i]
    <3> HIDE DEF m, c, item
    <3>1. \A i \in 0..m - 1 : t.results[i] = s.results[i]
      BY <2>1, <2>3 DEF Joined
    <3>2. DOMAIN t.results = 0..t.resultCount - 1
      BY <2>1, <2>3, Zenon
    <3> QED
      BY <3>1, <3>2, <2>3, <1>3
  <2> QED
    BY <1>1, <1>2, <2>3, <2>4, <2>10, <2>11
<1>8. CASE item.results = <<>>
  <2>1. /\ IsStore(in) /\ in.pending = p /\ in.insertIndex = s.insertIndex
        /\ in.resultCount = m /\ in.results = s.results
        /\ in.filteredResults = s.filteredResults + c
    <3> HIDE DEF item
    <3> QED
      BY <1>1, <1>3, <1>8, InsertNothing, SMTT(20)
  <2>2. /\ t = Fields(in.results, q, in.insertIndex, in.resultCount, in.filteredResults)
        /\ IsStore(t)
    BY <1>5, <2>1
  <2> HIDE DEF t, in
  <2>3. /\ t.results = s.results /\ t.pending = q /\ t.insertIndex = s.insertIndex
        /\ t.resultCount = m /\ t.filteredResults = s.filteredResults + c
    BY <2>1, <2>2 DEF Fields
  <2>4. Turn(t) = After(p, g) /\ Turn(t) > g
    <3> HIDE DEF p, g, m, c
    <3>1. Turn(t) = t.resultCount + t.filteredResults
      BY DEF Turn
    <3>2. PICK a, b \in Nat : a = m /\ b = s.filteredResults
      BY <1>3, Zenon
    <3> QED
      BY <3>1, <3>2, <2>3, <1>3
  <2>5. PICK h : /\ Half(q, After(p, g), h) /\ Pieces(q, K, h)
                 /\ K \cap (0..h - 1) = K \cap (0..e - 1)
    <3>1. CASE e = g
      <4>1. K \cap Span(p, g) = {} /\ Pieces(q, K, After(p, g))
        BY <1>1, <1>8, <3>1, BlankTail
      <4>2. K \cap (0..After(p, g) - 1) = K \cap (0..e - 1)
        BY <4>1, <1>3, <3>1
      <4> QED
        BY <4>1, <4>2 DEF Half
    <3>2. CASE e # g
      <4>1. After(p, g) = e /\ Pieces(q, K, e)
        BY <1>1, <3>2, HalfTail
      <4> QED
        BY <4>1 DEF Half
    <3> QED
      BY <3>1, <3>2
  <2>6. Filtered(t, L, K, h)
    <3>1. DOMAIN t.results = 0..t.resultCount - 1
      BY <2>3, <1>1
    <3> HIDE DEF p, g, m, c, q
    <3> QED
      BY <2>2, <2>3, <2>4, <2>5, <1>1, <1>6, <3>1 DEF Filtered
  <2> QED
    BY <1>1, <1>2, <1>3, <2>3, <2>4, <2>6
<1> QED
  BY <1>7, <1>8


-----------------------------------------------------------------------------
(* The loop of syncPendingResults().                                       *)

IsLoop(f, s, m) == f = [n \in 0..m |-> IF n = 0 THEN s ELSE SyncOne(f[n - 1])]

LEMMA LoopExists ==
  ASSUME NEW s, NEW m \in Nat
  PROVE  \E f : IsLoop(f, s, m)
<1> DEFINE Bad == {k \in Nat : ~ \E f : IsLoop(f, s, k)}
<1> SUFFICES ASSUME Bad # {} PROVE FALSE
  OBVIOUS
<1>1. PICK k \in Bad : \A y \in Bad : k <= y
  BY Least
<1>2. k \in Nat /\ ~ \E f : IsLoop(f, s, k)
  BY <1>1
<1>3. k # 0
  <2> DEFINE f == [n \in 0..0 |-> s]
  <2>1. f = [n \in 0..0 |-> IF n = 0 THEN s ELSE SyncOne(f[n - 1])]
    OBVIOUS
  <2> HIDE DEF f
  <2>2. IsLoop(f, s, 0)
    BY <2>1 DEF IsLoop
  <2> QED
    BY <2>2, <1>2
<1>4. k - 1 \in Nat /\ k - 1 \notin Bad
  <2> HIDE DEF Bad
  <2> QED
    BY <1>1, <1>2, <1>3
<1>5. PICK f : IsLoop(f, s, k - 1)
  BY <1>4
<1> DEFINE h == [n \in 0..k |-> IF n = k THEN SyncOne(f[k - 1]) ELSE f[n]]
<1>6. DOMAIN h = 0..k /\ h[k] = SyncOne(f[k - 1]) /\ \A n \in 0..k - 1 : h[n] = f[n]
  BY <1>2
<1>7. \A n \in 0..k - 1 : f[n] = IF n = 0 THEN s ELSE SyncOne(f[n - 1])
  BY <1>5 DEF IsLoop
<1> HIDE DEF h
<1>8. \A n \in 0..k : h[n] = IF n = 0 THEN s ELSE SyncOne(h[n - 1])
  <2> SUFFICES ASSUME NEW n \in 0..k PROVE h[n] = IF n = 0 THEN s ELSE SyncOne(h[n - 1])
    OBVIOUS
  <2>1. CASE n = 0
    <3>1. 0 \in 0..k - 1
      BY <1>2, <1>3
    <3> QED
      BY <3>1, <2>1, <1>6, <1>7
  <2>2. CASE n # 0 /\ n # k
    <3>1. n \in 0..k - 1 /\ n - 1 \in 0..k - 1
      BY <2>2, <1>2
    <3> QED
      BY <3>1, <2>2, <1>6, <1>7
  <2>3. CASE n = k
    <3>1. k - 1 \in 0..k - 1
      BY <1>2, <1>3
    <3>2. h[k - 1] = f[k - 1]
      BY <3>1, <1>6
    <3> QED
      BY <3>2, <2>3, <1>6, <1>3
  <2> QED
    BY <2>1, <2>2, <2>3
<1>9. h = [n \in DOMAIN h |-> h[n]]
  BY DEF h
<1>10. IsLoop(h, s, k)
  BY <1>6, <1>8, <1>9 DEF IsLoop
<1> QED
  BY <1>10, <1>2

\* What the loop does is what its rounds do one after the other.
LEMMA SyncIsLoop ==
  ASSUME NEW s
  PROVE  \E f : IsLoop(f, s, Count) /\ SyncPendingResults(s) = f[Cardinality(DOMAIN s.pending)]
<1> DEFINE after == CHOOSE f : IsLoop(f, s, Count)
<1>1. Count \in Nat
  BY FutureAssumption
<1>2. IsLoop(after, s, Count)
  BY <1>1, LoopExists
<1>3. SyncPendingResults(s) = after[Cardinality(DOMAIN s.pending)]
  BY DEF SyncPendingResults, IsLoop
<1> QED
  BY <1>2, <1>3

\* What is in a store stays there.
Grown(s, t) ==
  /\ t.insertIndex = s.insertIndex
  /\ t.resultCount >= s.resultCount /\ Turn(t) >= Turn(s)
  /\ \A i \in DOMAIN s.results : i \in DOMAIN t.results /\ t.results[i] = s.results[i]

LEMMA GrownOn ==
  ASSUME NEW s, NEW t, NEW u, IsStore(s), IsStore(t), IsStore(u), Grown(s, t), Grown(t, u)
  PROVE  Grown(s, u)
<1>1. s.resultCount \in Nat /\ t.resultCount \in Nat /\ u.resultCount \in Nat
      /\ Turn(s) \in Nat /\ Turn(t) \in Nat /\ Turn(u) \in Nat
  BY DEF IsStore, Turn
<1>2. u.resultCount >= s.resultCount /\ Turn(u) >= Turn(s)
  BY <1>1 DEF Grown
<1> QED
  BY <1>2 DEF Grown

LEMMA TilesFinite ==
  ASSUME NEW p, NEW g, NEW L, Tiled(p, g, L)
  PROVE  /\ IsFiniteSet(DOMAIN p) /\ Cardinality(DOMAIN p) \in 0..Count
         /\ DOMAIN p \subseteq Inputs
<1>1. Count \in Nat
  BY FutureAssumption
<1>2. DOMAIN p \subseteq 0..Count - 1
  <2> SUFFICES ASSUME NEW k \in DOMAIN p PROVE k \in 0..Count - 1
    OBVIOUS
  <2>1. k \in Nat /\ p[k].count \in Nat \ {0} /\ After(p, k) = k + p[k].count /\ After(p, k) <= Count
    BY TileFacts
  <2> QED
    BY <2>1, <1>1
<1>3. IsFiniteSet(0..Count - 1) /\ Cardinality(0..Count - 1) = Count
  BY <1>1, FS_Interval
<1>4. IsFiniteSet(DOMAIN p) /\ Cardinality(DOMAIN p) <= Count
  BY <1>2, <1>3, FS_Subset
<1>5. Cardinality(DOMAIN p) \in Nat
  BY <1>4, FS_CardinalityType
<1> QED
  BY <1>2, <1>4, <1>5, <1>1 DEF Inputs

LEMMA SyncKeeps ==
  ASSUME NEW s, NEW L, NEW K \in SUBSET Inputs, NEW e, Filtered(s, L, K, e)
  PROVE  LET t == SyncPendingResults(s)
         IN  /\ Filtered(t, L, K, Turn(t)) /\ Turn(t) \notin DOMAIN t.pending
             /\ Grown(s, t)
<1> DEFINE card == Cardinality(DOMAIN s.pending)
           Good(u, n) == /\ \E h : Filtered(u, L, K, h)
                         /\ Grown(s, u)
                         /\ Turn(u) \notin DOMAIN u.pending \/ Cardinality(DOMAIN u.pending) = card - n
<1>1. card \in 0..Count /\ Count \in Nat
  BY TilesFinite, FutureAssumption DEF Filtered
<1>2. PICK f : IsLoop(f, s, Count) /\ SyncPendingResults(s) = f[card]
  BY SyncIsLoop
<1> HIDE DEF card
<1>3. f[0] = s /\ \A n \in 0..card : n # 0 => f[n] = SyncOne(f[n - 1])
  BY <1>1, <1>2 DEF IsLoop
<1>4. Good(s, 0)
  <2>1. IsStore(s)
    BY DEF Filtered
  <2>2. Grown(s, s)
    BY <2>1 DEF Grown, IsStore, Turn
  <2>3. Cardinality(DOMAIN s.pending) = card - 0
    BY <1>1 DEF card
  <2> QED
    BY <2>2, <2>3
<1>5. ASSUME NEW u, NEW n \in 0..card - 1, Good(u, n)
      PROVE  Good(SyncOne(u), n + 1)
  <2>1. PICK h : Filtered(u, L, K, h)
    BY <1>5
  <2>2. IsStore(u) /\ Tiled(u.pending, Turn(u), L) /\ IsStore(s)
    BY <2>1 DEF Filtered
  <2>3. CASE Turn(u) \notin DOMAIN u.pending
    <3>1. SyncOne(u) = u
      BY <2>2, <2>3, SyncOneIs
    <3> QED
      BY <3>1, <2>3, <1>5
  <2>4. CASE Turn(u) \in DOMAIN u.pending
    <3> DEFINE t == SyncOne(u)
    <3>1. /\ \E e2 : Filtered(t, L, K, e2)
          /\ t.pending = Without(u.pending, Turn(u))
          /\ t.insertIndex = u.insertIndex /\ Turn(t) > Turn(u) /\ t.resultCount >= u.resultCount
          /\ \A i \in DOMAIN u.results : i \in DOMAIN t.results /\ t.results[i] = u.results[i]
      BY <2>1, <2>4, SyncOneKeeps
    <3> HIDE DEF t
    <3>2. IsStore(t) /\ Turn(t) \in Nat /\ Turn(u) \in Nat
      BY <3>1, <2>2 DEF Filtered, IsStore, Turn
    <3>3. Grown(u, t)
      BY <3>1, <3>2 DEF Grown
    <3>4. Grown(s, t)
      BY <3>3, <3>2, <2>2, <1>5, GrownOn
    <3>5. Cardinality(DOMAIN u.pending) = card - n
      BY <1>5, <2>4
    <3>6. DOMAIN t.pending = DOMAIN u.pending \ {Turn(u)}
      BY <3>1 DEF Without
    <3>7. Cardinality(DOMAIN t.pending) = Cardinality(DOMAIN u.pending) - 1
      BY <3>6, <2>2, <2>4, TilesFinite, FS_RemoveElement
    <3>8. Cardinality(DOMAIN t.pending) = card - (n + 1)
      BY <3>5, <3>7, <1>1
    <3> QED
      BY <3>1, <3>4, <3>8 DEF t
  <2> QED
    BY <2>3, <2>4
<1> HIDE DEF Good
<1>6. Good(f[card], card)
  <2> DEFINE Bad == {n \in Nat : n \in 0..card /\ ~Good(f[n], n)}
  <2> SUFFICES ASSUME Bad # {} PROVE FALSE
    BY <1>1
  <2>1. PICK n \in Bad : \A y \in Bad : n <= y
    BY Least
  <2>2. n \in Nat /\ n \in 0..card /\ ~Good(f[n], n)
    BY <2>1
  <2>3. n # 0
    BY <2>2, <1>3, <1>4
  <2>4. n - 1 \in 0..card - 1 /\ n - 1 \in Nat /\ n - 1 \in 0..card /\ n - 1 + 1 = n /\ ~(n <= n - 1)
    BY <2>2, <2>3, <1>1
  <2>5. Good(f[n - 1], n - 1)
    BY <2>1, <2>4
  <2>6. Good(SyncOne(f[n - 1]), n)
    BY <2>4, <2>5, <1>5
  <2> QED
    BY <2>2, <2>3, <2>6, <1>3
<1> DEFINE t == f[card]
<1> HIDE DEF t
<1>7. Good(t, card)
  BY <1>6 DEF t
<1>8. PICK h : Filtered(t, L, K, h)
  BY <1>7 DEF Good
<1>9. Turn(t) \notin DOMAIN t.pending
  <2> SUFFICES ASSUME Cardinality(DOMAIN t.pending) = card - card PROVE DOMAIN t.pending = {}
    BY <1>7 DEF Good
  <2>1. Cardinality(DOMAIN t.pending) = 0
    BY <1>1
  <2>2. IsFiniteSet(DOMAIN t.pending)
    BY <1>8, TilesFinite DEF Filtered
  <2> QED
    BY <2>1, <2>2, FS_EmptySet
<1>10. h = Turn(t)
  BY <1>8, <1>9 DEF Filtered, Half
<1> QED
  BY <1>2, <1>7, <1>8, <1>9, <1>10 DEF t, Good

\* The loop changes nothing where no item has its turn, and ends after the first
\* round if then none has.
LEMMA AtRest ==
  ASSUME NEW s, IsStore(s), NEW L, Tiled(s.pending, Turn(s), L),
         Turn(s) \notin DOMAIN s.pending
  PROVE  SyncPendingResults(s) = s
<1> DEFINE card == Cardinality(DOMAIN s.pending)
<1>1. card \in 0..Count /\ Count \in Nat
  BY TilesFinite, FutureAssumption
<1>2. PICK f : IsLoop(f, s, Count) /\ SyncPendingResults(s) = f[card]
  BY SyncIsLoop
<1>3. SyncOne(s) = s
  BY SyncOneIs
<1>4. f[0] = s /\ \A n \in 0..Count : n # 0 => f[n] = SyncOne(f[n - 1])
  BY <1>1, <1>2 DEF IsLoop
<1> HIDE DEF card
<1> DEFINE Bad == {n \in Nat : n \in 0..Count /\ f[n] # s}
<1>5. ASSUME Bad # {} PROVE FALSE
  <2>1. PICK n \in Bad : \A y \in Bad : n <= y
    BY <1>5, Least
  <2>2. n \in Nat /\ n \in 0..Count /\ f[n] # s /\ n # 0
    BY <2>1, <1>4
  <2>3. n - 1 \in Nat /\ n - 1 \in 0..Count /\ ~(n <= n - 1)
    BY <2>2, <1>1
  <2>4. f[n - 1] = s
    BY <2>1, <2>3
  <2> QED
    BY <2>2, <2>4, <1>3, <1>4
<1> QED
  BY <1>1, <1>2, <1>5

LEMMA OneRound ==
  ASSUME NEW s, IsStore(s), NEW L, Tiled(s.pending, Turn(s), L),
         Turn(s) \in DOMAIN s.pending,
         NEW t, t = SyncOne(s), IsStore(t), Tiled(t.pending, Turn(t), L),
         Turn(t) \notin DOMAIN t.pending
  PROVE  SyncPendingResults(s) = t
<1> DEFINE card == Cardinality(DOMAIN s.pending)
<1>1. card \in 0..Count /\ Count \in Nat /\ IsFiniteSet(DOMAIN s.pending)
  BY TilesFinite, FutureAssumption
<1>2. card # 0
  BY <1>1, FS_EmptySet
<1>3. PICK f : IsLoop(f, s, Count) /\ SyncPendingResults(s) = f[card]
  BY SyncIsLoop
<1>4. SyncOne(t) = t
  BY SyncOneIs
<1>5. f[0] = s /\ \A n \in 0..Count : n # 0 => f[n] = SyncOne(f[n - 1])
  BY <1>1, <1>3 DEF IsLoop
<1> HIDE DEF card
<1>6. f[1] = t
  BY <1>1, <1>2, <1>5
<1> DEFINE Bad == {n \in Nat : n \in 1..Count /\ f[n] # t}
<1>7. ASSUME Bad # {} PROVE FALSE
  <2>1. PICK n \in Bad : \A y \in Bad : n <= y
    BY <1>7, Least
  <2>2. n \in Nat /\ n \in 1..Count /\ f[n] # t /\ n # 1
    BY <2>1, <1>6
  <2>3. n - 1 \in Nat /\ n - 1 \in 1..Count /\ ~(n <= n - 1) /\ n \in 0..Count /\ n # 0
    BY <2>2, <1>1
  <2>4. f[n - 1] = t
    BY <2>1, <2>3
  <2> QED
    BY <2>2, <2>3, <2>4, <1>4, <1>5
<1> QED
  BY <1>1, <1>2, <1>3, <1>7

-----------------------------------------------------------------------------
(* A new item.                                                             *)

\* The pending items p and one more.
Plus(p, index, item) == Upon([i \in {index} |-> item], p)

Block(index, n) == index..index + n - 1

LEMMA PlusDomain ==
  ASSUME NEW p, NEW index, NEW item
  PROVE  /\ DOMAIN Plus(p, index, item) = DOMAIN p \cup {index}
         /\ IsFun(Plus(p, index, item))
  BY DEF Plus, Upon, IsFun

LEMMA PlusNew ==
  ASSUME NEW p, NEW index, NEW item
  PROVE  Plus(p, index, item)[index] = item
  BY DEF Plus, Upon

LEMMA PlusOld ==
  ASSUME NEW p, NEW index, NEW item
  PROVE  \A k \in DOMAIN p : k # index => Plus(p, index, item)[k] = p[k]
  BY DEF Plus, Upon

LEMMA PlusTiled ==
  ASSUME NEW p, NEW g, NEW L, Tiled(p, g, L), NEW index, NEW item,
         item.count \in Nat \ {0}, Block(index, item.count) \subseteq L, index \in L
  PROVE  /\ Tiled(Plus(p, index, item), g, L \ Block(index, item.count))
         /\ index \notin DOMAIN p
         /\ \A k \in DOMAIN p : Plus(p, index, item)[k] = p[k]
<1> DEFINE q == Plus(p, index, item)
           n == item.count
           M == L \ Block(index, n)
<1>1. g \in 0..Count /\ Count \in Nat /\ g \in Nat
  BY FutureAssumption DEF Tiled
<1>2. index \in 0..Count - 1 /\ index >= g
  BY <1>1 DEF Tiled, Inputs
<1>3. n \in Nat \ {0} /\ Block(index, n) = index..index + n - 1 /\ Block(index, n) \subseteq L
  BY DEF Block
<1>4. index + n <= Count
  <2>1. index + n - 1 \in Block(index, n)
    BY <1>2, <1>3
  <2>2. index + n - 1 \in 0..Count - 1
    BY <2>1 DEF Tiled, Inputs
  <2> QED
    BY <2>2, <1>1, <1>2, <1>3
<1>5. index \notin DOMAIN p
  <2> SUFFICES ASSUME index \in DOMAIN p PROVE FALSE
    OBVIOUS
  <2>1. index \in Span(p, index)
    <3>1. p[index].count \in Nat \ {0} /\ After(p, index) = index + p[index].count
          /\ Span(p, index) = index..After(p, index) - 1
      BY TileFacts
    <3> QED
      BY <3>1, <1>2
  <2> QED
    BY <2>1 DEF Tiled
<1>6. /\ DOMAIN q = DOMAIN p \cup {index} /\ q[index] = item
      /\ \A k \in DOMAIN p : q[k] = p[k]
  <2>1. DOMAIN q = DOMAIN p \cup {index}
    BY PlusDomain
  <2>2. q[index] = item
    BY PlusNew
  <2>3. \A k \in DOMAIN p : k # index => q[k] = p[k]
    BY PlusOld
  <2> HIDE DEF q
  <2> QED
    BY <2>1, <2>2, <2>3, <1>5
<1> HIDE DEF q
<1>7. \A k \in DOMAIN p : After(q, k) = After(p, k) /\ Span(q, k) = Span(p, k)
  BY <1>6 DEF After, Span
<1>8. After(q, index) = index + n /\ Span(q, index) = Block(index, n)
  <2>1. After(q, index) = index + n
    BY <1>6 DEF After
  <2>2. (index + n) - 1 = index + n - 1
    BY <1>2, <1>3
  <2> QED
    BY <2>1, <2>2 DEF Span, Block
<1> HIDE DEF n
<1>9. \A k \in DOMAIN q :
        /\ k \in Nat /\ k >= g
        /\ q[k].count \in Nat \ {0} /\ After(q, k) <= Count
        /\ \A i \in M : i \notin Span(q, k)
  <2> SUFFICES ASSUME NEW k \in DOMAIN q
               PROVE  /\ k \in Nat /\ k >= g
                      /\ q[k].count \in Nat \ {0} /\ After(q, k) <= Count
                      /\ \A i \in M : i \notin Span(q, k)
    OBVIOUS
  <2>1. CASE k \in DOMAIN p
    BY <2>1, <1>6, <1>7 DEF Tiled
  <2>2. CASE k = index
    <3>1. q[k].count \in Nat \ {0}
      BY <2>2, <1>3, <1>6 DEF n
    <3> QED
      BY <3>1, <2>2, <1>2, <1>4, <1>8
  <2> QED
    BY <2>1, <2>2, <1>6
<1>10. \A k \in DOMAIN p : k < index => After(p, k) <= index
  <2> SUFFICES ASSUME NEW k \in DOMAIN p, k < index, ~(After(p, k) <= index) PROVE FALSE
    OBVIOUS
  <2>1. k \in Nat /\ After(p, k) \in Nat /\ Span(p, k) = k..After(p, k) - 1
    <3>1. k \in Nat /\ p[k].count \in Nat \ {0} /\ After(p, k) = k + p[k].count
          /\ Span(p, k) = k..After(p, k) - 1
      BY TileFacts
    <3> QED
      BY <3>1
  <2>2. index \in Span(p, k)
    BY <2>1, <1>2
  <2> QED
    BY <2>2 DEF Tiled
<1>11. \A k \in DOMAIN p : index < k => index + n <= k
  <2> SUFFICES ASSUME NEW k \in DOMAIN p, index < k, ~(index + n <= k) PROVE FALSE
    OBVIOUS
  <2>1. k \in Nat /\ k \in Span(p, k)
    <3>1. k \in Nat /\ p[k].count \in Nat \ {0} /\ After(p, k) = k + p[k].count
          /\ Span(p, k) = k..After(p, k) - 1
      BY TileFacts
    <3> QED
      BY <3>1
  <2>2. k \in L
    BY <2>1, <1>2, <1>3
  <2> QED
    BY <2>1, <2>2 DEF Tiled
<1>12. \A j, k \in DOMAIN q : j < k => After(q, j) <= k
  <2> SUFFICES ASSUME NEW j \in DOMAIN q, NEW k \in DOMAIN q, j < k PROVE After(q, j) <= k
    OBVIOUS
  <2>1. CASE j \in DOMAIN p /\ k \in DOMAIN p
    BY <2>1, <1>7 DEF Tiled
  <2>2. CASE j = index /\ k \in DOMAIN p
    BY <2>2, <1>8, <1>11
  <2>3. CASE j \in DOMAIN p /\ k = index
    BY <2>3, <1>7, <1>10
  <2>4. CASE j = index /\ k = index
    BY <2>4, <1>2
  <2> QED
    BY <2>1, <2>2, <2>3, <2>4, <1>6
<1>13. \A i \in g..Count - 1 : i \in M \/ \E k \in DOMAIN q : i \in Span(q, k)
  <2> SUFFICES ASSUME NEW i \in g..Count - 1, i \notin M PROVE \E k \in DOMAIN q : i \in Span(q, k)
    OBVIOUS
  <2>1. CASE i \in Block(index, n)
    BY <2>1, <1>6, <1>8
  <2>2. CASE i \notin L
    <3>1. PICK k \in DOMAIN p : i \in Span(p, k)
      BY <2>2 DEF Tiled
    <3> QED
      BY <3>1, <1>6, <1>7
  <2> QED
    BY <2>1, <2>2
<1>14. \A i \in M : i \in Inputs /\ i >= g
  BY DEF Tiled
<1>15. Tiled(q, g, M)
  BY <1>1, <1>9, <1>12, <1>13, <1>14 DEF Tiled
<1> QED
  BY <1>5, <1>6, <1>15 DEF q, n

\* What was not reported has no influence on what the items hold.
LEMMA PiecesStay ==
  ASSUME NEW p, NEW g, NEW L, Tiled(p, g, L), NEW q, DOMAIN p \subseteq DOMAIN q,
         \A k \in DOMAIN p : q[k] = p[k],
         NEW K, NEW K2, \A x : x \notin L => (x \in K <=> x \in K2),
         Pieces(p, K, g), NEW k \in DOMAIN p
  PROVE  IF q[k].results = <<>> THEN Blank(q, K2, g, k) ELSE Held(q, K2, k)
<1>1. /\ k \in Nat /\ k >= g /\ p[k].count \in Nat \ {0} /\ After(p, k) = k + p[k].count
      /\ After(p, k) <= Count /\ Span(p, k) = k..After(p, k) - 1
  BY TileFacts
<1>2. IF p[k].results = <<>> THEN Blank(p, K, g, k) ELSE Held(p, K, k)
  BY <1>1 DEF Pieces
<1>3. \A j \in DOMAIN p : \A x \in Span(p, j) : x \notin L
  BY DEF Tiled
<1>4. \A j \in DOMAIN p : After(q, j) = After(p, j) /\ Span(q, j) = Span(p, j)
  BY DEF After, Span
<1>5. CASE p[k].results # <<>>
  <2>1. PICK n \in Nat : HeldFor(p, K, k, n)
    BY <1>2, <1>5 DEF Held
  <2>2. \A x \in k..k + n - 1 : x \notin L
    <3>1. CASE n = p[k].count
      <4>1. k + n - 1 = After(p, k) - 1
        BY <1>1, <3>1
      <4> QED
        BY <4>1, <1>1, <1>3
    <3>2. CASE n # p[k].count
      <4> DEFINE h == After(p, k)
      <4>1. h \in DOMAIN p /\ p[h].count = n - p[k].count
        BY <2>1, <3>2 DEF HeldFor
      <4>2. Span(p, h) = h..After(p, h) - 1 /\ After(p, h) = h + p[h].count /\ h \in Nat
        BY <4>1, TileFacts
      <4>3. After(p, h) = k + n
        BY <1>1, <4>1, <4>2
      <4>4. h = k + p[k].count
        BY <1>1
      <4> HIDE DEF h
      <4>5. ASSUME NEW x \in k..k + n - 1, x \notin h..After(p, h) - 1 PROVE x \in k..h - 1
        BY <4>2, <4>3, <4>4, <4>5, <1>1
      <4> QED
        BY <4>1, <4>2, <4>5, <1>1, <1>3 DEF h
    <3> QED
      BY <3>1, <3>2
  <2>3. K \cap (k..k + n - 1) = K2 \cap (k..k + n - 1)
    BY <2>2
  <2>4. HeldFor(q, K2, k, n)
    BY <2>1, <2>3, <1>4 DEF HeldFor
  <2> QED
    BY <2>4, <1>5 DEF Held
<1>6. CASE p[k].results = <<>>
  <2>1. CASE K \cap Span(p, k) = {}
    <3>1. K2 \cap Span(q, k) = {}
      BY <2>1, <1>3, <1>4
    <3> QED
      BY <3>1, <1>6 DEF Blank
  <2>2. CASE K \cap Span(p, k) # {}
    <3>1. PICK j \in DOMAIN p :
            /\ j >= g /\ p[j].results # <<>> /\ After(p, j) = k
            /\ Lists(p[j].results, 1, p[j].count, K \cap (j..After(p, k) - 1))
      BY <1>2, <1>6, <2>2 DEF Blank
    <3>2. j \in Nat /\ Span(p, j) = j..k - 1
      BY <3>1, TileFacts
    <3>3. ASSUME NEW x \in j..After(p, k) - 1 PROVE x \notin L
      <4>1. x \in j..k - 1 \/ x \in k..After(p, k) - 1
        BY <3>2, <1>1
      <4> QED
        BY <4>1, <3>2, <1>1, <1>3
    <3>4. K \cap (j..After(p, k) - 1) = K2 \cap (j..After(p, k) - 1)
      BY <3>3
    <3>5. Blank(q, K2, g, k)
      BY <3>1, <3>4, <1>4 DEF Blank
    <3> QED
      BY <3>5, <1>6
  <2> QED
    BY <2>1, <2>2
<1> QED
  BY <1>5, <1>6

\* The store of a filter while no thread is at it.
Resting(s, L, K) ==
  /\ Filtered(s, L, K, Turn(s)) /\ Turn(s) \notin DOMAIN s.pending
  /\ s.insertIndex <= Turn(s)
  /\ K \in SUBSET Inputs /\ K \cap L = {}

WithPending(s, p) == Fields(s.results, p, s.insertIndex, s.resultCount, s.filteredResults)

LEMMA WithPendingIs ==
  ASSUME NEW s, IsStore(s), NEW p, IsFun(p)
  PROVE  /\ [s EXCEPT !.pending = p] = WithPending(s, p)
         /\ IsStore(WithPending(s, p)) /\ WithPending(s, p).pending = p
         /\ WithPending(s, p).results = s.results
         /\ WithPending(s, p).insertIndex = s.insertIndex
         /\ WithPending(s, p).resultCount = s.resultCount
         /\ WithPending(s, p).filteredResults = s.filteredResults
         /\ Turn(WithPending(s, p)) = Turn(s)
<1>1. [s EXCEPT !.pending = p] = WithPending(s, p)
  BY StoreWith, Zenon DEF WithPending
<1>2. /\ WithPending(s, p).pending = p
      /\ WithPending(s, p).results = s.results
      /\ WithPending(s, p).insertIndex = s.insertIndex
      /\ WithPending(s, p).resultCount = s.resultCount
      /\ WithPending(s, p).filteredResults = s.filteredResults
  BY DEF WithPending, Fields
<1>3. Turn(WithPending(s, p)) = Turn(s)
  BY <1>2 DEF Turn
<1>4. IsStore(WithPending(s, p))
  <2>1. WithPending(s, p) = Fields(s.results, p, s.insertIndex, s.resultCount, s.filteredResults)
    BY DEF WithPending
  <2> QED
    BY <1>2, <2>1 DEF IsStore, Fields
<1> QED
  BY <1>1, <1>2, <1>3, <1>4

\* Items are added to a store at rest.
LEMMA FilteredWith ==
  ASSUME NEW s, NEW L, NEW K, Resting(s, L, K), NEW q, IsFun(q),
         NEW M, Tiled(q, Turn(s), M),
         NEW K2, \A x : x \notin L => (x \in K <=> x \in K2),
         DOMAIN s.pending \subseteq DOMAIN q, \A k \in DOMAIN s.pending : q[k] = s.pending[k],
         \A k \in DOMAIN q : k \notin DOMAIN s.pending =>
           IF q[k].results = <<>> THEN Blank(q, K2, Turn(s), k) ELSE Held(q, K2, k)
  PROVE  Filtered(WithPending(s, q), M, K2, Turn(s))
<1> DEFINE g == Turn(s)
           t == WithPending(s, q)
           p == s.pending
<1>1. /\ IsStore(s) /\ Tiled(p, g, L) /\ DOMAIN s.results = 0..s.resultCount - 1
      /\ Lists(s.results, 0, s.resultCount - 1, K \cap (0..g - 1)) /\ Pieces(p, K, g)
  BY DEF Resting, Filtered
<1>2. /\ IsStore(t) /\ t.pending = q /\ t.results = s.results
      /\ t.resultCount = s.resultCount /\ Turn(t) = g
  BY <1>1, WithPendingIs
<1> HIDE DEF t
<1>3. \A x \in 0..g - 1 : x \notin L
  <2> SUFFICES ASSUME NEW x \in 0..g - 1, x \in L PROVE FALSE
    OBVIOUS
  <2>1. x >= g /\ g \in 0..Count
    BY <1>1 DEF Tiled
  <2> HIDE DEF g
  <2> QED
    BY <2>1, FutureAssumption
<1>4. K \cap (0..g - 1) = K2 \cap (0..g - 1)
  BY <1>3
<1>5. Pieces(q, K2, g)
  <2> SUFFICES ASSUME NEW k \in DOMAIN q, k >= g
               PROVE  IF q[k].results = <<>> THEN Blank(q, K2, g, k) ELSE Held(q, K2, k)
    BY DEF Pieces
  <2>1. CASE k \in DOMAIN p
    <3> HIDE DEF p, g
    <3>1. DOMAIN p \subseteq DOMAIN q /\ \A j \in DOMAIN p : q[j] = p[j]
      BY DEF p
    <3> QED
      BY <3>1, <2>1, <1>1, PiecesStay
  <2>2. CASE k \notin DOMAIN p
    BY <2>2
  <2> QED
    BY <2>1, <2>2
<1>6. Half(q, g, g)
  BY DEF Half
<1>7. Lists(t.results, 0, t.resultCount - 1, K2 \cap (0..g - 1)) /\ DOMAIN t.results = 0..t.resultCount - 1
  <2> HIDE DEF g
  <2> QED
    BY <1>1, <1>2, <1>4, Zenon
<1>8. Tiled(t.pending, Turn(t), M) /\ Half(t.pending, Turn(t), g) /\ Pieces(t.pending, K2, g)
  BY <1>2, <1>5, <1>6
<1> HIDE DEF g
<1>9. Filtered(t, M, K2, g)
  BY <1>2, <1>7, <1>8 DEF Filtered
<1> QED
  BY <1>9 DEF t, g

\* One item for a block.
LEMMA OneItem ==
  ASSUME NEW s, NEW L, NEW K, Resting(s, L, K),
         NEW index \in L, NEW n \in Nat \ {0}, Block(index, n) \subseteq L,
         NEW keep \in SUBSET Block(index, n), NEW r,
         \/ r # <<>> /\ Lists(r, 1, n, keep)
         \/ r = <<>> /\ keep = {}
  PROVE  Filtered(WithPending(s, Plus(s.pending, index, Item(n, r))),
                  L \ Block(index, n), K \cup keep, Turn(s))
<1> DEFINE p == s.pending
           g == Turn(s)
           item == Item(n, r)
           q == Plus(p, index, item)
           K2 == K \cup keep
<1>1. Tiled(p, g, L) /\ K \cap L = {}
  BY DEF Resting, Filtered
<1>2. item.count = n /\ item.results = r
  BY DEF Item
<1> HIDE DEF item
<1>3. /\ Tiled(q, g, L \ Block(index, n)) /\ index \notin DOMAIN p
      /\ \A k \in DOMAIN p : q[k] = p[k]
  <2> HIDE DEF p, g
  <2>1. item.count \in Nat \ {0} /\ Block(index, item.count) \subseteq L
    BY <1>2
  <2>2. Tiled(q, g, L \ Block(index, item.count)) /\ index \notin DOMAIN p
    BY <1>1, <2>1, PlusTiled
  <2>3. \A k \in DOMAIN p : k # index => q[k] = p[k]
    BY PlusOld
  <2> HIDE DEF q
  <2> QED
    BY <2>2, <2>3, <1>2
<1>4. DOMAIN q = DOMAIN p \cup {index} /\ IsFun(q)
  BY PlusDomain
<1>5. q[index] = item
  BY PlusNew
<1>6. \A x : x \notin L => (x \in K <=> x \in K2)
  OBVIOUS
<1>7. K2 \cap Block(index, n) = keep
  BY <1>1
<1> HIDE DEF q, K2
<1>8. index \in Int /\ After(q, index) = index + n
  BY <1>1, <1>2, <1>5 DEF After, Tiled, Inputs
<1>9. Span(q, index) = Block(index, n)
  <2>1. (index + n) - 1 = index + n - 1
    BY <1>8
  <2> QED
    BY <2>1, <1>8 DEF Span, Block
<1>10. IF q[index].results = <<>> THEN Blank(q, K2, g, index) ELSE Held(q, K2, index)
  <2>1. CASE r # <<>>
    <3>1. HeldFor(q, K2, index, n)
      BY <2>1, <1>2, <1>5, <1>7 DEF HeldFor, Block
    <3> QED
      BY <3>1, <2>1, <1>2, <1>5 DEF Held
  <2>2. CASE r = <<>>
    BY <2>2, <1>2, <1>5, <1>7, <1>9 DEF Blank
  <2> QED
    BY <2>1, <2>2
<1>11. Filtered(WithPending(s, q), L \ Block(index, n), K2, g)
  BY <1>3, <1>4, <1>6, <1>10, FilteredWith
<1> QED
  BY <1>11 DEF q, K2, item

LEMMA BlockSplits ==
  ASSUME NEW index \in Int, NEW n \in Nat, NEW c \in Nat \ {0}, c < n
  PROVE  /\ Block(index, n) = Block(index, c) \cup Block(index + c, n - c)
         /\ Block(index, c) \cap Block(index + c, n - c) = {}
         /\ index + c \in Block(index + c, n - c)
<1>1. Block(index + c, n - c) = index + c..index + n - 1
  <2>1. (index + c) + (n - c) - 1 = index + n - 1
    OBVIOUS
  <2>2. (index + c) + ((n - c) - 1) = index + n - 1
    OBVIOUS
  <2> QED
    BY <2>1, <2>2 DEF Block
<1> QED
  BY <1>1 DEF Block

\* The pending items p, the one for the first c inputs of the block of n at index,
\* of which r was kept, and the one without results for those behind them.
PlusTwo(p, index, n, c, r) == Plus(Plus(p, index, Item(c, r)), index + c, Item(n - c, <<>>))

\* A block of which a part was kept.
Part(L, index, n, keep, r, c) ==
  /\ index \in L /\ n \in Nat \ {0} /\ Block(index, n) \subseteq L
  /\ keep \in SUBSET Block(index, n) /\ c \in Nat \ {0} /\ c < n
  /\ r # <<>> /\ Lists(r, 1, c, keep)

LEMMA TwoItems ==
  ASSUME NEW s, NEW L, NEW K, Resting(s, L, K),
         NEW index, NEW n, NEW keep, NEW r, NEW c, Part(L, index, n, keep, r, c)
  PROVE  /\ Filtered(WithPending(s, PlusTwo(s.pending, index, n, c, r)),
                     L \ Block(index, n), K \cup keep, Turn(s))
         /\ Tiled(Plus(s.pending, index, Item(c, r)), Turn(s), L \ Block(index, c))
         /\ index + c \notin DOMAIN Plus(s.pending, index, Item(c, r))
         /\ index + c \notin DOMAIN s.pending /\ index \notin DOMAIN s.pending
<1> DEFINE p == s.pending
           g == Turn(s)
           A == Item(c, r)
           B == Item(n - c, <<>>)
           h == index + c
           q1 == Plus(p, index, A)
           q == Plus(q1, h, B)
           L1 == L \ Block(index, c)
           K2 == K \cup keep
<1>0. /\ index \in L /\ n \in Nat \ {0} /\ Block(index, n) \subseteq L
      /\ keep \in SUBSET Block(index, n) /\ c \in Nat \ {0} /\ c < n
      /\ r # <<>> /\ Lists(r, 1, c, keep)
  BY DEF Part
<1> USE <1>0
<1>1. Tiled(p, g, L) /\ K \cap L = {}
  BY DEF Resting, Filtered
<1>2. A.count = c /\ A.results = r /\ B.count = n - c /\ B.results = <<>>
  BY DEF Item
<1> HIDE DEF A, B
<1>3. index \in Int /\ n - c \in Nat \ {0} /\ h \in Int /\ h > index
  BY <1>1 DEF Tiled, Inputs
<1>4. /\ Block(index, n) = Block(index, c) \cup Block(h, n - c)
      /\ Block(index, c) \cap Block(h, n - c) = {}
      /\ h \in Block(h, n - c)
  BY <1>3, BlockSplits
<1> HIDE DEF p, g, h
<1>5. Tiled(q1, g, L1) /\ index \notin DOMAIN p
  <2>1. A.count \in Nat \ {0} /\ Block(index, A.count) \subseteq L
    BY <1>2, <1>4
  <2>2. Tiled(q1, g, L \ Block(index, A.count)) /\ index \notin DOMAIN p
    BY <1>1, <2>1, PlusTiled
  <2> QED
    BY <2>2, <1>2
<1>6. Tiled(q, g, L1 \ Block(h, n - c)) /\ h \notin DOMAIN q1
  <2> HIDE DEF q1
  <2>1. B.count \in Nat \ {0} /\ Block(h, B.count) \subseteq L1 /\ h \in L1
    BY <1>2, <1>3, <1>4
  <2> HIDE DEF L1
  <2>2. Tiled(q, g, L1 \ Block(h, B.count)) /\ h \notin DOMAIN q1
    BY <1>5, <2>1, PlusTiled
  <2> QED
    BY <2>2, <1>2
<1>7. L1 \ Block(h, n - c) = L \ Block(index, n)
  BY <1>4
<1>8. DOMAIN q1 = DOMAIN p \cup {index}
  BY PlusDomain
<1>9. q1[index] = A
  BY PlusNew
<1>10. \A k \in DOMAIN p : k # index => q1[k] = p[k]
  BY PlusOld
<1> HIDE DEF q1
<1>11. DOMAIN q = DOMAIN q1 \cup {h} /\ IsFun(q)
  BY PlusDomain
<1>12. q[h] = B
  BY PlusNew
<1>13. \A k \in DOMAIN q1 : k # h => q[k] = q1[k]
  BY PlusOld
<1> HIDE DEF q
<1>14. q[index] = A /\ \A k \in DOMAIN p : q[k] = p[k]
  BY <1>5, <1>6, <1>8, <1>9, <1>10, <1>13
<1>15. \A x : x \notin L => (x \in K <=> x \in K2)
  OBVIOUS
<1>16. K2 \cap Block(index, n) = keep
  BY <1>1
<1> HIDE DEF K2
<1>17. After(q, index) = h
  BY <1>2, <1>14 DEF After, h
<1>18. HeldFor(q, K2, index, n)
  <2>1. Lists(q[index].results, 1, q[index].count, K2 \cap (index..index + n - 1))
    BY <1>2, <1>14, <1>16 DEF Block
  <2>2. n > q[index].count /\ q[h].results = <<>> /\ q[h].count = n - q[index].count /\ h \in DOMAIN q
    BY <1>2, <1>11, <1>12, <1>14
  <2> QED
    BY <2>1, <2>2, <1>17 DEF HeldFor
<1>19. index >= g
  BY <1>1 DEF Tiled
<1>20. Lists(q[index].results, 1, q[index].count, K2 \cap (index..After(q, h) - 1))
  <2>1. After(q, h) = index + n
    BY <1>2, <1>3, <1>12 DEF After, h
  <2>2. After(q, h) - 1 = index + n - 1
    BY <2>1, <1>3
  <2> QED
    BY <1>2, <1>14, <1>16, <2>2 DEF Block
<1>21. IF q[index].results = <<>> THEN Blank(q, K2, g, index) ELSE Held(q, K2, index)
  BY <1>2, <1>14, <1>18 DEF Held
<1>22. Blank(q, K2, g, h)
  <2>1. index \in DOMAIN q /\ q[index].results # <<>>
    BY <1>2, <1>8, <1>11, <1>14
  <2> QED
    BY <2>1, <1>17, <1>19, <1>20 DEF Blank
<1>23. IF q[h].results = <<>> THEN Blank(q, K2, g, h) ELSE Held(q, K2, h)
  BY <1>2, <1>12, <1>22
<1>24. \A k \in DOMAIN q : k \notin DOMAIN p =>
           IF q[k].results = <<>> THEN Blank(q, K2, g, k) ELSE Held(q, K2, k)
  BY <1>8, <1>11, <1>21, <1>23
<1>25. Filtered(WithPending(s, q), L \ Block(index, n), K2, g)
  BY <1>6, <1>7, <1>8, <1>11, <1>14, <1>15, <1>24, FilteredWith DEF p, g
<1>26. q = PlusTwo(p, index, n, c, r)
  BY DEF q, q1, A, B, h, PlusTwo
<1>27. h \notin DOMAIN p
  BY <1>6, <1>8
<1> QED
  BY <1>5, <1>6, <1>25, <1>26, <1>27 DEF q1, A, h, p, g, K2


-----------------------------------------------------------------------------
(* The insertion of an item whose turn it is.                              *)

\* Results are added, and none is replaced.
Stands(s, t) ==
  /\ t.resultCount >= s.resultCount
  /\ \A i \in DOMAIN s.results : i \in DOMAIN t.results /\ t.results[i] = s.results[i]

LEMMA StandsOn ==
  ASSUME NEW s, NEW t, NEW u, IsStore(s), IsStore(t), IsStore(u), Stands(s, t), Stands(t, u)
  PROVE  Stands(s, u)
<1>1. s.resultCount \in Nat /\ t.resultCount \in Nat /\ u.resultCount \in Nat
  BY DEF IsStore
<1>2. u.resultCount >= s.resultCount
  BY <1>1 DEF Stands
<1> QED
  BY <1>2 DEF Stands

\* What is added depends on the results alone.
LEMMA InsertedIs ==
  ASSUME NEW s, IsStore(s), DOMAIN s.results = 0..s.resultCount - 1,
         NEW item, item.count \in Nat \ {0}, s.resultCount + item.count <= 2 * Count
  PROVE  LET t == InsertIfValid(s, s.resultCount, item)
         IN  /\ IsStore(t) /\ t.pending = s.pending /\ t.insertIndex = s.insertIndex
             /\ Turn(t) = Turn(s) + item.count /\ Stands(s, t)
             /\ t.resultCount = s.resultCount + (IF item.results # <<>> THEN item.count ELSE 0)
             /\ t.filteredResults = s.filteredResults + (IF item.results # <<>> THEN 0 ELSE item.count)
             /\ DOMAIN t.results = 0..t.resultCount - 1
             /\ Joined(t.results, s.results, item.results, s.resultCount,
                       IF item.results # <<>> THEN item.count ELSE 0)
<1> DEFINE t == InsertIfValid(s, s.resultCount, item)
           m == s.resultCount
           c == item.count
           f == s.filteredResults
<1>1. m \in Nat /\ c \in Nat \ {0} /\ f \in Nat /\ Turn(s) = m + f
  BY DEF IsStore, Turn
<1>2. CASE item.results # <<>>
  <2>1. /\ IsStore(t) /\ t.pending = s.pending /\ t.insertIndex = s.insertIndex
        /\ t.resultCount = m + c /\ t.filteredResults = f
        /\ DOMAIN t.results = 0..t.resultCount - 1
        /\ Joined(t.results, s.results, item.results, m, c)
    BY <1>2, InsertResults
  <2> HIDE DEF t, m, c, f
  <2>2. Turn(t) = Turn(s) + c
    BY <1>1, <2>1 DEF Turn
  <2>3. t.resultCount >= m
    BY <1>1, <2>1
  <2>4. \A i \in 0..m - 1 : t.results[i] = s.results[i]
    BY <2>1 DEF Joined
  <2>5. \A i \in 0..m - 1 : i \in DOMAIN t.results
    BY <1>1, <2>1
  <2>6. Stands(s, t)
    BY <2>3, <2>4, <2>5 DEF Stands, m
  <2>7. t.filteredResults = f + 0
    BY <1>1, <2>1
  <2> QED
    BY <1>2, <2>1, <2>2, <2>6, <2>7, Zenon DEF t, m, c, f
<1>3. CASE item.results = <<>>
  <2>1. /\ IsStore(t) /\ t.pending = s.pending /\ t.insertIndex = s.insertIndex
        /\ t.resultCount = m /\ t.results = s.results /\ t.filteredResults = f + c
    <3> HIDE DEF m, f
    <3>1. c \in Nat
      BY <1>1
    <3> QED
      BY <3>1, <1>3, InsertNothing, ZenonT(40) DEF m, f
  <2> HIDE DEF t, c, f
  <2>2. Turn(t) = Turn(s) + c
    <3> HIDE DEF m
    <3> QED
      BY <1>1, <2>1 DEF Turn
  <2>3. Stands(s, t)
    BY <1>1, <2>1 DEF Stands
  <2>4. DOMAIN t.results = 0..t.resultCount - 1
    BY <2>1
  <2>5. Joined(t.results, s.results, item.results, m, 0)
    <3>1. \A i \in m..m + 0 - 1 : FALSE
      BY <1>1
    <3> QED
      BY <3>1, <2>1 DEF Joined
  <2>6. t.resultCount = m + 0
    BY <1>1, <2>1
  <2> QED
    BY <1>3, <2>1, <2>2, <2>3, <2>4, <2>5, <2>6, Zenon DEF t, m, c, f
<1> QED
  BY <1>2, <1>3

LEMMA InsertedSame ==
  ASSUME NEW s, IsStore(s), DOMAIN s.results = 0..s.resultCount - 1,
         NEW z, IsStore(z), z.results = s.results, z.resultCount = s.resultCount,
         z.filteredResults = s.filteredResults,
         NEW item, item.count \in Nat \ {0}, s.resultCount + item.count <= 2 * Count
  PROVE  LET t == InsertIfValid(s, s.resultCount, item)
             u == InsertIfValid(z, s.resultCount, item)
         IN  /\ IsStore(u) /\ u.pending = z.pending /\ u.insertIndex = z.insertIndex
             /\ u.results = t.results /\ u.resultCount = t.resultCount
             /\ u.filteredResults = t.filteredResults
<1> DEFINE t == InsertIfValid(s, s.resultCount, item)
           u == InsertIfValid(z, s.resultCount, item)
           c == IF item.results # <<>> THEN item.count ELSE 0
           d == IF item.results # <<>> THEN 0 ELSE item.count
           m == s.resultCount
<1>0. m \in Nat /\ c \in Nat
  BY DEF IsStore
<1>1. /\ IsStore(t) /\ t.resultCount = m + c /\ t.filteredResults = s.filteredResults + d
      /\ DOMAIN t.results = 0..t.resultCount - 1
      /\ Joined(t.results, s.results, item.results, m, c)
  BY InsertedIs, Zenon
<1>2. /\ IsStore(u) /\ u.pending = z.pending /\ u.insertIndex = z.insertIndex
      /\ u.resultCount = m + c /\ u.filteredResults = s.filteredResults + d
      /\ DOMAIN u.results = 0..u.resultCount - 1
      /\ Joined(u.results, s.results, item.results, m, c)
  <2> DEFINE v == InsertIfValid(z, z.resultCount, item)
  <2>1. DOMAIN z.results = 0..z.resultCount - 1 /\ z.resultCount + item.count <= 2 * Count
    BY Zenon
  <2>2. /\ IsStore(v) /\ v.pending = z.pending /\ v.insertIndex = z.insertIndex
        /\ v.resultCount = z.resultCount + c /\ v.filteredResults = z.filteredResults + d
        /\ DOMAIN v.results = 0..v.resultCount - 1
        /\ Joined(v.results, z.results, item.results, z.resultCount, c)
    BY <2>1, InsertedIs, Zenon
  <2>3. v = u
    BY Zenon
  <2> HIDE DEF u, v, c, d
  <2> QED
    BY <2>2, <2>3, Zenon
<1> HIDE DEF t, u, c, d, m
<1>3. \A i \in 0..m - 1 : u.results[i] = t.results[i]
  BY <1>1, <1>2 DEF Joined
<1>4. \A i \in m..m + c - 1 : u.results[i] = t.results[i]
  BY <1>1, <1>2 DEF Joined
<1>5. \A i \in 0..t.resultCount - 1 : i \in 0..m - 1 \/ i \in m..m + c - 1
  BY <1>0, <1>1
<1>6. \A i \in DOMAIN t.results : u.results[i] = t.results[i]
  BY <1>1, <1>3, <1>4, <1>5
<1>7. IsFun(t.results) /\ IsFun(u.results) /\ DOMAIN u.results = DOMAIN t.results
  BY <1>1, <1>2 DEF IsStore
<1>8. u.results = t.results
  BY <1>6, <1>7 DEF IsFun
<1> QED
  BY <1>1, <1>2, <1>8 DEF t, u

\* Whether the item whose turn it is is inserted or was pending and is taken off
\* by a round of the loop makes no difference.
LEMMA RoundIs ==
  ASSUME NEW s, IsStore(s), NEW q, IsFun(q), NEW M, Tiled(q, Turn(s), M),
         Turn(s) \in DOMAIN q, DOMAIN s.results = 0..s.resultCount - 1
  PROVE  LET u == InsertIfValid(s, s.resultCount, q[Turn(s)])
         IN  /\ SyncOne(WithPending(s, q)) = WithPending(u, Without(q, Turn(s)))
             /\ IsStore(u) /\ u.pending = s.pending /\ u.insertIndex = s.insertIndex
             /\ Turn(u) = After(q, Turn(s)) /\ Stands(s, u)
             /\ DOMAIN u.results = 0..u.resultCount - 1
<1> DEFINE g == Turn(s)
           m == s.resultCount
           item == q[g]
           V == WithPending(s, q)
           u == InsertIfValid(s, m, item)
           in == InsertIfValid(V, m, item)
<1>1. /\ g \in Nat /\ item.count \in Nat \ {0} /\ After(q, g) = g + item.count /\ After(q, g) <= Count
      /\ m \in Nat /\ m <= g /\ Count \in Nat
  <2>1. m \in Nat /\ s.filteredResults \in Nat /\ g = m + s.filteredResults
    BY DEF IsStore, Turn
  <2>2. m <= g
    <3> HIDE DEF g, m
    <3> QED
      BY <2>1
  <2> QED
    BY <2>1, <2>2, TileFacts, FutureAssumption
<1>2. m + item.count <= 2 * Count
  <2> HIDE DEF g, m, item
  <2> QED
    BY <1>1
<1>3. /\ IsStore(V) /\ V.pending = q /\ V.results = s.results /\ V.insertIndex = s.insertIndex
      /\ V.resultCount = m /\ V.filteredResults = s.filteredResults /\ Turn(V) = g
  BY WithPendingIs
<1> HIDE DEF V
<1>4. /\ IsStore(u) /\ u.pending = s.pending /\ u.insertIndex = s.insertIndex
      /\ Turn(u) = g + item.count /\ Stands(s, u)
      /\ DOMAIN u.results = 0..u.resultCount - 1
  <2> HIDE DEF item, g
  <2>1. item.count \in Nat \ {0}
    BY <1>1
  <2>2. /\ IsStore(u) /\ u.pending = s.pending /\ u.insertIndex = s.insertIndex
        /\ Turn(u) = Turn(s) + item.count /\ Stands(s, u)
        /\ DOMAIN u.results = 0..u.resultCount - 1
    BY <2>1, <1>2, InsertedIs
  <2> HIDE DEF u
  <2> QED
    BY <2>2 DEF g
<1>5. /\ IsStore(in) /\ in.pending = q /\ in.insertIndex = s.insertIndex
      /\ in.results = u.results /\ in.resultCount = u.resultCount
      /\ in.filteredResults = u.filteredResults
  <2> HIDE DEF item, g
  <2>1. /\ IsStore(in) /\ in.pending = V.pending /\ in.insertIndex = V.insertIndex
        /\ in.results = u.results /\ in.resultCount = u.resultCount
        /\ in.filteredResults = u.filteredResults
    <3>1. /\ IsStore(V) /\ V.results = s.results /\ V.resultCount = s.resultCount
          /\ V.filteredResults = s.filteredResults /\ item.count \in Nat \ {0}
      BY <1>1, <1>3
    <3> QED
      BY <1>2, <3>1, InsertedSame
  <2> QED
    BY <2>1, <1>3, Zenon
<1>6. SyncOne(V) = [in EXCEPT !.pending = Restrict(@, DOMAIN @ \ {g})]
  <2>1. LET t == InsertIfValid(V, V.resultCount, V.pending[Turn(V)])
        IN  SyncOne(V) = [t EXCEPT !.pending = Restrict(@, DOMAIN @ \ {Turn(V)})]
    <3>1. Tiled(V.pending, Turn(V), M) /\ Turn(V) \in DOMAIN V.pending
      BY <1>3
    <3> QED
      BY <1>3, <3>1, SyncOneIs
  <2>2. InsertIfValid(V, V.resultCount, V.pending[Turn(V)]) = in
    BY <1>3, Zenon
  <2> HIDE DEF in, g
  <2> QED
    BY <2>1, <2>2, <1>3
<1> HIDE DEF in, u
<1>7. SyncOne(V) = Fields(in.results, Without(q, g), in.insertIndex, in.resultCount, in.filteredResults)
  <2>1. Restrict(in.pending, DOMAIN in.pending \ {g}) = Without(q, g)
    BY <1>5 DEF Restrict, Without
  <2>2. SyncOne(V) = [in EXCEPT !.pending = Restrict(in.pending, DOMAIN in.pending \ {g})]
    BY <1>6
  <2>3. IsStore(in)
    BY <1>5
  <2> QED
    BY <2>1, <2>2, <2>3, StoreWith, ZenonT(40)
<1>8. SyncOne(V) = WithPending(u, Without(q, g))
  BY <1>4, <1>5, <1>7, Zenon DEF WithPending
<1> QED
  BY <1>1, <1>4, <1>8, Zenon DEF u, V

LEMMA RoundKeeps ==
  ASSUME NEW s, IsStore(s), NEW q, IsFun(q), NEW M, NEW K \in SUBSET Inputs, NEW e,
         Filtered(WithPending(s, q), M, K, e), Turn(s) \in DOMAIN q
  PROVE  LET u == InsertIfValid(s, s.resultCount, q[Turn(s)])
         IN  /\ SyncOne(WithPending(s, q)) = WithPending(u, Without(q, Turn(s)))
             /\ IsStore(u) /\ u.pending = s.pending /\ u.insertIndex = s.insertIndex
             /\ Turn(u) = After(q, Turn(s)) /\ Stands(s, u)
             /\ \E h : Filtered(WithPending(u, Without(q, Turn(s))), M, K, h)
<1> DEFINE V == WithPending(s, q)
           g == Turn(s)
           u == InsertIfValid(s, s.resultCount, q[g])
<1>1. V.pending = q /\ Turn(V) = g /\ V.results = s.results /\ V.resultCount = s.resultCount
  BY WithPendingIs
<1> HIDE DEF V
<1>2. Tiled(q, g, M) /\ DOMAIN s.results = 0..s.resultCount - 1 /\ Filtered(V, M, K, e)
  BY <1>1 DEF Filtered, V
<1>3. /\ SyncOne(V) = WithPending(u, Without(q, g))
      /\ IsStore(u) /\ u.pending = s.pending /\ u.insertIndex = s.insertIndex
      /\ Turn(u) = After(q, g) /\ Stands(s, u)
  BY <1>2, RoundIs DEF V
<1>4. \E h : Filtered(SyncOne(V), M, K, h)
  <2>1. Turn(V) \in DOMAIN V.pending
    BY <1>1
  <2> QED
    BY <1>2, <2>1, SyncOneKeeps
<1> QED
  BY <1>3, <1>4, Zenon DEF V

\* Where the next results are expected does not matter to what the store holds.
Expecting(s, x) == Fields(s.results, s.pending, x, s.resultCount, s.filteredResults)

LEMMA ExpectingIs ==
  ASSUME NEW s, IsStore(s), NEW x \in Nat
  PROVE  /\ [s EXCEPT !.insertIndex = x] = Expecting(s, x)
         /\ IsStore(Expecting(s, x)) /\ Expecting(s, x).insertIndex = x
         /\ Expecting(s, x).results = s.results /\ Expecting(s, x).pending = s.pending
         /\ Expecting(s, x).resultCount = s.resultCount
         /\ Expecting(s, x).filteredResults = s.filteredResults
         /\ Turn(Expecting(s, x)) = Turn(s)
<1>1. [s EXCEPT !.insertIndex = x] = Expecting(s, x)
  BY StoreWith, Zenon DEF Expecting
<1>2. /\ Expecting(s, x).insertIndex = x
      /\ Expecting(s, x).results = s.results /\ Expecting(s, x).pending = s.pending
      /\ Expecting(s, x).resultCount = s.resultCount
      /\ Expecting(s, x).filteredResults = s.filteredResults
  BY DEF Expecting, Fields
<1>3. Turn(Expecting(s, x)) = Turn(s)
  BY <1>2 DEF Turn
<1>4. IsStore(Expecting(s, x))
  <2>1. Expecting(s, x) = Fields(s.results, s.pending, x, s.resultCount, s.filteredResults)
    BY DEF Expecting
  <2> QED
    BY <1>2, <2>1 DEF IsStore, Fields
<1> QED
  BY <1>1, <1>2, <1>3, <1>4

LEMMA FilteredLike ==
  ASSUME NEW s, NEW t, NEW L, NEW K, NEW e, Filtered(s, L, K, e), IsStore(t),
         t.results = s.results, t.pending = s.pending, t.resultCount = s.resultCount,
         t.filteredResults = s.filteredResults
  PROVE  Filtered(t, L, K, e)
<1>1. Turn(t) = Turn(s)
  BY DEF Turn
<1> QED
  BY <1>1 DEF Filtered

\* The item whose turn it is is inserted at once, while q is what would be
\* pending had it been held back.
LEMMA InsertDirect ==
  ASSUME mode = "filter", NEW s, IsStore(s), NEW q, IsFun(q), NEW M, NEW K \in SUBSET Inputs,
         NEW e, Filtered(WithPending(s, q), M, K, e), Turn(s) \in DOMAIN q,
         s.insertIndex = Turn(s)
  PROVE  \E u : /\ InsertItem(s, Turn(s), q[Turn(s)]) = SyncPendingResults(u)
                /\ IsStore(u) /\ u.pending = s.pending
                /\ u.insertIndex = After(q, Turn(s)) /\ Turn(u) = After(q, Turn(s))
                /\ Stands(s, u)
                /\ \E h : Filtered(WithPending(u, Without(q, Turn(s))), M, K, h)
<1> DEFINE g == Turn(s)
           item == q[g]
           x == After(q, g)
           z == Expecting(s, x)
           u == InsertIfValid(z, z.resultCount, item)
           V == WithPending(s, q)
           W == WithPending(z, q)
<1>1. V.pending = q /\ Turn(V) = g /\ IsStore(V)
  BY WithPendingIs
<1>2. Tiled(q, g, M)
  BY <1>1 DEF Filtered
<1>3. g \in Nat /\ item.count \in Nat \ {0} /\ x = g + item.count /\ x \in Nat /\ x > g
  <2>1. g \in Nat /\ item.count \in Nat \ {0} /\ x = g + item.count
    BY <1>2, TileFacts
  <2> HIDE DEF g, item, x
  <2> QED
    BY <2>1
<1>4. /\ [s EXCEPT !.insertIndex = x] = z /\ IsStore(z) /\ z.insertIndex = x
      /\ z.results = s.results /\ z.pending = s.pending /\ z.resultCount = s.resultCount
      /\ z.filteredResults = s.filteredResults /\ Turn(z) = g
  <2> HIDE DEF x
  <2> QED
    BY <1>3, ExpectingIs
<1> HIDE DEF z, x
<1>5. InsertItem(s, g, item) = SyncPendingResults(u)
  <2>1. ~MustPend(s, g)
    <3> HIDE DEF g
    <3>1. ~(g > s.insertIndex)
      BY <1>3 DEF g
    <3> QED
      BY <3>1 DEF MustPend
  <2>2. StoreIndex(s, g) = g
    <3> HIDE DEF g
    <3> QED
      BY <1>3 DEF StoreIndex
  <2>3. Max({s.insertIndex, g + item.count}) = x
    <3> HIDE DEF g, item
    <3>1. s.insertIndex = g
      BY DEF g
    <3>2. \A y \in {g, x} : x >= y
      BY <1>3
    <3>3. \A y \in {g, x} : (\A v \in {g, x} : y >= v) => y = x
      BY <1>3
    <3>4. Max({g, x}) = x
      BY <3>2, <3>3 DEF Max
    <3> QED
      BY <3>1, <3>4, <1>3
  <2>4. g - s.filteredResults = z.resultCount
    <3>1. g = s.resultCount + s.filteredResults /\ s.resultCount \in Nat /\ s.filteredResults \in Nat
      BY DEF IsStore, Turn
    <3> HIDE DEF g
    <3> QED
      BY <3>1, <1>4
  <2> DEFINE there == StoreIndex(s, g)
  <2>5. InsertItem(s, g, item)
          = SyncPendingResults(InsertIfValid([s EXCEPT !.insertIndex = Max({@, there + item.count})],
                                              there - s.filteredResults, item))
    BY <2>1 DEF InsertItem
  <2>6. [s EXCEPT !.insertIndex = Max({@, there + item.count})] = z
    <3>1. Max({s.insertIndex, there + item.count}) = x
      BY <2>2, <2>3, Zenon
    <3>2. [s EXCEPT !.insertIndex = Max({@, there + item.count})]
            = [s EXCEPT !.insertIndex = Max({s.insertIndex, there + item.count})]
      OBVIOUS
    <3> HIDE DEF there, item, g
    <3> QED
      BY <3>1, <3>2, <1>4, Zenon
  <2> QED
    BY <2>2, <2>4, <2>5, <2>6, Zenon
<1>6. Filtered(W, M, K, e)
  <2>1. /\ V.results = s.results /\ V.resultCount = s.resultCount /\ V.filteredResults = s.filteredResults
    BY WithPendingIs
  <2>2. /\ IsStore(W) /\ W.pending = q /\ W.results = z.results /\ W.resultCount = z.resultCount
        /\ W.filteredResults = z.filteredResults
    BY <1>4, WithPendingIs
  <2>3. Filtered(V, M, K, e)
    OBVIOUS
  <2> HIDE DEF V, W
  <2> QED
    BY <2>1, <2>2, <2>3, <1>1, <1>4, FilteredLike
<1>7. /\ IsStore(u) /\ u.pending = z.pending /\ u.insertIndex = z.insertIndex
      /\ Turn(u) = After(q, Turn(z)) /\ Stands(z, u)
      /\ \E h : Filtered(WithPending(u, Without(q, Turn(z))), M, K, h)
  <2>1. Turn(z) \in DOMAIN q /\ u = InsertIfValid(z, z.resultCount, q[Turn(z)])
    BY <1>4
  <2> HIDE DEF u, g
  <2> QED
    BY <2>1, <1>4, <1>6, RoundKeeps
<1> HIDE DEF u
<1>8. Stands(s, u)
  BY <1>4, <1>7 DEF Stands
<1>9. /\ u.pending = s.pending /\ u.insertIndex = After(q, g) /\ Turn(u) = After(q, g)
      /\ \E h : Filtered(WithPending(u, Without(q, g)), M, K, h)
  BY <1>4, <1>7, Zenon DEF x
<1> QED
  BY <1>5, <1>7, <1>8, <1>9

\* After the loop the store is at rest.
LEMMA SyncRests ==
  ASSUME NEW u, NEW M, NEW K \in SUBSET Inputs, K \cap M = {}, NEW h, Filtered(u, M, K, h),
         u.insertIndex <= Turn(u)
  PROVE  LET t == SyncPendingResults(u)
         IN  Resting(t, M, K) /\ Stands(u, t)
<1> DEFINE t == SyncPendingResults(u)
<1>1. Filtered(t, M, K, Turn(t)) /\ Turn(t) \notin DOMAIN t.pending /\ Grown(u, t)
  BY SyncKeeps
<1> HIDE DEF t
<1>2. u.insertIndex \in Nat /\ Turn(u) \in Nat /\ Turn(t) \in Nat
  BY <1>1 DEF Filtered, IsStore, Turn
<1>3. t.insertIndex <= Turn(t)
  BY <1>1, <1>2 DEF Grown
<1>4. Stands(u, t)
  BY <1>1 DEF Grown, Stands
<1> QED
  BY <1>1, <1>3, <1>4 DEF Resting, t

\* An item is held back.
LEMMA InsertHeld ==
  ASSUME mode = "filter", NEW s, IsStore(s), NEW index \in Int, index > s.insertIndex, NEW item
  PROVE  InsertItem(s, index, item)
           = SyncPendingResults(WithPending(s, Plus(s.pending, index, item)))
<1>1. s.insertIndex \in Nat
  BY DEF IsStore
<1>2. MustPend(s, index)
  BY <1>1 DEF MustPend
<1>3. InsertItem(s, index, item)
        = SyncPendingResults([s EXCEPT !.pending = Plus(s.pending, index, item)])
  BY <1>2 DEF InsertItem, Plus
<1>4. IsFun(Plus(s.pending, index, item))
  BY PlusDomain
<1>5. [s EXCEPT !.pending = Plus(s.pending, index, item)]
        = WithPending(s, Plus(s.pending, index, item))
  BY <1>4, WithPendingIs
<1> QED
  BY <1>3, <1>5, Zenon

LEMMA WithoutPlus ==
  ASSUME NEW p, IsFun(p), NEW g, g \notin DOMAIN p, NEW item
  PROVE  Without(Plus(p, g, item), g) = p
<1> DEFINE q == Plus(p, g, item)
<1>1. DOMAIN q = DOMAIN p \cup {g}
  BY PlusDomain
<1>2. \A k \in DOMAIN p : k # g => q[k] = p[k]
  BY PlusOld
<1> HIDE DEF q
<1>3. DOMAIN q \ {g} = DOMAIN p
  BY <1>1
<1>4. \A k \in DOMAIN p : q[k] = p[k]
  BY <1>2
<1>5. Without(q, g) = [k \in DOMAIN p |-> p[k]]
  BY <1>3, <1>4 DEF Without
<1> QED
  BY <1>5 DEF q, IsFun

LEMMA WithSame ==
  ASSUME NEW u, IsStore(u)
  PROVE  WithPending(u, u.pending) = u
  BY StoreIs, Zenon DEF WithPending

LEMMA InputFacts ==
  ASSUME NEW s, NEW L, NEW K, Resting(s, L, K), NEW index \in L
  PROVE  /\ IsStore(s) /\ IsFun(s.pending) /\ Tiled(s.pending, Turn(s), L) /\ K \in SUBSET Inputs
         /\ s.insertIndex \in Nat /\ Turn(s) \in Nat /\ s.insertIndex <= Turn(s)
         /\ index \in Nat /\ index \in Inputs /\ index >= Turn(s)
         /\ L \subseteq Inputs /\ K \cap L = {}
         /\ ~(index > s.insertIndex) => index = Turn(s) /\ s.insertIndex = Turn(s)
<1>1. /\ IsStore(s) /\ IsFun(s.pending) /\ Tiled(s.pending, Turn(s), L)
      /\ s.insertIndex \in Nat /\ Turn(s) \in Nat /\ s.insertIndex <= Turn(s)
  BY DEF Resting, Filtered, IsStore, Turn
<1>2. index \in Inputs /\ index >= Turn(s) /\ L \subseteq Inputs
  BY <1>1 DEF Tiled
<1>3. index \in Nat
  BY <1>2, FutureAssumption DEF Inputs
<1>4. ~(index > s.insertIndex) => index = Turn(s) /\ s.insertIndex = Turn(s)
  BY <1>1, <1>2, <1>3
<1> QED
  BY <1>1, <1>2, <1>3, <1>4 DEF Resting

\* A filter reports a block of which it kept all or nothing.
LEMMA AddOne ==
  ASSUME mode = "filter", NEW s, NEW L, NEW K, Resting(s, L, K),
         NEW index \in L, NEW n \in Nat \ {0}, Block(index, n) \subseteq L,
         NEW keep \in SUBSET Block(index, n), NEW r,
         \/ r # <<>> /\ Lists(r, 1, n, keep)
         \/ r = <<>> /\ keep = {}
  PROVE  LET t == InsertItem(s, index, Item(n, r))
         IN  Resting(t, L \ Block(index, n), K \cup keep) /\ Stands(s, t)
<1> DEFINE p == s.pending
           g == Turn(s)
           item == Item(n, r)
           q == Plus(p, index, item)
           V == WithPending(s, q)
           M == L \ Block(index, n)
           K2 == K \cup keep
           t == InsertItem(s, index, item)
<1>1. /\ IsStore(s) /\ IsFun(p) /\ Tiled(p, g, L)
      /\ s.insertIndex \in Nat /\ g \in Nat /\ s.insertIndex <= g
      /\ index \in Nat /\ index >= g
      /\ (~(index > s.insertIndex) => index = g /\ s.insertIndex = g)
  BY InputFacts
<1>2. K2 \in SUBSET Inputs /\ K2 \cap M = {}
  <2>1. K \in SUBSET Inputs /\ L \subseteq Inputs /\ K \cap L = {}
    BY InputFacts
  <2> QED
    BY <2>1
<1>3. Filtered(V, M, K2, g)
  BY OneItem
<1>4. g \notin DOMAIN p
  BY DEF Resting
<1>5. IsFun(q) /\ DOMAIN q = DOMAIN p \cup {index}
  BY PlusDomain
<1>6. V.insertIndex = s.insertIndex /\ V.results = s.results /\ V.resultCount = s.resultCount
      /\ Turn(V) = g /\ IsStore(V)
  BY <1>1, <1>5, WithPendingIs
<1> HIDE DEF V, M, K2, item
<1>7. CASE index > s.insertIndex
  <2>1. t = SyncPendingResults(V)
    <3>1. index \in Int
      BY <1>1
    <3> QED
      BY <1>1, <1>7, <3>1, InsertHeld DEF V
  <2>2. V.insertIndex <= Turn(V)
    BY <1>1, <1>6, Zenon
  <2>3. Resting(t, M, K2) /\ Stands(V, t)
    BY <1>2, <1>3, <2>1, <2>2, SyncRests
  <2>4. Stands(s, t)
    BY <1>6, <2>3 DEF Stands
  <2> QED
    BY <2>3, <2>4 DEF M, K2, item
<1>8. CASE ~(index > s.insertIndex)
  <2>1. index = g /\ s.insertIndex = g
    BY <1>1, <1>8, Zenon
  <2>2. q[index] = item
    BY PlusNew
  <2>3. g \in DOMAIN q /\ q[g] = item
    <3> HIDE DEF q, g
    <3> QED
      BY <1>5, <2>1, <2>2
  <2>4. Without(q, g) = p
    <3>1. Without(Plus(p, g, item), g) = p
      BY <1>1, <1>4, WithoutPlus
    <3> HIDE DEF p, g
    <3> QED
      BY <2>1, <3>1, Zenon
  <2> HIDE DEF q, p
  <2>5. PICK u : /\ InsertItem(s, g, q[g]) = SyncPendingResults(u)
                 /\ IsStore(u) /\ u.pending = s.pending
                 /\ u.insertIndex = After(q, g) /\ Turn(u) = After(q, g)
                 /\ Stands(s, u)
                 /\ \E h : Filtered(WithPending(u, Without(q, g)), M, K2, h)
    BY <1>1, <1>2, <1>3, <1>5, <2>1, <2>3, InsertDirect DEF V
  <2>6. WithPending(u, Without(q, g)) = u
    <3>1. Without(q, g) = u.pending
      BY <2>4, <2>5, Zenon DEF p
    <3>2. WithPending(u, u.pending) = u
      BY <2>5, WithSame
    <3> QED
      BY <3>1, <3>2, Zenon
  <2>7. PICK h : Filtered(u, M, K2, h)
    BY <2>5, <2>6
  <2>8. After(q, g) \in Nat
    BY <2>5 DEF IsStore
  <2>9. u.insertIndex <= Turn(u)
    BY <2>5, <2>8
  <2>10. t = SyncPendingResults(u)
    <3> HIDE DEF g
    <3> QED
      BY <2>1, <2>3, <2>5, Zenon
  <2>11. Resting(t, M, K2) /\ Stands(u, t)
    BY <1>2, <2>7, <2>9, <2>10, SyncRests
  <2>12. IsStore(t)
    BY <2>11 DEF Resting, Filtered
  <2>13. Stands(s, t)
    <3> HIDE DEF t
    <3> QED
      BY <1>1, <2>5, <2>11, <2>12, StandsOn
  <2> QED
    BY <2>11, <2>13 DEF M, K2, item
<1> QED
  BY <1>7, <1>8

\* The functions with one and with two items more.
LEMMA PlusTwoAt ==
  ASSUME NEW p, NEW index \in Int, index \notin DOMAIN p, NEW n, NEW c \in Nat \ {0}, NEW r,
         index + c \notin DOMAIN p
  PROVE  PlusTwo(p, index, n, c, r)[index] = Item(c, r)
<1> DEFINE A == Item(c, r)
           B == Item(n - c, <<>>)
           h == index + c
           q1 == Plus(p, index, A)
           q == Plus(q1, h, B)
<1>0. h # index
  OBVIOUS
<1> HIDE DEF A, B, h
<1>1. DOMAIN q1 = DOMAIN p \cup {index}
  BY PlusDomain
<1>2. q1[index] = A
  BY PlusNew
<1>3. \A k \in DOMAIN p : k # index => q1[k] = p[k]
  BY PlusOld
<1> HIDE DEF q1
<1>4. DOMAIN q = DOMAIN q1 \cup {h} /\ IsFun(q)
  BY PlusDomain
<1>5. q[h] = B
  BY PlusNew
<1>6. \A k \in DOMAIN q1 : k # h => q[k] = q1[k]
  BY PlusOld
<1> HIDE DEF q
<1>10. q[index] = A
  BY <1>0, <1>1, <1>2, <1>6
<1>11. q = PlusTwo(p, index, n, c, r)
  BY DEF q, q1, A, B, h, PlusTwo
<1> QED
  BY <1>10, <1>11, Zenon DEF A

LEMMA PlusTwoIs ==
  ASSUME NEW p, NEW index \in Int, index \notin DOMAIN p, NEW n, NEW c \in Nat \ {0}, NEW r,
         index + c \notin DOMAIN p
  PROVE  /\ DOMAIN PlusTwo(p, index, n, c, r) = DOMAIN p \cup {index, index + c}
         /\ IsFun(PlusTwo(p, index, n, c, r))
<1> DEFINE q1 == Plus(p, index, Item(c, r))
           q == Plus(q1, index + c, Item(n - c, <<>>))
<1>1. DOMAIN q1 = DOMAIN p \cup {index}
  BY PlusDomain
<1> HIDE DEF q1
<1>2. DOMAIN q = DOMAIN q1 \cup {index + c} /\ IsFun(q)
  BY PlusDomain
<1> HIDE DEF q
<1>3. q = PlusTwo(p, index, n, c, r)
  BY DEF q, q1, PlusTwo
<1>4. DOMAIN q = DOMAIN p \cup {index, index + c}
  BY <1>1, <1>2
<1> QED
  BY <1>2, <1>3, <1>4, Zenon

LEMMA PlusTwoLess ==
  ASSUME NEW p, NEW index \in Int, index \notin DOMAIN p, NEW n \in Nat, NEW c \in Nat \ {0}, NEW r,
         index + c \notin DOMAIN p
  PROVE  Without(PlusTwo(p, index, n, c, r), index) = Plus(p, index + c, Item(n - c, <<>>))
<1> DEFINE A == Item(c, r)
           B == Item(n - c, <<>>)
           h == index + c
           q1 == Plus(p, index, A)
           q == Plus(q1, h, B)
           q2 == Plus(p, h, B)
<1>0. h # index
  OBVIOUS
<1> HIDE DEF A, B, h
<1>1. DOMAIN q1 = DOMAIN p \cup {index}
  BY PlusDomain
<1>2. q1[index] = A
  BY PlusNew
<1>3. \A k \in DOMAIN p : k # index => q1[k] = p[k]
  BY PlusOld
<1> HIDE DEF q1
<1>4. DOMAIN q = DOMAIN q1 \cup {h} /\ IsFun(q)
  BY PlusDomain
<1>5. q[h] = B
  BY PlusNew
<1>6. \A k \in DOMAIN q1 : k # h => q[k] = q1[k]
  BY PlusOld
<1> HIDE DEF q
<1>7. DOMAIN q2 = DOMAIN p \cup {h} /\ IsFun(q2)
  BY PlusDomain
<1>8. q2[h] = B
  BY PlusNew
<1>9. \A k \in DOMAIN p : k # h => q2[k] = p[k]
  BY PlusOld
<1> HIDE DEF q2
<1>10. q[index] = A
  BY <1>0, <1>1, <1>2, <1>6
<1>11. DOMAIN q \ {index} = DOMAIN q2
  BY <1>0, <1>1, <1>4, <1>7
<1>12. \A k \in DOMAIN q2 : q[k] = q2[k]
  <2>1. h \notin DOMAIN p
    BY DEF h
  <2> QED
    BY <2>1, <1>1, <1>3, <1>5, <1>6, <1>7, <1>8, <1>9
<1>13. Without(q, index) = q2
  <2>1. Without(q, index) = [k \in DOMAIN q2 |-> q2[k]]
    BY <1>11, <1>12 DEF Without
  <2> QED
    BY <2>1, <1>7 DEF IsFun
<1>15. q = PlusTwo(p, index, n, c, r)
  BY DEF q, q1, A, B, h, PlusTwo
<1> QED
  BY <1>13, <1>15, Zenon DEF B, h, q2

\* A filter reports a block of which it kept a part: two items.
LEMMA AddTwo ==
  ASSUME mode = "filter", NEW s, NEW L, NEW K, Resting(s, L, K),
         NEW index, NEW n, NEW keep, NEW r, NEW c, Part(L, index, n, keep, r, c)
  PROVE  LET t == InsertItem(InsertItem(s, index, Item(c, r)), index + c, Item(n - c, <<>>))
         IN  Resting(t, L \ Block(index, n), K \cup keep) /\ Stands(s, t)
<1> DEFINE p == s.pending
           g == Turn(s)
           A == Item(c, r)
           B == Item(n - c, <<>>)
           h == index + c
           q1 == Plus(p, index, A)
           q == PlusTwo(p, index, n, c, r)
           M == L \ Block(index, n)
           L1 == L \ Block(index, c)
           K2 == K \cup keep
           in == InsertItem(s, index, A)
           t == InsertItem(in, h, B)
<1>0. /\ index \in L /\ n \in Nat \ {0} /\ Block(index, n) \subseteq L
      /\ keep \in SUBSET Block(index, n) /\ c \in Nat \ {0} /\ c < n
      /\ r # <<>> /\ Lists(r, 1, c, keep)
  BY DEF Part
<1> USE <1>0
<1>1. /\ IsStore(s) /\ IsFun(p) /\ Tiled(p, g, L)
      /\ s.insertIndex \in Nat /\ g \in Nat /\ s.insertIndex <= g
      /\ index \in Nat /\ index >= g
      /\ (~(index > s.insertIndex) => index = g /\ s.insertIndex = g)
  BY InputFacts
<1>2. K2 \in SUBSET Inputs /\ K2 \cap M = {}
  <2>1. K \in SUBSET Inputs /\ L \subseteq Inputs /\ K \cap L = {}
    BY InputFacts
  <2> QED
    BY <2>1
<1>3. /\ Filtered(WithPending(s, q), M, K2, g) /\ Tiled(q1, g, L1)
      /\ h \notin DOMAIN q1 /\ h \notin DOMAIN p /\ index \notin DOMAIN p
  BY TwoItems
<1>4. g \notin DOMAIN p
  BY DEF Resting
<1>5. /\ DOMAIN q = DOMAIN p \cup {index, h} /\ IsFun(q)
      /\ q[index] = A /\ Without(q, index) = Plus(p, h, B)
  <2> HIDE DEF p
  <2>1. index \in Int
    BY <1>1
  <2>2. q[index] = A
    BY <2>1, <1>3, PlusTwoAt
  <2>3. DOMAIN q = DOMAIN p \cup {index, h} /\ IsFun(q)
    BY <2>1, <1>3, PlusTwoIs
  <2>4. Without(q, index) = Plus(p, h, B)
    <3>1. n \in Nat
      OBVIOUS
    <3> QED
      BY <2>1, <3>1, <1>3, PlusTwoLess
  <2> QED
    BY <2>2, <2>3, <2>4
<1>6. h \in Int /\ h > index /\ h \in Nat /\ index \in Int
  BY <1>1
<1>7. IsFun(q1) /\ DOMAIN q1 = DOMAIN p \cup {index}
  BY PlusDomain
<1>8. q1[index] = A
  BY PlusNew
<1>9. Without(q1, index) = p
  BY <1>1, <1>3, WithoutPlus
<1>10. q = Plus(q1, h, B)
  BY DEF PlusTwo
<1>11. A.count = c /\ B.count = n - c /\ n - c \in Nat \ {0}
  BY DEF Item
<1>20. DOMAIN s.results = 0..s.resultCount - 1
  BY DEF Resting, Filtered
<1> HIDE DEF q, q1, A, B, M, K2, L1
<1>12. ASSUME NEW u, Filtered(u, M, K2, g) \/ \E e : Filtered(u, M, K2, e),
              u.insertIndex <= Turn(u), t = SyncPendingResults(u), Stands(s, u)
       PROVE  Resting(t, M, K2) /\ Stands(s, t)
  <2>1. PICK e : Filtered(u, M, K2, e)
    BY <1>12
  <2>2. Resting(t, M, K2) /\ Stands(u, t)
    BY <1>2, <1>12, <2>1, SyncRests
  <2>3. IsStore(t) /\ IsStore(u)
    BY <2>1, <2>2 DEF Resting, Filtered
  <2> HIDE DEF t
  <2>4. Stands(s, t)
    BY <1>1, <1>12, <2>2, <2>3, StandsOn
  <2> QED
    BY <2>2, <2>4
<1>13. CASE index > s.insertIndex /\ index # g
  <2> DEFINE W == WithPending(s, q1)
             V == WithPending(s, q)
  <2>1. in = SyncPendingResults(W)
    BY <1>1, <1>6, <1>13, InsertHeld DEF q1
  <2>2. IsStore(W) /\ W.pending = q1 /\ Turn(W) = g /\ W.insertIndex = s.insertIndex
        /\ W.results = s.results /\ W.resultCount = s.resultCount /\ W.filteredResults = s.filteredResults
    BY <1>1, <1>7, WithPendingIs
  <2>3. g \notin DOMAIN q1
    BY <1>4, <1>7, <1>13
  <2> HIDE DEF W
  <2>4. SyncPendingResults(W) = W
    <3>1. Tiled(W.pending, Turn(W), L1) /\ Turn(W) \notin DOMAIN W.pending
      BY <1>3, <2>2, <2>3
    <3> QED
      BY <2>2, <3>1, AtRest
  <2>5. h > W.insertIndex
    <3>1. h > s.insertIndex
      BY <1>1, <1>6, <1>13
    <3> QED
      BY <2>2, <3>1
  <2>6. t = SyncPendingResults(WithPending(W, Plus(W.pending, h, B)))
    <3>1. t = InsertItem(W, h, B)
      BY <2>1, <2>4, Zenon
    <3> HIDE DEF t
    <3> QED
      BY <1>6, <2>2, <2>5, <3>1, InsertHeld
  <2>7. WithPending(W, Plus(W.pending, h, B)) = V
    <3>1. WithPending(W, Plus(W.pending, h, B)) = WithPending(W, q)
      BY <1>10, <2>2, Zenon
    <3>2. WithPending(W, q) = V
      BY <2>2, Zenon DEF WithPending
    <3> QED
      BY <3>1, <3>2, Zenon
  <2>8. V.insertIndex = s.insertIndex /\ V.results = s.results /\ V.resultCount = s.resultCount
        /\ Turn(V) = g
    BY <1>1, <1>5, WithPendingIs
  <2>10. Filtered(V, M, K2, g)
    BY <1>3
  <2> HIDE DEF V
  <2>9. Stands(s, V) /\ V.insertIndex <= Turn(V)
    BY <1>1, <2>8 DEF Stands, IsStore
  <2> QED
    BY <1>12, <2>6, <2>7, <2>9, <2>10 DEF t, in, A, B, M, K2
<1>14. CASE index > s.insertIndex /\ index = g
  <2> DEFINE W == WithPending(s, q1)
             u == InsertIfValid(s, s.resultCount, A)
             U == WithPending(u, Plus(p, h, B))
  <2>1. in = SyncPendingResults(W)
    BY <1>1, <1>6, <1>14, InsertHeld DEF q1
  <2>2. IsStore(W) /\ W.pending = q1 /\ Turn(W) = g
    BY <1>1, <1>7, WithPendingIs
  <2>3. g \in DOMAIN q1 /\ q1[g] = A /\ After(q1, g) = h /\ Without(q1, g) = p
    BY <1>7, <1>8, <1>9, <1>11, <1>14 DEF After
  <2>4. /\ SyncOne(W) = WithPending(u, p)
        /\ IsStore(u) /\ u.pending = p /\ u.insertIndex = s.insertIndex
        /\ Turn(u) = h /\ Stands(s, u)
    <3> DEFINE v == InsertIfValid(s, s.resultCount, q1[g])
    <3>1. /\ SyncOne(WithPending(s, q1)) = WithPending(v, Without(q1, g))
          /\ IsStore(v) /\ v.pending = p /\ v.insertIndex = s.insertIndex
          /\ Turn(v) = After(q1, g) /\ Stands(s, v)
      BY <1>1, <1>3, <1>7, <1>20, <2>3, RoundIs
    <3>2. v = u
      BY <2>3, Zenon
    <3> HIDE DEF u, v
    <3> QED
      BY <2>3, <3>1, <3>2, Zenon
  <2>5. SyncOne(W) = u
    <3>1. WithPending(u, u.pending) = u
      BY <2>4, WithSame
    <3> HIDE DEF W, u
    <3> QED
      BY <2>4, <3>1, Zenon
  <2> HIDE DEF W, u
  <2>6. Tiled(p, h, L1)
    <3>1. Tiled(Without(q1, g), After(q1, g), L1)
      BY <1>3, <2>3, TiledTail
    <3> QED
      BY <2>3, <3>1, Zenon
  <2>7. in = u
    <3> HIDE DEF g, in, h
    <3>1. Tiled(u.pending, Turn(u), L1) /\ Turn(u) \notin DOMAIN u.pending
      BY <1>3, <2>4, <2>6, Zenon
    <3>2. Tiled(W.pending, Turn(W), L1) /\ Turn(W) \in DOMAIN W.pending
      BY <1>3, <2>2, <2>3, Zenon
    <3>3. SyncPendingResults(W) = u
      BY <2>2, <2>4, <2>5, <3>1, <3>2, OneRound
    <3> QED
      BY <2>1, <3>3
  <2>8. t = SyncPendingResults(U)
    <3>1. h > u.insertIndex
      BY <1>1, <1>6, <1>14, <2>4
    <3>2. t = InsertItem(u, h, B)
      BY <2>7
    <3> HIDE DEF t, in
    <3>3. t = SyncPendingResults(WithPending(u, Plus(u.pending, h, B)))
      BY <1>6, <2>4, <3>1, <3>2, InsertHeld
    <3> QED
      BY <2>4, <3>3, Zenon
  <2>9. \E e : Filtered(U, M, K2, e)
    <3>1. g \in DOMAIN q /\ q[g] = A /\ Without(q, g) = Plus(p, h, B)
      BY <1>5, <1>14
    <3> DEFINE v == InsertIfValid(s, s.resultCount, q[g])
    <3>2. \E e : Filtered(WithPending(v, Without(q, g)), M, K2, e)
      BY <1>1, <1>2, <1>3, <1>5, <3>1, RoundKeeps
    <3>3. v = u
      BY <3>1, Zenon DEF u
    <3> HIDE DEF v
    <3> QED
      BY <3>1, <3>2, <3>3, Zenon
  <2>10. IsFun(Plus(p, h, B))
    BY PlusDomain
  <2>11. /\ U.insertIndex = u.insertIndex /\ U.results = u.results /\ U.resultCount = u.resultCount
         /\ Turn(U) = Turn(u)
    BY <2>4, <2>10, WithPendingIs
  <2> HIDE DEF U
  <2>12. Stands(s, U)
    BY <2>4, <2>11 DEF Stands
  <2>13. U.insertIndex <= Turn(U)
    <3>1. s.insertIndex <= h
      BY <1>1, <1>6, <1>14
    <3> HIDE DEF h
    <3> QED
      BY <2>4, <2>11, <3>1
  <2> QED
    BY <1>12, <2>8, <2>9, <2>12, <2>13 DEF t, in, A, B, M, K2
<1>15. CASE ~(index > s.insertIndex)
  <2>1. index = g /\ s.insertIndex = g
    BY <1>1, <1>15, Zenon
  <2>2. g \in DOMAIN q /\ q[g] = A /\ After(q, g) = h /\ Without(q, g) = Plus(p, h, B)
    BY <1>5, <1>11, <2>1 DEF After
  <2>3. PICK u : /\ InsertItem(s, g, q[g]) = SyncPendingResults(u)
                 /\ IsStore(u) /\ u.pending = p
                 /\ u.insertIndex = After(q, g) /\ Turn(u) = After(q, g)
                 /\ Stands(s, u)
                 /\ \E e : Filtered(WithPending(u, Without(q, g)), M, K2, e)
    BY <1>1, <1>2, <1>3, <1>5, <2>1, <2>2, InsertDirect
  <2>4. u.insertIndex = h /\ Turn(u) = h /\ h \notin DOMAIN u.pending
    BY <1>3, <2>2, <2>3
  <2>5. Tiled(p, h, L1)
    <3>1. Without(q1, g) = p /\ After(q1, g) = h /\ g \in DOMAIN q1
      BY <1>7, <1>8, <1>9, <1>11, <2>1 DEF After
    <3>2. Tiled(Without(q1, g), After(q1, g), L1)
      BY <1>3, <3>1, TiledTail
    <3> HIDE DEF g, h, p
    <3> QED
      BY <3>1, <3>2, Zenon
  <2>6. in = u
    <3>1. in = SyncPendingResults(u)
      <4> HIDE DEF g
      <4> QED
        BY <2>1, <2>2, <2>3, Zenon
    <3>2. Tiled(u.pending, Turn(u), L1) /\ Turn(u) \notin DOMAIN u.pending
      <4> HIDE DEF h, p
      <4> QED
        BY <2>3, <2>4, <2>5, Zenon
    <3>3. SyncPendingResults(u) = u
      BY <2>3, <3>2, AtRest
    <3> QED
      BY <3>1, <3>3, Zenon
  <2> DEFINE q3 == Plus(p, h, B)
  <2>7. PICK e : Filtered(WithPending(u, q3), M, K2, e)
    BY <2>2, <2>3
  <2>8. DOMAIN q3 = DOMAIN p \cup {h} /\ IsFun(q3)
    BY PlusDomain
  <2>9. q3[h] = B
    BY PlusNew
  <2>10. Without(q3, h) = p
    BY <1>1, <1>3, WithoutPlus
  <2> HIDE DEF q3
  <2>11. PICK v : /\ InsertItem(u, h, q3[h]) = SyncPendingResults(v)
                  /\ IsStore(v) /\ v.pending = u.pending
                  /\ v.insertIndex = After(q3, h) /\ Turn(v) = After(q3, h)
                  /\ Stands(u, v)
                  /\ \E x : Filtered(WithPending(v, Without(q3, h)), M, K2, x)
    <3>1. Turn(u) \in DOMAIN q3 /\ u.insertIndex = Turn(u)
      BY <2>4, <2>8
    <3>2. \E w : /\ InsertItem(u, Turn(u), q3[Turn(u)]) = SyncPendingResults(w)
                 /\ IsStore(w) /\ w.pending = u.pending
                 /\ w.insertIndex = After(q3, Turn(u)) /\ Turn(w) = After(q3, Turn(u))
                 /\ Stands(u, w)
                 /\ \E x : Filtered(WithPending(w, Without(q3, Turn(u))), M, K2, x)
      BY <1>2, <2>3, <2>7, <2>8, <3>1, InsertDirect
    <3> HIDE DEF h
    <3> QED
      BY <2>4, <3>2
  <2>12. WithPending(v, Without(q3, h)) = v
    <3>1. WithPending(v, v.pending) = v
      BY <2>11, WithSame
    <3>2. Without(q3, h) = v.pending
      BY <2>3, <2>10, <2>11, Zenon
    <3> QED
      BY <3>1, <3>2, Zenon
  <2>13. \E x : Filtered(v, M, K2, x)
    BY <2>11, <2>12
  <2>14. t = SyncPendingResults(v)
    <3> HIDE DEF h, in
    <3> QED
      BY <2>6, <2>9, <2>11, Zenon
  <2>15. v.insertIndex <= Turn(v)
    <3>1. v.insertIndex \in Nat /\ v.insertIndex = Turn(v)
      BY <2>11 DEF IsStore
    <3> QED
      BY <3>1
  <2>16. Stands(s, v)
    BY <1>1, <2>3, <2>11, StandsOn
  <2> QED
    BY <1>12, <2>13, <2>14, <2>15, <2>16 DEF t, in, A, B, M, K2
<1> QED
  BY <1>13, <1>14, <1>15

\* A filter's report, whatever it kept.
LEMMA FilterReports ==
  ASSUME mode = "filter", NEW s, NEW L, NEW K, Resting(s, L, K),
         NEW index \in L, NEW n \in Nat \ {0}, Block(index, n) \subseteq L,
         NEW keep \in SUBSET Block(index, n)
  PROVE  LET t == AddResults(s, index, n, Ascending(keep))
         IN  Resting(t, L \ Block(index, n), K \cup keep) /\ Stands(s, t)
<1> DEFINE r == Ascending(keep)
           c == Cardinality(keep)
           t == AddResults(s, index, n, r)
<1>1. index \in Nat /\ L \subseteq Inputs /\ Count \in Nat
  BY InputFacts, FutureAssumption
<1>2. keep \in SUBSET (0..Count - 1)
  BY <1>1 DEF Inputs
<1>3. c \in Nat /\ r \in [1..c -> keep] /\ Lists(r, 1, c, keep) /\ IsFiniteSet(keep)
  BY <1>1, <1>2, AscendingLists
<1>4. c <= n
  <2>1. IsFiniteSet(Block(index, n)) /\ Cardinality(Block(index, n)) = n
    <3>1. /\ IsFiniteSet(index..index + n - 1)
          /\ Cardinality(index..index + n - 1)
               = IF index > index + n - 1 THEN 0 ELSE (index + n - 1) - index + 1
      BY <1>1, FS_Interval
    <3>2. ~(index > index + n - 1) /\ (index + n - 1) - index + 1 = n
      BY <1>1
    <3> QED
      BY <3>1, <3>2 DEF Block
  <2> QED
    BY <2>1, FS_Subset
<1> HIDE DEF r, c
<1>5. r \in Seq(keep) /\ Len(r) = c
  BY <1>3
<1>6. CASE c = n
  <2>1. r # <<>> /\ Lists(r, 1, n, keep)
    <3>1. 1 \in DOMAIN r
      BY <1>3, <1>6
    <3>2. Lists(r, 1, n, keep)
      BY <1>3, <1>6, Zenon
    <3> QED
      BY <3>1, <3>2
  <2>2. t = InsertItem(s, index, Item(n, r))
    BY <1>5, <1>6 DEF AddResults
  <2> QED
    BY <2>1, <2>2, AddOne DEF t, r
<1>7. CASE c = 0
  <2>1. r = <<>> /\ keep = {}
    <3>1. r = <<>>
      BY <1>5, <1>7
    <3>2. keep = {}
      BY <1>3, <1>7, FS_EmptySet DEF c
    <3> QED
      BY <3>1, <3>2
  <2>2. t = InsertItem(s, index, Item(n, r))
    <3>1. Len(r) # n /\ index + Len(r) = index /\ n - Len(r) = n
      BY <1>1, <1>5, <1>7
    <3>2. t = InsertItem(IF r = <<>> THEN s ELSE InsertItem(s, index, Item(Len(r), r)),
                         index + Len(r), Item(n - Len(r), <<>>))
      BY <3>1 DEF AddResults
    <3> HIDE DEF t
    <3> QED
      BY <2>1, <3>1, <3>2, Zenon
  <2> QED
    <3> HIDE DEF t
    <3>1. \/ r # <<>> /\ Lists(r, 1, n, keep)
          \/ r = <<>> /\ keep = {}
      BY <2>1
    <3>2. Resting(t, L \ Block(index, n), K \cup keep) /\ Stands(s, t)
      BY <2>2, <3>1, AddOne
    <3> QED
      BY <3>2 DEF t, r
<1>8. CASE c # 0 /\ c # n
  <2>1. c \in Nat \ {0} /\ c < n
    BY <1>3, <1>4, <1>8
  <2>2. r # <<>>
    <3>1. 1 \in DOMAIN r
      BY <1>3, <2>1
    <3> QED
      BY <3>1
  <2>3. Part(L, index, n, keep, r, c)
    BY <1>3, <2>1, <2>2 DEF Part
  <2>4. t = InsertItem(InsertItem(s, index, Item(c, r)), index + c, Item(n - c, <<>>))
    <3>1. Len(r) # n
      BY <1>5, <2>1
    <3>2. t = InsertItem(IF r = <<>> THEN s ELSE InsertItem(s, index, Item(Len(r), r)),
                         index + Len(r), Item(n - Len(r), <<>>))
      BY <3>1 DEF AddResults
    <3> HIDE DEF t
    <3> QED
      BY <2>2, <1>5, <3>2, Zenon
  <2> HIDE DEF t
  <2>5. Resting(t, L \ Block(index, n), K \cup keep) /\ Stands(s, t)
    BY <2>3, <2>4, AddTwo
  <2> QED
    BY <2>5 DEF t, r
<1> QED
  BY <1>6, <1>7, <1>8

-----------------------------------------------------------------------------
(* Reports that never wait for their turn: those of a map and of a promise. *)

\* The store ends its gapless part where it says it does.
GapAt(s) ==
  /\ s.resultCount \in 0..2 * Count /\ s.resultCount \notin DOMAIN s.results
  /\ \A i \in 0..s.resultCount - 1 : i \in DOMAIN s.results

Plain(s) ==
  /\ IsStore(s) /\ s.pending = <<>> /\ s.filteredResults = 0
  /\ s.insertIndex <= 2 * Count
  /\ \A i \in DOMAIN s.results : i \in 0..s.insertIndex - 1 /\ s.results[i] \in Inputs
  /\ GapAt(s)

LEMMA SyncNothing ==
  ASSUME NEW s, s.pending = <<>>
  PROVE  SyncPendingResults(s) = s
<1>1. Cardinality(DOMAIN s.pending) = 0
  <2>1. DOMAIN s.pending = {}
    OBVIOUS
  <2> QED
    BY <2>1, FS_EmptySet
<1>2. PICK f : IsLoop(f, s, Count) /\ SyncPendingResults(s) = f[Cardinality(DOMAIN s.pending)]
  BY SyncIsLoop
<1>3. f[0] = s
  BY <1>2, FutureAssumption DEF IsLoop
<1> QED
  BY <1>1, <1>2, <1>3

\* The counter is moved to the first index without a result.
LEMMA SyncCountFinds ==
  ASSUME NEW s, NEW top \in Nat, s.resultCount \in Nat, s.resultCount <= 2 * Count,
         top <= 2 * Count, \A i \in DOMAIN s.results : i \in 0..top - 1,
         \A i \in 0..s.resultCount - 1 : i \in DOMAIN s.results
  PROVE  \E r \in 0..2 * Count :
           /\ SyncResultCount(s) = [s EXCEPT !.resultCount = r]
           /\ r \notin DOMAIN s.results /\ r >= s.resultCount
           /\ \A i \in 0..r - 1 : i \in DOMAIN s.results
<1> DEFINE m == s.resultCount
           behind == {i \in m..2 * Count : i \notin DOMAIN s.results}
<1>0. Count \in Nat /\ m \in Nat
  BY FutureAssumption
<1>1. 2 * Count \in behind
  <2>1. 2 * Count \notin DOMAIN s.results
    <3>1. 2 * Count \notin 0..top - 1
      BY <1>0
    <3> QED
      BY <3>1
  <2> QED
    BY <1>0, <2>1
<1>2. behind \in SUBSET Nat
  BY <1>0
<1>3. PICK r \in behind : \A y \in behind : r <= y
  BY <1>1, <1>2, Least
<1>4. Min(behind) = r
  <2> HIDE DEF behind
  <2>1. behind \in SUBSET Int
    BY <1>2
  <2> QED
    BY <2>1, <1>3, MinIs
<1>5. SyncResultCount(s) = [s EXCEPT !.resultCount = Min(behind)]
  BY DEF SyncResultCount
<1>6. r \in m..2 * Count /\ r \notin DOMAIN s.results
  BY <1>3
<1>7. \A i \in 0..r - 1 : i \in DOMAIN s.results
  <2> SUFFICES ASSUME NEW i \in 0..r - 1, i \notin DOMAIN s.results PROVE FALSE
    OBVIOUS
  <2>1. i \in m..2 * Count
    <3>1. i \notin 0..m - 1
      OBVIOUS
    <3> HIDE DEF m
    <3> QED
      BY <1>0, <1>6, <3>1
  <2>2. i \in behind
    BY <2>1
  <2> HIDE DEF m, behind
  <2> QED
    BY <2>2, <1>3, <1>6, <1>0
<1> HIDE DEF behind
<1>8. r \in 0..2 * Count /\ r >= m
  <2> HIDE DEF m
  <2> QED
    BY <1>0, <1>6
<1> QED
  BY <1>4, <1>5, <1>6, <1>7, <1>8

LEMMA MaxIs ==
  ASSUME NEW a \in Int, NEW b \in Int
  PROVE  Max({a, b}) = IF b > a THEN b ELSE a
<1> DEFINE m == IF b > a THEN b ELSE a
<1>1. m \in {a, b} /\ \A y \in {a, b} : m >= y
  OBVIOUS
<1>2. \A y \in {a, b} : (\A v \in {a, b} : y >= v) => y = m
  OBVIOUS
<1> HIDE DEF m
<1>3. Max({a, b}) = m
  BY <1>1, <1>2 DEF Max
<1> QED
  BY <1>3 DEF m

\* An item is inserted at once, wherever it goes.
LEMMA PlainInsert ==
  ASSUME mode # "filter", NEW s, Plain(s), NEW index, NEW x \in Nat, StoreIndex(s, index) = x,
         NEW n \in Nat \ {0}, x + n <= 2 * Count, NEW r, r # <<>>, \A i \in 1..n : r[i] \in Inputs
  PROVE  LET t == InsertItem(s, index, Item(n, r))
         IN  /\ Plain(t) /\ t.resultCount >= s.resultCount
             /\ t.insertIndex = IF x + n > s.insertIndex THEN x + n ELSE s.insertIndex
             /\ DOMAIN t.results = DOMAIN s.results \cup Block(x, n)
             /\ \A i \in DOMAIN s.results : i \notin Block(x, n) => t.results[i] = s.results[i]
             /\ \A i \in Block(x, n) : t.results[i] = r[i - x + 1]
<1> DEFINE item == Item(n, r)
           top == IF x + n > s.insertIndex THEN x + n ELSE s.insertIndex
           z == Expecting(s, top)
           new == [i \in Block(x, n) |-> r[i - x + 1]]
           f == Upon(new, s.results)
           u == [z EXCEPT !.results = f]
           t == InsertItem(s, index, item)
<1>1. /\ IsStore(s) /\ s.pending = <<>> /\ s.filteredResults = 0 /\ s.insertIndex \in Nat
      /\ s.insertIndex <= 2 * Count /\ s.resultCount \in Nat /\ s.resultCount <= 2 * Count
      /\ (\A i \in DOMAIN s.results : i \in 0..s.insertIndex - 1 /\ s.results[i] \in Inputs)
      /\ (\A i \in 0..s.resultCount - 1 : i \in DOMAIN s.results)
  BY DEF Plain, GapAt, IsStore
<1>2. top \in Nat /\ top >= x + n /\ top >= s.insertIndex /\ top <= 2 * Count
  BY <1>1
<1>3. Max({s.insertIndex, x + n}) = top
  BY <1>1, MaxIs
<1>4. item.count = n /\ item.results = r
  BY DEF Item
<1> HIDE DEF top
<1>5. /\ [s EXCEPT !.insertIndex = top] = z /\ IsStore(z) /\ z.insertIndex = top
      /\ z.results = s.results /\ z.pending = s.pending /\ z.resultCount = s.resultCount
      /\ z.filteredResults = s.filteredResults
  BY <1>1, <1>2, ExpectingIs
<1> HIDE DEF item, z
<1>6. InsertItem(s, index, item)
        = SyncPendingResults(InsertIfValid(z, x, item))
  <2>1. ~MustPend(s, index)
    BY DEF MustPend
  <2> DEFINE there == StoreIndex(s, index)
  <2>2. InsertItem(s, index, item)
          = SyncPendingResults(InsertIfValid([s EXCEPT !.insertIndex = Max({@, there + item.count})],
                                              there - s.filteredResults, item))
    BY <2>1 DEF InsertItem
  <2>3. [s EXCEPT !.insertIndex = Max({@, there + item.count})]
          = [s EXCEPT !.insertIndex = Max({s.insertIndex, there + item.count})]
    OBVIOUS
  <2>4. Max({s.insertIndex, there + item.count}) = top /\ there = x
    BY <1>3, <1>4, Zenon
  <2>5. there - s.filteredResults = x
    BY <1>1, <2>4
  <2> HIDE DEF there
  <2> QED
    BY <2>2, <2>3, <2>4, <2>5, <1>5, Zenon
<1>7. InsertIfValid(z, x, item) = SyncResultCount(u)
  <2> DEFINE w == [z EXCEPT !.results = Upon(new, z.results)]
  <2>1. InsertIfValid(z, x, item) = SyncResultCount(w)
    BY <1>4 DEF InsertIfValid, Block
  <2>2. z.results = s.results
    BY <1>5
  <2> HIDE DEF new
  <2> QED
    BY <2>1, <2>2, Zenon
<1>8. DOMAIN f = Block(x, n) \cup DOMAIN s.results /\ IsFun(f)
  <2>1. DOMAIN new = Block(x, n)
    OBVIOUS
  <2> HIDE DEF new
  <2>2. DOMAIN f = DOMAIN new \cup DOMAIN s.results
    BY DEF Upon
  <2>3. IsFun(f)
    BY DEF Upon, IsFun
  <2> HIDE DEF f
  <2> QED
    BY <2>1, <2>2, <2>3
<1>9. \A i \in Block(x, n) : f[i] = r[i - x + 1]
  <2>1. DOMAIN new = Block(x, n) /\ \A i \in Block(x, n) : new[i] = r[i - x + 1]
    OBVIOUS
  <2> HIDE DEF new
  <2>2. \A i \in DOMAIN new : f[i] = new[i]
    BY DEF Upon
  <2> HIDE DEF f
  <2> QED
    BY <2>1, <2>2
<1>10. \A i \in DOMAIN s.results : i \notin Block(x, n) => f[i] = s.results[i]
  <2>1. DOMAIN new = Block(x, n)
    OBVIOUS
  <2> HIDE DEF new
  <2>2. \A i \in DOMAIN s.results : i \notin DOMAIN new => f[i] = s.results[i]
    BY DEF Upon
  <2> HIDE DEF f
  <2> QED
    BY <2>1, <2>2
<1>11. \A i \in Block(x, n) : f[i] \in Inputs
  <2> SUFFICES ASSUME NEW i \in Block(x, n) PROVE f[i] \in Inputs
    OBVIOUS
  <2>1. i - x + 1 \in 1..n
    BY DEF Block
  <2> HIDE DEF f
  <2> QED
    BY <2>1, <1>9
<1> HIDE DEF f
<1>12. u = Fields(f, z.pending, z.insertIndex, z.resultCount, z.filteredResults)
  <2>1. IsStore(z)
    BY <1>5
  <2> QED
    BY <2>1, StoreWith, Zenon
<1>13. /\ u.results = f /\ u.pending = <<>> /\ u.insertIndex = top /\ u.resultCount = s.resultCount
       /\ u.filteredResults = 0
  <2>1. /\ u.results = f /\ u.pending = z.pending /\ u.insertIndex = z.insertIndex
        /\ u.resultCount = z.resultCount /\ u.filteredResults = z.filteredResults
    BY <1>12 DEF Fields
  <2> HIDE DEF u
  <2> QED
    BY <2>1, <1>1, <1>5
<1>14. \A i \in DOMAIN f : i \in 0..top - 1 /\ f[i] \in Inputs
  <2> SUFFICES ASSUME NEW i \in DOMAIN f PROVE i \in 0..top - 1 /\ f[i] \in Inputs
    OBVIOUS
  <2>1. CASE i \in Block(x, n)
    BY <2>1, <1>2, <1>11 DEF Block
  <2>2. CASE i \notin Block(x, n)
    <3>1. i \in DOMAIN s.results
      BY <2>2, <1>8
    <3>2. i \in 0..s.insertIndex - 1 /\ s.results[i] \in Inputs
      BY <3>1, <1>1
    <3> QED
      BY <3>1, <3>2, <2>2, <1>1, <1>2, <1>10
  <2> QED
    BY <2>1, <2>2
<1>15. PICK c \in 0..2 * Count :
         /\ SyncResultCount(u) = [u EXCEPT !.resultCount = c]
         /\ c \notin DOMAIN f /\ c >= s.resultCount
         /\ \A i \in 0..c - 1 : i \in DOMAIN f
  <2> HIDE DEF u
  <2>1. \A i \in DOMAIN u.results : i \in 0..top - 1
    BY <1>13, <1>14
  <2>2. \A i \in 0..u.resultCount - 1 : i \in DOMAIN u.results
    BY <1>1, <1>8, <1>13
  <2>3. u.resultCount \in Nat /\ u.resultCount <= 2 * Count
    BY <1>1, <1>13
  <2>4. \E c \in 0..2 * Count :
          /\ SyncResultCount(u) = [u EXCEPT !.resultCount = c]
          /\ c \notin DOMAIN u.results /\ c >= u.resultCount
          /\ \A i \in 0..c - 1 : i \in DOMAIN u.results
    BY <1>2, <2>1, <2>2, <2>3, SyncCountFinds
  <2> QED
    BY <2>4, <1>13
<1> DEFINE v == [u EXCEPT !.resultCount = c]
<1>16. v = Fields(f, <<>>, top, c, 0)
  <2>1. u = [z EXCEPT !.results = f]
    OBVIOUS
  <2> HIDE DEF u
  <2>2. v = Fields(f, z.pending, z.insertIndex, c, z.filteredResults)
    <3>1. IsStore(z)
      BY <1>5
    <3> QED
      BY <2>1, <3>1, StoreWithTwo
  <2> HIDE DEF v
  <2> QED
    BY <2>2, <1>1, <1>5, Zenon
<1>17. /\ v.results = f /\ v.pending = <<>> /\ v.insertIndex = top /\ v.resultCount = c
       /\ v.filteredResults = 0
  BY <1>16 DEF Fields
<1>18. v = [results |-> v.results, pending |-> v.pending, insertIndex |-> v.insertIndex,
            resultCount |-> v.resultCount, filteredResults |-> v.filteredResults]
  BY <1>16 DEF Fields
<1>19. t = v
  <2>1. InsertIfValid(z, x, item) = v
    BY <1>7, <1>15, Zenon
  <2> HIDE DEF v, u
  <2>2. SyncPendingResults(v) = v
    BY <1>17, SyncNothing
  <2> QED
    BY <1>6, <2>1, <2>2, Zenon
<1> HIDE DEF v, u, t
<1>20. IsStore(v)
  <2>1. IsFun(<<>>)
    BY DEF IsFun
  <2>2. c \in Nat /\ 0 \in Nat
    OBVIOUS
  <2> QED
    BY <2>1, <2>2, <1>2, <1>8, <1>17, <1>18 DEF IsStore
<1>21. Plain(v)
  BY <1>2, <1>14, <1>15, <1>17, <1>20 DEF Plain, GapAt
<1>22. DOMAIN v.results = DOMAIN s.results \cup Block(x, n)
  BY <1>8, <1>17
<1>23. \A i \in DOMAIN s.results : i \notin Block(x, n) => v.results[i] = s.results[i]
  BY <1>10, <1>17
<1>24. \A i \in Block(x, n) : v.results[i] = r[i - x + 1]
  BY <1>9, <1>17
<1>25. v.resultCount >= s.resultCount /\ v.insertIndex = top
  BY <1>15, <1>17
<1> HIDE DEF new
<1> QED
  BY <1>19, <1>21, <1>22, <1>23, <1>24, <1>25, Zenon DEF t, top, item


-----------------------------------------------------------------------------
(* The inductive invariant.                                                *)

Ears == [connected : BOOLEAN, gone : BOOLEAN, Started : 0..2, Canceled : 0..2, Finished : 0..2,
         halt : {"none", "suspending", "suspended"}, ready : [Indices -> 0..2]]

\* Who is not connected was told nothing.
Deaf(r) ==
  /\ r.Started = 0 /\ r.Canceled = 0 /\ r.Finished = 0
  /\ \A i \in Indices : r.ready[i] = 0

Types ==
  /\ mode \in {"map", "filter", "promise"} /\ phase \in {"new", "begun", "ended"}
  /\ state \subseteq Bits /\ hasException \in BOOLEAN
  /\ left \subseteq Inputs /\ kept \subseteq Inputs
  /\ pc \in [Workers -> {"work", "throw", "paused", "awake"}]
  /\ at \in [Waiters -> {"out", "look", "steal", "asleep", "awake", "done"}]
  /\ awaits \in [Waiters -> Awaited \cup {End}]
  /\ suspends \in 0..MaxSuspend /\ thrown \in BOOLEAN
  /\ told \in [Watchers -> Ears]

\* What the bits of the state say of the one who reports and of the exception.
Course ==
  /\ phase # "begun" => AllBusy
  /\ On("Finished") => phase = "ended"
  /\ hasException => On("Canceled") /\ store = EmptyStore
  /\ \A o \in Watchers : ~told[o].connected => Deaf(told[o])

\* A map's results are those of the inputs reported; a promise reports one
\* input after the other, so that the indices do not run out.
Mapped(s, L) == s.results = [i \in Inputs \ L |-> i]

MapStore == Mapped(store, left)

PromiseStore == \E m \in 0..Count : left = m..Count - 1 /\ store.insertIndex <= Count + m

StoreInv ==
  /\ mode # "filter" => Plain(store)
  /\ mode = "filter" /\ ~hasException => Resting(store, left, kept)
  /\ mode = "map" /\ ~hasException => MapStore
  /\ mode = "promise" => PromiseStore

IInv == Types /\ Course /\ StoreInv /\ NoLostWaiter /\ WatchersKnow

LEMMA EmptyPlain ==
  Plain(EmptyStore)
<1>1. /\ EmptyStore.results = <<>> /\ EmptyStore.pending = <<>> /\ EmptyStore.insertIndex = 0
      /\ EmptyStore.resultCount = 0 /\ EmptyStore.filteredResults = 0
  BY DEF EmptyStore
<1>2. IsFun(<<>>)
  BY DEF IsFun
<1>3. IsStore(EmptyStore)
  BY <1>1, <1>2 DEF IsStore, EmptyStore
<1> HIDE DEF EmptyStore
<1> QED
  BY <1>1, <1>3, FutureAssumption DEF Plain, GapAt

LEMMA EmptyRests ==
  Resting(EmptyStore, Inputs, {})
<1> DEFINE s == EmptyStore
<1>0. Count \in Nat \ {0}
  BY FutureAssumption
<1>1. /\ s.results = <<>> /\ s.pending = <<>> /\ s.insertIndex = 0
      /\ s.resultCount = 0 /\ s.filteredResults = 0
  BY DEF EmptyStore
<1>2. IsFun(<<>>)
  BY DEF IsFun
<1>3. IsStore(s)
  BY <1>1, <1>2 DEF IsStore, EmptyStore
<1> HIDE DEF s
<1>4. Turn(s) = 0
  BY <1>1 DEF Turn
<1>5. Tiled(s.pending, 0, Inputs)
  BY <1>0, <1>1 DEF Tiled, Inputs
<1>6. Lists(s.results, 0, s.resultCount - 1, {} \cap (0..0 - 1))
  BY <1>1 DEF Lists
<1>7. Pieces(s.pending, {}, 0) /\ Half(s.pending, 0, 0)
  BY <1>1 DEF Pieces, Half
<1>8. DOMAIN s.results = 0..s.resultCount - 1
  BY <1>1
<1>9. Filtered(s, Inputs, {}, Turn(s))
  BY <1>3, <1>4, <1>5, <1>6, <1>7, <1>8 DEF Filtered
<1> QED
  BY <1>1, <1>4, <1>9 DEF Resting, s

LEMMA InitIInv ==
  Init => IInv
<1> SUFFICES ASSUME Init PROVE IInv
  OBVIOUS
<1> USE DEF Init
<1>0. Count \in Nat \ {0} /\ MaxSuspend \in Nat
  BY FutureAssumption
<1>1. Unaware \in Ears /\ Deaf(Unaware) /\ ~Unaware.connected
  BY DEF Unaware, Ears, Deaf
<1>2. Types
  <2>1. state \subseteq Bits
    OBVIOUS
  <2>2. left \subseteq Inputs /\ kept \subseteq Inputs
    OBVIOUS
  <2>3. told \in [Watchers -> Ears]
    BY <1>1
  <2>4. suspends \in 0..MaxSuspend
    BY <1>0
  <2>5. awaits \in [Waiters -> Awaited \cup {End}] /\ pc \in [Workers -> {"work", "throw", "paused", "awake"}]
    OBVIOUS
  <2>6. at \in [Waiters -> {"out", "look", "steal", "asleep", "awake", "done"}]
    OBVIOUS
  <2> QED
    BY <2>1, <2>2, <2>3, <2>4, <2>5, <2>6 DEF Types
<1>3. Course
  BY <1>1 DEF Course, AllBusy, On
<1>4. StoreInv
  <2>1. mode = "map" => MapStore
    BY DEF MapStore, Mapped, EmptyStore
  <2>2. PromiseStore
    <3>1. left = 0..Count - 1 /\ store.insertIndex <= Count + 0
      BY <1>0 DEF Inputs, EmptyStore
    <3> QED
      BY <1>0, <3>1 DEF PromiseStore
  <2> QED
    BY <2>1, <2>2, EmptyPlain, EmptyRests DEF StoreInv
<1>5. NoLostWaiter
  BY DEF NoLostWaiter
<1>6. WatchersKnow
  BY <1>1 DEF WatchersKnow, WatcherInSync, AnnouncedOnce
<1> QED
  BY <1>2, <1>3, <1>4, <1>5, <1>6 DEF IInv


-----------------------------------------------------------------------------
(* What the output interfaces hear.                                        *)

LEMMA EarsAre ==
  ASSUME NEW r \in Ears
  PROVE  /\ r = [connected |-> r.connected, gone |-> r.gone, Started |-> r.Started,
                 Canceled |-> r.Canceled, Finished |-> r.Finished, halt |-> r.halt,
                 ready |-> r.ready]
         /\ r.Started \in 0..2 /\ r.Canceled \in 0..2 /\ r.Finished \in 0..2
         /\ r.ready \in [Indices -> 0..2]
BY DEF Ears

LEMMA TwiceIs ==
  ASSUME NEW n \in 0..2
  PROVE  Twice(n) \in 0..2 /\ Twice(n) > 0 /\ (n = 0 => Twice(n) = 1)
BY DEF Twice

LEMMA HearsIs ==
  ASSUME NEW r \in Ears, NEW bits
  PROVE  LET h == Hears(r, bits)
         IN  /\ h \in Ears
             /\ h.connected = r.connected /\ h.gone = r.gone
             /\ h.halt = r.halt /\ h.ready = r.ready
             /\ h.Started  = IF "Started"  \in bits THEN Twice(r.Started)  ELSE r.Started
             /\ h.Canceled = IF "Canceled" \in bits THEN Twice(r.Canceled) ELSE r.Canceled
             /\ h.Finished = IF "Finished" \in bits THEN Twice(r.Finished) ELSE r.Finished
<1>1. /\ Twice(r.Started) \in 0..2 /\ Twice(r.Canceled) \in 0..2 /\ Twice(r.Finished) \in 0..2
  BY EarsAre, TwiceIs
<1> QED
  BY <1>1 DEF Hears, Ears

LEMMA HearsReadyIs ==
  ASSUME NEW r \in Ears, NEW R
  PROVE  LET h == HearsReady(r, R)
         IN  /\ h \in Ears
             /\ h.connected = r.connected /\ h.gone = r.gone /\ h.halt = r.halt
             /\ h.Started = r.Started /\ h.Canceled = r.Canceled /\ h.Finished = r.Finished
             /\ \A i \in Indices :
                  h.ready[i] = IF i \in R THEN Twice(r.ready[i]) ELSE r.ready[i]
<1> DEFINE f == [i \in Indices |-> IF i \in R THEN Twice(r.ready[i]) ELSE r.ready[i]]
<1>1. r.ready \in [Indices -> 0..2]
  BY EarsAre
<1>2. \A i \in Indices : f[i] \in 0..2
  BY <1>1, TwiceIs
<1>3. f \in [Indices -> 0..2]
  BY <1>2
<1>4. \A i \in Indices : f[i] = IF i \in R THEN Twice(r.ready[i]) ELSE r.ready[i]
  OBVIOUS
<1>5. HearsReady(r, R) = [r EXCEPT !.ready = f]
  BY DEF HearsReady
<1> HIDE DEF f
<1> QED
  BY <1>3, <1>4, <1>5 DEF Ears

LEMMA HearsHaltIs ==
  ASSUME NEW r \in Ears, NEW what \in {"none", "suspending", "suspended"}
  PROVE  LET h == HearsHalt(r, what)
         IN  /\ h \in Ears
             /\ h.connected = r.connected /\ h.gone = r.gone /\ h.halt = what
             /\ h.Started = r.Started /\ h.Canceled = r.Canceled /\ h.Finished = r.Finished
             /\ h.ready = r.ready
BY DEF HearsHalt, Ears

\* WatcherInSync and AnnouncedOnce, of one output interface.
InSync(r, bits) ==
  /\ r.Started  = IF "Started"  \in bits THEN 1 ELSE 0
  /\ r.Canceled = IF "Canceled" \in bits THEN 1 ELSE 0
  /\ r.Finished = IF "Finished" \in bits THEN 1 ELSE 0
  /\ bits \cap Halted = {"Suspended"}  => r.halt = "suspended"
  /\ bits \cap Halted = {"Suspending"} => r.halt = "suspending"

Knows(r, s) ==
  \A i \in Indices :
    IF mode = "promise" THEN i < s.resultCount => r.ready[i] > 0
                        ELSE r.ready[i] = IF i \in DOMAIN s.results THEN 1 ELSE 0

LEMMA InSyncAll ==
  WatcherInSync <=> \A o \in Watchers : told[o].connected => InSync(told[o], state)
<1>1. ASSUME NEW o \in Watchers
      PROVE  (/\ \A bit \in {"Started", "Canceled", "Finished"} :
                   told[o][bit] = IF On(bit) THEN 1 ELSE 0
              /\ \A bit \in Halted : state \cap Halted = {bit} =>
                   told[o].halt = IF bit = "Suspended" THEN "suspended" ELSE "suspending")
             <=> InSync(told[o], state)
  <2>1. (\A bit \in {"Started", "Canceled", "Finished"} : told[o][bit] = IF On(bit) THEN 1 ELSE 0)
        <=> /\ told[o].Started  = IF "Started"  \in state THEN 1 ELSE 0
            /\ told[o].Canceled = IF "Canceled" \in state THEN 1 ELSE 0
            /\ told[o].Finished = IF "Finished" \in state THEN 1 ELSE 0
    BY DEF On
  <2>2. (\A bit \in Halted : state \cap Halted = {bit} =>
                   told[o].halt = IF bit = "Suspended" THEN "suspended" ELSE "suspending")
        <=> /\ state \cap Halted = {"Suspended"}  => told[o].halt = "suspended"
            /\ state \cap Halted = {"Suspending"} => told[o].halt = "suspending"
    BY DEF Halted
  <2> QED
    BY <2>1, <2>2, Zenon DEF InSync
<1> QED
  BY <1>1, Zenon DEF WatcherInSync

LEMMA KnowsAll ==
  AnnouncedOnce <=> (~hasException => \A o \in Watchers : told[o].connected => Knows(told[o], store))
BY Zenon DEF AnnouncedOnce, Knows


\* A step that tells no results: everybody connected stays in step.
Heard ==
  /\ told' \in [Watchers -> Ears]
  /\ \A o \in Watchers :
       /\ told'[o].connected => /\ told[o].connected /\ InSync(told'[o], state')
                                /\ told'[o].ready = told[o].ready
       /\ ~told'[o].connected => Deaf(told'[o])

\* What the next-state relations of the proofs below have in common.
LEMMA InSyncAgain ==
  (WatcherInSync <=> \A o \in Watchers : told[o].connected => InSync(told[o], state))'
BY InSyncAll, PTL

LEMMA KnowsAgain ==
  (AnnouncedOnce <=> (~hasException => \A o \in Watchers : told[o].connected => Knows(told[o], store)))'
BY KnowsAll, PTL

LEMMA EarsFacts ==
  ASSUME IInv
  PROVE  /\ told \in [Watchers -> Ears] /\ state \subseteq Bits /\ hasException \in BOOLEAN
         /\ \A o \in Watchers :
              /\ told[o].connected => InSync(told[o], state)
              /\ ~told[o].connected => Deaf(told[o])
              /\ told[o].connected /\ ~hasException => Knows(told[o], store)
<1>1. WatcherInSync /\ AnnouncedOnce
  BY DEF IInv, WatchersKnow
<1>2. told \in [Watchers -> Ears] /\ state \subseteq Bits /\ hasException \in BOOLEAN
  BY DEF IInv, Types
<1>3. \A o \in Watchers : ~told[o].connected => Deaf(told[o])
  BY DEF IInv, Course
<1>4. \A o \in Watchers : told[o].connected => InSync(told[o], state)
  BY <1>1, InSyncAll, Zenon
<1>5. ~hasException => \A o \in Watchers : told[o].connected => Knows(told[o], store)
  BY <1>1, KnowsAll, Zenon
<1> QED
  BY <1>2, <1>3, <1>4, <1>5, Zenon

\* What was told of the results still fits, when there are none or the same.
LEMMA StillKnow ==
  ASSUME IInv, Heard, mode' = mode,
         \/ hasException'
         \/ hasException' = hasException /\ store' = store
         \/ store' = EmptyStore /\ mode = "promise"
  PROVE  WatchersKnow'
<1>1. WatcherInSync'
  BY InSyncAgain, Zenon DEF Heard
<1>2. ASSUME ~hasException', NEW o \in Watchers, told'[o].connected
      PROVE  Knows(told[o], store)'
  <2>1. told'[o].ready = told[o].ready /\ told[o].connected
    BY <1>2 DEF Heard
  <2>2. CASE store' = EmptyStore /\ mode = "promise"
    <3>1. store'.resultCount = 0 /\ \A i \in Indices : ~(i < 0)
      BY <2>2, FutureAssumption DEF EmptyStore, Indices
    <3> QED
      BY <2>2, <3>1, Zenon DEF Knows
  <2>3. CASE hasException' = hasException /\ store' = store
    <3>1. Knows(told[o], store)
      BY <1>2, <2>1, <2>3, EarsFacts
    <3> QED
      BY <2>1, <2>3, <3>1, Zenon DEF Knows
  <2> QED
    BY <1>2, <2>2, <2>3
<1>3. AnnouncedOnce'
  BY <1>2, KnowsAgain, Zenon
<1> QED
  BY <1>1, <1>3 DEF WatchersKnow

\* Tell(), when the bits that are told are the bits that change.
LEMMA TellHeard ==
  ASSUME IInv, NEW bits \in SUBSET {"Started", "Canceled", "Finished"}, Tell(bits),
         \A b \in bits : b \notin state /\ b \in state',
         \A b \in {"Started", "Canceled", "Finished"} \ bits : b \in state' <=> b \in state,
         state' \cap Halted \in {{}, state \cap Halted}
  PROVE  Heard
<1>1. \A o \in Watchers : told'[o] = IF told[o].connected THEN Hears(told[o], bits) ELSE told[o]
  BY DEF Tell
<1>2. told' \in [Watchers -> Ears]
  <2>1. \A o \in Watchers : told[o] \in Ears
    BY EarsFacts
  <2>2. \A o \in Watchers : Hears(told[o], bits) \in Ears
    BY <2>1, HearsIs
  <2> QED
    BY <2>1, <2>2 DEF Tell
<1>3. ASSUME NEW o \in Watchers, told[o].connected
      PROVE  /\ told'[o].connected /\ InSync(told'[o], state')
             /\ told'[o].ready = told[o].ready
  <2> DEFINE r == told[o]
             h == Hears(r, bits)
  <2>1. r \in Ears /\ InSync(r, state) /\ told'[o] = h /\ r.connected
    BY <1>1, <1>3, EarsFacts, ZenonT(40)
  <2> HIDE DEF r
  <2>2. /\ h.connected = r.connected /\ h.halt = r.halt /\ h.ready = r.ready
        /\ h.Started  = IF "Started"  \in bits THEN Twice(r.Started)  ELSE r.Started
        /\ h.Canceled = IF "Canceled" \in bits THEN Twice(r.Canceled) ELSE r.Canceled
        /\ h.Finished = IF "Finished" \in bits THEN Twice(r.Finished) ELSE r.Finished
    BY <2>1, HearsIs
  <2> HIDE DEF h
  <2>3. Twice(0) = 1
    BY DEF Twice
  <2>4. h.Started = IF "Started" \in state' THEN 1 ELSE 0
    <3>1. CASE "Started" \in bits
      BY <2>1, <2>2, <2>3, <3>1, Zenon DEF InSync
    <3>2. CASE "Started" \notin bits
      <4>1. "Started" \in state' <=> "Started" \in state
        BY <3>2
      <4> QED
        BY <2>1, <2>2, <3>2, <4>1, Zenon DEF InSync
    <3> QED
      BY <3>1, <3>2
  <2>5. h.Canceled = IF "Canceled" \in state' THEN 1 ELSE 0
    <3>1. CASE "Canceled" \in bits
      BY <2>1, <2>2, <2>3, <3>1, Zenon DEF InSync
    <3>2. CASE "Canceled" \notin bits
      <4>1. "Canceled" \in state' <=> "Canceled" \in state
        BY <3>2
      <4> QED
        BY <2>1, <2>2, <3>2, <4>1, Zenon DEF InSync
    <3> QED
      BY <3>1, <3>2
  <2>6. h.Finished = IF "Finished" \in state' THEN 1 ELSE 0
    <3>1. CASE "Finished" \in bits
      BY <2>1, <2>2, <2>3, <3>1, Zenon DEF InSync
    <3>2. CASE "Finished" \notin bits
      <4>1. "Finished" \in state' <=> "Finished" \in state
        BY <3>2
      <4> QED
        BY <2>1, <2>2, <3>2, <4>1, Zenon DEF InSync
    <3> QED
      BY <3>1, <3>2
  <2>7. /\ state' \cap Halted = {"Suspended"}  => h.halt = "suspended"
        /\ state' \cap Halted = {"Suspending"} => h.halt = "suspending"
    <3>1. state' \cap Halted = {} \/ state' \cap Halted = state \cap Halted
      OBVIOUS
    <3>2. {} # {"Suspended"} /\ {} # {"Suspending"}
      OBVIOUS
    <3> QED
      BY <2>1, <2>2, <3>1, <3>2, Zenon DEF InSync
  <2>8. InSync(h, state')
    BY <2>4, <2>5, <2>6, <2>7, Zenon DEF InSync
  <2> QED
    BY <2>1, <2>2, <2>8, Zenon DEF r
<1>4. \A o \in Watchers : ~told[o].connected => Deaf(told[o]) /\ told'[o] = told[o]
  BY <1>1, EarsFacts
<1> QED
  BY <1>2, <1>3, <1>4, Zenon DEF Heard

\* TellHalt(), when what is told is what holds.
LEMMA HaltHeard ==
  ASSUME IInv, NEW what \in {"none", "suspending", "suspended"}, TellHalt(what),
         \A b \in {"Started", "Canceled", "Finished"} : b \in state' <=> b \in state,
         state' \cap Halted = {"Suspended"}  => what = "suspended",
         state' \cap Halted = {"Suspending"} => what = "suspending"
  PROVE  Heard
<1>1. \A o \in Watchers : told'[o] = IF told[o].connected THEN HearsHalt(told[o], what) ELSE told[o]
  BY DEF TellHalt
<1>2. told' \in [Watchers -> Ears]
  <2>1. \A o \in Watchers : told[o] \in Ears
    BY EarsFacts
  <2>2. \A o \in Watchers : HearsHalt(told[o], what) \in Ears
    BY <2>1, HearsHaltIs
  <2> QED
    BY <2>1, <2>2 DEF TellHalt
<1>3. ASSUME NEW o \in Watchers, told[o].connected
      PROVE  /\ told'[o].connected /\ InSync(told'[o], state')
             /\ told'[o].ready = told[o].ready
  <2> DEFINE r == told[o]
             h == HearsHalt(r, what)
  <2>1. r \in Ears /\ InSync(r, state) /\ told'[o] = h /\ r.connected
    BY <1>1, <1>3, EarsFacts, ZenonT(40)
  <2> HIDE DEF r
  <2>2. /\ h.connected = r.connected /\ h.halt = what /\ h.ready = r.ready
        /\ h.Started = r.Started /\ h.Canceled = r.Canceled /\ h.Finished = r.Finished
    BY <2>1, HearsHaltIs
  <2> HIDE DEF h
  <2>3. /\ "Started" \in state' <=> "Started" \in state
        /\ "Canceled" \in state' <=> "Canceled" \in state
        /\ "Finished" \in state' <=> "Finished" \in state
    OBVIOUS
  <2>4. InSync(h, state')
    BY <2>1, <2>2, <2>3, Zenon DEF InSync
  <2> QED
    BY <2>1, <2>2, <2>4, Zenon DEF r
<1>4. \A o \in Watchers : ~told[o].connected => Deaf(told[o]) /\ told'[o] = told[o]
  BY <1>1, EarsFacts
<1> QED
  BY <1>2, <1>3, <1>4, Zenon DEF Heard

LEMMA NothingHeard ==
  ASSUME IInv, UNCHANGED <<told, state>>
  PROVE  Heard
<1>1. told' = told /\ state' = state
  OBVIOUS
<1> QED
  BY <1>1, EarsFacts, Zenon DEF Heard


-----------------------------------------------------------------------------
(* Who sleeps and who is paused.                                           *)

LEMMA Facts ==
  ASSUME IInv
  PROVE  Types /\ Course /\ StoreInv /\ NoLostWaiter /\ WatchersKnow
BY DEF IInv

LEMMA AllAwake ==
  ASSUME Types, WakeWaiters
  PROVE  /\ at' \in [Waiters -> {"out", "look", "steal", "asleep", "awake", "done"}]
         /\ \A c \in Waiters : at'[c] # "asleep"
BY DEF Types, WakeWaiters

LEMMA NonePaused ==
  ASSUME Types, WakePaused
  PROVE  /\ pc' \in [Workers -> {"work", "throw", "paused", "awake"}]
         /\ \A w \in Workers : pc'[w] # "paused" /\ (pc[w] = "work" => pc'[w] = "work")
BY DEF Types, WakePaused, Woken

\* A step that leaves the results alone leaves the store sound.
LEMMA StoreStays ==
  ASSUME StoreInv, UNCHANGED <<mode, left, kept, store, hasException>>
  PROVE  StoreInv'
<1>1. mode' = mode /\ left' = left /\ kept' = kept /\ store' = store /\ hasException' = hasException
  OBVIOUS
<1>2. MapStore' <=> MapStore
  BY <1>1, Zenon DEF MapStore
<1>3. PromiseStore' <=> PromiseStore
  BY <1>1, Zenon DEF PromiseStore
<1>4. (mode # "filter" => Plain(store)) /\ (mode = "filter" /\ ~hasException => Resting(store, left, kept))
  BY DEF StoreInv
<1>5. (mode' # "filter" => Plain(store')) /\ (mode' = "filter" /\ ~hasException' => Resting(store', left', kept'))
  BY <1>1, <1>4
<1>6. (mode' = "map" /\ ~hasException' => MapStore') /\ (mode' = "promise" => PromiseStore')
  <2>1. (mode = "map" /\ ~hasException => MapStore) /\ (mode = "promise" => PromiseStore)
    BY DEF StoreInv
  <2> QED
    BY <1>1, <1>2, <1>3, <2>1
<1> QED
  BY <1>5, <1>6, Zenon DEF StoreInv

\* A step that empties the store because of an exception.
LEMMA StoreEmptied ==
  ASSUME StoreInv, UNCHANGED <<mode, left, kept>>, store' = EmptyStore,
         hasException' \/ mode = "promise"
  PROVE  StoreInv'
<1>1. mode' = mode /\ left' = left
  OBVIOUS
<1>2. Plain(store')
  BY EmptyPlain
<1>3. mode = "promise" => PromiseStore'
  <2> SUFFICES ASSUME mode = "promise" PROVE PromiseStore'
    OBVIOUS
  <2>1. PICK m \in 0..Count : left = m..Count - 1
    BY DEF StoreInv, PromiseStore
  <2>2. store'.insertIndex = 0 /\ Count \in Nat
    BY FutureAssumption DEF EmptyStore
  <2>3. store'.insertIndex <= Count + m
    BY <2>2
  <2> QED
    BY <1>1, <2>1, <2>3 DEF PromiseStore
<1>4. mode = "promise" => mode # "map" /\ mode # "filter"
  OBVIOUS
<1> QED
  BY <1>1, <1>2, <1>3, <1>4, Zenon DEF StoreInv

\* Who sleeps is not served by a step that adds nothing they wait for.
LEMMA SleepOn ==
  ASSUME NoLostWaiter, \A c \in Waiters : at'[c] = "asleep" => at[c] = "asleep" /\ awaits'[c] = awaits[c],
         "Finished" \in state' => "Finished" \in state,
         "Running" \in state \/ "Pending" \in state => "Running" \in state' \/ "Pending" \in state',
         \A i : ~hasException' /\ i \in DOMAIN store'.results
                  => ~hasException /\ i \in DOMAIN store.results
  PROVE  \A c \in Waiters : at'[c] = "asleep" => ~Served(c)'
<1> SUFFICES ASSUME NEW c \in Waiters, at'[c] = "asleep", Served(c)' PROVE FALSE
  OBVIOUS
<1>1. at[c] = "asleep" /\ awaits'[c] = awaits[c]
  OBVIOUS
<1>2. IF awaits'[c] = End THEN "Finished" \in state'
      ELSE \/ ~("Running" \in state' \/ "Pending" \in state')
           \/ ~hasException' /\ awaits'[c] \in DOMAIN store'.results
  BY Zenon DEF Served, ReadyAt, RunningOrPending, On
<1>3. IF awaits[c] = End THEN "Finished" \in state
      ELSE \/ ~("Running" \in state \/ "Pending" \in state)
           \/ ~hasException /\ awaits[c] \in DOMAIN store.results
  BY <1>1, <1>2, Zenon
<1>4. Served(c)
  BY <1>3, Zenon DEF Served, ReadyAt, RunningOrPending, On
<1> QED
  BY <1>1, <1>4, Zenon DEF NoLostWaiter

\* A step that changes neither what waiters wait for nor where they are.
LEMMA SameWaiters ==
  ASSUME NoLostWaiter, UNCHANGED <<at, awaits, state, hasException, store>>
  PROVE  \A c \in Waiters : at'[c] = "asleep" => ~Served(c)'
<1>1. /\ at' = at /\ awaits' = awaits /\ state' = state /\ hasException' = hasException
      /\ store' = store
  OBVIOUS
<1>2. \A i : ~hasException' /\ i \in DOMAIN store'.results
             => ~hasException /\ i \in DOMAIN store.results
  BY <1>1
<1>3. "Finished" \in state' => "Finished" \in state
  BY <1>1
<1>4. "Running" \in state \/ "Pending" \in state => "Running" \in state' \/ "Pending" \in state'
  BY <1>1
<1>5. \A c \in Waiters : at'[c] = "asleep" => at[c] = "asleep" /\ awaits'[c] = awaits[c]
  BY <1>1
<1> QED
  BY <1>2, <1>3, <1>4, <1>5, SleepOn, Zenon

\* The two halves of NoLostWaiter after the step.
LEMMA NobodyLost ==
  ASSUME \A c \in Waiters : at'[c] = "asleep" => ~Served(c)',
         \A w \in Workers : pc'[w] = "paused" => MustPause'
  PROVE  NoLostWaiter'
BY DEF NoLostWaiter


-----------------------------------------------------------------------------
(* The steps that report no results.                                       *)

LEMMA ReportStartedIInv ==
  ASSUME IInv, ReportStarted
  PROVE  IInv'
<1> USE DEF ReportStarted
<1>0. Types /\ Course /\ StoreInv /\ NoLostWaiter /\ WatchersKnow
  BY Facts
<1>1. AllBusy /\ phase = "new" /\ "Finished" \notin state
  BY <1>0 DEF Course, On
<1>2. /\ UNCHANGED <<mode, left, kept, hasException, store, pc, at, awaits, suspends, thrown>>
      /\ phase' = "begun"
  BY DEF calls
<1>3. StoreInv'
  BY <1>0, <1>2, StoreStays
<1>4. CASE UNCHANGED <<state, told>>
  <2>1. Heard
    BY <1>4, NothingHeard
  <2>2. WatchersKnow'
    BY <1>2, <2>1, StillKnow
  <2>3. NoLostWaiter'
    <3>1. \A c \in Waiters : at'[c] = "asleep" => ~Served(c)'
      BY <1>0, <1>2, <1>4, SameWaiters
    <3>2. \A w \in Workers : pc'[w] = "paused" => MustPause'
      BY <1>1, <1>2 DEF AllBusy
    <3> QED
      BY <3>1, <3>2, NobodyLost
  <2>4. Types'
    BY <1>0, <1>2, <1>4 DEF Types
  <2>5. Course'
    BY <1>0, <1>1, <1>2, <1>4 DEF Course, On, AllBusy
  <2> QED
    BY <1>3, <2>2, <2>3, <2>4, <2>5 DEF IInv
<1>5. CASE ~(On("Started") \/ Over)
  <2>1. state' = {"Started", "Running"} /\ Tell({"Started"})
    BY <1>5
  <2>2. "Started" \notin state /\ "Canceled" \notin state /\ ~hasException
    BY <1>0, <1>5 DEF On, Over, Course
  <2>3. Heard
    BY <1>1, <2>1, <2>2, TellHeard DEF Halted
  <2>4. WatchersKnow'
    BY <1>2, <2>3, StillKnow
  <2>5. NoLostWaiter'
    <3>1. \A c \in Waiters : at'[c] = "asleep" => ~Served(c)'
      BY <1>0, <1>2, <2>1, SleepOn
    <3>2. \A w \in Workers : pc'[w] = "paused" => MustPause'
      BY <1>1, <1>2 DEF AllBusy
    <3> QED
      BY <3>1, <3>2, NobodyLost
  <2>6. Types'
    BY <1>0, <1>2, <2>1, <2>3 DEF Types, Heard
  <2>7. Course'
    BY <1>0, <1>1, <1>2, <2>1, <2>2, <2>3 DEF Course, On, AllBusy, Heard
  <2> QED
    BY <1>3, <2>4, <2>5, <2>6, <2>7 DEF IInv
<1> QED
  BY <1>4, <1>5

LEMMA ReportFinishedIInv ==
  ASSUME IInv, ReportFinished
  PROVE  IInv'
<1> USE DEF ReportFinished
<1>0. Types /\ Course /\ StoreInv /\ NoLostWaiter /\ WatchersKnow
  BY Facts
<1>1. AllBusy /\ phase = "begun" /\ "Finished" \notin state
  BY <1>0 DEF Course, On
<1>2. /\ UNCHANGED <<mode, left, kept, hasException, store, pc, awaits, suspends, thrown>>
      /\ phase' = "ended" /\ state' = (state \ {"Running"}) \cup {"Finished"}
      /\ WakeWaiters /\ Tell({"Finished"})
  OBVIOUS
<1>3. StoreInv'
  BY <1>0, <1>2, StoreStays
<1>4. Heard
  BY <1>1, <1>2, TellHeard DEF Halted
<1>5. WatchersKnow'
  BY <1>2, <1>4, StillKnow
<1>6. \A c \in Waiters : at'[c] # "asleep"
  BY <1>0, <1>2, AllAwake
<1>7. NoLostWaiter'
  BY <1>1, <1>2, <1>6, NobodyLost DEF AllBusy
<1>8. Types'
  BY <1>0, <1>2, <1>4, AllAwake DEF Types, Heard
<1>9. Course'
  BY <1>0, <1>1, <1>2, <1>4 DEF Course, On, AllBusy, Heard
<1> QED
  BY <1>3, <1>5, <1>7, <1>8, <1>9 DEF IInv

LEMMA DestroyIInv ==
  ASSUME IInv, Destroy
  PROVE  IInv'
<1> USE DEF Destroy
<1>0. Types /\ Course /\ StoreInv /\ NoLostWaiter /\ WatchersKnow
  BY Facts
<1> DEFINE bits == {"Finished"} \cup (IF On("Canceled") THEN {} ELSE {"Canceled"})
<1>1. AllBusy /\ "Finished" \notin state
  BY <1>0 DEF Course, On
<1>2. /\ UNCHANGED <<mode, left, kept, hasException, store, awaits, suspends, thrown>>
      /\ phase' = "ended"
      /\ state' = (state \ (Halted \cup {"Running"})) \cup {"Canceled", "Finished"}
      /\ WakeWaiters /\ WakePaused /\ Tell(bits)
  OBVIOUS
<1>3. StoreInv'
  BY <1>0, <1>2, StoreStays
<1>4. Heard
  <2>1. bits \in SUBSET {"Started", "Canceled", "Finished"}
    OBVIOUS
  <2>2. \A b \in bits : b \notin state /\ b \in state'
    BY <1>1, <1>2 DEF On
  <2>3. \A b \in {"Started", "Canceled", "Finished"} \ bits : b \in state' <=> b \in state
    BY <1>2 DEF On, Halted
  <2>4. state' \cap Halted = {}
    BY <1>2 DEF Halted
  <2>5. Tell(bits)
    BY <1>2
  <2> HIDE DEF bits
  <2> QED
    BY <2>1, <2>2, <2>3, <2>4, <2>5, TellHeard
<1>5. WatchersKnow'
  BY <1>2, <1>4, StillKnow
<1>6. \A c \in Waiters : at'[c] # "asleep"
  BY <1>0, <1>2, AllAwake
<1>7. /\ \A w \in Workers : pc'[w] # "paused"
      /\ AllBusy'
  BY <1>0, <1>1, <1>2, NonePaused DEF AllBusy
<1>8. NoLostWaiter'
  BY <1>6, <1>7, NobodyLost
<1>9. Types'
  BY <1>0, <1>2, <1>4, AllAwake, NonePaused DEF Types, Heard, Halted
<1>10. Course'
  BY <1>0, <1>2, <1>4, <1>7 DEF Course, On, Heard
<1> QED
  BY <1>3, <1>5, <1>8, <1>9, <1>10 DEF IInv


LEMMA ClearResultsIInv ==
  ASSUME IInv, NEW w \in Workers, ClearResults(w)
  PROVE  IInv'
<1> USE DEF ClearResults, Busy
<1>0. Types /\ Course /\ StoreInv /\ NoLostWaiter /\ WatchersKnow
  BY Facts
<1>1. /\ UNCHANGED <<mode, phase, left, kept, state, hasException, at, awaits, told, suspends>>
      /\ store' = EmptyStore /\ pc' = [pc EXCEPT ![w] = "throw"] /\ thrown' = TRUE
      /\ mode = "promise" /\ ~hasException /\ phase = "begun"
  BY DEF work, calls
<1>2. StoreInv'
  BY <1>0, <1>1, StoreEmptied
<1>3. Heard
  BY <1>1, NothingHeard
<1>4. WatchersKnow'
  BY <1>1, <1>3, StillKnow
<1>5. NoLostWaiter'
  <2>1. \A i : ~hasException' /\ i \in DOMAIN store'.results
               => ~hasException /\ i \in DOMAIN store.results
    BY <1>1 DEF EmptyStore
  <2>2. \A c \in Waiters : at'[c] = "asleep" => ~Served(c)'
    BY <1>0, <1>1, <2>1, SleepOn
  <2>3. \A v \in Workers : pc'[v] = "paused" => pc[v] = "paused"
    BY <1>0, <1>1 DEF Types
  <2>4. \A v \in Workers : pc'[v] = "paused" => MustPause'
    BY <1>0, <1>1, <2>3 DEF NoLostWaiter, MustPause, On
  <2> QED
    BY <2>2, <2>4, NobodyLost
<1>6. Types'
  BY <1>0, <1>1 DEF Types
<1>7. Course'
  BY <1>0, <1>1 DEF Course, On
<1> QED
  BY <1>2, <1>4, <1>5, <1>6, <1>7 DEF IInv

LEMMA ReportExceptionIInv ==
  ASSUME IInv, NEW w \in Workers, ReportException(w)
  PROVE  IInv'
<1> USE DEF ReportException, Busy
<1>0. Types /\ Course /\ StoreInv /\ NoLostWaiter /\ WatchersKnow
  BY Facts
<1>1. UNCHANGED <<mode, phase, left, kept, awaits, suspends, thrown>>
  BY DEF work
<1>2. phase = "begun"
  BY <1>0 DEF Course, AllBusy
<1>3. CASE Over
  <2>1. UNCHANGED <<state, hasException, store, at, told>> /\ pc' = [pc EXCEPT ![w] = "work"]
    BY <1>3
  <2>2. StoreInv'
    BY <1>0, <1>1, <2>1, StoreStays
  <2>3. Heard
    BY <2>1, NothingHeard
  <2>4. WatchersKnow'
    BY <1>1, <2>1, <2>3, StillKnow
  <2>5. NoLostWaiter'
    <3>1. \A c \in Waiters : at'[c] = "asleep" => ~Served(c)'
      BY <1>0, <1>1, <2>1, SameWaiters
    <3>2. \A v \in Workers : pc'[v] = "paused" => pc[v] = "paused"
      BY <1>0, <2>1 DEF Types
    <3>3. \A v \in Workers : pc'[v] = "paused" => MustPause'
      BY <1>0, <2>1, <3>2 DEF NoLostWaiter, MustPause, On
    <3> QED
      BY <3>1, <3>3, NobodyLost
  <2>6. Types'
    BY <1>0, <1>1, <2>1 DEF Types
  <2>7. Course'
    BY <1>0, <1>1, <1>2, <2>1 DEF Course, On
  <2> QED
    BY <2>2, <2>4, <2>5, <2>6, <2>7 DEF IInv
<1>4. CASE ~Over
  <2>1. /\ hasException' = TRUE /\ store' = EmptyStore /\ state' = state \cup {"Canceled"}
        /\ pc' = [v \in Workers |-> IF v = w THEN "work" ELSE Woken(v)]
        /\ WakeWaiters /\ Tell({"Canceled"}) /\ "Canceled" \notin state
    BY <1>4 DEF Over, On
  <2>2. StoreInv'
    BY <1>0, <1>1, <2>1, StoreEmptied
  <2>3. Heard
    BY <2>1, TellHeard DEF Halted
  <2>4. WatchersKnow'
    BY <1>1, <2>1, <2>3, StillKnow
  <2>5. NoLostWaiter'
    <3>1. \A c \in Waiters : at'[c] # "asleep"
      BY <1>0, <2>1, AllAwake
    <3>2. \A v \in Workers : pc'[v] # "paused"
      BY <2>1 DEF Woken
    <3> QED
      BY <3>1, <3>2, NobodyLost
  <2>6. Types'
    <3>1. pc' \in [Workers -> {"work", "throw", "paused", "awake"}]
      BY <1>0, <2>1 DEF Types, Woken
    <3> QED
      BY <1>0, <1>1, <2>1, <2>3, <3>1, AllAwake DEF Types, Heard
  <2>7. Course'
    BY <1>0, <1>1, <1>2, <2>1, <2>3 DEF Course, On, Heard
  <2> QED
    BY <2>2, <2>4, <2>5, <2>6, <2>7 DEF IInv
<1> QED
  BY <1>3, <1>4

\* A step of the workers alone: one of them, at w, goes on, or is paused while
\* the future is suspended.
LEMMA WorkerIInv ==
  ASSUME IInv, NEW w \in Workers, NEW where \in {"work", "paused", "awake"},
         pc' = [pc EXCEPT ![w] = where], where = "paused" => MustPause,
         phase = "begun" \/ pc[w] # "work",
         UNCHANGED <<work, state, hasException, store, calls, told, suspends, thrown>>
  PROVE  IInv'
<1>0. Types /\ Course /\ StoreInv /\ NoLostWaiter /\ WatchersKnow
  BY Facts
<1>1. UNCHANGED <<mode, phase, left, kept, state, hasException, store, at, awaits, told, suspends, thrown>>
  BY DEF work, calls
<1>2. phase = "begun"
  BY <1>0 DEF Course, AllBusy
<1>3. StoreInv'
  BY <1>0, <1>1, StoreStays
<1>4. Heard
  BY <1>1, NothingHeard
<1>5. WatchersKnow'
  BY <1>1, <1>4, StillKnow
<1>6. NoLostWaiter'
  <2>1. \A c \in Waiters : at'[c] = "asleep" => ~Served(c)'
    BY <1>0, <1>1, SameWaiters
  <2>2. \A v \in Workers : pc'[v] = "paused" => pc[v] = "paused" \/ where = "paused"
    BY <1>0 DEF Types
  <2>3. \A v \in Workers : pc'[v] = "paused" => MustPause'
    BY <1>0, <1>1, <2>2 DEF NoLostWaiter, MustPause, On
  <2> QED
    BY <2>1, <2>3, NobodyLost
<1>7. Types'
  BY <1>0, <1>1 DEF Types
<1>8. Course'
  BY <1>0, <1>1, <1>2 DEF Course, On
<1> QED
  BY <1>3, <1>5, <1>6, <1>7, <1>8 DEF IInv

LEMMA WorkerStepsIInv ==
  ASSUME IInv, NEW w \in Workers, WaitForResume(w) \/ GoOn(w) \/ SpuriousResume(w)
  PROVE  IInv'
<1>1. CASE WaitForResume(w)
  BY <1>1, WorkerIInv DEF WaitForResume, Busy, Pause
<1>2. CASE GoOn(w)
  BY <1>2, WorkerIInv DEF GoOn
<1>3. CASE SpuriousResume(w)
  BY <1>3, WorkerIInv DEF SpuriousResume
<1> QED
  BY <1>1, <1>2, <1>3


\* A step that suspends or resumes: what is told and what is paused fits.
LEMMA HaltIInv ==
  ASSUME IInv, NEW what \in {"none", "suspending", "suspended"}, TellHalt(what),
         UNCHANGED <<work, hasException, store, calls, thrown>>,
         state' \ Halted = state \ Halted, state' \subseteq Bits, suspends' \in 0..MaxSuspend,
         state' \cap Halted = {"Suspended"}  => what = "suspended",
         state' \cap Halted = {"Suspending"} => what = "suspending",
         pc' \in [Workers -> {"work", "throw", "paused", "awake"}],
         phase # "begun" => \A w \in Workers : pc[w] = "work" => pc'[w] = "work",
         \A w \in Workers : pc'[w] = "paused" => state' \cap Halted # {} /\ ~On("Canceled")
  PROVE  IInv'
<1>0. Types /\ Course /\ StoreInv /\ NoLostWaiter /\ WatchersKnow
  BY Facts
<1>1. UNCHANGED <<mode, phase, left, kept, hasException, store, at, awaits, thrown>>
  BY DEF work, calls
<1>2. /\ "Started" \in state' <=> "Started" \in state
      /\ "Canceled" \in state' <=> "Canceled" \in state
      /\ "Finished" \in state' <=> "Finished" \in state
      /\ "Running" \in state' <=> "Running" \in state
      /\ "Pending" \in state' <=> "Pending" \in state
  BY DEF Halted
<1>3. StoreInv'
  BY <1>0, <1>1, StoreStays
<1>4. Heard
  <2>1. \A b \in {"Started", "Canceled", "Finished"} : b \in state' <=> b \in state
    BY <1>2
  <2> QED
    BY <2>1, HaltHeard
<1>5. WatchersKnow'
  BY <1>1, <1>4, StillKnow
<1>6. NoLostWaiter'
  <2>1. \A c \in Waiters : at'[c] = "asleep" => ~Served(c)'
    <3>1. \A i : ~hasException' /\ i \in DOMAIN store'.results
                 => ~hasException /\ i \in DOMAIN store.results
      BY <1>1
    <3>2. \A c \in Waiters : at'[c] = "asleep" => at[c] = "asleep" /\ awaits'[c] = awaits[c]
      BY <1>1
    <3> QED
      BY <1>0, <1>2, <3>1, <3>2, SleepOn
  <2>2. \A w \in Workers : pc'[w] = "paused" => MustPause'
    BY <1>2 DEF MustPause, On
  <2> QED
    BY <2>1, <2>2, NobodyLost
<1>7. Types'
  BY <1>0, <1>1, <1>4 DEF Types, Heard
<1>8. Course'
  <2>1. phase' # "begun" => AllBusy'
    BY <1>0, <1>1 DEF Course, AllBusy
  <2>2. On("Finished")' => phase' = "ended"
    BY <1>0, <1>1, <1>2 DEF Course, On
  <2>3. hasException' => On("Canceled")' /\ store' = EmptyStore
    BY <1>0, <1>1, <1>2 DEF Course, On
  <2>4. \A o \in Watchers : ~told'[o].connected => Deaf(told'[o])
    BY <1>4 DEF Heard
  <2> QED
    BY <2>1, <2>2, <2>3, <2>4 DEF Course
<1> QED
  BY <1>3, <1>5, <1>6, <1>7, <1>8 DEF IInv

LEMMA ReportSuspendedIInv ==
  ASSUME IInv, ReportSuspended
  PROVE  IInv'
<1> USE DEF ReportSuspended
<1>0. Types /\ Course /\ StoreInv /\ NoLostWaiter /\ WatchersKnow
  BY Facts
<1>1. state' = (state \ {"Suspending"}) \cup {"Suspended"} /\ TellHalt("suspended")
  OBVIOUS
<1>2. pc' = pc /\ \A w \in Workers : pc[w] = "work"
  BY DEF AllBusy
<1>3. state' \subseteq Bits /\ suspends' \in 0..MaxSuspend
      /\ pc' \in [Workers -> {"work", "throw", "paused", "awake"}]
  BY <1>0, <1>1, <1>2 DEF Types
<1>4. state' \ Halted = state \ Halted /\ state' \cap Halted = {"Suspended"}
  BY <1>1 DEF Halted
<1>5. \A w \in Workers : pc'[w] # "paused"
  BY <1>2
<1>6. UNCHANGED <<work, hasException, store, calls, thrown>>
  OBVIOUS
<1> QED
  BY <1>1, <1>2, <1>3, <1>4, <1>5, <1>6, HaltIInv

LEMMA SuspendIfRequestedIInv ==
  ASSUME IInv, NEW w \in Workers, SuspendIfRequested(w)
  PROVE  IInv'
<1> USE DEF SuspendIfRequested, Busy
<1>1. CASE On("Suspended")
  BY <1>1, WorkerIInv DEF Pause
<1>2. CASE ~On("Suspended")
  <2>0. Types /\ Course /\ StoreInv /\ NoLostWaiter /\ WatchersKnow
    BY Facts
  <2>1. state' = (state \ {"Suspending"}) \cup {"Suspended"} /\ TellHalt("suspended")
    BY <1>2
  <2>2. pc' = [pc EXCEPT ![w] = "paused"] /\ ~On("Canceled") /\ phase = "begun"
    BY DEF Pause, MustPause
  <2>3. state' \subseteq Bits /\ suspends' \in 0..MaxSuspend
        /\ pc' \in [Workers -> {"work", "throw", "paused", "awake"}]
    BY <2>0, <2>1, <2>2 DEF Types
  <2>4. state' \ Halted = state \ Halted /\ state' \cap Halted = {"Suspended"}
    BY <2>1 DEF Halted
  <2>5. UNCHANGED <<work, hasException, store, calls, thrown>>
    OBVIOUS
  <2> QED
    BY <2>1, <2>2, <2>3, <2>4, <2>5, HaltIInv
<1> QED
  BY <1>1, <1>2

LEMMA SuspendIInv ==
  ASSUME IInv, Suspend
  PROVE  IInv'
<1> USE DEF Suspend
<1>0. Types /\ Course /\ StoreInv /\ NoLostWaiter /\ WatchersKnow
  BY Facts
<1>1. state' = state \cup {"Suspending"} /\ TellHalt("suspending") /\ pc' = pc
  OBVIOUS
<1>2. suspends' \in 0..MaxSuspend
  BY <1>0, FutureAssumption DEF Types
<1>3. state' \subseteq Bits /\ pc' \in [Workers -> {"work", "throw", "paused", "awake"}]
  BY <1>0, <1>1 DEF Types
<1>4. /\ state' \ Halted = state \ Halted /\ state' \cap Halted # {"Suspended"}
      /\ state' \cap Halted # {}
  BY <1>1 DEF Halted
<1>5. \A w \in Workers : pc[w] = "paused" => ~On("Canceled")
  BY <1>0 DEF NoLostWaiter, MustPause
<1>6. UNCHANGED <<work, hasException, store, calls, thrown>>
  OBVIOUS
<1> QED
  BY <1>1, <1>2, <1>3, <1>4, <1>5, <1>6, HaltIInv

LEMMA ResumeIInv ==
  ASSUME IInv, Resume
  PROVE  IInv'
<1> USE DEF Resume
<1>0. Types /\ Course /\ StoreInv /\ NoLostWaiter /\ WatchersKnow
  BY Facts
<1>1. state' = state \ Halted /\ TellHalt("none") /\ WakePaused /\ suspends' = suspends
  OBVIOUS
<1>2. suspends' \in 0..MaxSuspend /\ state' \subseteq Bits
  BY <1>0, <1>1 DEF Types
<1>3. /\ pc' \in [Workers -> {"work", "throw", "paused", "awake"}]
      /\ \A w \in Workers : pc'[w] # "paused" /\ (pc[w] = "work" => pc'[w] = "work")
  BY <1>0, <1>1, NonePaused
<1>4. state' \ Halted = state \ Halted /\ state' \cap Halted = {}
  BY <1>1 DEF Halted
<1>5. UNCHANGED <<work, hasException, store, calls, thrown>>
  OBVIOUS
<1> QED
  BY <1>1, <1>2, <1>3, <1>4, <1>5, HaltIInv

LEMMA CancelIInv ==
  ASSUME IInv, Cancel
  PROVE  IInv'
<1> USE DEF Cancel
<1>0. Types /\ Course /\ StoreInv /\ NoLostWaiter /\ WatchersKnow
  BY Facts
<1>1. /\ UNCHANGED <<mode, phase, left, kept, hasException, store, awaits, suspends, thrown>>
      /\ state' = (state \ Halted) \cup {"Canceled"} /\ "Canceled" \notin state
      /\ WakeWaiters /\ WakePaused /\ Tell({"Canceled"})
  BY DEF work, On
<1>2. StoreInv'
  BY <1>0, <1>1, StoreStays
<1>3. Heard
  BY <1>1, TellHeard DEF Halted
<1>4. WatchersKnow'
  BY <1>1, <1>3, StillKnow
<1>5. /\ pc' \in [Workers -> {"work", "throw", "paused", "awake"}]
      /\ \A w \in Workers : pc'[w] # "paused" /\ (pc[w] = "work" => pc'[w] = "work")
  BY <1>0, <1>1, NonePaused
<1>6. \A c \in Waiters : at'[c] # "asleep"
  BY <1>0, <1>1, AllAwake
<1>7. NoLostWaiter'
  BY <1>5, <1>6, NobodyLost
<1>8. Types'
  BY <1>0, <1>1, <1>3, <1>5, AllAwake, ZenonT(40) DEF Types, Heard
<1>9. Course'
  BY <1>0, <1>1, <1>3, <1>5 DEF Course, On, AllBusy, Heard, Halted
<1> QED
  BY <1>2, <1>4, <1>7, <1>8, <1>9 DEF IInv


\* A step of the waiters alone: nobody falls asleep who is served.
LEMMA WaiterIInv ==
  ASSUME IInv, UNCHANGED <<work, state, hasException, store, pc, told, suspends, thrown>>,
         at' \in [Waiters -> {"out", "look", "steal", "asleep", "awake", "done"}],
         awaits' \in [Waiters -> Awaited \cup {End}],
         \A c \in Waiters : at'[c] = "asleep" =>
           awaits'[c] = awaits[c] /\ (at[c] = "asleep" \/ ~Served(c))
  PROVE  IInv'
<1>0. Types /\ Course /\ StoreInv /\ NoLostWaiter /\ WatchersKnow
  BY Facts
<1>1. UNCHANGED <<mode, phase, left, kept, state, hasException, store, pc, told, suspends, thrown>>
  BY DEF work
<1>2. StoreInv'
  BY <1>0, <1>1, StoreStays
<1>3. Heard
  BY <1>1, NothingHeard
<1>4. WatchersKnow'
  BY <1>1, <1>3, StillKnow
<1>5. NoLostWaiter'
  <2>1. ASSUME NEW c \in Waiters, at'[c] = "asleep" PROVE ~Served(c)'
    <3>1. ~Served(c) /\ awaits'[c] = awaits[c]
      BY <1>0, <2>1 DEF NoLostWaiter
    <3>2. Served(c)' <=> Served(c)
      BY <1>1, <3>1 DEF Served, On, RunningOrPending, ReadyAt
    <3> QED
      BY <3>1, <3>2
  <2>2. \A w \in Workers : pc'[w] = "paused" => MustPause'
    BY <1>0, <1>1 DEF NoLostWaiter, MustPause, On
  <2> QED
    BY <2>1, <2>2, NobodyLost
<1>6. Types'
  BY <1>0, <1>1 DEF Types
<1>7. Course'
  BY <1>0, <1>1 DEF Course, On, AllBusy
<1> QED
  BY <1>2, <1>4, <1>5, <1>6, <1>7 DEF IInv

LEMMA WaiterStepsIInv ==
  ASSUME IInv, NEW c \in Waiters, CallWait(c) \/ Look(c) \/ Wait(c) \/ SpuriousWake(c)
  PROVE  IInv'
<1>0. /\ at \in [Waiters -> {"out", "look", "steal", "asleep", "awake", "done"}]
      /\ awaits \in [Waiters -> Awaited \cup {End}]
  BY DEF IInv, Types
<1>1. CASE CallWait(c)
  <2>1. PICK what \in Awaited :
          /\ awaits' = [awaits EXCEPT ![c] = what]
          /\ at' = [at EXCEPT ![c] = IF hasException /\ what # End THEN "done" ELSE "look"]
    BY <1>1 DEF CallWait
  <2>2. /\ at' \in [Waiters -> {"out", "look", "steal", "asleep", "awake", "done"}]
        /\ awaits' \in [Waiters -> Awaited \cup {End}]
    BY <1>0, <2>1
  <2>3. \A d \in Waiters : at'[d] = "asleep" => awaits'[d] = awaits[d] /\ at[d] = "asleep"
    BY <1>0, <2>1
  <2> QED
    BY <1>1, <2>2, <2>3, WaiterIInv DEF CallWait
<1>2. CASE Look(c)
  <2>1. PICK where \in {"done", "steal"} : at' = [at EXCEPT ![c] = where]
    BY <1>2 DEF Look
  <2>2. awaits' = awaits
    BY <1>2 DEF Look
  <2>3. /\ at' \in [Waiters -> {"out", "look", "steal", "asleep", "awake", "done"}]
        /\ \A d \in Waiters : at'[d] = "asleep" => at[d] = "asleep"
    BY <1>0, <2>1
  <2> QED
    BY <1>0, <1>2, <2>2, <2>3, WaiterIInv DEF Look
<1>3. CASE Wait(c)
  <2>1. awaits' = awaits /\ at' = [at EXCEPT ![c] = IF Served(c) THEN "done" ELSE "asleep"]
    BY <1>3 DEF Wait
  <2>2. /\ at' \in [Waiters -> {"out", "look", "steal", "asleep", "awake", "done"}]
        /\ \A d \in Waiters : at'[d] = "asleep" => at[d] = "asleep" \/ ~Served(d)
    BY <1>0, <2>1
  <2> QED
    BY <1>0, <1>3, <2>1, <2>2, WaiterIInv DEF Wait
<1>4. CASE SpuriousWake(c)
  <2>1. awaits' = awaits /\ at' = [at EXCEPT ![c] = "awake"]
    BY <1>4 DEF SpuriousWake
  <2>2. /\ at' \in [Waiters -> {"out", "look", "steal", "asleep", "awake", "done"}]
        /\ \A d \in Waiters : at'[d] = "asleep" => at[d] = "asleep"
    BY <1>0, <2>1
  <2> QED
    BY <1>0, <1>4, <2>1, <2>2, WaiterIInv DEF SpuriousWake
<1> QED
  BY <1>1, <1>2, <1>3, <1>4

\* A step that tells one output interface something, or lets it go.
LEMMA WatcherIInv ==
  ASSUME IInv, NEW o \in Watchers, NEW r \in Ears, told' = [told EXCEPT ![o] = r],
         UNCHANGED <<work, state, hasException, store, pc, calls, suspends, thrown>>,
         r.connected => InSync(r, state) /\ (~hasException => Knows(r, store)),
         ~r.connected => Deaf(r)
  PROVE  IInv'
<1>0. Types /\ Course /\ StoreInv /\ NoLostWaiter /\ WatchersKnow
  BY Facts
<1>1. UNCHANGED <<mode, phase, left, kept, state, hasException, store, pc, at, awaits, suspends, thrown>>
  BY DEF work, calls
<1>2. StoreInv'
  BY <1>0, <1>1, StoreStays
<1>3. told' \in [Watchers -> Ears] /\ \A p \in Watchers : told'[p] = IF p = o THEN r ELSE told[p]
  BY <1>0 DEF Types
<1>4. WatchersKnow'
  <2>1. \A p \in Watchers : told'[p].connected => InSync(told'[p], state')
    BY <1>1, <1>3, EarsFacts, ZenonT(40)
  <2>2. ASSUME ~hasException', NEW p \in Watchers, told'[p].connected
        PROVE  Knows(told[p], store)'
    <3>1. ~hasException /\ mode' = mode /\ store' = store
      BY <1>1, <2>2
    <3>2. Knows(told'[p], store)
      BY <1>3, <2>2, <3>1, EarsFacts
    <3> QED
      BY <3>1, <3>2, Zenon DEF Knows
  <2>3. WatcherInSync'
    BY <2>1, InSyncAgain, Zenon
  <2>4. AnnouncedOnce'
    BY <2>2, KnowsAgain, Zenon
  <2> QED
    BY <2>3, <2>4 DEF WatchersKnow
<1>5. NoLostWaiter'
  <2>1. \A c \in Waiters : at'[c] = "asleep" => ~Served(c)'
    BY <1>0, <1>1, SameWaiters
  <2>2. \A w \in Workers : pc'[w] = "paused" => MustPause'
    BY <1>0, <1>1 DEF NoLostWaiter, MustPause, On
  <2> QED
    BY <2>1, <2>2, NobodyLost
<1>6. Types'
  BY <1>0, <1>1, <1>3 DEF Types
<1>7. Course'
  <2>1. \A p \in Watchers : ~told'[p].connected => Deaf(told'[p])
    BY <1>3, EarsFacts
  <2> QED
    BY <1>0, <1>1, <2>1 DEF Course, On, AllBusy
<1> QED
  BY <1>2, <1>4, <1>5, <1>6, <1>7 DEF IInv

LEMMA DisconnectIInv ==
  ASSUME IInv, NEW o \in Watchers, Disconnect(o)
  PROVE  IInv'
<1> DEFINE r == [Unaware EXCEPT !.gone = TRUE]
<1>1. r \in Ears /\ ~r.connected /\ Deaf(r)
  <2>1. 0 \in 0..2
    OBVIOUS
  <2>2. \A i \in Indices : [j \in Indices |-> 0][i] = 0
    OBVIOUS
  <2> QED
    BY <2>1, <2>2 DEF Unaware, Ears, Deaf
<1>2. told' = [told EXCEPT ![o] = r]
  BY DEF Disconnect
<1> HIDE DEF r
<1> QED
  BY <1>1, <1>2, WatcherIInv DEF Disconnect

\* A latecomer is told exactly what it missed.
LEMMA ConnectIInv ==
  ASSUME IInv, NEW o \in Watchers, Connect(o)
  PROVE  IInv'
<1>0. Types /\ Course /\ StoreInv
  BY Facts
<1> DEFINE a == told[o]
           b == Hears(a, state)
           R == IF hasException THEN {} ELSE DOMAIN store.results
           d == HearsReady(b, R)
           halt == CASE On("Suspended")  -> "suspended"
                     [] On("Suspending") /\ ~On("Suspended") -> "suspending"
                     [] OTHER            -> "none"
           e == HearsHalt(d, halt)
           r == [e EXCEPT !.connected = TRUE]
<1>1. told' = [told EXCEPT ![o] = r]
  BY DEF Connect
<1>2. a \in Ears /\ a.Started = 0 /\ a.Canceled = 0 /\ a.Finished = 0
      /\ \A i \in Indices : a.ready[i] = 0
  BY EarsFacts DEF Connect, Deaf
<1>3. /\ halt \in {"none", "suspending", "suspended"}
      /\ "Suspended" \in state => halt = "suspended"
      /\ "Suspending" \in state /\ "Suspended" \notin state => halt = "suspending"
  <2>1. CASE "Suspended" \in state
    BY <2>1 DEF On
  <2>2. CASE "Suspending" \in state /\ "Suspended" \notin state
    BY <2>2 DEF On
  <2>3. CASE ~("Suspending" \in state) /\ ~("Suspended" \in state)
    BY <2>3 DEF On
  <2> QED
    BY <2>1, <2>2, <2>3
<1> HIDE DEF halt, a
<1>4. Twice(0) = 1
  BY DEF Twice
<1>5. /\ b \in Ears /\ b.ready = a.ready
      /\ b.Started  = IF "Started"  \in state THEN 1 ELSE 0
      /\ b.Canceled = IF "Canceled" \in state THEN 1 ELSE 0
      /\ b.Finished = IF "Finished" \in state THEN 1 ELSE 0
  <2>1. /\ b \in Ears /\ b.ready = a.ready
        /\ b.Started  = IF "Started"  \in state THEN Twice(a.Started)  ELSE a.Started
        /\ b.Canceled = IF "Canceled" \in state THEN Twice(a.Canceled) ELSE a.Canceled
        /\ b.Finished = IF "Finished" \in state THEN Twice(a.Finished) ELSE a.Finished
    BY <1>2, HearsIs
  <2> HIDE DEF b
  <2> QED
    BY <1>2, <1>4, <2>1
<1> HIDE DEF b, R
<1>6. /\ d \in Ears
      /\ d.Started = b.Started /\ d.Canceled = b.Canceled /\ d.Finished = b.Finished
      /\ \A i \in Indices : d.ready[i] = IF i \in R THEN Twice(b.ready[i]) ELSE b.ready[i]
  BY <1>5, HearsReadyIs
<1> HIDE DEF d
<1>7. \A i \in Indices : d.ready[i] = IF i \in R THEN 1 ELSE 0
  BY <1>2, <1>4, <1>5, <1>6
<1>8. /\ e \in Ears /\ e.halt = halt
      /\ e.Started = d.Started /\ e.Canceled = d.Canceled /\ e.Finished = d.Finished
      /\ e.ready = d.ready
  BY <1>3, <1>6, HearsHaltIs
<1> HIDE DEF e
<1>9. /\ r \in Ears /\ r.connected = TRUE /\ r.halt = halt /\ r.ready = d.ready
      /\ r.Started = b.Started /\ r.Canceled = b.Canceled /\ r.Finished = b.Finished
  BY <1>6, <1>8 DEF Ears
<1> HIDE DEF r
<1>10. InSync(r, state)
  <2>1. /\ state \cap Halted = {"Suspended"}  => r.halt = "suspended"
        /\ state \cap Halted = {"Suspending"} => r.halt = "suspending"
    BY <1>3, <1>9 DEF Halted
  <2> QED
    BY <1>5, <1>9, <2>1 DEF InSync
<1>11. ASSUME ~hasException PROVE Knows(r, store)
  <2>1. R = DOMAIN store.results
    BY <1>11 DEF R
  <2>2. \A i \in Indices : r.ready[i] = IF i \in DOMAIN store.results THEN 1 ELSE 0
    BY <1>7, <1>9, <2>1
  <2>3. ASSUME mode = "promise", NEW i \in Indices, i < store.resultCount
        PROVE  i \in DOMAIN store.results
    <3>1. Plain(store)
      BY <1>0, <2>3 DEF StoreInv
    <3>2. i \in 0..store.resultCount - 1
      BY <2>3, <3>1, FutureAssumption DEF Plain, GapAt, Indices
    <3> QED
      BY <3>1, <3>2 DEF Plain, GapAt
  <2> QED
    BY <2>2, <2>3 DEF Knows
<1> QED
  BY <1>1, <1>9, <1>10, <1>11, WatcherIInv DEF Connect


-----------------------------------------------------------------------------
(* The reports of results.                                                 *)

\* What is announced, the indices from b up to e, is what a report adds; for a
\* promise it is at least what the report makes gapless.
Adds(s, t, b, e) ==
  /\ Stands(s, t)
  /\ IF mode = "promise" THEN b # e /\ \A i \in s.resultCount..t.resultCount - 1 : i \in b..e - 1
     ELSE /\ DOMAIN t.results = DOMAIN s.results \cup (b..e - 1)
          /\ \A i \in b..e - 1 : i \notin DOMAIN s.results

\* The results stay where they are.
Kept == store' = store \/ Stands(store, store')

\* A report that is rejected.
LEMMA RejectedIInv ==
  ASSUME IInv, StoreInv', left' \subseteq Inputs, kept' \subseteq Inputs,
         UNCHANGED <<mode, phase, state, hasException, store, pc, at, awaits, told, suspends, thrown>>
  PROVE  IInv' /\ Kept
<1>0. Types /\ Course /\ StoreInv /\ NoLostWaiter /\ WatchersKnow
  BY Facts
<1>1. Heard
  BY NothingHeard
<1>2. WatchersKnow'
  BY <1>1, StillKnow
<1>3. NoLostWaiter'
  <2>1. \A c \in Waiters : at'[c] = "asleep" => ~Served(c)'
    BY <1>0, SameWaiters
  <2>2. \A w \in Workers : pc'[w] = "paused" => MustPause'
    BY <1>0 DEF NoLostWaiter, MustPause, On
  <2> QED
    BY <2>1, <2>2, NobodyLost
<1>4. Types'
  BY <1>0 DEF Types
<1>5. Course'
  BY <1>0 DEF Course, On, AllBusy
<1> QED
  BY <1>2, <1>3, <1>4, <1>5 DEF IInv, Kept

\* What the output interfaces were told still is what can be seen.
LEMMA ReadyKnown ==
  ASSUME NEW r \in Ears, NEW s, NEW t, NEW b \in Int, NEW e \in Int, Adds(s, t, b, e),
         s.resultCount \in Nat, t.resultCount \in Nat, Knows(r, s)
  PROVE  Knows(HearsReady(r, b..e - 1), t)
<1> DEFINE h == HearsReady(r, b..e - 1)
<1>1. \A i \in Indices : h.ready[i] = IF i \in b..e - 1 THEN Twice(r.ready[i]) ELSE r.ready[i]
  BY HearsReadyIs
<1> HIDE DEF h
<1>2. \A i \in Indices : r.ready[i] \in 0..2 /\ i \in Nat
  BY EarsAre, FutureAssumption DEF Indices
<1>3. CASE mode = "promise"
  <2> SUFFICES ASSUME NEW i \in Indices, i < t.resultCount PROVE h.ready[i] > 0
    BY <1>3 DEF Knows, h
  <2>1. CASE i < s.resultCount
    <3>1. r.ready[i] > 0
      BY <1>3, <2>1 DEF Knows
    <3> QED
      BY <1>1, <1>2, <3>1, TwiceIs
  <2>2. CASE ~(i < s.resultCount)
    <3>1. i \in s.resultCount..t.resultCount - 1
      BY <1>2, <2>2
    <3>2. i \in b..e - 1
      BY <1>3, <3>1 DEF Adds
    <3> QED
      BY <1>1, <1>2, <3>2, TwiceIs
  <2> QED
    BY <2>1, <2>2
<1>4. CASE mode # "promise"
  <2> SUFFICES ASSUME NEW i \in Indices
               PROVE  h.ready[i] = IF i \in DOMAIN t.results THEN 1 ELSE 0
    BY <1>4 DEF Knows, h
  <2>1. r.ready[i] = IF i \in DOMAIN s.results THEN 1 ELSE 0
    BY <1>4 DEF Knows
  <2>2. i \in DOMAIN t.results <=> i \in DOMAIN s.results \/ i \in b..e - 1
    BY <1>4 DEF Adds
  <2>3. i \in b..e - 1 => i \notin DOMAIN s.results
    BY <1>4 DEF Adds
  <2>4. CASE i \in b..e - 1
    <3>1. h.ready[i] = Twice(0)
      BY <1>1, <2>1, <2>3, <2>4
    <3> QED
      BY <2>2, <2>4, <3>1 DEF Twice
  <2>5. CASE i \notin b..e - 1
    BY <1>1, <2>1, <2>2, <2>5
  <2> QED
    BY <2>4, <2>5
<1> QED
  BY <1>3, <1>4

\* A report that is taken.
LEMMA ReportedIInv ==
  ASSUME IInv, StoreInv', left' \subseteq Inputs, kept' \subseteq Inputs, ~hasException,
         UNCHANGED <<mode, phase, state, hasException, pc, awaits, suspends, thrown>>,
         NEW b \in Int, NEW e \in Int, ReportResultsReady(b, e), Adds(store, store', b, e),
         store.resultCount \in Nat, store'.resultCount \in Nat
  PROVE  IInv' /\ Kept
<1>0. Types /\ Course /\ StoreInv /\ NoLostWaiter /\ WatchersKnow
  BY Facts
<1>3. Kept
  BY DEF Adds, Kept
<1>1. CASE b = e
  <2>1. at' = at /\ told' = told
    BY <1>1 DEF ReportResultsReady
  <2>2. b..e - 1 = {}
    BY <1>1
  <2>3. mode # "promise" /\ DOMAIN store'.results = DOMAIN store.results
    BY <1>1, <2>2 DEF Adds
  <2>4. Heard
    BY <2>1, NothingHeard
  <2>5. WatchersKnow'
    <3>1. WatcherInSync'
      BY <2>4, InSyncAgain, Zenon DEF Heard
    <3>2. ASSUME NEW o \in Watchers, told'[o].connected
          PROVE  Knows(told[o], store)'
      <4>1. Knows(told[o], store)
        BY <2>1, <3>2, EarsFacts
      <4> QED
        BY <2>1, <2>3, <4>1 DEF Knows
    <3>3. AnnouncedOnce'
      BY <3>2, KnowsAgain, Zenon
    <3> QED
      BY <3>1, <3>3 DEF WatchersKnow
  <2>6. NoLostWaiter'
    <3>1. \A c \in Waiters : at'[c] = "asleep" => ~Served(c)'
      BY <1>0, <2>1, <2>3, SleepOn
    <3>2. \A w \in Workers : pc'[w] = "paused" => MustPause'
      BY <1>0 DEF NoLostWaiter, MustPause, On
    <3> QED
      BY <3>1, <3>2, NobodyLost
  <2>7. Types'
    BY <1>0, <2>1 DEF Types
  <2>8. Course'
    BY <1>0, <2>1 DEF Course, On, AllBusy
  <2> QED
    BY <1>3, <2>5, <2>6, <2>7, <2>8 DEF IInv
<1>2. CASE b # e
  <2> DEFINE R == b..e - 1
  <2>1. WakeWaiters /\ TellReady(R)
    BY <1>2 DEF ReportResultsReady
  <2>2. \A o \in Watchers : told'[o] = IF told[o].connected THEN HearsReady(told[o], R) ELSE told[o]
    BY <2>1 DEF TellReady
  <2>3. told' \in [Watchers -> Ears]
    <3>1. \A o \in Watchers : told[o] \in Ears
      BY EarsFacts
    <3>2. \A o \in Watchers : HearsReady(told[o], R) \in Ears
      BY <3>1, HearsReadyIs
    <3> QED
      BY <2>1, <3>1, <3>2 DEF TellReady
  <2>4. ASSUME NEW o \in Watchers
        PROVE  /\ told'[o].connected => InSync(told'[o], state) /\ Knows(told'[o], store')
               /\ ~told'[o].connected => Deaf(told'[o])
    <3> DEFINE r == told[o]
               h == HearsReady(r, R)
    <3>1. CASE ~r.connected
      BY <2>2, <3>1, EarsFacts
    <3>2. CASE r.connected
      <4>1. r \in Ears /\ InSync(r, state) /\ Knows(r, store)
        BY <3>2, EarsFacts
      <4>2. told'[o] = h
        BY <2>2, <3>2
      <4> HIDE DEF r
      <4>3. /\ h.connected = r.connected /\ h.halt = r.halt
            /\ h.Started = r.Started /\ h.Canceled = r.Canceled /\ h.Finished = r.Finished
        BY <4>1, HearsReadyIs
      <4>4. Knows(h, store')
        BY <4>1, ReadyKnown
      <4> HIDE DEF h
      <4>5. InSync(h, state)
        BY <4>1, <4>3, Zenon DEF InSync
      <4>6. h.connected
        BY <3>2, <4>3
      <4> QED
        BY <4>2, <4>4, <4>5, <4>6
    <3> QED
      BY <3>1, <3>2
  <2>5. WatchersKnow'
    <3>1. \A o \in Watchers : told'[o].connected => InSync(told'[o], state')
      BY <2>4
    <3>2. WatcherInSync'
      BY <3>1, InSyncAgain, Zenon
    <3>3. ASSUME NEW o \in Watchers, told'[o].connected
          PROVE  Knows(told[o], store)'
      <4>1. Knows(told'[o], store') /\ mode' = mode
        BY <2>4, <3>3
      <4> QED
        BY <4>1, Zenon DEF Knows
    <3>4. AnnouncedOnce'
      BY <3>3, KnowsAgain, Zenon
    <3> QED
      BY <3>2, <3>4 DEF WatchersKnow
  <2>6. NoLostWaiter'
    <3>1. \A c \in Waiters : at'[c] # "asleep"
      BY <1>0, <2>1, AllAwake
    <3>2. \A w \in Workers : pc'[w] = "paused" => MustPause'
      BY <1>0 DEF NoLostWaiter, MustPause, On
    <3> QED
      BY <3>1, <3>2, NobodyLost
  <2>7. Types'
    BY <1>0, <2>1, <2>3, AllAwake DEF Types
  <2>8. Course'
    BY <1>0, <2>4 DEF Course, On, AllBusy
  <2> QED
    BY <1>3, <2>5, <2>6, <2>7, <2>8 DEF IInv
<1> QED
  BY <1>1, <1>2


\* A block without gaps is listed as it is.
LEMMA BlockListed ==
  ASSUME NEW index \in Nat, NEW n \in Nat \ {0}, index + n <= Count,
         NEW keep \in SUBSET Block(index, n), Cardinality(keep) = n
  PROVE  /\ keep = Block(index, n) /\ Ascending(keep) # <<>>
         /\ \A i \in 1..n : Ascending(keep)[i] = index + i - 1
<1> DEFINE B == Block(index, n)
           r == Ascending(keep)
           f == [i \in 1..n |-> index + i - 1]
<1>0. Count \in Nat
  BY FutureAssumption
<1>1. B = index..index + n - 1
  BY DEF Block
<1>2. IsFiniteSet(B) /\ Cardinality(B) = n
  <2>1. /\ IsFiniteSet(index..index + n - 1)
        /\ Cardinality(index..index + n - 1)
             = IF index > index + n - 1 THEN 0 ELSE (index + n - 1) - index + 1
    BY FS_Interval
  <2>2. ~(index > index + n - 1) /\ (index + n - 1) - index + 1 = n
    OBVIOUS
  <2> QED
    BY <1>1, <2>1, <2>2
<1> HIDE DEF B
<1>3. keep = B
  BY <1>2, FS_Subset DEF B
<1>4. keep \in SUBSET (0..Count - 1)
  BY <1>0, <1>1, <1>3
<1>5. r \in [1..n -> keep] /\ Lists(r, 1, n, keep)
  BY <1>0, <1>4, AscendingLists
<1> HIDE DEF r
<1>6. Lists(f, 1, n, keep)
  <2>1. \A i \in 1..n : f[i] = index + i - 1
    OBVIOUS
  <2> HIDE DEF f
  <2>2. \A i \in 1..n : f[i] \in keep
    BY <1>1, <1>3, <2>1
  <2>3. \A i, j \in 1..n : i < j => f[i] < f[j]
    BY <2>1
  <2>4. ASSUME NEW k \in keep PROVE \E i \in 1..n : f[i] = k
    <3>1. k - index + 1 \in 1..n
      BY <1>1, <1>3, <2>4
    <3>2. f[k - index + 1] = k
      BY <1>1, <1>3, <2>1, <3>1
    <3> QED
      BY <3>1, <3>2
  <2> QED
    BY <2>2, <2>3, <2>4 DEF Lists
<1>7. keep \in SUBSET Int /\ 1 - 1 <= n
  BY <1>0, <1>4
<1>8. \A i \in 1..n : r[i] = f[i]
  BY <1>5, <1>6, <1>7, ListsSame
<1>9. r # <<>>
  <2>1. 1 \in DOMAIN r
    BY <1>5
  <2> QED
    BY <2>1
<1> QED
  BY <1>3, <1>8, <1>9 DEF B, r

\* What PlainInsert says, for a list of results that keeps clear of the old ones.
LEMMA PlainAdds ==
  ASSUME mode # "filter", NEW s, Plain(s), NEW index, NEW x \in Nat, StoreIndex(s, index) = x,
         NEW n \in Nat \ {0}, x + n <= 2 * Count, NEW r, r # <<>>, \A i \in 1..n : r[i] \in Inputs,
         \A i \in Block(x, n) : i \notin DOMAIN s.results
  PROVE  LET t == AddResults(s, index, n, r)
         IN  /\ Plain(t) /\ Stands(s, t)
             /\ t.insertIndex = IF x + n > s.insertIndex THEN x + n ELSE s.insertIndex
             /\ DOMAIN t.results = DOMAIN s.results \cup Block(x, n)
             /\ \A i \in Block(x, n) : t.results[i] = r[i - x + 1]
<1> DEFINE t == AddResults(s, index, n, r)
<1>1. t = InsertItem(s, index, Item(n, r))
  BY DEF AddResults
<1> HIDE DEF t
<1>2. /\ Plain(t) /\ t.resultCount >= s.resultCount
      /\ t.insertIndex = IF x + n > s.insertIndex THEN x + n ELSE s.insertIndex
      /\ DOMAIN t.results = DOMAIN s.results \cup Block(x, n)
      /\ \A i \in DOMAIN s.results : i \notin Block(x, n) => t.results[i] = s.results[i]
      /\ \A i \in Block(x, n) : t.results[i] = r[i - x + 1]
  BY <1>1, PlainInsert
<1>3. Stands(s, t)
  BY <1>2 DEF Stands
<1> QED
  BY <1>2, <1>3 DEF t

\* A map inserts each block where it belongs.
LEMMA MapReports ==
  ASSUME mode = "map", NEW s, Plain(s), NEW L \in SUBSET Inputs,
         Mapped(s, L),
         NEW index \in L, NEW n \in Nat \ {0}, Block(index, n) \subseteq L,
         NEW keep \in SUBSET Block(index, n), Cardinality(keep) = n
  PROVE  LET t == AddResults(s, index, n, Ascending(keep))
         IN  /\ Plain(t) /\ Adds(s, t, index, index + n)
             /\ Mapped(t, L \ Block(index, n))
<1> DEFINE B == Block(index, n)
           r == Ascending(keep)
           t == AddResults(s, index, n, r)
<1>0. Count \in Nat /\ index \in Nat /\ index \in Int
  BY FutureAssumption DEF Inputs
<1>1. B = index..index + n - 1
  BY DEF Block
<1>2. index + n <= Count /\ index + n <= 2 * Count
  <2>1. index + n - 1 \in Inputs
    BY <1>0, <1>1
  <2> QED
    BY <1>0, <2>1 DEF Inputs
<1>3. keep = B /\ r # <<>> /\ \A i \in 1..n : r[i] = index + i - 1
  BY <1>0, <1>2, BlockListed
<1>4. \A i \in 1..n : r[i] \in Inputs
  BY <1>0, <1>2, <1>3 DEF Inputs
<1>5. \A i \in B : i \notin DOMAIN s.results
  BY DEF Mapped
<1>6. StoreIndex(s, index) = index
  BY <1>0 DEF StoreIndex
<1> HIDE DEF r
<1>7. /\ Plain(t) /\ Stands(s, t)
      /\ DOMAIN t.results = DOMAIN s.results \cup B
      /\ \A i \in B : t.results[i] = r[i - index + 1]
  <2> HIDE DEF t, B
  <2>1. mode # "filter"
    OBVIOUS
  <2> QED
    BY <1>0, <1>2, <1>3, <1>4, <1>5, <1>6, <2>1, PlainAdds DEF t, B
<1> HIDE DEF t
<1>8. DOMAIN t.results = Inputs \ (L \ B)
  BY <1>7 DEF Mapped
<1>9. ASSUME NEW i \in B PROVE t.results[i] = i
  <2>1. i - index + 1 \in 1..n /\ index + (i - index + 1) - 1 = i
    BY <1>0, <1>1
  <2>2. r[i - index + 1] = index + (i - index + 1) - 1
    BY <1>3, <2>1
  <2>3. t.results[i] = r[i - index + 1]
    BY <1>7
  <2> QED
    BY <2>1, <2>2, <2>3
<1>10. \A i \in DOMAIN s.results : t.results[i] = i
  BY <1>7 DEF Stands, Mapped
<1>11. \A i \in DOMAIN t.results : t.results[i] = i
  BY <1>7, <1>9, <1>10
<1>12. t.results = [i \in DOMAIN t.results |-> t.results[i]]
  BY <1>7 DEF Plain, IsStore, IsFun
<1>13. Mapped(t, L \ B)
  BY <1>8, <1>11, <1>12 DEF Mapped
<1>14. Adds(s, t, index, index + n)
  <2>1. B = index..(index + n) - 1
    BY <1>0, <1>1
  <2>2. mode # "promise"
    OBVIOUS
  <2> HIDE DEF B
  <2>0. Stands(s, t)
    BY <1>7
  <2>3. DOMAIN t.results = DOMAIN s.results \cup (index..(index + n) - 1)
    BY <1>7, <2>1
  <2>4. \A i \in index..(index + n) - 1 : i \notin DOMAIN s.results
    BY <1>5, <2>1
  <2> QED
    BY <2>0, <2>2, <2>3, <2>4 DEF Adds
<1> QED
  BY <1>7, <1>13, <1>14, Zenon DEF t, r, B


\* The gapless results grow only up to the ones that are added: those from the
\* first new one on are announced.
LEMMA GapGrows ==
  ASSUME NEW s, NEW t, Plain(s), Plain(t), NEW x \in Nat, NEW n \in Nat \ {0},
         DOMAIN t.results = DOMAIN s.results \cup Block(x, n), t.resultCount >= s.resultCount
  PROVE  /\ s.resultCount \in Nat /\ t.resultCount \in Nat
         /\ \A i \in s.resultCount..t.resultCount - 1 : s.resultCount \in Block(x, n)
         /\ t.resultCount \notin Block(x, n)
         /\ x \notin DOMAIN s.results => \A i \in s.resultCount..t.resultCount - 1 : x <= i
<1>1. s.resultCount \in Nat /\ t.resultCount \in Nat
  BY DEF Plain, IsStore
<1>2. t.resultCount \notin DOMAIN t.results /\ s.resultCount \notin DOMAIN s.results
  BY DEF Plain, GapAt
<1>3. ASSUME NEW i \in s.resultCount..t.resultCount - 1
      PROVE  s.resultCount \in Block(x, n)
  <2>1. s.resultCount \in 0..t.resultCount - 1
    BY <1>1
  <2>2. s.resultCount \in DOMAIN t.results
    BY <2>1 DEF Plain, GapAt
  <2> QED
    BY <1>2, <2>2
<1>4. \A i \in s.resultCount..t.resultCount - 1 : x <= i
  BY <1>1, <1>3 DEF Block
<1> QED
  BY <1>1, <1>2, <1>3, <1>4

\* A promise's result goes where nothing is, at a given index or behind the last.
LEMMA PromiseOne ==
  ASSUME mode = "promise", NEW s, Plain(s), NEW m \in 0..Count - 1, s.insertIndex <= Count + m,
         NEW index \in Inputs \cup {-1}, StoreIndex(s, index) \notin DOMAIN s.results
  PROVE  LET t == AddResults(s, index, 1, <<m>>)
         IN  /\ Plain(t) /\ Adds(s, t, StoreIndex(s, index), t.resultCount)
             /\ t.insertIndex <= Count + (m + 1)
             /\ StoreIndex(s, index) \in Nat
<1> DEFINE x == StoreIndex(s, index)
           t == AddResults(s, index, 1, <<m>>)
<1>0. Count \in Nat /\ m \in Nat /\ s.insertIndex \in Nat
  BY FutureAssumption DEF Plain, IsStore
<1>1. x \in Nat /\ x <= Count + m
  <2>1. CASE index = -1
    BY <1>0, <2>1 DEF StoreIndex
  <2>2. CASE index \in Inputs /\ index # -1
    <3>1. index \in Nat /\ index < Count
      BY <1>0, <2>2 DEF Inputs
    <3> QED
      BY <1>0, <2>2, <3>1 DEF StoreIndex
  <2> QED
    BY <2>1, <2>2
<1>2. x + 1 <= 2 * Count
  BY <1>0, <1>1
<1>3. <<m>> # <<>> /\ \A i \in 1..1 : <<m>>[i] \in Inputs
  BY <1>0 DEF Inputs
<1> HIDE DEF x
<1>4. Block(x, 1) = {x}
  BY <1>1 DEF Block
<1>5. /\ Plain(t) /\ Stands(s, t)
      /\ t.insertIndex = IF x + 1 > s.insertIndex THEN x + 1 ELSE s.insertIndex
      /\ DOMAIN t.results = DOMAIN s.results \cup Block(x, 1)
  <2>1. mode # "filter" /\ StoreIndex(s, index) = x /\ 1 \in Nat \ {0}
    BY DEF x
  <2>2. \A i \in Block(x, 1) : i \notin DOMAIN s.results
    BY <1>4 DEF x
  <2>3. \A q : q = <<m>> => LET v == AddResults(s, index, 1, q)
         IN  /\ Plain(v) /\ Stands(s, v)
             /\ v.insertIndex = IF x + 1 > s.insertIndex THEN x + 1 ELSE s.insertIndex
             /\ DOMAIN v.results = DOMAIN s.results \cup Block(x, 1)
    <3> TAKE q
    <3> HAVE q = <<m>>
    <3>1. q # <<>> /\ \A i \in 1..1 : q[i] \in Inputs
      BY <1>3
    <3> QED
      BY <1>1, <1>2, <2>1, <2>2, <3>1, PlainAdds
  <2> QED
    BY <2>3, Zenon
<1> HIDE DEF t
<1>6. t.insertIndex <= Count + (m + 1)
  BY <1>0, <1>1, <1>5
<1>7. Adds(s, t, x, t.resultCount)
  <2>1. /\ t.resultCount \notin Block(x, 1) /\ s.resultCount \in Nat /\ t.resultCount \in Nat
        /\ \A i \in s.resultCount..t.resultCount - 1 : x <= i
    BY <1>1, <1>5, GapGrows DEF Stands, x
  <2>2. x # t.resultCount
    BY <1>4, <2>1
  <2>3. \A i \in s.resultCount..t.resultCount - 1 : i \in x..t.resultCount - 1
    BY <1>1, <2>1
  <2> QED
    BY <1>5, <2>2, <2>3 DEF Adds
<1> QED
  BY <1>1, <1>5, <1>6, <1>7, Zenon DEF t, x

\* A list of results goes behind the last.
LEMMA AddsBehind ==
  ASSUME mode = "promise", NEW s, Plain(s), NEW n \in Nat \ {0}, s.insertIndex + n <= 2 * Count,
         NEW r, r # <<>>, \A i \in 1..n : r[i] \in Inputs
  PROVE  LET t == AddResults(s, -1, n, r)
         IN  /\ Plain(t) /\ Stands(s, t)
             /\ t.insertIndex = s.insertIndex + n
             /\ DOMAIN t.results = DOMAIN s.results \cup Block(s.insertIndex, n)
<1>0. Count \in Nat /\ s.insertIndex \in Nat
  BY FutureAssumption DEF Plain, IsStore
<1>1. \A i \in DOMAIN s.results : i \in Nat /\ i < s.insertIndex
  BY <1>0 DEF Plain
<1>2. \A i \in Block(s.insertIndex, n) : i \notin DOMAIN s.results
  BY <1>0, <1>1 DEF Block
<1>3. mode # "filter" /\ StoreIndex(s, -1) = s.insertIndex
  BY DEF StoreIndex
<1>4. \A y, x : StoreIndex(s, y) = x /\ x = s.insertIndex =>
        LET t == AddResults(s, y, n, r)
        IN  /\ Plain(t) /\ Stands(s, t)
            /\ t.insertIndex = IF x + n > s.insertIndex THEN x + n ELSE s.insertIndex
            /\ DOMAIN t.results = DOMAIN s.results \cup Block(x, n)
  <2> TAKE y, x
  <2> HAVE StoreIndex(s, y) = x /\ x = s.insertIndex
  <2>1. x \in Nat /\ x + n <= 2 * Count /\ \A i \in Block(x, n) : i \notin DOMAIN s.results
    BY <1>0, <1>2
  <2> QED
    BY <1>3, <2>1, PlainAdds
<1>5. s.insertIndex + n > s.insertIndex
  BY <1>0
<1> QED
  BY <1>3, <1>4, <1>5, Zenon

LEMMA PromiseList ==
  ASSUME mode = "promise", NEW s, Plain(s), NEW m \in Nat, s.insertIndex <= Count + m,
         NEW n \in Nat \ {0}, m + n <= Count, NEW q, q = [i \in 1..n |-> m + i - 1]
  PROVE  LET t == AddResults(s, -1, n, q)
         IN  /\ Plain(t) /\ Adds(s, t, s.insertIndex, s.insertIndex + n)
             /\ t.insertIndex <= Count + (m + n)
<1> DEFINE x == s.insertIndex
           t == AddResults(s, -1, n, q)
<1>0. Count \in Nat /\ x \in Nat
  BY FutureAssumption DEF Plain, IsStore
<1>1. StoreIndex(s, -1) = x
  BY DEF StoreIndex
<1>2. q # <<>> /\ \A i \in 1..n : q[i] \in Inputs
  <2>1. 1 \in DOMAIN q
    OBVIOUS
  <2>2. \A i \in 1..n : q[i] \in Inputs
    BY <1>0 DEF Inputs
  <2> QED
    BY <2>1, <2>2
<1>3. \A i \in DOMAIN s.results : i < x
  BY <1>0 DEF Plain
<1>5. /\ Plain(t) /\ Stands(s, t) /\ t.insertIndex = x + n
      /\ DOMAIN t.results = DOMAIN s.results \cup Block(x, n)
  <2>1. x + n <= 2 * Count
    BY <1>0
  <2> QED
    BY <1>2, <2>1, AddsBehind, Zenon
<1> HIDE DEF x
<1> HIDE DEF t
<1>6. t.insertIndex <= Count + (m + n)
  BY <1>0, <1>5 DEF x
<1>7. Adds(s, t, x, x + n)
  <2>1. /\ s.resultCount \in Nat /\ t.resultCount \in Nat
        /\ x \notin DOMAIN s.results => \A i \in s.resultCount..t.resultCount - 1 : x <= i
    BY <1>0, <1>5, GapGrows DEF Stands
  <2>2. x \notin DOMAIN s.results
    BY <1>0, <1>3
  <2>3. ASSUME NEW i \in s.resultCount..t.resultCount - 1 PROVE i \in x..(x + n) - 1
    <3>1. i \in 0..t.resultCount - 1 /\ x <= i
      BY <2>1, <2>2
    <3>2. i \in DOMAIN t.results
      BY <1>5, <3>1 DEF Plain, GapAt
    <3>3. i \in Block(x, n)
      BY <1>0, <1>3, <1>5, <3>1, <3>2
    <3>4. i \in x..x + n - 1
      BY <3>3, Zenon DEF Block
    <3>5. i \in Int /\ x <= i /\ i <= x + n - 1 /\ x + n - 1 = (x + n) - 1
      BY <1>0, <3>4
    <3> QED
      BY <1>0, <3>5
  <2>4. x # x + n
    BY <1>0
  <2> QED
    BY <1>5, <2>3, <2>4 DEF Adds
<1> QED
  BY <1>5, <1>6, <1>7, Zenon DEF t, x

\* A filter announces what its store lets out.
LEMMA FilterAdds ==
  ASSUME mode = "filter", NEW s, NEW t, NEW L, NEW K, NEW M, NEW J, Resting(s, L, K), Resting(t, M, J),
         Stands(s, t)
  PROVE  Adds(s, t, s.resultCount, t.resultCount) /\ s.resultCount \in Nat /\ t.resultCount \in Nat
<1>1. /\ DOMAIN s.results = 0..s.resultCount - 1 /\ DOMAIN t.results = 0..t.resultCount - 1
      /\ s.resultCount \in Nat /\ t.resultCount \in Nat
  BY DEF Resting, Filtered, IsStore
<1>2. t.resultCount >= s.resultCount
  BY DEF Stands
<1>3. DOMAIN t.results = DOMAIN s.results \cup (s.resultCount..t.resultCount - 1)
  BY <1>1, <1>2
<1>4. \A i \in s.resultCount..t.resultCount - 1 : i \notin DOMAIN s.results
  BY <1>1
<1> QED
  BY <1>1, <1>3, <1>4 DEF Adds


LEMMA ReportResultsIInv ==
  ASSUME IInv, NEW w \in Workers, ReportResults(w)
  PROVE  IInv' /\ Kept
<1>0. Types /\ Course /\ StoreInv
  BY Facts
<1>1. PICK index \in left, n \in 1..MaxBlock : \E keep \in SUBSET (index..index + n - 1) :
        /\ index..index + n - 1 \subseteq left
        /\ mode = "map" => Cardinality(keep) = n
        /\ KernelReports(index, n, keep)
  BY DEF ReportResults
<1>9. PICK keep \in SUBSET (index..index + n - 1) :
        /\ index..index + n - 1 \subseteq left
        /\ mode = "map" => Cardinality(keep) = n
        /\ KernelReports(index, n, keep)
  BY <1>1
<1>2. /\ mode # "promise" /\ mode \in {"map", "filter", "promise"}
      /\ UNCHANGED <<mode, phase, state, hasException, pc, awaits, suspends, thrown>>
  BY <1>0 DEF ReportResults, Types
<1>3. left \subseteq Inputs /\ kept \subseteq Inputs
  BY <1>0 DEF Types
<1> DEFINE r == Ascending(keep)
           s == AddResults(store, index, n, r)
           ready == Announced(index, n, s)
<1>4. CASE Over
  <2>1. UNCHANGED <<store, left, kept, at, told>>
    BY <1>9, <1>4 DEF KernelReports
  <2>2. StoreInv'
    BY <1>0, <1>2, <2>1, StoreStays
  <2> QED
    BY <1>2, <1>3, <2>1, <2>2, RejectedIInv
<1>5. CASE ~Over
  <2>1. /\ store' = s
        /\ left' = left \ (index..index + n - 1) /\ kept' = kept \cup keep
        /\ ReportResultsReady(ready[1], ready[2])
    BY <1>9, <1>5 DEF KernelReports
  <2>2. ~hasException
    BY <1>0, <1>5 DEF Course, Over
  <2>3. Block(index, n) = index..index + n - 1 /\ n \in Nat \ {0}
    BY FutureAssumption DEF Block
  <2>4. left' \subseteq Inputs /\ kept' \subseteq Inputs
    BY <1>9, <1>3, <2>1
  <2> HIDE DEF r
  <2>5. CASE mode = "map"
    <3>1. Plain(store) /\ Mapped(store, left)
      BY <1>0, <2>2, <2>5 DEF StoreInv, MapStore
    <3>2. /\ Plain(s) /\ Adds(store, s, index, index + n)
          /\ Mapped(s, left \ Block(index, n))
      <4>1. left \in SUBSET Inputs /\ n \in Nat \ {0} /\ Block(index, n) \subseteq left
            /\ keep \in SUBSET Block(index, n) /\ Cardinality(keep) = n
        BY <1>9, <1>3, <2>3, <2>5
      <4> QED
        BY <2>5, <3>1, <4>1, MapReports DEF r
    <3>3. ready = <<index, index + n>>
      BY <2>5 DEF Announced
    <3> HIDE DEF s, ready
    <3>4. ReportResultsReady(index, index + n)
      BY <2>1, <3>3
    <3>5. StoreInv'
      <4>1. Plain(store')
        BY <2>1, <3>2
      <4>2. MapStore'
        BY <2>1, <2>3, <3>2 DEF MapStore
      <4>3. mode' = "map" /\ mode' # "filter" /\ mode' # "promise"
        BY <1>2, <2>5
      <4> QED
        BY <4>1, <4>2, <4>3, Zenon DEF StoreInv
    <3>6. store.resultCount \in Nat /\ store'.resultCount \in Nat
      BY <2>1, <3>1, <3>2 DEF Plain, IsStore
    <3>7. index \in Int /\ index + n \in Int
      BY <1>3, <2>3, FutureAssumption DEF Inputs
    <3> QED
      BY <1>2, <2>1, <2>2, <2>4, <3>2, <3>4, <3>5, <3>6, <3>7, ReportedIInv
  <2>6. CASE mode = "filter"
    <3>1. Resting(store, left, kept)
      BY <1>0, <2>2, <2>6 DEF StoreInv
    <3>2. Resting(s, left \ Block(index, n), kept \cup keep) /\ Stands(store, s)
      BY <1>9, <2>3, <2>6, <3>1, FilterReports DEF r
    <3>3. ready = <<store.resultCount, s.resultCount>>
      BY <2>6 DEF Announced
    <3> HIDE DEF s, ready
    <3>4. ReportResultsReady(store.resultCount, store'.resultCount)
      BY <2>1, <3>3
    <3>5. StoreInv'
      <4>1. Resting(store', left', kept')
        BY <2>1, <2>3, <3>2
      <4>2. mode' = "filter" /\ mode' # "map" /\ mode' # "promise"
        BY <1>2, <2>6
      <4> QED
        BY <4>1, <4>2, Zenon DEF StoreInv
    <3>6. /\ Adds(store, store', store.resultCount, store'.resultCount)
          /\ store.resultCount \in Nat /\ store'.resultCount \in Nat
      BY <2>1, <2>6, <3>1, <3>2, FilterAdds
    <3>7. store.resultCount \in Int /\ store'.resultCount \in Int
      BY <3>6
    <3> QED
      BY <1>2, <2>2, <2>4, <3>4, <3>5, <3>6, <3>7, ReportedIInv
  <2> QED
    BY <1>2, <2>5, <2>6
<1> QED
  BY <1>4, <1>5

\* A promise has reported the first inputs.
LEMMA PromiseFacts ==
  ASSUME IInv, mode = "promise", left # {}
  PROVE  \E m \in 0..Count - 1 :
           /\ left = m..Count - 1 /\ Min(left) = m /\ store.insertIndex <= Count + m
           /\ Plain(store)
<1>0. Count \in Nat /\ StoreInv
  BY Facts, FutureAssumption
<1>1. PICK m \in 0..Count : left = m..Count - 1 /\ store.insertIndex <= Count + m
  BY <1>0 DEF StoreInv, PromiseStore
<1>2. m \in 0..Count - 1
  BY <1>0, <1>1
<1>3. Min(left) = m
  <2>1. left \in SUBSET Int /\ m \in left /\ \A x \in left : m <= x
    BY <1>0, <1>1, <1>2
  <2> QED
    BY <2>1, MinIs
<1>4. Plain(store)
  BY <1>0 DEF StoreInv
<1> QED
  BY <1>1, <1>2, <1>3, <1>4

\* The store of a promise after a report of the inputs from m up to k.
LEMMA PromiseGoesOn ==
  ASSUME mode' = "promise", Plain(store'), NEW m \in Nat, NEW k \in 0..Count,
         m <= k, left = m..Count - 1, left' = left \ (m..k - 1), store'.insertIndex <= Count + k
  PROVE  StoreInv'
<1>1. left' = k..Count - 1
  BY FutureAssumption
<1>2. PromiseStore'
  BY <1>1 DEF PromiseStore
<1>3. mode' # "map" /\ mode' # "filter"
  OBVIOUS
<1> QED
  BY <1>2, <1>3, Zenon DEF StoreInv

LEMMA EmplaceResultIInv ==
  ASSUME IInv, NEW w \in Workers, EmplaceResult(w)
  PROVE  IInv' /\ Kept
<1>0. Types /\ Course /\ StoreInv
  BY Facts
<1>1. /\ mode = "promise" /\ left # {} /\ left' = left \ {Min(left)}
      /\ UNCHANGED <<mode, phase, state, hasException, pc, awaits, suspends, thrown>>
  BY DEF EmplaceResult
<1>2. PICK m \in 0..Count - 1 :
        /\ left = m..Count - 1 /\ Min(left) = m /\ store.insertIndex <= Count + m
        /\ Plain(store)
  BY <1>1, PromiseFacts
<1>3. Count \in Nat /\ m \in Nat /\ store.insertIndex \in Nat /\ m \in Inputs
  BY <1>2, FutureAssumption DEF Plain, IsStore, Inputs
<1>4. PICK index \in Inputs \cup {-1} :
        LET s == AddResults(store, index, 1, <<m>>)
        IN  IF Over \/ ContainsValid(store, index) THEN UNCHANGED <<store, at, told, kept>>
            ELSE /\ store' = s /\ kept' = kept \cup {m}
                 /\ ReportResultsReady(StoreIndex(store, index), s.resultCount)
  BY <1>2 DEF EmplaceResult
<1>5. left' = left \ (m..(m + 1) - 1) /\ left' \subseteq Inputs
  <2>1. m..(m + 1) - 1 = {m}
    BY <1>3
  <2> QED
    BY <1>0, <1>1, <1>2, <2>1 DEF Types
<1>6. m + 1 \in 0..Count /\ m <= m + 1
  BY <1>3
<1>7. CASE Over \/ ContainsValid(store, index)
  <2>1. UNCHANGED <<store, at, told, kept>>
    BY <1>4, <1>7
  <2>2. store'.insertIndex <= Count + (m + 1)
    BY <1>2, <1>3, <2>1
  <2>3. StoreInv'
    BY <1>1, <1>2, <1>3, <1>5, <1>6, <2>1, <2>2, PromiseGoesOn
  <2>4. kept' \subseteq Inputs
    BY <1>0, <2>1 DEF Types
  <2> QED
    BY <1>1, <1>5, <2>1, <2>3, <2>4, RejectedIInv
<1>8. CASE ~(Over \/ ContainsValid(store, index))
  <2> DEFINE s == AddResults(store, index, 1, <<m>>)
             x == StoreIndex(store, index)
  <2>1. store' = s /\ kept' = kept \cup {m} /\ ReportResultsReady(x, s.resultCount)
    BY <1>4, <1>8
  <2>2. ~hasException
    BY <1>0, <1>8 DEF Course, Over
  <2>3. x \notin DOMAIN store.results
    <3>1. CASE index = -1
      <4>1. x = store.insertIndex
        BY <3>1 DEF StoreIndex
      <4>2. \A i \in DOMAIN store.results : i < store.insertIndex
        BY <1>2, <1>3 DEF Plain
      <4> QED
        BY <1>3, <4>1, <4>2
    <3>2. CASE index # -1
      <4>1. x = index
        BY <3>2 DEF StoreIndex
      <4>2. ~MustPend(store, index)
        BY <1>1 DEF MustPend
      <4> QED
        BY <1>8, <4>1, <4>2 DEF ContainsValid
    <3> QED
      BY <3>1, <3>2
  <2>4. /\ Plain(s) /\ Adds(store, s, x, s.resultCount) /\ s.insertIndex <= Count + (m + 1)
        /\ x \in Nat
    BY <1>1, <1>2, <2>3, PromiseOne, Zenon
  <2> HIDE DEF s, x
  <2>5. StoreInv'
    BY <1>1, <1>2, <1>3, <1>5, <1>6, <2>1, <2>4, PromiseGoesOn
  <2>6. kept' \subseteq Inputs
    BY <1>0, <1>3, <2>1 DEF Types
  <2>7. store.resultCount \in Nat /\ s.resultCount \in Nat
    BY <1>2, <2>4 DEF Plain, IsStore
  <2>8. x \in Int /\ store'.resultCount \in Int /\ store'.resultCount \in Nat
    BY <2>1, <2>4, <2>7
  <2>9. ReportResultsReady(x, store'.resultCount) /\ Adds(store, store', x, store'.resultCount)
    BY <2>1, <2>4
  <2> QED
    BY <1>1, <1>5, <2>2, <2>5, <2>6, <2>7, <2>8, <2>9, ReportedIInv
<1> QED
  BY <1>7, <1>8

LEMMA AddResultListIInv ==
  ASSUME IInv, NEW w \in Workers, AddResultList(w)
  PROVE  IInv' /\ Kept
<1>0. Types /\ Course /\ StoreInv
  BY Facts
<1>1. /\ mode = "promise" /\ left # {}
      /\ UNCHANGED <<mode, phase, state, hasException, pc, awaits, suspends, thrown>>
  BY DEF AddResultList
<1>2. PICK m \in 0..Count - 1 :
        /\ left = m..Count - 1 /\ Min(left) = m /\ store.insertIndex <= Count + m
        /\ Plain(store)
  BY <1>1, PromiseFacts
<1>3. Count \in Nat /\ m \in Nat /\ store.insertIndex \in Nat
  BY <1>2, FutureAssumption DEF Plain, IsStore
<1>4. PICK n \in 2..MaxBlock :
        LET list == [i \in 1..n |-> m + i - 1]
        IN  /\ m + n - 1 < Count
            /\ left' = left \ ToSet(list)
            /\ IF Over THEN UNCHANGED <<store, at, told, kept>>
               ELSE /\ store' = AddResults(store, -1, n, list)
                    /\ kept' = kept \cup ToSet(list)
                    /\ ReportResultsReady(store.insertIndex, store.insertIndex + n)
  BY <1>2 DEF AddResultList
<1> DEFINE list == [i \in 1..n |-> m + i - 1]
<1>5. n \in Nat \ {0} /\ m + n <= Count /\ m + n \in 0..Count /\ m <= m + n
  <2>1. n \in Int /\ n >= 2 /\ m + n - 1 < Count
    BY <1>4, FutureAssumption
  <2> QED
    BY <1>3, <2>1
<1>6. ToSet(list) = m..(m + n) - 1
  <2>1. ToSet(list) = {list[i] : i \in 1..n}
    BY DEF ToSet
  <2>2. \A i \in 1..n : m + i - 1 \in m..(m + n) - 1
    BY <1>3, <1>5
  <2>3. ASSUME NEW k \in m..(m + n) - 1 PROVE \E i \in 1..n : m + i - 1 = k
    <3>1. k - m + 1 \in 1..n /\ m + (k - m + 1) - 1 = k
      BY <1>3, <1>5
    <3> QED
      BY <3>1
  <2> QED
    BY <2>1, <2>2, <2>3
<1>7. list = [i \in 1..n |-> m + i - 1]
  OBVIOUS
<1> HIDE DEF list
<1>8. /\ left' = left \ ToSet(list)
      /\ IF Over THEN UNCHANGED <<store, at, told, kept>>
         ELSE /\ store' = AddResults(store, -1, n, list)
              /\ kept' = kept \cup ToSet(list)
              /\ ReportResultsReady(store.insertIndex, store.insertIndex + n)
  BY <1>4, Zenon DEF list
<1>9. left' = left \ (m..(m + n) - 1) /\ left' \subseteq Inputs
  BY <1>0, <1>6, <1>8 DEF Types
<1>10. CASE Over
  <2>1. UNCHANGED <<store, at, told, kept>>
    BY <1>8, <1>10
  <2>2. store'.insertIndex <= Count + (m + n)
    BY <1>2, <1>3, <1>5, <2>1
  <2>3. StoreInv'
    BY <1>1, <1>2, <1>3, <1>5, <1>9, <2>1, <2>2, PromiseGoesOn
  <2>4. kept' \subseteq Inputs
    BY <1>0, <2>1 DEF Types
  <2> QED
    BY <1>1, <1>9, <2>1, <2>3, <2>4, RejectedIInv
<1>11. CASE ~Over
  <2> DEFINE s == AddResults(store, -1, n, list)
             x == store.insertIndex
  <2>1. store' = s /\ kept' = kept \cup ToSet(list) /\ ReportResultsReady(x, x + n)
    BY <1>8, <1>11
  <2>2. ~hasException
    BY <1>0, <1>11 DEF Course, Over
  <2>3. Plain(s) /\ Adds(store, s, x, x + n) /\ s.insertIndex <= Count + (m + n)
    BY <1>1, <1>2, <1>3, <1>5, <1>7, PromiseList, Zenon
  <2> HIDE DEF s
  <2>4. StoreInv'
    BY <1>1, <1>2, <1>3, <1>5, <1>9, <2>1, <2>3, PromiseGoesOn
  <2>5. kept' \subseteq Inputs
    <3>1. ToSet(list) \subseteq Inputs
      BY <1>3, <1>5, <1>6 DEF Inputs
    <3> QED
      BY <1>0, <2>1, <3>1 DEF Types
  <2>6. store.resultCount \in Nat /\ store'.resultCount \in Nat
    BY <1>2, <2>1, <2>3 DEF Plain, IsStore
  <2>7. x \in Int /\ x + n \in Int
    BY <1>3, <1>5
  <2>8. Adds(store, store', x, x + n)
    BY <2>1, <2>3
  <2> HIDE DEF x
  <2> QED
    BY <1>1, <1>9, <2>1, <2>2, <2>4, <2>5, <2>6, <2>7, <2>8, ReportedIInv
<1> QED
  BY <1>10, <1>11


-----------------------------------------------------------------------------
(* Every step keeps the invariant.                                         *)

LEMMA ReporterIInv ==
  ASSUME IInv, Reporter
  PROVE  IInv'
<1>1. CASE ReportStarted
  BY <1>1, ReportStartedIInv
<1>2. CASE ReportFinished
  BY <1>2, ReportFinishedIInv
<1>3. CASE Destroy
  BY <1>3, DestroyIInv
<1>4. CASE ReportSuspended
  BY <1>4, ReportSuspendedIInv
<1>5. ASSUME NEW w \in Workers, ReportResults(w) PROVE IInv'
  BY <1>5, ReportResultsIInv
<1>6. ASSUME NEW w \in Workers, EmplaceResult(w) PROVE IInv'
  BY <1>6, EmplaceResultIInv
<1>7. ASSUME NEW w \in Workers, AddResultList(w) PROVE IInv'
  BY <1>7, AddResultListIInv
<1>8. ASSUME NEW w \in Workers, ClearResults(w) PROVE IInv'
  BY <1>8, ClearResultsIInv
<1>9. ASSUME NEW w \in Workers, ReportException(w) PROVE IInv'
  BY <1>9, ReportExceptionIInv
<1>10. ASSUME NEW w \in Workers, WaitForResume(w) \/ GoOn(w) \/ SpuriousResume(w) PROVE IInv'
  BY <1>10, WorkerStepsIInv
<1>11. ASSUME NEW w \in Workers, SuspendIfRequested(w) PROVE IInv'
  BY <1>11, SuspendIfRequestedIInv
<1> QED
  BY <1>1, <1>2, <1>3, <1>4, <1>5, <1>6, <1>7, <1>8, <1>9, <1>10, <1>11 DEF Reporter

LEMMA ClientIInv ==
  ASSUME IInv, Client
  PROVE  IInv'
<1>1. CASE Suspend
  BY <1>1, SuspendIInv
<1>2. CASE Resume
  BY <1>2, ResumeIInv
<1>3. CASE Cancel
  BY <1>3, CancelIInv
<1>4. ASSUME NEW c \in Waiters, CallWait(c) \/ Look(c) \/ Wait(c) \/ SpuriousWake(c) PROVE IInv'
  BY <1>4, WaiterStepsIInv
<1>5. ASSUME NEW o \in Watchers, Connect(o) PROVE IInv'
  BY <1>5, ConnectIInv
<1>6. ASSUME NEW o \in Watchers, Disconnect(o) PROVE IInv'
  BY <1>6, DisconnectIInv
<1> QED
  BY <1>1, <1>2, <1>3, <1>4, <1>5, <1>6 DEF Client

LEMMA StutterIInv ==
  ASSUME IInv, UNCHANGED vars
  PROVE  IInv'
<1>1. UNCHANGED <<mode, phase, state, hasException, store, left, kept, pc, at, awaits, told, suspends, thrown>>
  BY DEF vars, work, calls
<1>2. StoreInv'
  BY <1>1, Facts, StoreStays
<1>3. left' \subseteq Inputs /\ kept' \subseteq Inputs
  BY <1>1, Facts DEF Types
<1> QED
  BY <1>1, <1>2, <1>3, RejectedIInv

\* Whatever the workers, the waiters, the watchers and the client do, and in
\* whatever order, the strengthened invariant holds: the types, the course of
\* the state bits, a store that is sound for the one who reports, nobody
\* asleep or paused without a reason and watchers that were told all.
THEOREM Invariance ==
  Spec => []IInv
<1>1. Init => IInv
  BY InitIInv
<1>2. IInv /\ [Next]_vars => IInv'
  BY ReporterIInv, ClientIInv, StutterIInv DEF Next
<1> QED
  BY <1>1, <1>2, PTL DEF Spec

\* Nobody sleeps in waitForResult() or waitForFinished() for what is there, and
\* a worker is paused only while the future is suspended: for any number of
\* threads, every change in qfutureinterface.cpp wakes those it concerns.
THEOREM NobodySleepsOn ==
  Spec => []NoLostWaiter
<1>1. IInv => NoLostWaiter
  BY DEF IInv
<1> QED
  BY <1>1, Invariance, PTL

\* An output interface was told once of all that has happened, of each result of
\* a kernel once and of those of a promise at least once up to the first gap,
\* whenever connectOutputInterface() was called.
THEOREM WatchersInformed ==
  Spec => []WatchersKnow
<1>1. IInv => WatchersKnow
  BY DEF IInv
<1> QED
  BY <1>1, Invariance, PTL

-----------------------------------------------------------------------------
(* The store is sound.                                                     *)

LEMMA PlainTypes ==
  ASSUME NEW s, Plain(s)
  PROVE  /\ DOMAIN s.results \subseteq Indices
         /\ \A i \in DOMAIN s.results : s.results[i] \in Inputs
         /\ DOMAIN s.pending \subseteq Inputs
         /\ s.insertIndex \in 0..2 * Count /\ s.resultCount \in 0..2 * Count
         /\ s.filteredResults \in 0..Count
<1>0. Count \in Nat /\ s.insertIndex \in Nat /\ s.insertIndex <= 2 * Count
  BY FutureAssumption DEF Plain, IsStore
<1>1. \A i \in DOMAIN s.results : i \in 0..s.insertIndex - 1 /\ s.results[i] \in Inputs
  BY DEF Plain
<1>2. DOMAIN s.results \subseteq Indices
  BY <1>0, <1>1 DEF Indices
<1>3. s.pending = <<>> /\ s.filteredResults = 0 /\ s.resultCount \in 0..2 * Count
  BY DEF Plain, GapAt
<1>4. DOMAIN s.pending \subseteq Inputs
  BY <1>3
<1> QED
  BY <1>0, <1>1, <1>2, <1>3, <1>4

\* What is known of the store of a filter between two reports.
LEMMA RestingFacts ==
  ASSUME NEW s, NEW L, NEW K, Resting(s, L, K)
  PROVE  /\ s.resultCount \in Nat /\ s.filteredResults \in Nat /\ s.insertIndex \in Nat
         /\ s.insertIndex <= Turn(s) /\ Turn(s) \in 0..Count
         /\ Turn(s) = s.resultCount + s.filteredResults
         /\ s.results = [i \in DOMAIN s.results |-> s.results[i]]
         /\ DOMAIN s.results = 0..s.resultCount - 1
         /\ Lists(s.results, 0, s.resultCount - 1, K \cap (0..Turn(s) - 1))
         /\ Tiled(s.pending, Turn(s), L) /\ Turn(s) \notin DOMAIN s.pending
         /\ K \in SUBSET Inputs
<1>1. Filtered(s, L, K, Turn(s)) /\ IsStore(s)
  BY DEF Resting, Filtered
<1>2. Turn(s) \in 0..Count
  BY <1>1, Zenon DEF Filtered, Tiled
<1>3. Turn(s) = s.resultCount + s.filteredResults
  BY DEF Turn
<1>4. s.resultCount \in Nat /\ s.filteredResults \in Nat /\ s.insertIndex \in Nat
  BY <1>1 DEF IsStore
<1>5. s.results = [i \in DOMAIN s.results |-> s.results[i]]
  BY <1>1 DEF IsStore, IsFun
<1>6. /\ DOMAIN s.results = 0..s.resultCount - 1
      /\ Lists(s.results, 0, s.resultCount - 1, K \cap (0..Turn(s) - 1))
      /\ Tiled(s.pending, Turn(s), L)
  BY <1>1, Zenon DEF Filtered
<1>7. s.insertIndex <= Turn(s) /\ Turn(s) \notin DOMAIN s.pending /\ K \in SUBSET Inputs
  BY DEF Resting
<1> QED
  BY <1>2, <1>3, <1>4, <1>5, <1>6, <1>7

LEMMA RestingTypes ==
  ASSUME NEW s, NEW L, NEW K, Resting(s, L, K)
  PROVE  /\ DOMAIN s.results \subseteq Indices
         /\ \A i \in DOMAIN s.results : s.results[i] \in Inputs
         /\ DOMAIN s.pending \subseteq Inputs
         /\ s.insertIndex \in 0..2 * Count /\ s.resultCount \in 0..2 * Count
         /\ s.filteredResults \in 0..Count
<1> DEFINE e == Turn(s)
<1>0. /\ Count \in Nat /\ s.resultCount \in Nat /\ s.filteredResults \in Nat /\ s.insertIndex \in Nat
      /\ s.insertIndex <= e /\ e \in 0..Count /\ e = s.resultCount + s.filteredResults
      /\ DOMAIN s.results = 0..s.resultCount - 1
      /\ Lists(s.results, 0, s.resultCount - 1, K \cap (0..e - 1))
      /\ Tiled(s.pending, e, L) /\ K \in SUBSET Inputs
  BY RestingFacts, FutureAssumption
<1> HIDE DEF e
<1>1. DOMAIN s.results \subseteq Indices
  BY <1>0 DEF Indices
<1>2. \A i \in DOMAIN s.results : s.results[i] \in Inputs
  BY <1>0 DEF Lists
<1>3. DOMAIN s.pending \subseteq Inputs
  BY <1>0, TilesFinite
<1>4. /\ s.insertIndex \in 0..2 * Count /\ s.resultCount \in 0..2 * Count
      /\ s.filteredResults \in 0..Count
  BY <1>0
<1> QED
  BY <1>1, <1>2, <1>3, <1>4

LEMMA StoreTypes ==
  IInv => TypeOK
<1> SUFFICES ASSUME IInv PROVE TypeOK
  OBVIOUS
<1>1. Types /\ Course /\ StoreInv
  BY Facts
<1>2. Plain(store) \/ Resting(store, left, kept)
  BY <1>1, EmptyPlain DEF StoreInv, Course
<1>3. /\ DOMAIN store.results \subseteq Indices
      /\ \A i \in DOMAIN store.results : store.results[i] \in Inputs
      /\ DOMAIN store.pending \subseteq Inputs
      /\ store.insertIndex \in 0..2 * Count /\ store.resultCount \in 0..2 * Count
      /\ store.filteredResults \in 0..Count
  BY <1>2, PlainTypes, RestingTypes
<1> QED
  BY <1>1, <1>3 DEF Types, TypeOK


LEMMA FirstGapIs ==
  ASSUME store.resultCount \in 0..2 * Count, store.resultCount \notin DOMAIN store.results,
         \A i \in 0..store.resultCount - 1 : i \in DOMAIN store.results
  PROVE  store.resultCount = FirstGap
<1> DEFINE S == {i \in 0..2 * Count : i \notin DOMAIN store.results}
           c == store.resultCount
<1>0. Count \in Nat
  BY FutureAssumption
<1>1. S \in SUBSET Int /\ c \in S
  BY <1>0
<1>2. ASSUME NEW x \in S PROVE c <= x
  <2>1. x \in Nat /\ c \in Nat /\ x \notin 0..c - 1
    BY <1>0, <1>2
  <2> QED
    BY <2>1
<1> HIDE DEF S, c
<1>3. Min(S) = c
  BY <1>1, <1>2, MinIs
<1> QED
  BY <1>3 DEF FirstGap, S, c

\* A filter's turn is the first input that is still out.
LEMMA TurnIsGapless ==
  ASSUME NEW s, Resting(s, left, kept)
  PROVE  Gapless = Turn(s)
<1> DEFINE e == Turn(s)
           S == left \cup {Count}
<1>0. Count \in Nat /\ e \in 0..Count /\ Tiled(s.pending, e, left) /\ e \notin DOMAIN s.pending
  BY RestingFacts, FutureAssumption
<1> HIDE DEF e
<1>1. \A i \in left : i \in Int /\ e <= i
  BY <1>0 DEF Tiled, Inputs
<1>2. e \in S
  <2> SUFFICES ASSUME e # Count, e \notin left PROVE FALSE
    OBVIOUS
  <2>1. e \in e..Count - 1
    BY <1>0
  <2>2. PICK k \in DOMAIN s.pending : e \in Span(s.pending, k)
    BY <1>0, <2>1 DEF Tiled
  <2>3. k \in Nat /\ k >= e
    BY <1>0 DEF Tiled
  <2>4. k <= e
    BY <2>2, <2>3 DEF Span
  <2> QED
    BY <1>0, <2>3, <2>4
<1>3. S \in SUBSET Int /\ \A x \in S : e <= x
  BY <1>0, <1>1
<1> HIDE DEF S
<1>4. Min(S) = e
  BY <1>2, <1>3, MinIs
<1> QED
  BY <1>4 DEF Gapless, S, e

\* A list that starts at 0, from 1 on.
LEMMA ShiftLists ==
  ASSUME NEW f, NEW n \in Nat, NEW K, Lists(f, 0, n - 1, K)
  PROVE  Lists([i \in 1..n |-> f[i - 1]], 1, n, K)
<1> DEFINE g == [i \in 1..n |-> f[i - 1]]
<1>0. \A i \in 1..n : g[i] = f[i - 1] /\ i - 1 \in 0..n - 1
  OBVIOUS
<1> HIDE DEF g
<1>1. \A i \in 1..n : g[i] \in K
  BY <1>0 DEF Lists
<1>2. \A i, j \in 1..n : i < j => g[i] < g[j]
  BY <1>0 DEF Lists
<1>3. ASSUME NEW k \in K PROVE \E i \in 1..n : g[i] = k
  <2>1. PICK i \in 0..n - 1 : f[i] = k
    BY DEF Lists
  <2>2. i + 1 \in 1..n /\ (i + 1) - 1 = i
    OBVIOUS
  <2> QED
    BY <1>0, <2>1, <2>2
<1>4. Lists(g, 1, n, K)
  BY <1>1, <1>2, <1>3 DEF Lists
<1> QED
  BY <1>4 DEF g

LEMMA FilterInOrder ==
  ASSUME Resting(store, left, kept)
  PROVE  LET out == Ascending(kept \cap 0..Gapless - 1)
         IN  /\ store.results = [i \in 0..Len(out) - 1 |-> out[i + 1]]
             /\ store.filteredResults = Gapless - Len(out)
             /\ \A i \in DOMAIN store.pending : i > Gapless
<1> DEFINE e == Gapless
           S == kept \cap (0..e - 1)
           out == Ascending(S)
           c == Cardinality(S)
           n == store.resultCount
           f == store.results
           g == [i \in 1..n |-> f[i - 1]]
<1>0. /\ Count \in Nat /\ n \in Nat /\ store.filteredResults \in Nat
      /\ e \in 0..Count /\ e = n + store.filteredResults
      /\ f = [i \in DOMAIN f |-> f[i]] /\ DOMAIN f = 0..n - 1
      /\ Lists(f, 0, n - 1, S) /\ Tiled(store.pending, e, left) /\ e \notin DOMAIN store.pending
      /\ kept \in SUBSET Inputs
  <2>1. e = Turn(store) /\ Count \in Nat
    BY TurnIsGapless, FutureAssumption
  <2>2. /\ n \in Nat /\ store.filteredResults \in Nat
        /\ Turn(store) \in 0..Count /\ Turn(store) = n + store.filteredResults
        /\ f = [i \in DOMAIN f |-> f[i]] /\ DOMAIN f = 0..n - 1
        /\ Lists(f, 0, n - 1, kept \cap (0..Turn(store) - 1))
        /\ Tiled(store.pending, Turn(store), left) /\ Turn(store) \notin DOMAIN store.pending
        /\ kept \in SUBSET Inputs
    BY RestingFacts, Zenon
  <2> HIDE DEF e, n, f
  <2> QED
    BY <2>1, <2>2
<1> HIDE DEF e, n, f
<1>1. S \in SUBSET (0..Count - 1) /\ S \in SUBSET Int
  BY <1>0 DEF Inputs
<1> HIDE DEF S
<1>2. c \in Nat /\ out \in [1..c -> S] /\ Lists(out, 1, c, S)
  BY <1>0, <1>1, AscendingLists
<1> HIDE DEF c, out
<1>3. Lists(g, 1, n, S)
  BY <1>0, ShiftLists
<1>4. \A i \in 1..n : g[i] = f[i - 1]
  OBVIOUS
<1> HIDE DEF g
<1>5. n = c /\ \A i \in 1..n : g[i] = out[i]
  <2>1. 1 - 1 <= n /\ 1 - 1 <= c /\ n \in Int /\ c \in Int
    BY <1>0, <1>2
  <2> QED
    BY <1>1, <1>2, <1>3, <2>1, ListsSame
<1>6. Len(out) = n
  <2>1. out \in Seq(S) /\ DOMAIN out = 1..n
    BY <1>2, <1>5
  <2> QED
    BY <1>0, <2>1
<1>7. ASSUME NEW i \in 0..n - 1 PROVE f[i] = out[i + 1]
  <2>1. i + 1 \in 1..n /\ (i + 1) - 1 = i
    BY <1>0
  <2> QED
    BY <1>4, <1>5, <2>1
<1>8. f = [i \in 0..n - 1 |-> out[i + 1]]
  BY <1>0, <1>7
<1>9. store.filteredResults = e - n
  BY <1>0
<1>10. ASSUME NEW i \in DOMAIN store.pending PROVE i > e
  <2>1. i \in Nat /\ i >= e /\ i # e
    BY <1>0 DEF Tiled
  <2> QED
    BY <1>0, <2>1
<1>11. /\ f = [i \in 0..Len(out) - 1 |-> out[i + 1]] /\ store.filteredResults = e - Len(out)
       /\ \A i \in DOMAIN store.pending : i > e
  BY <1>6, <1>8, <1>9, <1>10
<1> QED
  BY <1>11, Zenon DEF out, S, e, f

LEMMA StoreOrder ==
  IInv => ResultsInOrder
<1> SUFFICES ASSUME IInv, ~hasException PROVE ResultsInOrder
  BY DEF ResultsInOrder
<1>1. StoreInv
  BY Facts
<1>2. CASE mode # "filter"
  <2>1. Plain(store)
    BY <1>1, <1>2 DEF StoreInv
  <2>2. store.resultCount = FirstGap
    BY <2>1, FirstGapIs DEF Plain, GapAt
  <2>3. mode = "map" => store.results = [i \in Inputs \ left |-> i]
    BY <1>1 DEF StoreInv, MapStore, Mapped
  <2> QED
    BY <1>2, <2>2, <2>3, Zenon DEF ResultsInOrder
<1>3. CASE mode = "filter"
  <2>1. Resting(store, left, kept)
    BY <1>1, <1>3 DEF StoreInv
  <2>2. store.resultCount = FirstGap
    <3>1. /\ store.resultCount \in Nat /\ DOMAIN store.results = 0..store.resultCount - 1
          /\ store.resultCount <= Count
      <4>1. /\ store.resultCount \in Nat /\ DOMAIN store.results = 0..store.resultCount - 1
            /\ Turn(store) \in 0..Count /\ store.filteredResults \in Nat
            /\ Turn(store) = store.resultCount + store.filteredResults
        BY <2>1, RestingFacts
      <4> QED
        BY <4>1, FutureAssumption
    <3>2. /\ store.resultCount \in 0..2 * Count /\ store.resultCount \notin DOMAIN store.results
          /\ \A i \in 0..store.resultCount - 1 : i \in DOMAIN store.results
      BY <3>1, FutureAssumption
    <3> QED
      BY <3>2, FirstGapIs
  <2>3. LET out == Ascending(kept \cap 0..Gapless - 1)
        IN  /\ store.results = [i \in 0..Len(out) - 1 |-> out[i + 1]]
            /\ store.filteredResults = Gapless - Len(out)
            /\ \A i \in DOMAIN store.pending : i > Gapless
    BY <2>1, FilterInOrder
  <2>4. mode # "map"
    BY <1>3
  <2> QED
    BY <2>2, <2>3, <2>4, Zenon DEF ResultsInOrder
<1> QED
  BY <1>2, <1>3

\* The result store is sound: for a map every reported result is at its index; a
\* filter's store holds exactly what was kept of the input up to the first block
\* still out, in the order of the input and without gaps, whatever order the
\* threads report in; and nothing leaves the indices a report can reach.
THEOREM SoundStore ==
  Spec => []StoreSane
<1>1. IInv => StoreSane
  BY StoreTypes, StoreOrder DEF StoreSane
<1> QED
  BY <1>1, Invariance, PTL


-----------------------------------------------------------------------------
(* What a step may never do.                                               *)

\* Only the three reports add to the store, and only an exception empties it.
LEMMA StepKeeps ==
  ASSUME IInv, [Next]_vars
  PROVE  store' = EmptyStore \/ Kept
<1>1. CASE UNCHANGED vars
  BY <1>1 DEF vars, Kept
<1>2. CASE Client
  BY <1>2 DEF Client, Suspend, Resume, Cancel, CallWait, Look, Wait, SpuriousWake, Connect, Disconnect,
       Kept
<1>3. CASE Reporter
  <2>1. CASE ReportStarted \/ ReportFinished \/ Destroy \/ ReportSuspended
    BY <2>1 DEF ReportStarted, ReportFinished, Destroy, ReportSuspended, Kept
  <2>2. ASSUME NEW w \in Workers, ReportResults(w) PROVE Kept
    BY <2>2, ReportResultsIInv
  <2>3. ASSUME NEW w \in Workers, EmplaceResult(w) PROVE Kept
    BY <2>3, EmplaceResultIInv
  <2>4. ASSUME NEW w \in Workers, AddResultList(w) PROVE Kept
    BY <2>4, AddResultListIInv
  <2>5. ASSUME NEW w \in Workers, ClearResults(w) PROVE store' = EmptyStore
    BY <2>5 DEF ClearResults
  <2>6. ASSUME NEW w \in Workers, ReportException(w) PROVE store' = EmptyStore \/ Kept
    BY <2>6 DEF ReportException, Kept
  <2>7. ASSUME NEW w \in Workers, WaitForResume(w) \/ SuspendIfRequested(w) \/ GoOn(w) \/ SpuriousResume(w)
        PROVE  Kept
    BY <2>7 DEF WaitForResume, SuspendIfRequested, GoOn, SpuriousResume, Kept
  <2> QED
    BY <1>3, <2>1, <2>2, <2>3, <2>4, <2>5, <2>6, <2>7 DEF Reporter
<1> QED
  BY <1>1, <1>2, <1>3 DEF Next

\* A result that can be seen is not replaced or taken away but by an exception:
\* a report merges what it brings behind or beside what is there, and what is
\* held back goes in behind it.
THEOREM ResultsNeverChange ==
  Spec => ResultsStand
<1>1. ASSUME IInv, [Next]_vars
      PROVE  [\/ store' = EmptyStore
              \/ \A i \in DOMAIN store.results :
                   i \in DOMAIN store'.results /\ store'.results[i] = store.results[i]]_vars
  <2>1. store' = EmptyStore \/ store' = store \/ Stands(store, store')
    BY <1>1, StepKeeps DEF Kept
  <2>2. CASE store' = store
    BY <2>2
  <2>3. CASE Stands(store, store')
    BY <2>3 DEF Stands
  <2> QED
    BY <2>1, <2>2, <2>3
<1> QED
  BY <1>1, Invariance, PTL DEF Spec, ResultsStand

\* Who heard of the cancellation or of the end: it has happened.
LEMMA HeardIsOver ==
  ASSUME IInv, NEW o \in Watchers, told[o].connected, told[o].Canceled + told[o].Finished > 0
  PROVE  Over
<1>1. InSync(told[o], state)
  BY EarsFacts
<1> QED
  BY <1>1 DEF InSync, Over, On

\* Quiet: no results are told to the one at o.
Quiet(o) == told'[o].connected /\ told[o].connected => told'[o].ready = told[o].ready

LEMMA TellQuiet ==
  ASSUME IInv, NEW bits, Tell(bits), NEW o \in Watchers
  PROVE  Quiet(o)
<1>1. told[o] \in Ears
  BY EarsFacts
<1>2. Hears(told[o], bits).ready = told[o].ready
  BY <1>1, HearsIs
<1> QED
  BY <1>2 DEF Tell, Quiet

LEMMA HaltQuiet ==
  ASSUME IInv, NEW what \in {"none", "suspending", "suspended"}, TellHalt(what), NEW o \in Watchers
  PROVE  Quiet(o)
<1>1. told[o] \in Ears
  BY EarsFacts
<1>2. HearsHalt(told[o], what).ready = told[o].ready
  BY <1>1, HearsHaltIs
<1> QED
  BY <1>2 DEF TellHalt, Quiet

LEMMA ReporterQuiet ==
  ASSUME IInv, Reporter, Over, NEW o \in Watchers
  PROVE  Quiet(o)
<1>0. told' = told => Quiet(o)
  BY DEF Quiet
<1>1. CASE ReportStarted
  BY <1>0, <1>1, TellQuiet DEF ReportStarted
<1>2. CASE ReportFinished
  BY <1>2, TellQuiet DEF ReportFinished
<1>3. CASE Destroy
  BY <1>3, TellQuiet DEF Destroy
<1>4. CASE ReportSuspended
  BY <1>4, HaltQuiet DEF ReportSuspended
<1>5. ASSUME NEW w \in Workers, ReportResults(w) PROVE Quiet(o)
  <2>1. told' = told
    BY <1>5 DEF ReportResults, KernelReports
  <2> QED
    BY <1>0, <2>1
<1>6. ASSUME NEW w \in Workers, EmplaceResult(w) PROVE Quiet(o)
  BY <1>0, <1>6 DEF EmplaceResult
<1>7. ASSUME NEW w \in Workers, AddResultList(w) PROVE Quiet(o)
  BY <1>0, <1>7 DEF AddResultList
<1>8. ASSUME NEW w \in Workers, ClearResults(w) PROVE Quiet(o)
  BY <1>0, <1>8 DEF ClearResults
<1>9. ASSUME NEW w \in Workers, ReportException(w) PROVE Quiet(o)
  BY <1>0, <1>9 DEF ReportException
<1>10. ASSUME NEW w \in Workers, WaitForResume(w) \/ GoOn(w) \/ SpuriousResume(w) PROVE Quiet(o)
  BY <1>0, <1>10 DEF WaitForResume, GoOn, SpuriousResume
<1>11. ASSUME NEW w \in Workers, SuspendIfRequested(w) PROVE Quiet(o)
  BY <1>0, <1>11, HaltQuiet DEF SuspendIfRequested
<1> QED
  BY <1>1, <1>2, <1>3, <1>4, <1>5, <1>6, <1>7, <1>8, <1>9, <1>10, <1>11 DEF Reporter

LEMMA ClientQuiet ==
  ASSUME IInv, Client, NEW o \in Watchers
  PROVE  Quiet(o)
<1>0. told' = told => Quiet(o)
  BY DEF Quiet
<1>1. CASE Suspend
  BY <1>1, HaltQuiet DEF Suspend
<1>2. CASE Resume
  BY <1>2, HaltQuiet DEF Resume
<1>3. CASE Cancel
  BY <1>3, TellQuiet DEF Cancel
<1>4. ASSUME NEW c \in Waiters, CallWait(c) \/ Look(c) \/ Wait(c) \/ SpuriousWake(c) PROVE Quiet(o)
  BY <1>0, <1>4 DEF CallWait, Look, Wait, SpuriousWake
<1>5. ASSUME NEW p \in Watchers, Connect(p) PROVE Quiet(o)
  <2>1. ~told[p].connected /\ (o # p => told'[o] = told[o])
    BY <1>5, EarsFacts DEF Connect
  <2> QED
    BY <2>1 DEF Quiet
<1>6. ASSUME NEW p \in Watchers, Disconnect(p) PROVE Quiet(o)
  <2>1. ~told'[p].connected /\ (o # p => told'[o] = told[o])
    BY <1>6, EarsFacts DEF Disconnect, Unaware
  <2> QED
    BY <2>1 DEF Quiet
<1> QED
  BY <1>1, <1>2, <1>3, <1>4, <1>5, <1>6 DEF Client

\* Who has heard that the future is canceled or finished hears of no more
\* results, though workers may report until they notice: every report looks at
\* the state under the mutex first.
THEOREM NothingAfterTheEnd ==
  Spec => QuietAfterEnd
<1>1. ASSUME IInv, [Next]_vars
      PROVE  [\A o \in Watchers :
                told[o].connected /\ told'[o].connected
                  /\ told[o].Canceled + told[o].Finished > 0
                  => told'[o].ready = told[o].ready]_vars
  <2> SUFFICES ASSUME NEW o \in Watchers, told[o].connected, told'[o].connected,
                      told[o].Canceled + told[o].Finished > 0
               PROVE  told'[o].ready = told[o].ready
    OBVIOUS
  <2>1. Over
    BY <1>1, HeardIsOver
  <2>2. CASE UNCHANGED vars
    BY <2>2 DEF vars
  <2>3. CASE Next
    BY <1>1, <2>1, <2>3, ReporterQuiet, ClientQuiet DEF Next, Quiet
  <2> QED
    BY <1>1, <2>2, <2>3
<1> QED
  BY <1>1, Invariance, PTL DEF Spec, QuietAfterEnd

=============================================================================

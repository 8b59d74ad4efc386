------------------------- MODULE ObservationUseProofs --------------------------
(***************************************************************************)
(* What the readers of the canonical observations can rely on while rows   *)
(* enter, for any rows, requests, limits and numbers of queries: answers   *)
(* are exact up to their limit, the table follows its switch, and recorded *)
(* cases can be reproduced.                                                *)
(***************************************************************************)
EXTENDS ObservationUse, FiniteSetTheorems, TLAPS

-----------------------------------------------------------------------------
\* Finite sets of row numbers and their order.

LEMMA SmallestSubset ==
  ASSUME NEW D, IsFiniteSet(D), NEW T, T \subseteq SUBSET D, T # {}
  PROVE  \E U \in T : \A V \in T : V \subseteq U => V = U
<1>1. IsWellFoundedOn(StrictSubsetOrdering(D), SUBSET D)
  BY FS_StrictSubsetOrderingWellFounded, FS_FiniteSubsetsOfFinite
<1>2. PICK U \in T : \A V \in T : <<V, U>> \notin StrictSubsetOrdering(D)
  BY <1>1, WFMin
<1> QED  BY <1>2 DEF StrictSubsetOrdering

RowsSound == rows \in Seq(Row)

LEMMA RowFields ==
  \A r \in Row : /\ r.phenomenon \in Phenomenon /\ r.value \in Value \union {Missing}
                 /\ r.quarantined \in BOOLEAN /\ r.place \in {"near", "corner", "far"}
                 /\ r.observed \in Nat /\ r.stamp \in Nat
BY RowAssumption, TimeAssumption DEF Time

LEMMA RowNumbers ==
  ASSUME RowsSound
  PROVE  /\ Len(rows) \in Nat /\ DOMAIN rows = 1..Len(rows) /\ IsFiniteSet(DOMAIN rows)
         /\ \A i \in DOMAIN rows : i \in Nat /\ rows[i] \in Row /\ rows[i].observed \in Nat
<1>1. Len(rows) \in Nat /\ DOMAIN rows = 1..Len(rows)
  BY DEF RowsSound
<1>2. IsFiniteSet(1..Len(rows))
  BY <1>1, FS_Interval
<1>3. \A i \in DOMAIN rows : rows[i] \in Row
  BY DEF RowsSound
<1> QED  BY <1>1, <1>2, <1>3, RowFields

\* Newer is a strict total order.
LEMMA NewerOrders ==
  ASSUME RowsSound, NEW i \in DOMAIN rows, NEW j \in DOMAIN rows
  PROVE  /\ ~Newer(i, i)
         /\ i # j => Newer(i, j) \/ Newer(j, i)
         /\ Newer(i, j) => ~Newer(j, i)
BY RowNumbers DEF Newer

LEMMA NewerIsTransitive ==
  ASSUME RowsSound, NEW i \in DOMAIN rows, NEW j \in DOMAIN rows, NEW k \in DOMAIN rows,
         Newer(i, j), Newer(j, k)
  PROVE  Newer(i, k)
BY RowNumbers DEF Newer

\* A set of row numbers has a last member in any strict total order.
LEMMA LastExists ==
  ASSUME NEW D, IsFiniteSet(D), NEW R,
         \A i, j, k \in D : <<i, j>> \in R /\ <<j, k>> \in R => <<i, k>> \in R,
         \A i, j \in D : i # j => <<i, j>> \in R \/ <<j, i>> \in R,
         NEW S, S \subseteq D, S # {}
  PROVE  \E o \in S : \A i \in S \ {o} : <<i, o>> \in R
<1> DEFINE HasLast(U) == \E o \in U : \A i \in U \ {o} : <<i, o>> \in R
           T == {U \in SUBSET D : U # {} /\ ~HasLast(U)}
<1>1. SUFFICES ASSUME T # {} PROVE FALSE
  OBVIOUS
<1>2. T \subseteq SUBSET D
  OBVIOUS
<1>3. PICK U \in T : \A V \in T : V \subseteq U => V = U
  <2> HIDE DEF T
  <2> QED  BY <1>1, <1>2, SmallestSubset
<1>4. PICK x \in U : TRUE
  BY <1>3
<1>5. U \ {x} # {}
  BY <1>3, <1>4
<1>6. U \ {x} \notin T
  <2> HIDE DEF T
  <2> QED  BY <1>3, <1>4
<1>7. PICK o \in U \ {x} : \A i \in (U \ {x}) \ {o} : <<i, o>> \in R
  BY <1>3, <1>5, <1>6
<1>8. x \in D /\ o \in D /\ x # o /\ U \subseteq D /\ ~HasLast(U)
  BY <1>3, <1>4, <1>7
<1>9. CASE <<x, o>> \in R
  BY <1>7, <1>8, <1>9
<1>10. CASE <<o, x>> \in R
  <2>1. \A i \in U \ {x} : <<i, x>> \in R
    BY <1>7, <1>8, <1>10
  <2> QED  BY <1>4, <1>8, <2>1
<1> QED  BY <1>8, <1>9, <1>10

LEMMA OldestExists ==
  ASSUME RowsSound, NEW S, S \subseteq DOMAIN rows, S # {}
  PROVE  \E o \in S : \A i \in S \ {o} : Newer(i, o)
<1> DEFINE D == DOMAIN rows
           R == {p \in D \X D : Newer(p[1], p[2])}
<1>1. \A i, j \in D : <<i, j>> \in R <=> Newer(i, j)
  OBVIOUS
<1>2. IsFiniteSet(D)
  BY RowNumbers
<1>3. /\ \A i, j, k \in D : <<i, j>> \in R /\ <<j, k>> \in R => <<i, k>> \in R
      /\ \A i, j \in D : i # j => <<i, j>> \in R \/ <<j, i>> \in R
  <2> HIDE DEF R
  <2> QED  BY <1>1, NewerIsTransitive, NewerOrders
<1>4. S \subseteq D
  OBVIOUS
<1> HIDE DEF R, D
<1>5. \E o \in S : \A i \in S \ {o} : <<i, o>> \in R
  BY <1>2, <1>3, <1>4, LastExists
<1> QED  BY <1>1, <1>4, <1>5

Sorted(s) == \A m, n \in DOMAIN s : m < n => Newer(s[m], s[n])

LEMMA SortedExists ==
  ASSUME RowsSound, NEW S, S \subseteq DOMAIN rows
  PROVE  \E s \in [1..Cardinality(S) -> S] : Sorted(s)
<1> DEFINE HasSorted(U) == \E s \in [1..Cardinality(U) -> U] : Sorted(s)
           T == {U \in SUBSET DOMAIN rows : ~HasSorted(U)}
<1>1. SUFFICES ASSUME T # {} PROVE FALSE
  OBVIOUS
<1>2. T \subseteq SUBSET DOMAIN rows /\ IsFiniteSet(DOMAIN rows)
  BY RowNumbers
<1>3. PICK U \in T : \A V \in T : V \subseteq U => V = U
  <2> HIDE DEF T
  <2> QED  BY <1>1, <1>2, SmallestSubset
<1>4. U \subseteq DOMAIN rows /\ IsFiniteSet(U) /\ ~HasSorted(U)
  BY <1>2, <1>3, FS_Subset
<1>5. CASE U = {}
  <2>1. Cardinality(U) = 0 /\ 1..0 = {}
    BY <1>5, FS_EmptySet
  <2>2. [i \in 1..0 |-> i] \in [1..Cardinality(U) -> U] /\ Sorted([i \in 1..0 |-> i])
    BY <2>1 DEF Sorted
  <2> QED  BY <1>4, <2>2
<1>6. CASE U # {}
  <2>1. PICK o \in U : \A i \in U \ {o} : Newer(i, o)
    BY <1>4, <1>6, OldestExists
  <2> DEFINE V == U \ {o}
             n == Cardinality(U)
  <2>2. n \in Nat /\ n # 0 /\ Cardinality(V) = n - 1
    BY <1>4, <1>6, <2>1, FS_CardinalityType, FS_EmptySet, FS_RemoveElement
  <2>3. V \notin T /\ V \subseteq DOMAIN rows
    <3> HIDE DEF T
    <3> QED  BY <1>3, <1>4, <2>1
  <2>4. PICK s \in [1..Cardinality(V) -> V] : Sorted(s)
    BY <2>3
  <2> DEFINE q == [m \in 1..n |-> IF m = n THEN o ELSE s[m]]
  <2>5. s \in [1..n-1 -> V]
    BY <2>2, <2>4
  <2>6. q \in [1..n -> U]
    BY <2>1, <2>2, <2>5
  <2>7. Sorted(q)
    <3> HIDE DEF n, V
    <3> SUFFICES ASSUME NEW a \in 1..n, NEW b \in 1..n, a < b
                 PROVE  Newer(q[a], q[b])
      BY DEF Sorted
    <3>1. a \in 1..n-1 /\ q[a] = s[a]
      BY <2>2
    <3>2. CASE b = n
      <4>1. s[a] \in U \ {o}
        BY <2>5, <3>1 DEF V
      <4> QED  BY <2>1, <3>1, <3>2, <4>1
    <3>3. CASE b # n
      <4>1. b \in 1..n-1 /\ q[b] = s[b]
        BY <2>2, <3>3
      <4> QED  BY <2>4, <2>5, <3>1, <4>1 DEF Sorted
    <3> QED  BY <3>2, <3>3
  <2> QED  BY <1>4, <2>6, <2>7
<1> QED  BY <1>5, <1>6

\* InOrder lists the members of a set once each, the newest first.
LEMMA InOrderLists ==
  ASSUME RowsSound, NEW S, S \subseteq DOMAIN rows
  PROVE  /\ InOrder(S) \in Seq(S) /\ InOrder(S) \in Seq(DOMAIN rows)
         /\ Len(InOrder(S)) = Cardinality(S) /\ Cardinality(S) \in Nat
         /\ DOMAIN InOrder(S) = 1..Cardinality(S)
         /\ Sorted(InOrder(S))
         /\ \A i \in S : \E p \in DOMAIN InOrder(S) : InOrder(S)[p] = i
         /\ \A p \in DOMAIN InOrder(S) : InOrder(S)[p] \in S
<1> DEFINE s == InOrder(S)
           n == Cardinality(S)
<1>1. s \in [1..n -> S] /\ Sorted(s)
  BY SortedExists DEF InOrder, Sorted
<1>2. IsFiniteSet(S) /\ n \in Nat
  BY RowNumbers, FS_Subset, FS_CardinalityType
<1> HIDE DEF s, n
<1>3. IsInjective(s)
  <2> SUFFICES ASSUME NEW a \in 1..n, NEW b \in 1..n, s[a] = s[b], a # b
               PROVE  FALSE
    BY <1>1 DEF IsInjective
  <2>1. a < b \/ b < a
    BY <1>2
  <2>2. s[a] \in DOMAIN rows
    BY <1>1
  <2>3. Newer(s[a], s[a])
    BY <1>1, <2>1 DEF Sorted
  <2> QED  BY <2>2, <2>3, NewerOrders
<1>4. s \in Surjection(1..n, S)
  <2>1. s \in Injection(1..n, S)
    BY <1>1, <1>3 DEF Injection
  <2>2. Cardinality(1..n) = n
    BY <1>2, FS_Interval
  <2> QED  BY <1>2, <2>1, <2>2, FS_Injection DEF n
<1>5. s \in Seq(S) /\ Len(s) = n /\ DOMAIN s = 1..n /\ s \in Seq(DOMAIN rows)
  BY <1>1, <1>2
<1>6. \A i \in S : \E p \in DOMAIN s : s[p] = i
  BY <1>4, <1>5 DEF Surjection
<1> QED  BY <1>1, <1>2, <1>5, <1>6 DEF s, n

-----------------------------------------------------------------------------
\* The position of a row in the order of a request, and what a new row does to it.

Ahead(i, request) == {j \in Selected(request) : Newer(j, i)}
Rank(i, request) == Cardinality(Ahead(i, request)) + 1

LEMMA RankType ==
  ASSUME RowsSound, NEW request, NEW i
  PROVE  /\ Selected(request) \subseteq DOMAIN rows /\ Ahead(i, request) \subseteq DOMAIN rows
         /\ IsFiniteSet(Ahead(i, request)) /\ Rank(i, request) \in Nat \ {0}
<1>1. Selected(request) \subseteq DOMAIN rows /\ Ahead(i, request) \subseteq DOMAIN rows
  BY DEF Selected, Ahead
<1>2. IsFiniteSet(Ahead(i, request)) /\ Cardinality(Ahead(i, request)) \in Nat
  BY <1>1, RowNumbers, FS_Subset, FS_CardinalityType
<1> QED  BY <1>1, <1>2 DEF Rank

LEMMA PositionIsRank ==
  ASSUME RowsSound, NEW request, NEW p \in DOMAIN Ordered(request)
  PROVE  Rank(Ordered(request)[p], request) = p
<1> DEFINE S == Selected(request)
           s == Ordered(request)
           A == Ahead(s[p], request)
           f == [m \in 1..(p - 1) |-> s[m]]
<1>1. S \subseteq DOMAIN rows
  BY RankType
<1>2. /\ Len(s) \in Nat /\ DOMAIN s = 1..Len(s) /\ Sorted(s)
      /\ \A i \in S : \E m \in DOMAIN s : s[m] = i
      /\ \A m \in DOMAIN s : s[m] \in S
  BY <1>1, InOrderLists DEF Ordered
<1>3. A = {j \in S : Newer(j, s[p])}
  BY DEF Ahead
<1> HIDE DEF S, s, A
<1>4. p \in Nat /\ p - 1 \in Nat /\ 1..(p - 1) \subseteq DOMAIN s /\ \A m \in 1..(p - 1) : m < p
  BY <1>2 DEF s
<1>5. f \in Injection(1..(p - 1), A)
  <2>1. f \in [1..(p - 1) -> A]
    BY <1>2, <1>3, <1>4 DEF Sorted, s
  <2>2. IsInjective(f)
    <3> SUFFICES ASSUME NEW a \in 1..(p - 1), NEW b \in 1..(p - 1), s[a] = s[b], a # b
                 PROVE  FALSE
      BY DEF IsInjective
    <3>1. a < b \/ b < a
      BY <1>4
    <3>2. Newer(s[a], s[a]) /\ s[a] \in DOMAIN rows
      BY <1>1, <1>2, <1>4, <3>1 DEF Sorted
    <3> QED  BY <3>2, NewerOrders
  <2> QED  BY <2>1, <2>2 DEF Injection
<1>6. f \in Surjection(1..(p - 1), A)
  <2>1. \A j \in A : \E m \in 1..(p - 1) : f[m] = j
    <3> TAKE j \in A
    <3>1. PICK m \in DOMAIN s : s[m] = j
      BY <1>2, <1>3
    <3>2. Newer(s[m], s[p]) /\ s[m] \in DOMAIN rows /\ s[p] \in DOMAIN rows
      BY <1>1, <1>2, <1>3, <3>1 DEF s
    <3>3. ~(p < m) /\ p # m
      BY <1>2, <3>2, NewerOrders DEF Sorted, s
    <3>4. m \in 1..(p - 1)
      BY <1>2, <1>4, <3>3
    <3> QED  BY <3>1, <3>4
  <2>2. f \in [1..(p - 1) -> A]
    BY <1>5 DEF Injection
  <2> QED  BY <2>1, <2>2 DEF Surjection
<1>7. ExistsBijection(1..(p - 1), A)
  <2> HIDE DEF f
  <2> QED  BY <1>5, <1>6 DEF ExistsBijection, Bijection
<1>8. IsFiniteSet(1..(p - 1)) /\ Cardinality(1..(p - 1)) = p - 1
  BY <1>4, FS_Interval
<1>9. Cardinality(A) = p - 1
  BY <1>7, <1>8, FS_Bijection
<1>10. Rank(s[p], request) = p
  BY <1>4, <1>9 DEF Rank, A
<1> QED  BY <1>10 DEF s

LEMMA RankIsPosition ==
  ASSUME RowsSound, NEW request, NEW i \in Selected(request)
  PROVE  Rank(i, request) \in 1..Len(Ordered(request)) /\ Ordered(request)[Rank(i, request)] = i
<1>1. PICK p \in DOMAIN Ordered(request) : Ordered(request)[p] = i
  BY RankType, InOrderLists DEF Ordered
<1>2. p \in 1..Len(Ordered(request))
  BY RankType, InOrderLists DEF Ordered
<1> QED  BY <1>1, <1>2, PositionIsRank

LEMMA RankOrders ==
  ASSUME RowsSound, NEW request, NEW i \in Selected(request), NEW j \in Selected(request)
  PROVE  Rank(j, request) < Rank(i, request) <=> Newer(j, i)
<1>1. \A a, b \in Selected(request) : Rank(a, request) < Rank(b, request) => Newer(a, b)
  <2> TAKE a, b \in Selected(request)
  <2>1. /\ Rank(a, request) \in 1..Len(Ordered(request))
        /\ Rank(b, request) \in 1..Len(Ordered(request))
        /\ Ordered(request)[Rank(a, request)] = a /\ Ordered(request)[Rank(b, request)] = b
    BY RankIsPosition
  <2>2. Sorted(Ordered(request)) /\ DOMAIN Ordered(request) = 1..Len(Ordered(request))
    BY RankType, InOrderLists DEF Ordered
  <2> QED  BY <2>1, <2>2 DEF Sorted
<1>2. CASE i = j
  BY <1>2, RankType, NewerOrders
<1>3. CASE i # j
  <2>1. Rank(i, request) # Rank(j, request)
    BY <1>3, RankIsPosition
  <2>2. Rank(i, request) \in Nat /\ Rank(j, request) \in Nat
    BY RankType
  <2> QED  BY <1>1, <2>1, <2>2, RankType, NewerOrders
<1> QED  BY <1>2, <1>3

RanksTyped == RowsSound => \A request, i : IsFiniteSet(Ahead(i, request))

LEMMA RankTypeNow == RanksTyped
BY RankType DEF RanksTyped

LEMMA RankTypeNext == RanksTyped'
BY RankTypeNow, PTL

\* The store grows or stays as it is.
RowsKept ==
  /\ RowsSound /\ RowsSound' /\ Len(rows) <= Len(rows')
  /\ \A i \in DOMAIN rows : i \in DOMAIN rows' /\ rows'[i] = rows[i]

LEMMA KeptRows ==
  ASSUME RowsKept, NEW request, NEW i \in DOMAIN rows
  PROVE  /\ AskedFor(rows[i], request)' = AskedFor(rows[i], request)
         /\ Matches(i, request)' = Matches(i, request)
         /\ i \in Selected(request)' <=> i \in Selected(request)
         /\ \A j \in DOMAIN rows : Newer(i, j)' = Newer(i, j)
         /\ \A j \in DOMAIN rows' : j \notin DOMAIN rows => j > Len(rows)
<1>1. i \in DOMAIN rows' /\ rows'[i] = rows[i]
  BY DEF RowsKept
<1>2. AskedFor(rows[i], request)' = AskedFor(rows[i], request)
  BY <1>1 DEF AskedFor
<1>3. Matches(i, request)' = Matches(i, request)
  BY <1>1 DEF Matches, AskedFor, WithinRadius
<1>4. i \in Selected(request)' <=> i \in Selected(request)
  BY <1>1, <1>2 DEF Selected, InBox
<1>5. \A j \in DOMAIN rows : Newer(i, j)' = Newer(i, j)
  BY DEF RowsKept, Newer
<1>6. \A j \in DOMAIN rows' : j \notin DOMAIN rows => j > Len(rows)
  BY DEF RowsKept, RowsSound
<1> QED  BY <1>2, <1>3, <1>4, <1>5, <1>6

LEMMA RankGrows ==
  ASSUME RowsKept, NEW request, NEW i \in DOMAIN rows
  PROVE  /\ Rank(i, request)' >= Rank(i, request)
         /\ \/ Rank(i, request)' = Rank(i, request)
            \/ \E j \in DOMAIN rows' : j > Len(rows) /\ Newer(j, i)'
<1>1. Ahead(i, request) \subseteq Ahead(i, request)'
  <2> SUFFICES ASSUME NEW j \in Ahead(i, request) PROVE j \in Ahead(i, request)'
    OBVIOUS
  <2>1. j \in Selected(request) /\ j \in DOMAIN rows /\ Newer(j, i)
    BY DEF Ahead, Selected
  <2> QED  BY <2>1, KeptRows DEF Ahead
<1>2. \A j \in Ahead(i, request)' : j \in Ahead(i, request) \/
        (j \in DOMAIN rows' /\ j > Len(rows) /\ Newer(j, i)')
  <2> TAKE j \in Ahead(i, request)'
  <2>1. j \in Selected(request)' /\ j \in DOMAIN rows' /\ Newer(j, i)'
    BY DEF Ahead, Selected
  <2>2. CASE j \in DOMAIN rows
    BY <2>1, <2>2, KeptRows DEF Ahead
  <2>3. CASE j \notin DOMAIN rows
    BY <2>1, <2>3, KeptRows
  <2> QED  BY <2>2, <2>3
<1>3. IsFiniteSet(Ahead(i, request)) /\ Cardinality(Ahead(i, request)) \in Nat
  BY RankType, FS_CardinalityType DEF RowsKept
<1>4. IsFiniteSet(Ahead(i, request)') /\ Cardinality(Ahead(i, request)') \in Nat
  BY RankTypeNext, FS_CardinalityType DEF RowsKept, RanksTyped
<1>5. Cardinality(Ahead(i, request)) <= Cardinality(Ahead(i, request)')
  BY <1>1, <1>4, FS_Subset
<1>6. CASE Ahead(i, request)' = Ahead(i, request)
  BY <1>3, <1>6 DEF Rank
<1>7. CASE Ahead(i, request)' # Ahead(i, request)
  <2>1. PICK j \in Ahead(i, request)' : j \notin Ahead(i, request)
    BY <1>1, <1>7
  <2>2. j \in DOMAIN rows' /\ j > Len(rows) /\ Newer(j, i)'
    BY <1>2, <2>1
  <2>3. Rank(i, request)' >= Rank(i, request)
    BY <1>3, <1>4, <1>5 DEF Rank
  <2> QED  BY <2>2, <2>3
<1> QED  BY <1>6, <1>7

-----------------------------------------------------------------------------
\* What a step of a query reads.

Size(request) == IF request.kind = "list" THEN ListLimit ELSE BatchSize
Batch(request, offset) ==
  SubSeq(Ordered(request), offset + 1,
         Min({offset + Size(request), Len(Ordered(request))}))
Found(request, offset) ==
  InOrder({i \in Range(Batch(request, offset)) : WithinRadius(rows[i], request)})

LEMMA RequestFields ==
  \A r \in Request :
    /\ r.kind \in {"list", "position"} /\ r.quarantine \in BOOLEAN /\ r.limit \in Nat \ {0}
    /\ Limit(r) \in Nat \ {0} /\ Size(r) \in Nat \ {0}
    /\ Local /\ r.kind = "list" => Limit(r) = Size(r)
BY RequestAssumption, SizeAssumption DEF Limit, Size

LEMMA Smaller ==
  ASSUME NEW a \in Nat, NEW b \in Nat
  PROVE  Min({a, b}) = IF a <= b THEN a ELSE b
BY DEF Min

LEMMA FirstOfLists ==
  ASSUME NEW S, NEW s \in Seq(S), NEW n \in Nat
  PROVE  /\ FirstOf(s, n) \in Seq(S)
         /\ Len(FirstOf(s, n)) = IF n <= Len(s) THEN n ELSE Len(s)
         /\ \A p \in 1..Len(FirstOf(s, n)) : p \in 1..Len(s) /\ FirstOf(s, n)[p] = s[p]
<1> DEFINE m == IF n <= Len(s) THEN n ELSE Len(s)
<1>1. Min({n, Len(s)}) = m /\ m \in Nat /\ m <= Len(s)
  BY Smaller
<1>2. FirstOf(s, n) = SubSeq(s, 1, m)
  BY <1>1 DEF FirstOf
<1> HIDE DEF m
<1>3. FirstOf(s, n) = [i \in 1..m |-> s[i]]
  <2>1. SubSeq(s, 1, m) = [i \in 1..(1 + m - 1) |-> s[i + 1 - 1]]
    BY <1>1
  <2> QED  BY <1>1, <1>2, <2>1
<1> QED  BY <1>1, <1>3 DEF m

LEMMA OrderedLists ==
  ASSUME RowsSound, NEW request
  PROVE  /\ Ordered(request) \in Seq(DOMAIN rows) /\ Len(Ordered(request)) \in Nat
         /\ DOMAIN Ordered(request) = 1..Len(Ordered(request))
         /\ \A p \in DOMAIN Ordered(request) : Ordered(request)[p] \in Selected(request)
<1>1. Selected(request) \subseteq DOMAIN rows
  BY RankType
<1> QED  BY <1>1, InOrderLists DEF Ordered

LEMMA BatchLists ==
  ASSUME RowsSound, NEW request \in Request, NEW offset \in Nat
  PROVE  /\ Batch(request, offset) \in Seq(DOMAIN rows)
         /\ Len(Batch(request, offset)) <= Size(request)
         /\ \A p \in 1..Len(Batch(request, offset)) :
              /\ offset + p \in DOMAIN Ordered(request)
              /\ Batch(request, offset)[p] = Ordered(request)[offset + p]
         /\ \A p \in DOMAIN Ordered(request) :
              offset < p /\ p <= offset + Size(request) =>
                p - offset \in 1..Len(Batch(request, offset))
         /\ \A p \in DOMAIN Ordered(request) :
              p > offset + Len(Batch(request, offset)) =>
                Len(Batch(request, offset)) = Size(request)
<1> DEFINE all == Ordered(request)
           size == Size(request)
           l == Len(all)
           m == Min({offset + size, l})
           batch == Batch(request, offset)
<1>1. all \in Seq(DOMAIN rows) /\ l \in Nat /\ DOMAIN all = 1..l
  BY OrderedLists
<1>2. size \in Nat \ {0}
  BY RequestFields
<1>3. batch = SubSeq(all, offset + 1, m)
  BY DEF Batch
<1> HIDE DEF all, size, l, batch
<1>4. m \in Nat /\ m <= l /\ m <= offset + size /\ (m = l \/ m = offset + size)
  BY <1>1, <1>2, Smaller
<1> HIDE DEF m
<1>5. batch = [i \in 1..(m - offset) |-> all[offset + i]]
  <2>1. SubSeq(all, offset + 1, m)
          = [i \in 1..(1 + m - (offset + 1)) |-> all[i + (offset + 1) - 1]]
    BY <1>1, <1>4
  <2>2. 1 + m - (offset + 1) = m - offset /\ \A i \in Nat : i + (offset + 1) - 1 = offset + i
    BY <1>4
  <2> QED  BY <1>4, <1>3, <2>1, <2>2
<1>6. CASE m <= offset
  <2>1. batch \in Seq(DOMAIN rows) /\ Len(batch) = 0
    <3>1. 1..(m - offset) = {} /\ 1..0 = {}
      BY <1>4, <1>6
    <3>2. batch = [i \in 1..0 |-> all[offset + i]]
      BY <1>5, <3>1
    <3> QED  BY <3>1, <3>2
  <2>2. \A p \in 1..l : /\ ~(offset < p /\ p <= offset + size)
                         /\ ~(p > offset)
    BY <1>1, <1>2, <1>4, <1>6
  <2>3. offset + 0 = offset /\ 0 <= size /\ 1..0 = {}
    BY <1>2
  <2> QED  BY <1>1, <2>1, <2>2, <2>3 DEF all, size, batch
<1>7. CASE m > offset
  <2>1. m - offset \in Nat
    BY <1>4, <1>7
  <2>2. \A i \in 1..(m - offset) : offset + i \in 1..l
    BY <1>1, <1>4, <2>1
  <2>3. Len(batch) = m - offset /\ batch \in Seq(DOMAIN rows)
    BY <1>1, <1>5, <2>1, <2>2
  <2> DEFINE k == Len(batch)
  <2>4. k = m - offset /\ k \in Nat /\ 1..k = 1..(m - offset)
    BY <2>1, <2>3
  <2> HIDE DEF k
  <2>5. k <= size
    BY <1>2, <1>4, <2>4
  <2>6. \A p \in 1..k : offset + p \in 1..l /\ batch[p] = all[offset + p]
    BY <1>5, <2>2, <2>4
  <2>7. batch \in Seq(DOMAIN rows) /\ k <= size
    BY <2>3, <2>5
  <2>8. \A p \in 1..k : offset + p \in DOMAIN all /\ batch[p] = all[offset + p]
    BY <1>1, <2>6
  <2>9. ASSUME NEW p \in DOMAIN all
         PROVE  /\ offset < p /\ p <= offset + size => p - offset \in 1..k
                /\ p > offset + k => k = size
    <3>1. p \in 1..l /\ p \in Nat
      BY <1>1, <2>9
    <3> QED  BY <1>1, <1>2, <1>4, <1>7, <2>4, <3>1
  <2> QED  BY <2>7, <2>8, <2>9 DEF all, size, batch, k
<1> QED  BY <1>4, <1>6, <1>7

\* What a batch is searched for: the rows within the radius whose rank falls into it.
LEMMA FoundLists ==
  ASSUME RowsSound, NEW request \in Request, NEW offset \in Nat
  PROVE  /\ Found(request, offset) \in Seq(DOMAIN rows)
         /\ Sorted(Found(request, offset))
         /\ \A p \in 1..Len(Found(request, offset)) :
              LET i == Found(request, offset)[p] IN
              /\ Matches(i, request) /\ i \in Selected(request)
              /\ offset < Rank(i, request)
              /\ Rank(i, request) <= offset + Len(Batch(request, offset))
         /\ \A i \in DOMAIN rows :
              /\ Matches(i, request) /\ offset < Rank(i, request)
              /\ \A p \in 1..Len(Found(request, offset)) : Found(request, offset)[p] # i
              => /\ Rank(i, request) > offset + Len(Batch(request, offset))
                 /\ Len(Batch(request, offset)) = Size(request)
         /\ request.kind = "list" => Len(Found(request, offset)) = Len(Batch(request, offset))
<1> DEFINE all == Ordered(request)
           size == Size(request)
           batch == Batch(request, offset)
           S == {i \in Range(batch) : WithinRadius(rows[i], request)}
           found == Found(request, offset)
<1>1. /\ all \in Seq(DOMAIN rows) /\ Len(all) \in Nat /\ DOMAIN all = 1..Len(all)
      /\ \A p \in DOMAIN all : all[p] \in Selected(request) /\ Rank(all[p], request) = p
  BY OrderedLists, PositionIsRank
<1>2. /\ batch \in Seq(DOMAIN rows) /\ Len(batch) \in Nat
      /\ \A p \in 1..Len(batch) : offset + p \in DOMAIN all /\ batch[p] = all[offset + p]
      /\ \A p \in DOMAIN all : p > offset + Len(batch) => Len(batch) = size
  BY BatchLists
<1>3. Range(batch) = {batch[p] : p \in 1..Len(batch)} /\ Range(batch) \subseteq DOMAIN rows
  BY <1>2 DEF Range
<1>4. S \subseteq DOMAIN rows
  BY <1>3
<1>5. /\ found \in Seq(DOMAIN rows) /\ Sorted(found) /\ Len(found) \in Nat
      /\ DOMAIN found = 1..Len(found)
      /\ \A p \in DOMAIN found : found[p] \in S
      /\ \A i \in S : \E p \in DOMAIN found : found[p] = i
      /\ Len(found) = Cardinality(S)
  <2> HIDE DEF S
  <2>1. found = InOrder(S)
    BY DEF Found, S
  <2> HIDE DEF found
  <2> QED  BY <1>4, <2>1, InOrderLists
<1> HIDE DEF all, batch, S, found, size
<1>6. \A p \in 1..Len(found) :
        /\ Matches(found[p], request) /\ found[p] \in Selected(request)
        /\ offset < Rank(found[p], request)
        /\ Rank(found[p], request) <= offset + Len(batch)
  <2> TAKE p \in 1..Len(found)
  <2>1. PICK m \in 1..Len(batch) : found[p] = batch[m]
    BY <1>3, <1>5 DEF S
  <2>2. found[p] = all[offset + m] /\ offset + m \in DOMAIN all
    BY <1>2, <2>1
  <2>3. found[p] \in Selected(request) /\ Rank(found[p], request) = offset + m
    BY <1>1, <2>2
  <2>4. WithinRadius(rows[found[p]], request)
    BY <1>5 DEF S
  <2> QED  BY <1>2, <2>3, <2>4 DEF Matches, Selected
<1>7. ASSUME NEW i \in DOMAIN rows, Matches(i, request), offset < Rank(i, request),
             \A p \in 1..Len(found) : found[p] # i
      PROVE  Rank(i, request) > offset + Len(batch) /\ Len(batch) = size
  <2>1. i \in Selected(request)
    BY <1>7 DEF Matches, Selected, WithinRadius, InBox
  <2>2. Rank(i, request) \in DOMAIN all /\ all[Rank(i, request)] = i
    BY <1>1, <2>1, RankIsPosition DEF all
  <2>3. Rank(i, request) > offset + Len(batch)
    <3> SUFFICES ASSUME Rank(i, request) <= offset + Len(batch) PROVE FALSE
      BY <1>1, <1>2, <2>2
    <3>1. Rank(i, request) - offset \in 1..Len(batch)
      BY <1>1, <1>2, <1>7, <2>2
    <3>2. batch[Rank(i, request) - offset] = i
      BY <1>1, <1>2, <2>2, <3>1
    <3>3. i \in S
      BY <1>3, <1>7, <3>1, <3>2 DEF S, Matches
    <3> QED  BY <1>5, <1>7, <3>3
  <2> QED  BY <1>2, <2>2, <2>3
<1>8. ASSUME request.kind = "list" PROVE Len(found) = Len(batch)
  <2> DEFINE k == Len(batch)
  <2>1. S = Range(batch)
    BY <1>8 DEF S, WithinRadius
  <2>2. batch \in Surjection(1..k, S)
    BY <1>2, <1>3, <2>1 DEF Surjection
  <2>3. IsInjective(batch)
    <3> SUFFICES ASSUME NEW m \in 1..k, NEW n \in 1..k, batch[m] = batch[n]
                 PROVE  m = n
      BY <1>2 DEF IsInjective
    <3>1. Rank(batch[m], request) = offset + m /\ Rank(batch[n], request) = offset + n
      BY <1>1, <1>2
    <3> QED  BY <1>2, <3>1
  <2>4. ExistsBijection(1..k, S)
    BY <2>2, <2>3 DEF ExistsBijection, Bijection, Injection, Surjection
  <2>5. k \in Nat
    BY <1>2
  <2>6. Cardinality(S) = k
    <3> HIDE DEF k
    <3>1. IsFiniteSet(1..k) /\ Cardinality(1..k) = k
      BY <2>5, FS_Interval
    <3> QED  BY <2>4, <3>1, FS_Bijection
  <2> QED  BY <1>5, <2>6
<1> QED  BY <1>5, <1>6, <1>7, <1>8 DEF batch, found, size

-----------------------------------------------------------------------------
\* What holds of an answer in progress and of one that is done.

\* A newer row has entered since the query began, and moved row i on.
Overtaken(i, start) == \E j \in DOMAIN rows : j > start /\ Newer(j, i)

\* Row j is answered before row i.
Precedes(j, i) == IF Local THEN Newer(j, i) ELSE j < i

Missed(answer, request, start) ==
  {i \in 1..start : Matches(i, request) /\ \A p \in 1..Len(answer) : answer[p] # i}

\* The answer holds matching rows, and they come before those that it has missed.
Agrees(answer, request, start) ==
  /\ \A p \in 1..Len(answer) : Matches(answer[p], request)
  /\ \A i \in Missed(answer, request, start), p \in 1..Len(answer) : Precedes(answer[p], i)
  /\ \A m, n \in 1..Len(answer) : m < n /\ answer[m] = answer[n] =>
       Local /\ Overtaken(answer[m], start)
  /\ \A m, n \in 1..Len(answer) : m < n =>
       (Local /\ request.kind = "position") \/ Precedes(answer[m], answer[n])

Exact(answer, request, start) ==
  /\ Agrees(answer, request, start)
  /\ Len(answer) <= Limit(request)
  /\ Missed(answer, request, start) # {} => Len(answer) = Limit(request)

\* While the query goes on, what it has missed is ahead of it, and what it holds is behind
\* it: by its rank, unless it was overtaken, or by its number.
Behind(answer, request, start, next) ==
  IF Local
  THEN /\ \A i \in Missed(answer, request, start) : Rank(i, request) > next
       /\ \A p \in 1..Len(answer) : Rank(answer[p], request) <= next \/ Overtaken(answer[p], start)
       /\ request.kind = "list" => next = 0 /\ answer = <<>>
  ELSE /\ next > 0
       /\ \A i \in Missed(answer, request, start) : i >= next
       /\ \A p \in 1..Len(answer) : answer[p] < next

Progress(answer, request, start, next) ==
  /\ Agrees(answer, request, start)
  /\ Len(answer) < Limit(request)
  /\ Behind(answer, request, start, next)

\* Rows that enter take nothing from an answer.
LEMMA KeptAnswers ==
  ASSUME RowsKept, mode' = mode, NEW request, NEW answer \in Seq(DOMAIN rows),
         NEW start \in 0..Len(rows), NEW next \in Nat
  PROVE  /\ Exact(answer, request, start) => Exact(answer, request, start)'
         /\ Progress(answer, request, start, next) => Progress(answer, request, start, next)'
<1>1. /\ Len(answer) \in Nat /\ \A p \in 1..Len(answer) : answer[p] \in DOMAIN rows
      /\ DOMAIN rows = 1..Len(rows) /\ Len(rows) \in Nat
      /\ \A i \in 1..start : i \in DOMAIN rows
  BY RowNumbers DEF RowsKept
<1>2. Local' = Local /\ Limit(request)' = Limit(request)
  BY DEF Local, Limit
<1>3. Missed(answer, request, start)' = Missed(answer, request, start)
  BY <1>1, KeptRows DEF Missed
<1>4. \A i, j \in DOMAIN rows : Precedes(j, i)' = Precedes(j, i)
  BY <1>2, KeptRows DEF Precedes
<1>5. \A i \in DOMAIN rows : Overtaken(i, start) => Overtaken(i, start)'
  BY KeptRows DEF Overtaken, RowsKept
<1>6. \A i \in Missed(answer, request, start) : i \in DOMAIN rows
  BY <1>1 DEF Missed
<1>7. Agrees(answer, request, start) => Agrees(answer, request, start)'
  BY <1>1, <1>2, <1>3, <1>4, <1>5, <1>6, KeptRows DEF Agrees
<1>8. Exact(answer, request, start) => Exact(answer, request, start)'
  BY <1>2, <1>3, <1>7 DEF Exact
<1>9. Behind(answer, request, start, next) => Behind(answer, request, start, next)'
  <2>1. SUFFICES ASSUME Local, Behind(answer, request, start, next)
                 PROVE  Behind(answer, request, start, next)'
    BY <1>2, <1>3 DEF Behind
  <2>2. ASSUME NEW i \in Missed(answer, request, start)
        PROVE  Rank(i, request)' > next
    <3>1. Rank(i, request) > next /\ i \in DOMAIN rows
      BY <1>6, <2>1 DEF Behind
    <3>2. Rank(i, request) \in Nat /\ Rank(i, request)' \in Nat
      BY <1>1, <3>1, RankType, RankTypeNext, FS_CardinalityType DEF RowsKept, RanksTyped, Rank
    <3> QED  BY <3>1, <3>2, RankGrows
  <2>3. ASSUME NEW p \in 1..Len(answer)
        PROVE  Rank(answer[p], request)' <= next \/ Overtaken(answer[p], start)'
    <3>1. answer[p] \in DOMAIN rows
      BY <1>1
    <3>2. CASE Overtaken(answer[p], start)
      BY <1>5, <3>1, <3>2
    <3>3. CASE Rank(answer[p], request) <= next
      <4>1. CASE Rank(answer[p], request)' = Rank(answer[p], request)
        BY <3>3, <4>1
      <4>2. CASE \E j \in DOMAIN rows' : j > Len(rows) /\ Newer(j, answer[p])'
        <5>1. PICK j \in DOMAIN rows' : j > Len(rows) /\ Newer(j, answer[p])'
          BY <4>2
        <5>2. j > start
          BY <1>1, <5>1 DEF RowsKept, RowsSound
        <5> QED  BY <5>1, <5>2 DEF Overtaken
      <4> QED  BY <3>1, <4>1, <4>2, RankGrows
    <3> QED  BY <2>1, <3>2, <3>3 DEF Behind
  <2> QED  BY <1>2, <1>3, <2>1, <2>2, <2>3 DEF Behind
<1> QED  BY <1>2, <1>7, <1>8, <1>9 DEF Progress

\* A query begins with nothing behind it.
LEMMA AnswerBegins ==
  ASSUME RowsSound, NEW request \in Request
  PROVE  Progress(<<>>, request, Len(rows), IF Local THEN 0 ELSE 1)
<1>1. Limit(request) \in Nat \ {0} /\ Len(<<>>) = 0 /\ 1..0 = {}
  BY RequestFields
<1>2. \A i : Rank(i, request) \in Nat \ {0}
  BY RankType
<1>3. \A i \in 1..Len(rows) : i \in Nat /\ i >= 1
  BY RowNumbers
<1> QED  BY <1>1, <1>2, <1>3 DEF Progress, Agrees, Behind, Missed

\* What the answer is after a batch: what it was, and then what was found, up to the limit.
Extended(answer, request, next) == FirstOf(answer \o Found(request, next), Limit(request))

LEMMA ExtendedLists ==
  ASSUME RowsSound, NEW request \in Request, NEW answer \in Seq(DOMAIN rows), NEW next \in Nat,
         Len(answer) < Limit(request)
  PROVE  LET new == Extended(answer, request, next)
             found == Found(request, next) IN
         /\ new \in Seq(DOMAIN rows) /\ Len(new) \in Nat /\ Len(new) <= Limit(request)
         /\ Len(answer) <= Len(new) /\ Len(new) <= Len(answer) + Len(found)
         /\ Len(new) < Limit(request) => Len(new) = Len(answer) + Len(found)
         /\ Len(new) < Len(answer) + Len(found) => Len(new) = Limit(request)
         /\ \A p \in 1..Len(answer) : p \in 1..Len(new) /\ new[p] = answer[p]
         /\ \A p \in 1..Len(new) : p > Len(answer) =>
              p - Len(answer) \in 1..Len(found) /\ new[p] = found[p - Len(answer)]
<1> DEFINE new == Extended(answer, request, next)
           found == Found(request, next)
           limit == Limit(request)
           whole == answer \o found
<1>1. found \in Seq(DOMAIN rows)
  BY FoundLists
<1>2. limit \in Nat
  BY RequestFields
<1> HIDE DEF found, limit
<1>3. /\ whole \in Seq(DOMAIN rows) /\ Len(whole) = Len(answer) + Len(found)
      /\ Len(answer) \in Nat /\ Len(found) \in Nat
      /\ \A p \in 1..Len(answer) : whole[p] = answer[p]
      /\ \A p \in 1..Len(whole) : p > Len(answer) =>
           p - Len(answer) \in 1..Len(found) /\ whole[p] = found[p - Len(answer)]
  BY <1>1
<1>4. new = FirstOf(whole, limit)
  BY DEF Extended, found, limit
<1>5. Len(answer) < limit
  BY DEF limit
<1> HIDE DEF new, whole
<1>6. /\ new \in Seq(DOMAIN rows)
      /\ Len(new) = IF limit <= Len(whole) THEN limit ELSE Len(whole)
      /\ \A p \in 1..Len(new) : p \in 1..Len(whole) /\ new[p] = whole[p]
  BY <1>2, <1>3, <1>4, FirstOfLists
<1>7. /\ Len(new) \in Nat /\ Len(new) <= limit
      /\ Len(answer) <= Len(new) /\ Len(new) <= Len(answer) + Len(found)
      /\ Len(new) < limit => Len(new) = Len(answer) + Len(found)
      /\ Len(new) < Len(answer) + Len(found) => Len(new) = limit
  BY <1>2, <1>3, <1>5, <1>6
<1>8. \A p \in 1..Len(answer) : p \in 1..Len(new) /\ new[p] = answer[p]
  BY <1>3, <1>6, <1>7
<1>9. \A p \in 1..Len(new) : p > Len(answer) =>
        p - Len(answer) \in 1..Len(found) /\ new[p] = found[p - Len(answer)]
  BY <1>3, <1>6
<1> QED  BY <1>6, <1>7, <1>8, <1>9 DEF new, found, limit

\* After a batch, the query is done and exact, or goes on as it should.
LEMMA BatchAnswers ==
  ASSUME RowsSound, Local, NEW request \in Request, NEW answer \in Seq(DOMAIN rows),
         NEW start \in 0..Len(rows), NEW next \in Nat,
         Progress(answer, request, start, next)
  PROVE  LET new == Extended(answer, request, next)
             after == next + Len(Batch(request, next)) IN
         /\ after \in Nat
         /\ request.kind = "list" \/ Len(Batch(request, next)) < Size(request)
              \/ Len(new) >= Limit(request) => Exact(new, request, start)
         /\ ~(request.kind = "list" \/ Len(Batch(request, next)) < Size(request)
              \/ Len(new) >= Limit(request)) => Progress(new, request, start, after)
<1> DEFINE new == Extended(answer, request, next)
           found == Found(request, next)
           batch == Batch(request, next)
           after == next + Len(batch)
           limit == Limit(request)
           a == Len(answer)
<1>1. /\ found \in Seq(DOMAIN rows) /\ Sorted(found)
      /\ \A p \in 1..Len(found) :
           /\ Matches(found[p], request) /\ found[p] \in Selected(request)
           /\ next < Rank(found[p], request) /\ Rank(found[p], request) <= after
  BY FoundLists
<1>2. \A i \in DOMAIN rows :
        /\ Matches(i, request) /\ next < Rank(i, request)
        /\ \A p \in 1..Len(found) : found[p] # i
        => Rank(i, request) > after /\ Len(batch) = Size(request)
  BY FoundLists
<1>3. /\ new \in Seq(DOMAIN rows) /\ Len(new) \in Nat /\ Len(new) <= limit
      /\ a <= Len(new) /\ Len(new) <= a + Len(found)
      /\ Len(new) < limit => Len(new) = a + Len(found)
      /\ Len(new) < a + Len(found) => Len(new) = limit
      /\ \A p \in 1..a : p \in 1..Len(new) /\ new[p] = answer[p]
      /\ \A p \in 1..Len(new) : p > a => p - a \in 1..Len(found) /\ new[p] = found[p - a]
  BY ExtendedLists DEF Progress
<1>4. batch \in Seq(DOMAIN rows) /\ Len(batch) \in Nat /\ after \in Nat
  BY BatchLists
<1>5. a \in Nat /\ limit \in Nat \ {0} /\ Len(found) \in Nat /\ DOMAIN found = 1..Len(found)
  BY <1>1, RequestFields
<1>6. /\ \A i \in Missed(answer, request, start) : Rank(i, request) > next
      /\ \A p \in 1..a : Rank(answer[p], request) <= next \/ Overtaken(answer[p], start)
      /\ request.kind = "list" => next = 0 /\ answer = <<>>
      /\ Agrees(answer, request, start) /\ a < limit
  BY DEF Progress, Behind
<1>7. /\ DOMAIN rows = 1..Len(rows) /\ Len(rows) \in Nat
      /\ \A i \in 1..start : i \in DOMAIN rows
      /\ \A i : Rank(i, request) \in Nat
  BY RowNumbers, RankType
<1> HIDE DEF new, found, batch, after, limit, a
\* A row that the new answer has missed was missed before; it lies behind all that was found,
\* or was found and cut off.
<1>8. ASSUME NEW i \in Missed(new, request, start)
      PROVE  /\ i \in Missed(answer, request, start) /\ i \in DOMAIN rows
             /\ i \in Selected(request) /\ Matches(i, request)
             /\ \/ Rank(i, request) > after /\ Len(batch) = Size(request)
                   /\ \A p \in 1..Len(found) : found[p] # i
                \/ \E m \in 1..Len(found) : found[m] = i /\ m + a > Len(new)
  <2>1. i \in 1..start /\ Matches(i, request) /\ \A p \in 1..Len(new) : new[p] # i
    BY <1>8 DEF Missed
  <2>2. i \in Missed(answer, request, start)
    BY <1>3, <1>5, <2>1 DEF Missed, a
  <2>3. i \in DOMAIN rows /\ i \in Selected(request)
    BY <1>7, <2>1 DEF Matches, Selected, WithinRadius, InBox
  <2>4. CASE \A p \in 1..Len(found) : found[p] # i
    BY <1>2, <1>6, <2>1, <2>2, <2>3, <2>4
  <2>5. CASE \E m \in 1..Len(found) : found[m] = i
    <3>1. PICK m \in 1..Len(found) : found[m] = i
      BY <2>5
    <3>2. m + a > Len(new)
      <4> SUFFICES ASSUME m + a <= Len(new) PROVE FALSE
        BY <1>3, <1>5
      <4>1. m + a \in 1..Len(new) /\ m + a > a /\ (m + a) - a = m
        BY <1>3, <1>5
      <4>2. new[m + a] = found[m]
        BY <1>3, <4>1
      <4> QED  BY <2>1, <3>1, <4>1, <4>2
    <3> QED  BY <2>1, <2>2, <2>3, <3>1, <3>2
  <2> QED  BY <2>4, <2>5
<1>9. ASSUME NEW p \in 1..Len(new)
      PROVE  Matches(new[p], request) /\ new[p] \in DOMAIN rows
  <2>1. new[p] \in DOMAIN rows
    BY <1>3
  <2>2. CASE p <= a
    <3>1. p \in 1..a
      BY <1>3, <1>5, <2>2
    <3>2. new[p] = answer[p]
      BY <1>3, <3>1
    <3> QED  BY <1>6, <2>1, <3>1, <3>2 DEF Agrees, a
  <2>3. CASE p > a
    BY <1>1, <1>3, <2>1, <2>3
  <2> QED  BY <1>3, <1>5, <2>2, <2>3
<1>10. ASSUME NEW i \in Missed(new, request, start), NEW p \in 1..Len(new)
       PROVE  Precedes(new[p], i)
  <2>1. CASE p <= a
    <3>1. p \in 1..a /\ new[p] = answer[p]
      BY <1>3, <1>5, <2>1
    <3> QED  BY <1>6, <1>8, <1>10, <3>1 DEF Agrees, a
  <2>2. CASE p > a
    <3>1. p - a \in 1..Len(found) /\ new[p] = found[p - a]
      BY <1>3, <2>2
    <3>2. CASE \E m \in 1..Len(found) : found[m] = i /\ m + a > Len(new)
      <4>1. PICK m \in 1..Len(found) : found[m] = i /\ m + a > Len(new)
        BY <3>2
      <4>2. p - a < m
        BY <1>3, <1>5, <4>1
      <4> QED  BY <1>1, <1>5, <3>1, <4>1, <4>2 DEF Sorted, Precedes
    <3>3. CASE Rank(i, request) > after
      <4>1. Rank(new[p], request) < Rank(i, request) /\ new[p] \in Selected(request)
        BY <1>1, <1>4, <1>7, <3>1, <3>3
      <4> QED  BY <1>8, <1>10, <4>1, RankOrders DEF Precedes
    <3> QED  BY <1>8, <1>10, <3>2, <3>3
  <2> QED  BY <1>3, <1>5, <2>1, <2>2
<1>11. ASSUME NEW m \in 1..Len(new), NEW n \in 1..Len(new), m < n, new[m] = new[n]
       PROVE  Overtaken(new[m], start)
  <2>1. CASE n <= a
    <3>1. m \in 1..a /\ n \in 1..a
      BY <1>3, <1>5, <1>11, <2>1
    <3>2. answer[m] = answer[n] /\ new[m] = answer[m]
      BY <1>3, <1>11, <3>1
    <3> QED  BY <1>6, <1>11, <3>1, <3>2 DEF Agrees, a
  <2>2. CASE m > a
    <3>1. /\ m - a \in 1..Len(found) /\ n - a \in 1..Len(found) /\ m - a < n - a
          /\ new[m] = found[m - a] /\ new[n] = found[n - a]
      <4>1. m \in Nat /\ n \in Nat
        BY <1>3
      <4>2. n > a /\ m - a < n - a
        BY <1>5, <1>11, <2>2, <4>1
      <4> QED  BY <1>3, <2>2, <4>2
    <3>2. Newer(found[m - a], found[n - a])
      BY <1>1, <1>5, <3>1 DEF Sorted
    <3>3. Newer(new[m], new[m]) /\ new[m] \in DOMAIN rows
      BY <1>9, <1>11, <3>1, <3>2
    <3> QED  BY <3>3, NewerOrders
  <2>3. CASE m <= a /\ n > a
    <3>1. m \in 1..a /\ new[m] = answer[m] /\ n - a \in 1..Len(found) /\ new[n] = found[n - a]
      <4>1. m \in 1..a
        BY <1>3, <1>5, <2>3
      <4>2. n - a \in 1..Len(found) /\ new[n] = found[n - a]
        BY <1>3, <2>3
      <4> QED  BY <1>3, <4>1, <4>2
    <3>2. Rank(new[n], request) > next
      BY <1>1, <1>7, <3>1
    <3> QED  BY <1>6, <1>7, <1>11, <3>1, <3>2
  <2> QED  BY <1>3, <1>5, <2>1, <2>2, <2>3
<1>12. ASSUME NEW m \in 1..Len(new), NEW n \in 1..Len(new), m < n
       PROVE  request.kind = "position" \/ Precedes(new[m], new[n])
  <2>1. SUFFICES ASSUME request.kind = "list" PROVE Precedes(new[m], new[n])
    BY RequestFields
  <2>2. a = 0
    BY <1>6, <2>1 DEF a
  <2>3. /\ m - a \in 1..Len(found) /\ n - a \in 1..Len(found) /\ m - a < n - a
        /\ new[m] = found[m - a] /\ new[n] = found[n - a]
    BY <1>3, <1>5, <1>12, <2>2
  <2> QED  BY <1>1, <1>5, <2>3 DEF Sorted, Precedes
<1>13. Agrees(new, request, start)
  BY <1>9, <1>10, <1>11, <1>12 DEF Agrees
<1>14. ASSUME request.kind = "list" \/ Len(batch) < Size(request) \/ Len(new) >= limit
       PROVE  Exact(new, request, start)
  <2>1. SUFFICES ASSUME NEW i \in Missed(new, request, start) PROVE Len(new) = limit
    BY <1>3, <1>13 DEF Exact, limit
  <2>2. CASE \E m \in 1..Len(found) : found[m] = i /\ m + a > Len(new)
    BY <1>3, <1>5, <2>2
  <2>3. CASE /\ Rank(i, request) > after /\ Len(batch) = Size(request)
             /\ \A p \in 1..Len(found) : found[p] # i
    <3>1. CASE request.kind = "list"
      <4>1. a = 0 /\ next = 0 /\ limit = Size(request)
        BY <1>6, <3>1, RequestFields DEF a, limit
      <4>2. Len(found) = Len(batch)
        BY <3>1, FoundLists DEF found, batch
      <4> QED  BY <1>3, <1>5, <2>3, <4>1, <4>2
    <3>2. CASE Len(new) >= limit
      BY <1>3, <1>5, <3>2
    <3> QED  BY <1>4, <1>14, <2>3, <3>1, <3>2, RequestFields
  <2> QED  BY <1>8, <2>1, <2>2, <2>3
<1>15. ASSUME ~(request.kind = "list" \/ Len(batch) < Size(request) \/ Len(new) >= limit)
       PROVE  Progress(new, request, start, after)
  <2>1. Len(new) < limit /\ Len(new) = a + Len(found) /\ request.kind # "list"
    BY <1>3, <1>5, <1>15
  <2>2. ASSUME NEW i \in Missed(new, request, start)
        PROVE  Rank(i, request) > after
    BY <1>5, <1>8, <2>1, <2>2
  <2>3. ASSUME NEW p \in 1..Len(new)
        PROVE  Rank(new[p], request) <= after \/ Overtaken(new[p], start)
    <3>1. CASE p <= a
      <4>1. p \in 1..a /\ new[p] = answer[p] /\ next <= after
        BY <1>3, <1>4, <1>5, <3>1 DEF after
      <4> QED  BY <1>4, <1>6, <1>7, <4>1
    <3>2. CASE p > a
      BY <1>1, <1>3, <3>2
    <3> QED  BY <1>3, <1>5, <3>1, <3>2
  <2> QED  BY <1>13, <2>1, <2>2, <2>3 DEF Progress, Behind, limit
<1> QED  BY <1>4, <1>14, <1>15 DEF new, batch, after, limit

\* What the answer is after a line of the file.
Read(answer, request, next) ==
  IF next \in DOMAIN rows /\ Matches(next, request) THEN Append(answer, next) ELSE answer

LEMMA RowAnswers ==
  ASSUME RowsSound, ~Local, NEW request \in Request, NEW answer \in Seq(DOMAIN rows),
         NEW start \in 0..Len(rows), NEW next \in Nat,
         Progress(answer, request, start, next)
  PROVE  LET new == Read(answer, request, next) IN
         /\ new \in Seq(DOMAIN rows)
         /\ next > Len(rows) \/ Len(new) >= Limit(request) => Exact(new, request, start)
         /\ ~(next > Len(rows) \/ Len(new) >= Limit(request)) =>
              Progress(new, request, start, next + 1)
<1> DEFINE new == Read(answer, request, next)
           limit == Limit(request)
<1>1. /\ Agrees(answer, request, start) /\ Len(answer) < limit /\ next > 0
      /\ \A i \in Missed(answer, request, start) : i >= next
      /\ \A p \in 1..Len(answer) : answer[p] < next
  BY DEF Progress, Behind
<1>2. limit \in Nat \ {0} /\ Len(answer) \in Nat
  BY RequestFields
<1>3. DOMAIN rows = 1..Len(rows) /\ Len(rows) \in Nat
  BY RowNumbers
<1> HIDE DEF limit
<1>4. CASE next \in DOMAIN rows /\ Matches(next, request)
  <2>1. new = Append(answer, next)
    BY <1>4 DEF Read
  <2> HIDE DEF new
  <2>2. /\ new \in Seq(DOMAIN rows) /\ Len(new) = Len(answer) + 1 /\ new[Len(new)] = next
        /\ \A p \in 1..Len(answer) : p \in 1..Len(new) /\ new[p] = answer[p]
        /\ \A p \in 1..Len(new) : p \in 1..Len(answer) \/ p = Len(new)
    BY <1>2, <1>4, <2>1
  <2>3. ASSUME NEW i \in Missed(new, request, start)
        PROVE  i \in Missed(answer, request, start) /\ i > next
    <3>1. i \in Missed(answer, request, start)
      BY <2>2, <2>3 DEF Missed
    <3>2. i # next /\ i \in Nat
      BY <1>2, <2>2, <2>3 DEF Missed
    <3> QED  BY <1>1, <3>1, <3>2
  <2>4. \A p \in 1..Len(new) : Matches(new[p], request)
    BY <1>1, <1>4, <2>2 DEF Agrees
  <2>5. \A p \in 1..Len(new) : new[p] <= next /\ (p # Len(new) => new[p] < next)
    <3> TAKE p \in 1..Len(new)
    <3>1. CASE p \in 1..Len(answer)
      <4>1. new[p] = answer[p] /\ answer[p] < next
        BY <1>1, <2>2, <3>1
      <4>2. answer[p] \in Nat /\ next \in Nat
        BY <1>3, <3>1
      <4> QED  BY <4>1, <4>2
    <3>2. CASE p = Len(new)
      BY <2>2, <3>2
    <3> QED  BY <2>2, <3>1, <3>2
  <2>6. \A i \in Missed(new, request, start), p \in 1..Len(new) : Precedes(new[p], i)
    <3> TAKE i \in Missed(new, request, start), p \in 1..Len(new)
    <3>1. new[p] <= next /\ i > next /\ new[p] \in Nat /\ i \in Nat
      BY <1>3, <2>2, <2>3, <2>5 DEF Missed
    <3> QED  BY <3>1 DEF Precedes
  <2>7. ASSUME NEW m \in 1..Len(new), NEW n \in 1..Len(new), m < n
        PROVE  new[m] < new[n]
    <3>1. m \in 1..Len(answer)
      BY <1>2, <2>2, <2>7
    <3>2. CASE n = Len(new)
      BY <1>1, <2>2, <3>1, <3>2
    <3>3. CASE n \in 1..Len(answer)
      BY <1>1, <2>2, <2>7, <3>1, <3>3 DEF Agrees, Precedes
    <3> QED  BY <2>2, <3>2, <3>3
  <2>8. Agrees(new, request, start)
    <3>1. \A m, n \in 1..Len(new) : m < n => new[m] # new[n] /\ Precedes(new[m], new[n])
      BY <1>3, <2>2, <2>7 DEF Precedes
    <3> QED  BY <2>4, <2>6, <3>1 DEF Agrees
  <2>9. ASSUME next > Len(rows) \/ Len(new) >= limit
        PROVE  Exact(new, request, start)
    BY <1>1, <1>2, <1>3, <1>4, <2>2, <2>8, <2>9 DEF Exact, limit
  <2>10. ASSUME ~(next > Len(rows) \/ Len(new) >= limit)
         PROVE  Progress(new, request, start, next + 1)
    <3>1. Len(new) < limit
      BY <1>2, <2>2, <2>10
    <3>2. \A i \in Missed(new, request, start) : i >= next + 1
      BY <1>3, <2>3 DEF Missed
    <3>3. \A p \in 1..Len(new) : new[p] < next + 1
      <4> TAKE p \in 1..Len(new)
      <4>1. new[p] \in Nat /\ new[p] <= next
        BY <1>3, <2>2, <2>5
      <4> QED  BY <4>1
    <3>4. next + 1 > 0
      OBVIOUS
    <3> QED  BY <2>8, <3>1, <3>2, <3>3, <3>4 DEF Progress, Behind, limit
  <2> QED  BY <2>2, <2>9, <2>10 DEF new, limit
<1>5. CASE ~(next \in DOMAIN rows /\ Matches(next, request))
  <2>1. new = answer
    BY <1>5 DEF Read
  <2>2. ASSUME NEW i \in Missed(answer, request, start)
        PROVE  i >= next + 1 /\ next <= Len(rows)
    <3>1. i >= next /\ i \in 1..start /\ i \in DOMAIN rows /\ Matches(i, request)
      BY <1>1, <1>3 DEF Missed
    <3>2. next # i
      BY <1>5, <3>1
    <3> QED  BY <1>3, <3>1, <3>2
  <2>3. ASSUME next > Len(rows) \/ Len(answer) >= limit
        PROVE  Exact(answer, request, start)
    BY <1>1, <1>2, <1>3, <2>2, <2>3 DEF Exact, limit
  <2>4. ASSUME ~(next > Len(rows) \/ Len(answer) >= limit)
        PROVE  Progress(answer, request, start, next + 1)
    <3>1. \A p \in 1..Len(answer) : answer[p] < next + 1
      <4> TAKE p \in 1..Len(answer)
      <4>1. answer[p] \in Nat /\ answer[p] < next
        BY <1>1, <1>3
      <4> QED  BY <4>1
    <3>2. next + 1 > 0
      OBVIOUS
    <3> QED  BY <1>1, <2>2, <3>1, <3>2 DEF Progress, Behind, limit
  <2> QED  BY <2>1, <2>3, <2>4 DEF limit
<1> QED  BY <1>4, <1>5

-----------------------------------------------------------------------------
\* Queries keep their type and their answers, whatever the other parts do.

QueryRecord ==
  [at: {"idle", "reading", "done", "failed"}, request: Request \union {NoRequest}, next: Nat,
   answer: Seq(DOMAIN rows), start: 0..Len(rows)]

SoundQuery(d) ==
  /\ d \in QueryRecord
  /\ d.at = "idle" <=> d.request = NoRequest
  /\ d.at = "reading" => Progress(d.answer, d.request, d.start, d.next)
  /\ d.at = "done" => Exact(d.answer, d.request, d.start)

QueriesSound ==
  /\ mode \in {"remote-authoritative", "local-development"}
  /\ query \in [Query -> QueryRecord]
  /\ \A q \in Query : SoundQuery(query[q])

LEMMA QueriesSoundTyped ==
  QueriesSound => QueriesTypeOK
BY DEF QueriesSound, SoundQuery, QueryRecord, QueriesTypeOK, At

LEMMA KeptQuery ==
  ASSUME RowsKept, mode' = mode, NEW d, SoundQuery(d)
  PROVE  SoundQuery(d)'
<1>1. /\ d \in QueryRecord /\ d.answer \in Seq(DOMAIN rows) /\ d.start \in 0..Len(rows)
      /\ d.next \in Nat
  BY DEF SoundQuery, QueryRecord
<1>2. DOMAIN rows \subseteq DOMAIN rows' /\ 0..Len(rows) \subseteq 0..Len(rows')
  BY RowNumbers DEF RowsKept, RowsSound
<1>3. d.answer \in Seq(DOMAIN rows') /\ d.start \in 0..Len(rows')
  BY <1>1, <1>2
<1>4. d \in QueryRecord'
  BY <1>1, <1>3 DEF QueryRecord
<1> QED  BY <1>1, <1>4, KeptAnswers DEF SoundQuery

LEMMA KeptQueries ==
  ASSUME RowsKept, UNCHANGED <<mode, query>>, QueriesSound
  PROVE  QueriesSound'
<1>1. \A q \in Query : SoundQuery(query[q])'
  BY KeptQuery DEF QueriesSound
<1>2. \A q \in Query : query[q] \in QueryRecord'
  BY <1>1 DEF SoundQuery
<1> QED  BY <1>1, <1>2 DEF QueriesSound

LEMMA OneQuery ==
  ASSUME RowsSound, UNCHANGED <<rows, mode>>, QueriesSound, NEW q \in Query, NEW d,
         SoundQuery(d), query' = [query EXCEPT ![q] = d]
  PROVE  QueriesSound'
<1>1. RowsKept
  BY RowNumbers DEF RowsKept, RowsSound
<1>2. \A p \in Query : SoundQuery(query[p])'
  <2> TAKE p \in Query
  <2>1. query'[p] = IF p = q THEN d ELSE query[p]
    BY DEF QueriesSound
  <2>2. SoundQuery(query[p])
    BY DEF QueriesSound
  <2>3. \A e : SoundQuery(e) => SoundQuery(e)'
    BY <1>1, KeptQuery
  <2> QED  BY <2>1, <2>2, <2>3
<1>3. query' \in [Query -> QueryRecord']
  BY <1>2 DEF QueriesSound, SoundQuery
<1> QED  BY <1>2, <1>3 DEF QueriesSound

\* A query that has taken a step of its own is sound.
Stepped(d, at, answer, next) ==
  [at |-> at, request |-> d.request, next |-> next, answer |-> answer, start |-> d.start]

LEMMA SteppedQuery ==
  ASSUME NEW d \in QueryRecord, d.request \in Request, NEW at \in {"reading", "done"},
         NEW answer \in Seq(DOMAIN rows), NEW next \in Nat,
         at = "done" => Exact(answer, d.request, d.start),
         at = "reading" => Progress(answer, d.request, d.start, next)
  PROVE  SoundQuery(Stepped(d, at, answer, next))
<1>1. d.request # NoRequest
  BY RequestAssumption
<1> QED  BY <1>1 DEF SoundQuery, QueryRecord, Stepped

Updated(q, at, answer, next) ==
  [query EXCEPT ![q].answer = answer, ![q].next = next, ![q].at = at]
Replaced(q, d) == [query EXCEPT ![q] = d]

LEMMA UpdatedQuery ==
  ASSUME NEW q \in Query, NEW answer, NEW next, NEW at,
         query \in [Query -> QueryRecord]
  PROVE  Updated(q, at, answer, next) = Replaced(q, Stepped(query[q], at, answer, next))
<1> DEFINE d == query[q]
           c == [d EXCEPT !.answer = answer, !.next = next, !.at = at]
<1>1. [query EXCEPT ![q].answer = answer, ![q].next = next, ![q].at = at]
        = [query EXCEPT ![q] = c]
  OBVIOUS
<1>2. DOMAIN c = DOMAIN d /\ DOMAIN d = {"at", "request", "next", "answer", "start"}
  BY DEF QueryRecord
<1>3. /\ c.at = at /\ c.request = d.request /\ c.next = next /\ c.answer = answer
      /\ c.start = d.start
  BY <1>2
<1>4. c = [y \in DOMAIN d |-> c[y]]
  OBVIOUS
<1> HIDE DEF c
<1>5. c = Stepped(d, at, answer, next)
  BY <1>2, <1>3, <1>4 DEF Stepped
<1> QED  BY <1>1, <1>5 DEF Updated, Replaced

LEMMA BeginQuery ==
  ASSUME RowsSound, UNCHANGED rows, QueriesSound, NEW q \in Query, NEW request \in Request,
         Begin(q, request)
  PROVE  QueriesSound'
<1> DEFINE d == [at |-> "reading", request |-> request, next |-> IF Local THEN 0 ELSE 1,
                 answer |-> <<>>, start |-> Len(rows)]
<1>1. Len(rows) \in 0..Len(rows) /\ request # NoRequest
  BY RowNumbers, RequestAssumption
<1>2. SoundQuery(d)
  BY <1>1, AnswerBegins DEF SoundQuery, QueryRecord
<1> QED  BY <1>2, OneQuery DEF Begin

LEMMA RestQuery ==
  ASSUME RowsSound, UNCHANGED <<rows, mode>>, QueriesSound, NEW q \in Query,
         query' = [query EXCEPT ![q] = Idle]
  PROVE  QueriesSound'
<1>1. SoundQuery(Idle)
  BY RowNumbers DEF SoundQuery, QueryRecord, Idle
<1> QED  BY <1>1, OneQuery

LEMMA ProceedQuery ==
  ASSUME RowsSound, UNCHANGED rows, QueriesSound, NEW q \in Query, QueryStep(q)
  PROVE  QueriesSound'
<1> DEFINE d == query[q]
<1>1. /\ SoundQuery(d) /\ d \in QueryRecord /\ d.at = "reading" /\ UNCHANGED mode
      /\ d.request \in Request /\ Progress(d.answer, d.request, d.start, d.next)
      /\ d.answer \in Seq(DOMAIN rows) /\ d.start \in 0..Len(rows) /\ d.next \in Nat
  BY DEF QueryStep, ReadRow, FetchBatch, Fail, At, QueriesSound, SoundQuery, QueryRecord
<1>2. /\ query \in [Query -> QueryRecord]
      /\ \A e : SoundQuery(e) /\ query' = Replaced(q, e) => QueriesSound'
  BY <1>1, OneQuery DEF QueriesSound, Replaced
<1>3. CASE ReadRow(q)
  <2> DEFINE new == Read(d.answer, d.request, d.next)
             ends == d.next > Len(rows) \/ Len(new) >= Limit(d.request)
             at == IF ends THEN "done" ELSE "reading"
  <2>1. query' = Updated(q, at, new, d.next + 1)
    <3>1. query' = [query EXCEPT ![q].answer = new, ![q].next = d.next + 1,
                                 ![q].at = IF ends THEN "done" ELSE @]
      BY <1>3 DEF ReadRow, Read
    <3> HIDE DEF new, ends
    <3> QED  BY <1>1, <1>2, <3>1 DEF Updated
  <2>2. ~Local
    BY <1>3 DEF ReadRow
  <2>3. /\ new \in Seq(DOMAIN rows) /\ d.next + 1 \in Nat /\ at \in {"reading", "done"}
        /\ at = "done" => Exact(new, d.request, d.start)
        /\ at = "reading" => Progress(new, d.request, d.start, d.next + 1)
    BY <1>1, <2>2, RowAnswers
  <2> HIDE DEF new, at, d
  <2>4. SoundQuery(Stepped(d, at, new, d.next + 1))
    BY <1>1, <2>3, SteppedQuery
  <2>5. query' = Replaced(q, Stepped(d, at, new, d.next + 1))
    BY <1>2, <2>1, UpdatedQuery DEF d
  <2> QED  BY <1>2, <2>4, <2>5
<1>4. CASE FetchBatch(q)
  <2> DEFINE new == Extended(d.answer, d.request, d.next)
             batch == Batch(d.request, d.next)
             ends == \/ d.request.kind = "list" \/ Len(batch) < Size(d.request)
                     \/ Len(new) >= Limit(d.request)
             after == d.next + Len(batch)
             at == IF ends THEN "done" ELSE "reading"
  <2>1. query' = Updated(q, at, new, after)
    <3>1. query' = [query EXCEPT ![q].answer = new, ![q].next = after,
                                 ![q].at = IF ends THEN "done" ELSE @]
      BY <1>4 DEF FetchBatch, Extended, Found, Batch, Size, NextOffset
    <3> HIDE DEF new, after, ends
    <3> QED  BY <1>1, <1>2, <3>1 DEF Updated
  <2>2. Local
    BY <1>4 DEF FetchBatch
  <2>3. new \in Seq(DOMAIN rows) /\ at \in {"reading", "done"}
    BY <1>1, ExtendedLists DEF Progress
  <2>4. /\ after \in Nat
        /\ at = "done" => Exact(new, d.request, d.start)
        /\ at = "reading" => Progress(new, d.request, d.start, after)
    BY <1>1, <2>2, BatchAnswers
  <2> HIDE DEF new, after, at, d
  <2>5. SoundQuery(Stepped(d, at, new, after))
    BY <1>1, <2>3, <2>4, SteppedQuery
  <2>6. query' = Replaced(q, Stepped(d, at, new, after))
    BY <1>2, <2>1, UpdatedQuery DEF d
  <2> QED  BY <1>2, <2>5, <2>6
<1>5. CASE Fail(q)
  <2> DEFINE e == [at |-> "failed", request |-> d.request, next |-> d.next,
                   answer |-> d.answer, start |-> d.start]
  <2>1. query' = [query EXCEPT ![q].at = "failed"]
    BY <1>5 DEF Fail
  <2>2. query' = [query EXCEPT ![q] = [d EXCEPT !.at = "failed"]]
    BY <1>2, <2>1
  <2>3. [d EXCEPT !.at = "failed"] = e
    BY <1>1 DEF QueryRecord
  <2>4. SoundQuery(e)
    BY <1>1, RequestAssumption DEF SoundQuery, QueryRecord
  <2> HIDE DEF e
  <2> QED  BY <1>2, <2>2, <2>3, <2>4 DEF Replaced
<1> QED  BY <1>3, <1>4, <1>5 DEF QueryStep

-----------------------------------------------------------------------------
\* A forecast is a sum of integers and their number.

First(s) == CHOOSE x \in s : TRUE
SumAt(f, g, s) == IF s = {} THEN 0 ELSE f[First(s)] + g[s \ {First(s)}]

LEMMA FirstLeaves ==
  ASSUME NEW D, IsFiniteSet(D), NEW s \in SUBSET D, s # {}
  PROVE  /\ First(s) \in s /\ s \ {First(s)} \in SUBSET D
         /\ Cardinality(s) \in Nat \ {0}
         /\ Cardinality(s \ {First(s)}) = Cardinality(s) - 1
<1>1. First(s) \in s
  BY DEF First
<1>2. IsFiniteSet(s)
  BY FS_Subset
<1> QED  BY <1>1, <1>2, FS_CardinalityType, FS_EmptySet, FS_RemoveElement

\* The recursion behind a sum over a finite set has a solution.
LEMMA SumsExist ==
  ASSUME NEW f, IsFiniteSet(DOMAIN f)
  PROVE  \E g : g = [s \in SUBSET DOMAIN f |-> SumAt(f, g, s)]
<1> DEFINE D == DOMAIN f
           n == Cardinality(D)
           SumsTo(k, g) == \A s \in SUBSET D : Cardinality(s) <= k => g[s] = SumAt(f, g, s)
           HasSums(k) == \E g : g = [s \in SUBSET D |-> g[s]] /\ SumsTo(k, g)
           T == {k \in 0..n : ~HasSums(k)}
           R == {p \in (0..n) \X (0..n) : p[1] > p[2]}
<1>1. /\ n \in Nat /\ IsFiniteSet(0..n)
      /\ \A s \in SUBSET D : Cardinality(s) \in Nat /\ Cardinality(s) <= n
  <2>1. n \in Nat /\ \A s \in SUBSET D : Cardinality(s) \in Nat /\ Cardinality(s) <= n
    BY FS_CardinalityType, FS_Subset
  <2> HIDE DEF n
  <2>2. IsFiniteSet(0..n)
    BY <2>1, FS_Interval
  <2> QED  BY <2>1, <2>2
<1> HIDE DEF n
<1>2. SUFFICES HasSums(n)
  <2>1. PICK g : g = [s \in SUBSET D |-> g[s]] /\ SumsTo(n, g)
    BY <1>2
  <2>2. \A s \in SUBSET D : g[s] = SumAt(f, g, s)
    BY <1>1, <2>1
  <2>3. g = [s \in SUBSET D |-> SumAt(f, g, s)]
    BY <2>1, <2>2
  <2> QED  BY <2>3
<1> HIDE DEF HasSums
<1>3. SUFFICES ASSUME T # {} PROVE FALSE
  BY <1>1
<1>4. PICK k \in T : \A i \in T \ {k} : <<i, k>> \in R
  <2>1. \A i, j \in 0..n : <<i, j>> \in R <=> i > j
    OBVIOUS
  <2> HIDE DEF R
  <2>2. \A h, i, j \in 0..n : <<h, i>> \in R /\ <<i, j>> \in R => <<h, j>> \in R
    BY <1>1, <2>1
  <2>3. \A i, j \in 0..n : i # j => <<i, j>> \in R \/ <<j, i>> \in R
    BY <1>1, <2>1
  <2>4. T \subseteq 0..n /\ T # {} /\ IsFiniteSet(0..n)
    BY <1>1, <1>3
  <2> HIDE DEF T
  <2> DEFINE N == 0..n
  <2>5. /\ \A h, i, j \in N : <<h, i>> \in R /\ <<i, j>> \in R => <<h, j>> \in R
        /\ \A i, j \in N : i # j => <<i, j>> \in R \/ <<j, i>> \in R
        /\ T \subseteq N /\ T # {} /\ IsFiniteSet(N)
    BY <2>2, <2>3, <2>4
  <2> HIDE DEF N
  <2> QED  BY <2>5, LastExists
<1>5. k \in 0..n /\ ~HasSums(k) /\ \A i \in T : i >= k
  <2>1. \A i, j \in 0..n : <<i, j>> \in R <=> i > j
    OBVIOUS
  <2>2. k \in 0..n /\ ~HasSums(k) /\ T \subseteq 0..n
    BY <1>4
  <2> HIDE DEF R, T
  <2>3. ASSUME NEW i \in T PROVE i >= k
    <3>1. i \in 0..n /\ (i = k \/ <<i, k>> \in R)
      BY <1>4, <2>2
    <3> QED  BY <1>1, <2>1, <2>2, <3>1
  <2> QED  BY <2>2, <2>3
<1>6. CASE k = 0
  <2> DEFINE g == [s \in SUBSET D |-> 0]
  <2>1. \A s \in SUBSET D : Cardinality(s) <= 0 => s = {}
    <3> SUFFICES ASSUME NEW s \in SUBSET D, Cardinality(s) <= 0, s # {} PROVE FALSE
      OBVIOUS
    <3>1. Cardinality(s) \in Nat \ {0}
      BY FirstLeaves
    <3> QED  BY <3>1
  <2>2. g = [s \in SUBSET D |-> g[s]] /\ SumsTo(0, g)
    BY <2>1 DEF SumAt
  <2>3. HasSums(0)
    <3> HIDE DEF g
    <3> QED  BY <2>2 DEF HasSums
  <2> QED  BY <1>5, <1>6, <2>3
<1>7. CASE k # 0
  <2>1. k - 1 \in 0..n /\ ~(k - 1 >= k)
    BY <1>1, <1>5, <1>7
  <2>2. HasSums(k - 1)
    BY <1>5, <2>1
  <2>3. PICK g : g = [s \in SUBSET D |-> g[s]] /\ SumsTo(k - 1, g)
    BY <2>2 DEF HasSums
  <2> DEFINE h == [s \in SUBSET D |-> IF Cardinality(s) = k THEN SumAt(f, g, s) ELSE g[s]]
  <2>4. ASSUME NEW s \in SUBSET D, Cardinality(s) <= k
        PROVE  h[s] = SumAt(f, h, s)
    <3>1. h[s] = SumAt(f, g, s)
      <4>1. CASE Cardinality(s) = k
        BY <4>1
      <4>2. CASE Cardinality(s) # k
        <5>1. Cardinality(s) <= k - 1
          BY <1>1, <1>5, <2>4, <4>2
        <5> QED  BY <2>3, <4>2, <5>1
      <4> QED  BY <4>1, <4>2
    <3>2. s # {} => h[s \ {First(s)}] = g[s \ {First(s)}]
      <4> SUFFICES ASSUME s # {} PROVE h[s \ {First(s)}] = g[s \ {First(s)}]
        OBVIOUS
      <4>1. /\ s \ {First(s)} \in SUBSET D /\ Cardinality(s) \in Nat
            /\ Cardinality(s \ {First(s)}) = Cardinality(s) - 1
        BY FirstLeaves
      <4>2. Cardinality(s \ {First(s)}) # k
        BY <1>1, <1>5, <2>4, <4>1
      <4> QED  BY <4>1, <4>2
    <3> HIDE DEF h
    <3> QED  BY <3>1, <3>2 DEF SumAt
  <2>5. h = [s \in SUBSET D |-> h[s]]
    OBVIOUS
  <2>6. HasSums(k)
    <3> HIDE DEF h
    <3> QED  BY <2>4, <2>5 DEF HasSums
  <2> QED  BY <1>5, <2>6
<1> QED  BY <1>6, <1>7

LEMMA SumIsInteger ==
  ASSUME NEW S, IsFiniteSet(S), NEW f \in [S -> Int]
  PROVE  SumFunction(f) \in Int
<1> DEFINE g == CHOOSE g : g = [s \in SUBSET DOMAIN f |-> SumAt(f, g, s)]
           T == {s \in SUBSET S : g[s] \notin Int}
<1>1. DOMAIN f = S
  OBVIOUS
<1>2. SumFunction(f) = g[S]
  BY <1>1 DEF SumFunction, SumFunctionOnSet, FoldFunctionOnSet, MapThenFoldSet, SumAt, First
<1>3. g = [s \in SUBSET S |-> SumAt(f, g, s)]
  BY <1>1, SumsExist
<1> HIDE DEF g
<1>4. SUFFICES ASSUME T # {} PROVE FALSE
  BY <1>2
<1>5. PICK U \in T : \A V \in T : V \subseteq U => V = U
  <2>1. T \subseteq SUBSET S
    OBVIOUS
  <2> HIDE DEF T
  <2> QED  BY <1>4, <2>1, SmallestSubset
<1>6. U \in SUBSET S /\ g[U] \notin Int /\ g[U] = SumAt(f, g, U)
  BY <1>3, <1>5
<1>7. U # {}
  BY <1>6 DEF SumAt
<1>8. First(U) \in U /\ U \ {First(U)} \in SUBSET S
  BY <1>6, <1>7 DEF First
<1>9. g[U \ {First(U)}] \in Int
  BY <1>5, <1>8
<1>10. f[First(U)] \in Int
  BY <1>6, <1>8
<1> QED  BY <1>6, <1>7, <1>9, <1>10 DEF SumAt

LEMMA LatestExists ==
  ASSUME RowsSound, NEW C, C \subseteq DOMAIN rows, C # {}
  PROVE  Latest(C) \in C
<1> DEFINE D == DOMAIN rows
           Later(i, j) == \/ rows[i].observed > rows[j].observed
                          \/ rows[i].observed = rows[j].observed /\ rows[i].stamp > rows[j].stamp
                          \/ rows[i].observed = rows[j].observed
                               /\ rows[i].stamp = rows[j].stamp /\ i < j
           R == {p \in D \X D : Later(p[2], p[1])}
<1>1. \A i, j \in D : <<i, j>> \in R <=> Later(j, i)
  OBVIOUS
<1>2. \A i \in D : i \in Nat /\ rows[i].observed \in Nat /\ rows[i].stamp \in Nat
  BY RowNumbers, RowFields
<1>3. /\ \A i, j, k \in D : Later(j, i) /\ Later(k, j) => Later(k, i)
      /\ \A i, j \in D : i # j => Later(i, j) \/ Later(j, i)
  BY <1>2
<1> HIDE DEF R, Later
<1>4. /\ \A i, j, k \in D : <<i, j>> \in R /\ <<j, k>> \in R => <<i, k>> \in R
      /\ \A i, j \in D : i # j => <<i, j>> \in R \/ <<j, i>> \in R
  BY <1>1, <1>3
<1>5. \E i \in C : \A j \in C \ {i} : <<j, i>> \in R
  <2>1. C \subseteq D /\ IsFiniteSet(D)
    BY RowNumbers
  <2> HIDE DEF D
  <2> QED  BY <1>4, <2>1, LastExists
<1>6. \E i \in C : \A j \in C \ {i} : Later(i, j)
  BY <1>1, <1>5
<1> QED  BY <1>6 DEF Latest, Later

LEMMA ForecastType ==
  ASSUME RowsSound, NEW baseline, NEW phenomenon, NEW available, available \subseteq DOMAIN rows
  PROVE  Forecast(baseline, available, phenomenon) \in Int \X Nat
<1> DEFINE C == Candidates(available, phenomenon)
           used == IF baseline = "persistence" /\ C # {} THEN {Latest(C)} ELSE C
<1>1. C \subseteq DOMAIN rows /\ \A i \in C : rows[i].value \in Int
  <2>1. \A i \in DOMAIN rows : rows[i].value \in Value \union {Missing}
    BY RowNumbers, RowFields
  <2> QED  BY <2>1, ValueAssumption DEF Candidates
<1>2. used \subseteq C
  <2> HIDE DEF C
  <2> QED  BY <1>1, LatestExists
<1> HIDE DEF used, C
<1>3. IsFiniteSet(used) /\ Cardinality(used) \in Nat
  BY <1>1, <1>2, RowNumbers, FS_Subset, FS_CardinalityType
<1>4. [i \in used |-> rows[i].value] \in [used -> Int]
  BY <1>1, <1>2
<1>5. SumFunction([i \in used |-> rows[i].value]) \in Int
  BY <1>3, <1>4, SumIsInteger
<1> QED  BY <1>3, <1>5 DEF Forecast, used, C

-----------------------------------------------------------------------------
\* The store grows; what is kept of a row does not change.

LEMMA StillKept ==
  ASSUME RowsSound, UNCHANGED rows
  PROVE  RowsKept
BY RowNumbers DEF RowsKept, RowsSound

LEMMA StoreGrowsKept ==
  ASSUME RowsTypeOK, Insert \/ Tick
  PROVE  RowsKept /\ RowsTypeOK'
<1>1. RowsSound /\ Len(rows) \in Nat /\ DOMAIN rows = 1..Len(rows) /\ clock \in Time
  BY RowNumbers DEF RowsTypeOK, RowsSound
<1>2. CASE Insert
  <2>1. PICK r \in Row : rows' = Append(rows, r)
    BY <1>2 DEF Insert
  <2>2. /\ rows' \in Seq(Row) /\ Len(rows') = Len(rows) + 1 /\ DOMAIN rows' = 1..Len(rows) + 1
        /\ \A i \in DOMAIN rows : i \in DOMAIN rows' /\ rows'[i] = rows[i]
    BY <1>1, <2>1 DEF RowsSound
  <2>3. entered \in Seq(Time) /\ Len(entered) = Len(rows)
    BY <1>1 DEF RowsTypeOK
  <2>4. entered' = Append(entered, clock) /\ clock' = clock
    BY <1>2 DEF Insert
  <2>5. entered' \in [DOMAIN rows' -> Time]
    <3>1. /\ entered' \in Seq(Time) /\ Len(entered') = Len(rows) + 1
          /\ DOMAIN entered' = 1..Len(entered')
      BY <1>1, <2>3, <2>4
    <3>2. entered' \in [1..Len(entered') -> Time]
      BY <3>1
    <3> QED  BY <2>2, <3>1, <3>2
  <2> QED  BY <1>1, <2>2, <2>4, <2>5 DEF RowsKept, RowsSound, RowsTypeOK
<1>3. CASE Tick
  <2>1. clock' \in Time /\ UNCHANGED <<rows, entered>>
    BY <1>1, <1>3, TimeAssumption DEF Tick, Time
  <2> QED  BY <1>1, <2>1, StillKept DEF RowsTypeOK
<1> QED  BY <1>2, <1>3

LEMMA KeptForecasts ==
  ASSUME RowsKept, NEW baseline, NEW phenomenon, NEW available, available \subseteq DOMAIN rows
  PROVE  Forecast(baseline, available, phenomenon)' = Forecast(baseline, available, phenomenon)
<1>1. \A i \in available : rows'[i] = rows[i]
  BY DEF RowsKept
<1>2. Candidates(available, phenomenon)' = Candidates(available, phenomenon)
  BY <1>1 DEF Candidates
<1>3. \A C \in SUBSET available : Latest(C)' = Latest(C)
  <2> TAKE C \in SUBSET available
  <2>1. \A i \in C : rows'[i] = rows[i]
    BY <1>1
  <2> QED  BY ONLY <2>1 DEF Latest
<1> DEFINE C == Candidates(available, phenomenon)
           used == IF baseline = "persistence" /\ C # {} THEN {Latest(C)} ELSE C
<1>4. C \in SUBSET available
  BY DEF Candidates
<1>5. used' = used
  <2> HIDE DEF C
  <2>1. C' = C /\ C \in SUBSET available
    BY <1>2, <1>4 DEF C
  <2> QED  BY <1>3, <2>1
<1>6. \A i \in used : rows'[i] = rows[i]
  <2>1. C # {} => Latest(C) \in C
    <3>1. C \subseteq DOMAIN rows
      BY <1>4
    <3> HIDE DEF C
    <3> QED  BY <3>1, LatestExists DEF RowsKept
  <2> HIDE DEF C
  <2> QED  BY <1>1, <1>4, <2>1
<1>7. [i \in used |-> rows[i].value]' = [i \in used |-> rows[i].value]
  <2> HIDE DEF used
  <2> QED  BY <1>5, <1>6
<1> HIDE DEF used, C
<1> QED  BY <1>5, <1>7 DEF Forecast, used, C

-----------------------------------------------------------------------------
\* A recorded case is what the rows of its time say, and stays it.

CaseSound(c) ==
  /\ c \in Case /\ c.issued < c.valid
  /\ c.used = {i \in 1..c.seen : rows[i].stamp <= c.issued}
  /\ c.forecast = Forecast(c.baseline, c.used, c.phenomenon)

CasesSound ==
  /\ case = NoCase \/ CaseSound(case)
  /\ ledger \in Seq(Case)
  /\ \A n \in DOMAIN ledger : CaseSound(ledger[n])

LEMMA CasesTyped ==
  CasesSound => VerificationTypeOK
BY DEF CasesSound, CaseSound, VerificationTypeOK, Range

LEMMA KeptCase ==
  ASSUME RowsKept, NEW c, CaseSound(c)
  PROVE  CaseSound(c)'
<1>1. /\ c \in Case /\ c.used \subseteq DOMAIN rows /\ c.seen \in 0..Len(rows)
      /\ c.used = {i \in 1..c.seen : rows[i].stamp <= c.issued}
      /\ c.forecast = Forecast(c.baseline, c.used, c.phenomenon)
  BY DEF CaseSound, Case
<1>2. /\ DOMAIN rows = 1..Len(rows) /\ Len(rows) \in Nat
      /\ DOMAIN rows \subseteq DOMAIN rows' /\ 0..Len(rows) \subseteq 0..Len(rows')
  BY RowNumbers DEF RowsKept, RowsSound
<1>3. c \in Case'
  BY <1>1, <1>2 DEF Case
<1>4. \A i \in 1..c.seen : rows'[i] = rows[i]
  <2>1. 1..c.seen \subseteq DOMAIN rows
    BY <1>1, <1>2
  <2> QED  BY <2>1 DEF RowsKept
<1>5. c.used = {i \in 1..c.seen : rows'[i].stamp <= c.issued}
  BY <1>1, <1>4
<1>6. c.forecast = Forecast(c.baseline, c.used, c.phenomenon)'
  BY <1>1, KeptForecasts
<1>7. c.issued < c.valid
  BY DEF CaseSound
<1> QED  BY <1>3, <1>5, <1>6, <1>7 DEF CaseSound

LEMMA KeptCases ==
  ASSUME RowsKept, UNCHANGED evaluation, CasesSound
  PROVE  CasesSound'
<1>1. case' = NoCase \/ CaseSound(case)'
  BY KeptCase DEF CasesSound, evaluation
<1>2. \A n \in DOMAIN ledger : CaseSound(ledger[n])'
  BY KeptCase DEF CasesSound, evaluation
<1>3. ledger \in Seq(Case')
  <2>1. \A n \in DOMAIN ledger : ledger[n] \in Case'
    BY <1>2 DEF CaseSound, evaluation
  <2>2. ledger = [n \in 1..Len(ledger) |-> ledger[n]] /\ Len(ledger) \in Nat
        /\ DOMAIN ledger = 1..Len(ledger)
    BY DEF CasesSound
  <2> QED  BY <2>1, <2>2
<1> QED  BY <1>1, <1>2, <1>3 DEF CasesSound, evaluation

LEMMA EvaluateCases ==
  ASSUME RowsSound, UNCHANGED rows, CasesSound, Evaluate
  PROVE  CasesSound'
<1>1. RowsKept
  BY StillKept
<1>2. /\ \A d : CaseSound(d) => CaseSound(d)'
      /\ Case' = Case /\ \A n \in DOMAIN ledger : CaseSound(ledger[n])
      /\ case = NoCase \/ CaseSound(case)
  BY <1>1, KeptCase DEF Case, CasesSound
<1>3. CASE \E baseline \in Baselines, phenomenon \in Phenomenon, issued, valid \in Time :
             BuildCase(baseline, phenomenon, issued, valid)
  <2>1. PICK baseline \in Baselines, phenomenon \in Phenomenon, issued \in Time, valid \in Time :
          BuildCase(baseline, phenomenon, issued, valid)
    BY <1>3
  <2> DEFINE available == Available(issued)
             c == [baseline |-> baseline, phenomenon |-> phenomenon, issued |-> issued,
                   valid |-> valid, forecast |-> Forecast(baseline, available, phenomenon),
                   used |-> available, seen |-> Len(rows)]
  <2>2. case' = c /\ ledger' = ledger
    BY <2>1 DEF BuildCase
  <2>b. issued < valid
    BY <2>1, TimeAssumption DEF BuildCase, Forecasts, Time
  <2>3. available \subseteq DOMAIN rows
        /\ available = {i \in 1..Len(rows) : rows[i].stamp <= issued}
    BY RowNumbers DEF Available
  <2>4. Forecast(baseline, available, phenomenon) \in Int \X Nat /\ Len(rows) \in 0..Len(rows)
    BY <2>3, ForecastType, RowNumbers
  <2>5. CaseSound(c)
    <3> HIDE DEF available
    <3> QED  BY <2>3, <2>4, <2>b DEF CaseSound, Case
  <2>6. PICK d : d = c
    OBVIOUS
  <2>7. CaseSound(d) /\ case' = d
    BY <2>2, <2>5, <2>6
  <2>8. CaseSound(case)'
    BY <1>2, <2>7
  <2> QED  BY <1>2, <2>2, <2>8 DEF CasesSound
<1>4. CASE Record
  <2>1. case' = NoCase /\ ledger' = Append(ledger, case) /\ CaseSound(case)
    BY <1>4 DEF Record, CasesSound
  <2>2. case \in Case /\ ledger \in Seq(Case)
    BY <2>1 DEF CasesSound, CaseSound
  <2>3. \A n \in DOMAIN ledger' : CaseSound(ledger'[n])
    BY <2>1, <2>2 DEF CasesSound
  <2>4. \A n \in DOMAIN ledger' : CaseSound(ledger[n])'
    BY <1>2, <2>3
  <2>5. ledger' \in Seq(Case')
    BY <1>2, <2>1, <2>2
  <2> QED  BY <2>1, <2>4, <2>5 DEF CasesSound
<1>5. CASE Drop
  BY <1>2, <1>5 DEF Drop, CasesSound
<1> QED  BY <1>3, <1>4, <1>5 DEF Evaluate

-----------------------------------------------------------------------------
\* The table: which load a query serves, and what its list has left out.

\* Idle queries serve no load, the others are what their load asked for, and the query of
\* the last load asks for what the switch says.
LoadsSound ==
  /\ showQuarantine \in BOOLEAN
  /\ loads \in Nat
  /\ load \in [Query -> 0..loads]
  /\ \A q \in Query :
       /\ load[q] # 0 => ~At(q, "idle") /\ query[q].request.kind = "list"
       /\ ~At(q, "idle") /\ load[q] = 0 => query[q].request.kind = "position"
       /\ load[q] # 0 /\ load[q] = loads => query[q].request.quarantine = showQuarantine

HeadOfList(list, request, start) ==
  /\ \A p \in 1..Len(list) : Matches(list[p], request)
  /\ \A i \in Missed(list, request, start) :
       /\ Len(list) = Min({TableSize, Limit(request)})
       /\ \A p \in 1..Len(list) : Precedes(list[p], i)

TableSound ==
  /\ shown \in [load: 0..loads, request: Request \union {NoRequest}, start: 0..Len(rows),
                list: Seq(DOMAIN rows)]
  /\ shown.load # 0 =>
       /\ shown.request \in Request
       /\ HeadOfList(shown.list, shown.request, shown.start)
       /\ shown.load = loads => shown.request.quarantine = showQuarantine

LEMMA KeptHeads ==
  ASSUME RowsKept, mode' = mode, NEW request, NEW list \in Seq(DOMAIN rows),
         NEW start \in 0..Len(rows), HeadOfList(list, request, start)
  PROVE  HeadOfList(list, request, start)'
<1>1. /\ Len(list) \in Nat /\ \A p \in 1..Len(list) : list[p] \in DOMAIN rows
      /\ \A i \in 1..start : i \in DOMAIN rows
  BY RowNumbers DEF RowsKept
<1>2. Local' = Local /\ Limit(request)' = Limit(request)
  BY DEF Local, Limit
<1>3. Missed(list, request, start)' = Missed(list, request, start)
  BY <1>1, KeptRows DEF Missed
<1>4. \A i, j \in DOMAIN rows : Precedes(j, i)' = Precedes(j, i)
  BY <1>2, KeptRows DEF Precedes
<1>5. \A i \in Missed(list, request, start) : i \in DOMAIN rows
  BY <1>1 DEF Missed
<1>6. \A p \in 1..Len(list) : Matches(list[p], request)'
  BY <1>1, KeptRows DEF HeadOfList
<1>7. \A i \in Missed(list, request, start) :
        /\ Len(list) = Min({TableSize, Limit(request)})
        /\ \A p \in 1..Len(list) : Precedes(list[p], i)'
  BY <1>1, <1>4, <1>5 DEF HeadOfList
<1> QED  BY <1>2, <1>3, <1>6, <1>7 DEF HeadOfList

\* The head of an exact list has left out what comes last in it, or nothing.
LEMMA HeadOfExact ==
  ASSUME RowsSound, NEW request \in Request, request.kind = "list",
         NEW answer \in Seq(DOMAIN rows), NEW start \in 0..Len(rows),
         Exact(answer, request, start)
  PROVE  /\ FirstOf(answer, TableSize) \in Seq(DOMAIN rows)
         /\ HeadOfList(FirstOf(answer, TableSize), request, start)
<1> DEFINE list == FirstOf(answer, TableSize)
           limit == Limit(request)
<1>1. limit \in Nat \ {0} /\ TableSize \in Nat /\ Len(answer) \in Nat
  BY RequestFields, TableAssumption
<1>2. /\ list \in Seq(DOMAIN rows)
      /\ Len(list) = IF TableSize <= Len(answer) THEN TableSize ELSE Len(answer)
      /\ \A p \in 1..Len(list) : p \in 1..Len(answer) /\ list[p] = answer[p]
  BY <1>1, FirstOfLists
<1>3. /\ Agrees(answer, request, start) /\ Len(answer) <= limit
      /\ Missed(answer, request, start) # {} => Len(answer) = limit
  BY DEF Exact
<1> HIDE DEF list, limit
<1>4. \A p \in 1..Len(list) : Matches(list[p], request)
  BY <1>2, <1>3 DEF Agrees
<1>5. Min({TableSize, limit}) = IF TableSize <= limit THEN TableSize ELSE limit
  BY <1>1, Smaller
<1>6. ASSUME NEW i \in Missed(list, request, start)
      PROVE  /\ Len(list) = Min({TableSize, limit})
             /\ \A p \in 1..Len(list) : Precedes(list[p], i)
  <2>1. i \in 1..start /\ Matches(i, request) /\ \A p \in 1..Len(list) : list[p] # i
    BY <1>6 DEF Missed
  <2>2. CASE i \in Missed(answer, request, start)
    <3>1. Len(list) = Min({TableSize, limit})
      BY <1>1, <1>2, <1>3, <1>5, <2>2
    <3>2. \A p \in 1..Len(list) : Precedes(list[p], i)
      BY <1>2, <1>3, <2>2 DEF Agrees
    <3> QED  BY <3>1, <3>2
  <2>3. CASE i \notin Missed(answer, request, start)
    <3>1. PICK m \in 1..Len(answer) : answer[m] = i
      BY <2>1, <2>3 DEF Missed
    <3>2. m > Len(list)
      <4> SUFFICES ASSUME m <= Len(list) PROVE FALSE
        BY <1>1, <1>2
      <4>1. m \in 1..Len(list)
        BY <1>1, <1>2
      <4> QED  BY <1>2, <2>1, <3>1, <4>1
    <3>3. Len(list) = TableSize /\ TableSize < Len(answer)
      BY <1>1, <1>2, <3>2
    <3>4. Len(list) = Min({TableSize, limit})
      BY <1>1, <1>3, <1>5, <3>3
    <3>5. \A p \in 1..Len(list) : Precedes(list[p], i)
      <4> TAKE p \in 1..Len(list)
      <4>1. p < m /\ p \in 1..Len(answer) /\ list[p] = answer[p]
        BY <1>1, <1>2, <3>2
      <4> QED  BY <1>3, <3>1, <4>1 DEF Agrees
    <3> QED  BY <3>4, <3>5
  <2> QED  BY <2>2, <2>3
<1> QED  BY <1>2, <1>4, <1>6 DEF HeadOfList, list, limit

LEMMA KeptTable ==
  ASSUME RowsKept, UNCHANGED <<mode, showQuarantine, loads, shown>>, TableSound
  PROVE  TableSound'
<1>1. /\ shown.start \in 0..Len(rows) /\ shown.list \in Seq(DOMAIN rows)
  BY DEF TableSound
<1>2. DOMAIN rows \subseteq DOMAIN rows' /\ 0..Len(rows) \subseteq 0..Len(rows')
  BY RowNumbers DEF RowsKept, RowsSound
<1>3. shown.list \in Seq(DOMAIN rows')
  BY <1>1, <1>2
<1>4. shown \in [load: 0..loads, request: Request \union {NoRequest}, start: 0..Len(rows'),
                 list: Seq(DOMAIN rows')]
  BY <1>1, <1>2, <1>3 DEF TableSound
<1>5. shown.load # 0 => HeadOfList(shown.list, shown.request, shown.start)'
  <2>1. \A request : \A list \in Seq(DOMAIN rows), start \in 0..Len(rows) :
          HeadOfList(list, request, start) => HeadOfList(list, request, start)'
    BY KeptHeads
  <2> QED  BY <1>1, <2>1 DEF TableSound
<1> QED  BY <1>4, <1>5 DEF TableSound

\* The table or its request does not change while its load number is not the last.
LEMMA LoadTable ==
  ASSUME RowsKept, UNCHANGED <<mode, shown>>, TableSound, loads \in Nat, loads' = loads + 1
  PROVE  TableSound'
<1>1. /\ shown.start \in 0..Len(rows) /\ shown.list \in Seq(DOMAIN rows)
      /\ shown.load \in 0..loads
  BY DEF TableSound
<1>2. DOMAIN rows \subseteq DOMAIN rows' /\ 0..Len(rows) \subseteq 0..Len(rows')
  BY RowNumbers DEF RowsKept, RowsSound
<1>3. shown.list \in Seq(DOMAIN rows') /\ shown.load \in 0..loads' /\ shown.load # loads'
  BY <1>1, <1>2
<1>4. shown \in [load: 0..loads', request: Request \union {NoRequest}, start: 0..Len(rows'),
                 list: Seq(DOMAIN rows')]
  BY <1>1, <1>2, <1>3 DEF TableSound
<1>5. shown.load # 0 => HeadOfList(shown.list, shown.request, shown.start)'
  <2>1. \A request : \A list \in Seq(DOMAIN rows), start \in 0..Len(rows) :
          HeadOfList(list, request, start) => HeadOfList(list, request, start)'
    BY KeptHeads
  <2> QED  BY <1>1, <2>1 DEF TableSound
<1> QED  BY <1>3, <1>4, <1>5 DEF TableSound

LEMMA KeptRequests ==
  ASSUME QueriesSound, NEW q \in Query, QueryStep(q)
  PROVE  \A p \in Query : /\ query'[p].request = query[p].request
                          /\ query'[p].at = "idle" <=> query[p].at = "idle"
<1>1. query \in [Query -> QueryRecord] /\ query[q].at = "reading"
  BY DEF QueriesSound, QueryStep, ReadRow, FetchBatch, Fail, At
<1>2. \A p \in Query : p # q => query'[p] = query[p]
  BY <1>1 DEF QueryStep, ReadRow, FetchBatch, Fail
<1>3. query'[q].request = query[q].request /\ query'[q].at # "idle"
  <2>1. CASE ReadRow(q)
    BY <1>1, <2>1 DEF ReadRow, QueryRecord
  <2>2. CASE FetchBatch(q)
    <3> DEFINE d == query[q]
               new == Extended(d.answer, d.request, d.next)
               batch == Batch(d.request, d.next)
               after == d.next + Len(batch)
               ends == \/ d.request.kind = "list" \/ Len(batch) < Size(d.request)
                       \/ Len(new) >= Limit(d.request)
    <3>1. query' = [query EXCEPT ![q].answer = new, ![q].next = after,
                                 ![q].at = IF ends THEN "done" ELSE @]
      BY <2>2 DEF FetchBatch, Extended, Found, Batch, Size, NextOffset
    <3> HIDE DEF new, after, ends
    <3> QED  BY <1>1, <3>1 DEF QueryRecord
  <2>3. CASE Fail(q)
    BY <1>1, <2>3 DEF Fail, QueryRecord
  <2> QED  BY <2>1, <2>2, <2>3 DEF QueryStep
<1> QED  BY <1>1, <1>2, <1>3

-----------------------------------------------------------------------------
Inv ==
  /\ RowsTypeOK
  /\ QueriesSound
  /\ LoadsSound
  /\ TableSound
  /\ CasesSound
  /\ uses \in 0..MaxUses

LEMMA InvInit ==
  Init => Inv
<1> SUFFICES ASSUME Init PROVE Inv
  OBVIOUS
<1> USE DEF Init, RowsInit, QueriesInit, ConsoleInit, VerificationInit
<1>1. rows = <<>> /\ rows \in Seq(Row) /\ Len(rows) = 0 /\ DOMAIN rows = {}
  OBVIOUS
<1>2. RowsTypeOK
  BY <1>1, TimeAssumption DEF RowsTypeOK, Time
<1>3. SoundQuery(Idle)
  BY <1>1 DEF SoundQuery, QueryRecord, Idle
<1>4. QueriesSound
  BY <1>3 DEF QueriesSound, SoundQuery
<1>5. LoadsSound
  <2>1. \A q \in Query : query[q].at = "idle" /\ load[q] = 0
    BY DEF Idle
  <2>2. loads = 0 /\ showQuarantine = FALSE /\ load = [q \in Query |-> 0] /\ 0 \in 0..0
    OBVIOUS
  <2>3. load \in [Query -> 0..loads] /\ loads \in Nat
    BY ONLY <2>2
  <2> QED  BY ONLY <2>1, <2>2, <2>3 DEF LoadsSound, At
<1>6. TableSound
  BY <1>1 DEF TableSound
<1>7. CasesSound
  BY DEF CasesSound
<1> QED  BY <1>2, <1>4, <1>5, <1>6, <1>7, UsesAssumption DEF Inv

LEMMA InvNext ==
  Inv /\ [Next]_vars => Inv'
<1> SUFFICES ASSUME Inv, [Next]_vars PROVE Inv'
  OBVIOUS
<1>1. /\ RowsTypeOK /\ QueriesSound /\ LoadsSound /\ TableSound /\ CasesSound
      /\ uses \in 0..MaxUses /\ RowsSound
  BY DEF Inv, RowsTypeOK, RowsSound
<1>2. ASSUME UNCHANGED store PROVE RowsKept /\ RowsTypeOK'
  BY <1>1, <1>2, StillKept DEF store, RowsTypeOK
<1>3. ASSUME Use PROVE uses' \in 0..MaxUses
  BY <1>1, <1>3, UsesAssumption DEF Use
<1>4. ASSUME UNCHANGED <<query, browser>> PROVE LoadsSound'
  BY <1>1, <1>4 DEF LoadsSound, browser, At
<1>5. query \in [Query -> QueryRecord]
  BY <1>1 DEF QueriesSound
<1>6. CASE StoreGrows
  <2>1. RowsKept /\ RowsTypeOK'
    BY <1>1, <1>6, StoreGrowsKept DEF StoreGrows
  <2>2. UNCHANGED <<mode, query, browser, evaluation, uses>>
    BY <1>6 DEF StoreGrows
  <2> QED  BY <1>1, <1>4, <2>1, <2>2, KeptQueries, KeptTable, KeptCases DEF Inv, browser
<1>7. CASE AskForPosition
  <2>1. PICK q \in Query, request \in Request : request.kind = "position" /\ Begin(q, request)
    BY <1>7 DEF AskForPosition
  <2>2. UNCHANGED <<store, mode, browser, evaluation>> /\ Use /\ UNCHANGED rows
    BY <1>7, <2>1 DEF AskForPosition, Begin, store
  <2>3. QueriesSound'
    BY <1>1, <2>1, <2>2, BeginQuery
  <2>4. LoadsSound'
    <3>1. load[q] = 0 /\ load' = load /\ UNCHANGED <<showQuarantine, loads>>
      BY <1>1, <2>1, <2>2 DEF Begin, LoadsSound, browser
    <3>2. /\ \A p \in Query : p # q => query'[p] = query[p]
          /\ query'[q].request = request
      BY <1>5, <2>1 DEF Begin
    <3> QED  BY <1>1, <2>1, <3>1, <3>2 DEF LoadsSound, At
  <2> QED  BY <1>1, <1>2, <1>3, <2>2, <2>3, <2>4, KeptTable, KeptCases DEF Inv, browser
<1>8. CASE QueryProceeds
  <2>1. PICK q \in Query : QueryStep(q) \/ (load[q] = 0 /\ Return(q))
    BY <1>8 DEF QueryProceeds
  <2>2. UNCHANGED <<store, mode, browser, evaluation, uses>> /\ UNCHANGED rows
    BY <1>8, <2>1 DEF QueryProceeds, store, QueryStep, ReadRow, FetchBatch, Fail, Return
  <2>3. QueriesSound' /\ LoadsSound'
    <3>1. CASE QueryStep(q)
      <4>1. QueriesSound'
        BY <1>1, <2>2, <3>1, ProceedQuery
      <4>2. LoadsSound'
        BY <1>1, <2>2, <3>1, KeptRequests DEF LoadsSound, At, browser
      <4> QED  BY <4>1, <4>2
    <3>2. CASE load[q] = 0 /\ Return(q)
      <4>1. query' = [query EXCEPT ![q] = Idle]
        BY <3>2 DEF Return
      <4>2. QueriesSound'
        BY <1>1, <2>2, <4>1, RestQuery
      <4>3. /\ \A p \in Query : p # q => query'[p] = query[p]
            /\ query'[q].at = "idle"
        BY <1>5, <4>1 DEF Idle
      <4>4. LoadsSound'
        BY <1>1, <2>2, <3>2, <4>3 DEF LoadsSound, At, browser
      <4> QED  BY <4>2, <4>4
    <3> QED  BY <2>1, <3>1, <3>2
  <2> QED  BY <1>1, <1>2, <2>2, <2>3, KeptTable, KeptCases DEF Inv, browser
<1>9. CASE BrowserLoads
  <2>1. PICK q \in Query : LoadData(q)
    BY <1>9 DEF BrowserLoads
  <2>2. UNCHANGED <<store, evaluation>> /\ Use /\ UNCHANGED rows
    BY <1>9 DEF BrowserLoads, store
  <2>3. /\ showQuarantine' \in BOOLEAN /\ Begin(q, ListRequest(showQuarantine'))
        /\ loads' = loads + 1 /\ load' = [load EXCEPT ![q] = loads + 1]
        /\ UNCHANGED <<mode, shown>>
    BY <2>1 DEF LoadData, Begin
  <2>4. /\ ListRequest(showQuarantine') \in Request
        /\ ListRequest(showQuarantine').kind = "list"
        /\ ListRequest(showQuarantine').quarantine = showQuarantine'
    BY <2>3, ListAssumption DEF ListRequest
  <2>5. QueriesSound'
    BY <1>1, <2>2, <2>3, <2>4, BeginQuery
  <2>6. LoadsSound'
    <3>1. /\ \A p \in Query : p # q => query'[p] = query[p] /\ load'[p] = load[p]
          /\ query'[q].request = ListRequest(showQuarantine') /\ query'[q].at = "reading"
          /\ load'[q] = loads + 1
      BY <1>1, <1>5, <2>3 DEF Begin, LoadsSound
    <3>2. loads \in Nat /\ load \in [Query -> 0..loads] /\ \A p \in Query : load[p] # loads'
      BY <1>1, <2>3 DEF LoadsSound
    <3>3. load' \in [Query -> 0..loads']
      BY <2>3, <3>2
    <3>4. ASSUME NEW p \in Query
          PROVE  /\ load'[p] # 0 => query'[p].at # "idle" /\ query'[p].request.kind = "list"
                 /\ query'[p].at # "idle" /\ load'[p] = 0 =>
                      query'[p].request.kind = "position"
                 /\ load'[p] # 0 /\ load'[p] = loads' =>
                      query'[p].request.quarantine = showQuarantine'
      <4>1. CASE p = q
        BY <2>4, <3>1, <3>2, <4>1
      <4>2. CASE p # q
        BY <1>1, <3>1, <3>2, <4>2 DEF LoadsSound, At
      <4> QED  BY <4>1, <4>2
    <3> QED  BY <2>3, <3>2, <3>3, <3>4 DEF LoadsSound, At
  <2>7. TableSound'
    BY <1>1, <1>2, <2>2, <2>3, LoadTable DEF LoadsSound
  <2> QED  BY <1>1, <1>2, <1>3, <2>2, <2>5, <2>6, <2>7, KeptCases DEF Inv
<1>10. CASE BrowserShows
  <2>1. PICK q \in Query : Arrive(q)
    BY <1>10 DEF BrowserShows
  <2>2. UNCHANGED <<store, evaluation, uses>> /\ UNCHANGED rows
    BY <1>10 DEF BrowserShows, store
  <2>3. /\ load[q] # 0 /\ query[q].at \in {"done", "failed"}
        /\ load' = [load EXCEPT ![q] = 0] /\ query' = [query EXCEPT ![q] = Idle]
        /\ UNCHANGED <<mode, showQuarantine, loads>>
    BY <2>1 DEF Arrive
  <2>4. QueriesSound'
    BY <1>1, <2>2, <2>3, RestQuery
  <2>5. LoadsSound'
    <3>1. /\ \A p \in Query : p # q => query'[p] = query[p] /\ load'[p] = load[p]
          /\ query'[q].at = "idle" /\ load'[q] = 0
      BY <1>1, <1>5, <2>3 DEF Idle, LoadsSound
    <3>2. load' \in [Query -> 0..loads']
      BY <1>1, <2>3 DEF LoadsSound
    <3> QED  BY <1>1, <2>3, <3>1, <3>2 DEF LoadsSound, At
  <2>6. TableSound'
    <3>1. CASE At(q, "failed")
      <4>1. shown' = shown
        BY <2>1, <3>1 DEF Arrive
      <4> QED  BY <1>1, <1>2, <2>2, <2>3, <4>1, KeptTable
    <3>2. CASE ~At(q, "failed")
      <4> DEFINE d == query[q]
                 list == FirstOf(d.answer, TableSize)
                 new == [load |-> load[q], request |-> d.request, start |-> d.start,
                         list |-> list]
      <4>1. shown' = new
        BY <2>1, <3>2 DEF Arrive
      <4>2. /\ d \in QueryRecord /\ d.at = "done" /\ d.request \in Request
            /\ Exact(d.answer, d.request, d.start)
        BY <1>1, <2>3, <3>2 DEF QueriesSound, SoundQuery, QueryRecord, At
      <4>3. /\ d.request.kind = "list" /\ load[q] \in 0..loads
            /\ load[q] = loads => d.request.quarantine = showQuarantine
        BY <1>1, <2>3 DEF LoadsSound
      <4>4. list \in Seq(DOMAIN rows) /\ HeadOfList(list, d.request, d.start)
            /\ d.start \in 0..Len(rows)
        BY <1>1, <4>2, <4>3, HeadOfExact DEF QueryRecord
      <4>5. PICK l, r, s, n : l = list /\ r = d.request /\ s = d.start /\ n = load[q]
        OBVIOUS
      <4>6. HeadOfList(l, r, s)'
        BY <1>2, <2>2, <2>3, <4>4, <4>5, KeptHeads
      <4>7. shown' = [load |-> n, request |-> r, start |-> s, list |-> l]
        BY <4>1, <4>5
      <4>8. /\ n \in 0..loads' /\ r \in Request /\ s \in 0..Len(rows') /\ l \in Seq(DOMAIN rows')
            /\ n = loads' => r.quarantine = showQuarantine'
        BY <2>2, <2>3, <4>2, <4>3, <4>4, <4>5
      <4> QED  BY <4>6, <4>7, <4>8 DEF TableSound
    <3> QED  BY <3>1, <3>2
  <2> QED  BY <1>1, <1>2, <2>2, <2>4, <2>5, <2>6, KeptCases DEF Inv
<1>11. CASE EvaluationProceeds
  <2>1. UNCHANGED <<store, mode, query, browser>> /\ Evaluate /\ UNCHANGED rows
    BY <1>11 DEF EvaluationProceeds, store
  <2>2. uses' \in 0..MaxUses
    BY <1>1, <1>3, <1>11 DEF EvaluationProceeds
  <2>3. CasesSound'
    BY <1>1, <2>1, EvaluateCases
  <2> QED  BY <1>1, <1>2, <1>4, <2>1, <2>2, <2>3, KeptQueries, KeptTable DEF Inv, browser
<1>12. CASE UNCHANGED vars
  BY <1>1, <1>2, <1>4, <1>12, KeptQueries, KeptTable, KeptCases DEF Inv, vars, browser
<1> QED  BY <1>6, <1>7, <1>8, <1>9, <1>10, <1>11, <1>12 DEF Next

LEMMA Invariance ==
  Spec => []Inv
BY InvInit, InvNext, PTL DEF Spec

\* Rows, queries, the table and the cases keep their type, and a query serves a load exactly
\* if it is a list.
THEOREM TypeCorrect ==
  Spec => []TypeOK
<1>1. Inv => TypeOK
  <2> SUFFICES ASSUME Inv PROVE TypeOK
    OBVIOUS
  <2>1. QueriesTypeOK /\ VerificationTypeOK /\ RowsTypeOK /\ uses \in 0..MaxUses
    BY QueriesSoundTyped, CasesTyped DEF Inv
  <2>2. ConsoleTypeOK
    BY DEF Inv, LoadsSound, TableSound, ConsoleTypeOK
  <2>3. \A q \in Query : ~At(q, "idle") => (load[q] # 0 <=> query[q].request.kind = "list")
    BY DEF Inv, LoadsSound
  <2> QED  BY <2>1, <2>2, <2>3 DEF TypeOK
<1> QED  BY <1>1, Invariance, PTL

\* The answer of a query (list of the observation store, edr and observations routes of the
\* console) is exact up to its limit, whatever enters while it is made.
THEOREM AnswersAreExactHolds ==
  Spec => []AnswersAreExact
<1>1. Inv => AnswersAreExact
  <2> SUFFICES ASSUME Inv, NEW q \in Query, At(q, "done")
               PROVE  LET answer == query[q].answer
                          request == query[q].request
                          After(i) == {j \in DOMAIN rows : j > query[q].start /\ Newer(j, i)} IN
                      /\ Len(answer) <= Limit(request)
                      /\ \A i \in Range(answer) :
                           Matches(i, request) /\ (rows[i].quarantined => request.quarantine)
                      /\ \A i \in 1..query[q].start :
                           Matches(i, request) /\ i \notin Range(answer) =>
                             /\ Len(answer) = Limit(request)
                             /\ \A j \in Range(answer) : IF Local THEN Newer(j, i) ELSE j < i
                      /\ \A m, n \in DOMAIN answer : m < n /\ answer[m] = answer[n] =>
                           Local /\ After(answer[m]) # {}
    BY DEF AnswersAreExact
  <2> DEFINE answer == query[q].answer
             request == query[q].request
             start == query[q].start
             After(i) == {j \in DOMAIN rows : j > start /\ Newer(j, i)}
  <2>1. Exact(answer, request, start) /\ answer \in Seq(DOMAIN rows)
    BY DEF Inv, QueriesSound, SoundQuery, QueryRecord, At
  <2> HIDE DEF answer, request, start
  <2>2. /\ DOMAIN answer = 1..Len(answer)
        /\ \A i : i \in Range(answer) <=> \E p \in 1..Len(answer) : answer[p] = i
    BY <2>1 DEF Range
  <2>3. \A i \in Range(answer) :
          Matches(i, request) /\ (rows[i].quarantined => request.quarantine)
    BY <2>1, <2>2 DEF Exact, Agrees, Matches, AskedFor
  <2>4. ASSUME NEW i \in 1..start, Matches(i, request), i \notin Range(answer)
        PROVE  /\ Len(answer) = Limit(request)
               /\ \A j \in Range(answer) : IF Local THEN Newer(j, i) ELSE j < i
    <3>1. i \in Missed(answer, request, start)
      BY <2>2, <2>4 DEF Missed
    <3>2. Len(answer) = Limit(request)
      BY <2>1, <3>1 DEF Exact
    <3>3. \A j \in Range(answer) : Precedes(j, i)
      BY <2>1, <2>2, <3>1 DEF Exact, Agrees
    <3> QED  BY <3>2, <3>3 DEF Precedes
  <2>5. \A m, n \in DOMAIN answer : m < n /\ answer[m] = answer[n] =>
          Local /\ After(answer[m]) # {}
    BY <2>1, <2>2 DEF Exact, Agrees, Overtaken
  <2>6. Len(answer) <= Limit(request)
    BY <2>1 DEF Exact
  <2> QED  BY <2>3, <2>4, <2>5, <2>6 DEF answer, request, start
<1> QED  BY <1>1, Invariance, PTL

\* The table of the browser is the store seen through the quarantine switch as its load was
\* made with, cut off at the end only; as the switch stands, for the last load.
THEOREM TableFollowsSwitchHolds ==
  Spec => []TableFollowsSwitch
<1>1. Inv => TableFollowsSwitch
  <2> SUFFICES ASSUME Inv, shown.load > 0
               PROVE  /\ shown.load = loads => shown.request.quarantine = showQuarantine
                      /\ \A i \in Range(shown.list) :
                           shown.request.quarantine \/ ~rows[i].quarantined
                      /\ \A i \in LeftOut :
                           /\ Len(shown.list) = Min({TableSize, Limit(shown.request)})
                           /\ \A j \in Range(shown.list) : IF Local THEN Newer(j, i) ELSE j < i
    BY DEF TableFollowsSwitch
  <2>1. /\ shown.load # 0 /\ HeadOfList(shown.list, shown.request, shown.start)
        /\ shown.load = loads => shown.request.quarantine = showQuarantine
        /\ shown.list \in Seq(DOMAIN rows)
    BY DEF Inv, TableSound
  <2> DEFINE list == shown.list
             request == shown.request
  <2>2. \A i : i \in Range(list) <=> \E p \in 1..Len(list) : list[p] = i
    BY <2>1 DEF Range
  <2>3. LeftOut = Missed(list, request, shown.start)
    BY <2>2 DEF LeftOut, Missed
  <2>4. \A i \in Range(list) : request.quarantine \/ ~rows[i].quarantined
    BY <2>1, <2>2 DEF HeadOfList, Matches, AskedFor
  <2>5. \A i \in LeftOut : /\ Len(list) = Min({TableSize, Limit(request)})
                          /\ \A j \in Range(list) : Precedes(j, i)
    BY <2>1, <2>2, <2>3 DEF HeadOfList
  <2> QED  BY <2>1, <2>4, <2>5 DEF Precedes
<1> QED  BY <1>1, Invariance, PTL

\* Two cases of the ledger of one baseline, phenomenon and issue time agree, unless a row
\* that claims to have been there entered between them.
THEOREM CasesAreReproducibleHolds ==
  Spec => []CasesAreReproducible
<1>1. Inv => CasesAreReproducible
  <2> SUFFICES ASSUME Inv, NEW c \in Range(ledger), NEW d \in Range(ledger),
                      c.seen <= d.seen, c.baseline = d.baseline,
                      c.phenomenon = d.phenomenon, c.issued = d.issued,
                      \A i \in EnteredBetween(c, d) : ~(rows[i].stamp <= c.issued)
               PROVE  c.forecast = d.forecast /\ c.used = d.used
    BY DEF CasesAreReproducible
  <2>1. CaseSound(c) /\ CaseSound(d)
    BY DEF Inv, CasesSound, Range
  <2>2. c.seen \in Nat /\ d.seen \in Nat
    BY <2>1, RowNumbers DEF CaseSound, Case, Inv, RowsTypeOK, RowsSound
  <2>3. \A i \in 1..d.seen : i \in 1..c.seen \/ i \in EnteredBetween(c, d)
    BY <2>2 DEF EnteredBetween
  <2>4. 1..c.seen \subseteq 1..d.seen
    BY <2>2
  <2>5. c.used = {i \in 1..c.seen : rows[i].stamp <= c.issued}
        /\ d.used = {i \in 1..d.seen : rows[i].stamp <= c.issued}
    BY <2>1 DEF CaseSound
  <2>6. c.used = d.used
    BY <2>3, <2>4, <2>5
  <2> QED  BY <2>1, <2>6 DEF CaseSound
<1> QED  BY <1>1, Invariance, PTL
=============================================================================

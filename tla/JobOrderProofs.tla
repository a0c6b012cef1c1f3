---------------------------- MODULE JobOrderProofs ----------------------------
(***************************************************************************)
(* The places that JobOrder gives to the ready rows of a table.            *)
(***************************************************************************)
EXTENDS JobOrder, Lemmas, FiniteSetTheorems

Table(q) == /\ IsFiniteSet(DOMAIN q) /\ DOMAIN q \subseteq Int
            /\ \A i \in DOMAIN q : q[i].priority \in Int /\ q[i].runAfter \in Int

AheadOf(q, i) == {k \in Ready(q) : q[k].priority < q[i].priority}
OlderThan(q, i) == {k \in SameLevel(q, i) : Before(q, k, i)}
NewerThan(q, i) == {k \in SameLevel(q, i) : Before(q, i, k)}
Lower(o, n) == IF o < n THEN o ELSE n
IsSecond(o, n, flag) == o # n /\ (o < n <=> flag)

LEMMA RowsOfALevel ==
  ASSUME NEW q, IsFiniteSet(DOMAIN q), NEW i
  PROVE  /\ IsFiniteSet(AheadOf(q, i)) /\ IsFiniteSet(OlderThan(q, i)) /\ IsFiniteSet(NewerThan(q, i))
         /\ Cardinality(AheadOf(q, i)) \in Nat
         /\ Cardinality(OlderThan(q, i)) \in Nat /\ Cardinality(NewerThan(q, i)) \in Nat
<1>1. /\ AheadOf(q, i) \subseteq DOMAIN q /\ OlderThan(q, i) \subseteq DOMAIN q
      /\ NewerThan(q, i) \subseteq DOMAIN q
  BY DEF Ready, SameLevel, AheadOf, OlderThan, NewerThan
<1> QED BY <1>1, FS_Subset, FS_CardinalityType

LEMMA PlaceIs ==
  ASSUME NEW q, NEW flag, NEW i
  PROVE  LET o == Cardinality(OlderThan(q, i))
             n == Cardinality(NewerThan(q, i))
         IN  Place(q, flag, i) = Cardinality(AheadOf(q, i)) + 2 * Lower(o, n)
                                   + IF IsSecond(o, n, flag) THEN 2 ELSE 1
BY DEF Place, AheadOf, OlderThan, NewerThan, Lower, IsSecond

\* A place is a positive number.
LEMMA PlaceIsPositive ==
  ASSUME NEW q, NEW flag, NEW i, IsFiniteSet(DOMAIN q)
  PROVE  Place(q, flag, i) \in Nat \ {0}
<1>1. PICK a, o, n : /\ a = Cardinality(AheadOf(q, i)) /\ o = Cardinality(OlderThan(q, i))
                     /\ n = Cardinality(NewerThan(q, i)) /\ a \in Nat /\ o \in Nat /\ n \in Nat
  BY RowsOfALevel
<1>2. Lower(o, n) \in Nat
  BY <1>1 DEF Lower
<1>3. Place(q, flag, i) = a + 2 * Lower(o, n) + IF IsSecond(o, n, flag) THEN 2 ELSE 1
  BY <1>1, PlaceIs
<1> QED BY <1>1, <1>2, <1>3

\* The rows of a level are totally ordered.
LEMMA BeforeIsTotal ==
  ASSUME NEW q, Table(q), NEW i \in DOMAIN q, NEW k \in DOMAIN q
  PROVE  /\ ~Before(q, i, i)
         /\ i # k => Before(q, i, k) \/ Before(q, k, i)
         /\ ~(Before(q, i, k) /\ Before(q, k, i))
         /\ \A m \in DOMAIN q : Before(q, i, k) /\ Before(q, k, m) => Before(q, i, m)
BY DEF Table, Before

\* The older of two rows has fewer older rows and more newer ones.
LEMMA OlderHasFewer ==
  ASSUME NEW q, Table(q), NEW i \in Ready(q), NEW k \in SameLevel(q, i), Before(q, i, k)
  PROVE  /\ Cardinality(OlderThan(q, i)) < Cardinality(OlderThan(q, k))
         /\ Cardinality(NewerThan(q, k)) < Cardinality(NewerThan(q, i))
<1>1. i \in DOMAIN q /\ k \in Ready(q) /\ k \in DOMAIN q /\ IsFiniteSet(DOMAIN q)
      /\ SameLevel(q, i) = SameLevel(q, k) /\ i \in SameLevel(q, k) /\ SameLevel(q, i) \subseteq DOMAIN q
  BY DEF Ready, SameLevel, Table
<1>2. OlderThan(q, i) \subseteq OlderThan(q, k) /\ NewerThan(q, k) \subseteq NewerThan(q, i)
  BY <1>1, BeforeIsTotal DEF OlderThan, NewerThan
<1>3. i \in OlderThan(q, k) \ OlderThan(q, i) /\ k \in NewerThan(q, i) \ NewerThan(q, k)
  BY <1>1, BeforeIsTotal DEF OlderThan, NewerThan
<1>4. /\ Cardinality(OlderThan(q, i)) <= Cardinality(OlderThan(q, k))
      /\ Cardinality(OlderThan(q, i)) # Cardinality(OlderThan(q, k))
      /\ Cardinality(OlderThan(q, i)) \in Nat /\ Cardinality(OlderThan(q, k)) \in Nat
  BY <1>1, <1>2, <1>3, RowsOfALevel, FS_Subset
<1>5. /\ Cardinality(NewerThan(q, k)) <= Cardinality(NewerThan(q, i))
      /\ Cardinality(NewerThan(q, k)) # Cardinality(NewerThan(q, i))
      /\ Cardinality(NewerThan(q, k)) \in Nat /\ Cardinality(NewerThan(q, i)) \in Nat
  BY <1>1, <1>2, <1>3, RowsOfALevel, FS_Subset
<1> QED BY <1>4, <1>5

\* No two rows of a level have the same place.
LEMMA PlacesDiffer ==
  ASSUME NEW q, Table(q), NEW flag \in BOOLEAN, NEW i \in Ready(q), NEW k \in SameLevel(q, i), i # k
  PROVE  Place(q, flag, i) # Place(q, flag, k)
<1>1. /\ i \in DOMAIN q /\ k \in Ready(q) /\ k \in DOMAIN q /\ i \in SameLevel(q, k)
      /\ IsFiniteSet(DOMAIN q) /\ q[i].priority = q[k].priority
  BY DEF Ready, SameLevel, Table
<1>2. PICK a, oi, ni, ok, nk :
        /\ a = Cardinality(AheadOf(q, i)) /\ a \in Nat
        /\ oi = Cardinality(OlderThan(q, i)) /\ ni = Cardinality(NewerThan(q, i)) /\ oi \in Nat /\ ni \in Nat
        /\ ok = Cardinality(OlderThan(q, k)) /\ nk = Cardinality(NewerThan(q, k)) /\ ok \in Nat /\ nk \in Nat
  BY <1>1, RowsOfALevel
<1>3. AheadOf(q, k) = AheadOf(q, i)
  BY <1>1 DEF AheadOf
<1>4. Place(q, flag, i) = a + 2 * Lower(oi, ni) + IF IsSecond(oi, ni, flag) THEN 2 ELSE 1
  BY <1>2, PlaceIs
<1>5. Place(q, flag, k) = a + 2 * Lower(ok, nk) + IF IsSecond(ok, nk, flag) THEN 2 ELSE 1
  BY <1>2, <1>3, PlaceIs
<1>6. (oi < ok /\ nk < ni) \/ (ok < oi /\ ni < nk)
  <2>1. CASE Before(q, i, k)
    BY <1>2, <2>1, OlderHasFewer
  <2>2. CASE Before(q, k, i)
    BY <1>1, <1>2, <2>2, OlderHasFewer
  <2> QED BY <1>1, <2>1, <2>2, BeforeIsTotal
<1> QED BY <1>2, <1>4, <1>5, <1>6 DEF Lower, IsSecond

\* Any rows have an oldest one and a newest one.
LEMMA OldestAndNewest ==
  ASSUME NEW q, Table(q), NEW S, S \subseteq DOMAIN q, S # {}
  PROVE  /\ \E i \in S : \A k \in S \ {i} : Before(q, i, k)
         /\ \E i \in S : \A k \in S \ {i} : Before(q, k, i)
<1> DEFINE Older(i) == {k \in S : Before(q, k, i)}
           Newer(i) == {k \in S : Before(q, i, k)}
<1>1. \A i \in S : /\ IsFiniteSet(Older(i)) /\ Cardinality(Older(i)) \in Nat
                   /\ IsFiniteSet(Newer(i)) /\ Cardinality(Newer(i)) \in Nat
  <2>1. IsFiniteSet(S)
    BY FS_Subset DEF Table
  <2> QED BY <2>1, FS_Subset, FS_CardinalityType
<1>2. ASSUME NEW i \in S, NEW k \in S, Before(q, i, k)
      PROVE  /\ Cardinality(Older(i)) < Cardinality(Older(k))
             /\ Cardinality(Newer(k)) < Cardinality(Newer(i))
  <2>1. Older(i) \subseteq Older(k) /\ Newer(k) \subseteq Newer(i)
    BY <1>2, BeforeIsTotal
  <2>2. i \in Older(k) \ Older(i) /\ k \in Newer(i) \ Newer(k)
    BY <1>2, BeforeIsTotal
  <2> HIDE DEF Older, Newer
  <2>3. Cardinality(Older(i)) <= Cardinality(Older(k)) /\ Cardinality(Older(i)) # Cardinality(Older(k))
    BY <1>1, <2>1, <2>2, FS_Subset
  <2>4. Cardinality(Newer(k)) <= Cardinality(Newer(i)) /\ Cardinality(Newer(i)) # Cardinality(Newer(k))
    BY <1>1, <2>1, <2>2, FS_Subset
  <2> QED BY <1>1, <2>3, <2>4
<1>3. \E i \in S : \A k \in S : Cardinality(Older(i)) <= Cardinality(Older(k))
  <2> DEFINE counts == {Cardinality(Older(k)) : k \in S}
  <2>1. counts \subseteq Nat /\ counts # {}
    BY <1>1
  <2>2. \E a \in counts : \A b \in counts : a <= b
    <3> HIDE DEF counts
    <3> QED BY <2>1, LeastNatural
  <2> QED BY <2>2
<1>4. \E i \in S : \A k \in S : Cardinality(Newer(i)) <= Cardinality(Newer(k))
  <2> DEFINE counts == {Cardinality(Newer(k)) : k \in S}
  <2>1. counts \subseteq Nat /\ counts # {}
    BY <1>1
  <2>2. \E a \in counts : \A b \in counts : a <= b
    <3> HIDE DEF counts
    <3> QED BY <2>1, LeastNatural
  <2> QED BY <2>2
<1> HIDE DEF Older, Newer
<1>5. \A i, k \in S : ~(Before(q, i, k) /\ Cardinality(Older(k)) <= Cardinality(Older(i)))
  BY <1>1, <1>2
<1>6. \A i, k \in S : ~(Before(q, i, k) /\ Cardinality(Newer(i)) <= Cardinality(Newer(k)))
  BY <1>1, <1>2
<1>7. \A i, k \in S : i # k => Before(q, i, k) \/ Before(q, k, i)
  BY BeforeIsTotal
<1> QED BY <1>3, <1>4, <1>5, <1>6, <1>7, Zenon

\* A table with ready rows has a first one in the order of the enumeration.
LEMMA FirstPlace ==
  ASSUME NEW q, Table(q), NEW flag \in BOOLEAN, Ready(q) # {}
  PROVE  \E i \in Ready(q) : Place(q, flag, i) = 1
<1>1. Ready(q) \subseteq DOMAIN q /\ IsFiniteSet(DOMAIN q)
  BY DEF Ready, Table
<1>2. PICK x \in Ready(q) : \A k \in Ready(q) \ {x} : Before(q, x, k)
  BY <1>1, OldestAndNewest
<1>3. x \in SameLevel(q, x) /\ SameLevel(q, x) \subseteq Ready(q) /\ SameLevel(q, x) \subseteq DOMAIN q
  BY <1>1 DEF SameLevel
<1>4. PICK y \in SameLevel(q, x) : \A k \in SameLevel(q, x) \ {y} : Before(q, k, y)
  BY <1>3, OldestAndNewest
<1>5. OlderThan(q, x) = {} /\ NewerThan(q, y) = {}
  <2>1. \A k \in Ready(q) : ~Before(q, k, x)
    BY <1>1, <1>2, BeforeIsTotal
  <2>2. SameLevel(q, y) = SameLevel(q, x)
    BY <1>4 DEF SameLevel
  <2>3. \A k \in SameLevel(q, x) : ~Before(q, y, k)
    BY <1>3, <1>4, BeforeIsTotal
  <2> QED BY <1>3, <2>1, <2>2, <2>3 DEF OlderThan, NewerThan
<1>6. AheadOf(q, x) = {} /\ AheadOf(q, y) = {}
  <2>1. \A k \in Ready(q) : ~(q[k].priority < q[x].priority)
    <3> SUFFICES ASSUME NEW k \in Ready(q), q[k].priority < q[x].priority  PROVE FALSE
      OBVIOUS
    <3>1. q[k].priority \in Int /\ q[x].priority \in Int
      BY <1>1 DEF Table
    <3>2. k # x /\ ~(q[x].priority < q[k].priority) /\ q[x].priority # q[k].priority
      BY <3>1
    <3> QED BY <1>2, <3>2 DEF Before
  <2>2. q[y].priority = q[x].priority
    BY <1>4 DEF SameLevel
  <2> QED BY <2>1, <2>2 DEF AheadOf
<1>7. CASE flag
  <2>1. PICK o : o = Cardinality(OlderThan(q, y)) /\ o \in Nat
    BY <1>1, RowsOfALevel
  <2>2. Cardinality(NewerThan(q, y)) = 0 /\ Cardinality(AheadOf(q, y)) = 0
    BY <1>5, <1>6, FS_EmptySet
  <2>3. Place(q, flag, y) = 0 + 2 * Lower(o, 0) + IF IsSecond(o, 0, flag) THEN 2 ELSE 1
    BY <2>1, <2>2, PlaceIs
  <2>4. Lower(o, 0) = 0
    BY <2>1 DEF Lower
  <2>5. ~(o < 0)
    BY <2>1
  <2>6. ~IsSecond(o, 0, flag)
    BY <1>7, <2>5, Zenon DEF IsSecond
  <2> QED BY <1>3, <2>3, <2>4, <2>6
<1>8. CASE ~flag
  <2>1. PICK n : n = Cardinality(NewerThan(q, x)) /\ n \in Nat
    BY <1>1, RowsOfALevel
  <2>2. Cardinality(OlderThan(q, x)) = 0 /\ Cardinality(AheadOf(q, x)) = 0
    BY <1>5, <1>6, FS_EmptySet
  <2>3. Place(q, flag, x) = 0 + 2 * Lower(0, n) + IF IsSecond(0, n, flag) THEN 2 ELSE 1
    BY <2>1, <2>2, PlaceIs
  <2> QED BY <1>8, <2>1, <2>3 DEF Lower, IsSecond
<1> QED BY <1>7, <1>8

\* Without the flag, the first place goes to the row that is first in the order.
LEMMA FirstInOrder ==
  ASSUME NEW q, Table(q), NEW i \in Ready(q), Place(q, FALSE, i) = 1
  PROVE  IsFirst(q, i)
<1>1. /\ IsFiniteSet(DOMAIN q) /\ Ready(q) \subseteq DOMAIN q
      /\ \A k \in DOMAIN q : q[k].priority \in Int
  BY DEF Table, Ready
<1>2. PICK a, o, n : /\ a = Cardinality(AheadOf(q, i)) /\ o = Cardinality(OlderThan(q, i))
                     /\ n = Cardinality(NewerThan(q, i)) /\ a \in Nat /\ o \in Nat /\ n \in Nat
  BY <1>1, RowsOfALevel
<1>3. a + 2 * Lower(o, n) + (IF IsSecond(o, n, FALSE) THEN 2 ELSE 1) = 1
  BY <1>2, PlaceIs
<1>4. a = 0 /\ o = 0
  BY <1>2, <1>3 DEF Lower, IsSecond
<1>5. AheadOf(q, i) = {} /\ OlderThan(q, i) = {}
  BY <1>1, <1>2, <1>4, RowsOfALevel, FS_EmptySet
<1>6. ASSUME NEW k \in Ready(q) \ {i}  PROVE Before(q, i, k)
  <2>1. i \in DOMAIN q /\ k \in DOMAIN q /\ i # k /\ k \in Ready(q)
    BY <1>1
  <2>2. ~(q[k].priority < q[i].priority) /\ q[i].priority \in Int /\ q[k].priority \in Int
    BY <1>1, <1>5, <2>1 DEF AheadOf
  <2>3. CASE q[k].priority = q[i].priority
    <3>1. k \in SameLevel(q, i)
      BY <2>1, <2>3 DEF SameLevel
    <3>2. ~Before(q, k, i)
      BY <1>5, <3>1 DEF OlderThan
    <3> QED BY <2>1, <3>2, BeforeIsTotal
  <2>4. CASE q[k].priority # q[i].priority
    BY <2>2, <2>4 DEF Before
  <2> QED BY <2>3, <2>4
<1> QED BY <1>6 DEF IsFirst

\* Of the elements of a set with different turns, at most n have fewer than n elements before them.
LEMMA FewAreEarly ==
  ASSUME NEW S, IsFiniteSet(S), NEW turn \in [S -> Nat], NEW n \in Nat,
         \A i, k \in S : i # k => turn[i] # turn[k]
  PROVE  Cardinality({i \in S : Cardinality({k \in S : turn[k] < turn[i]}) < n}) <= n
<1> DEFINE Earlier(i) == {k \in S : turn[k] < turn[i]}
           early == {i \in S : Cardinality(Earlier(i)) < n}
           rank == [i \in early |-> Cardinality(Earlier(i)) + 1]
<1>1. \A i \in S : IsFiniteSet(Earlier(i)) /\ Cardinality(Earlier(i)) \in Nat
  BY FS_Subset, FS_CardinalityType
<1>2. ASSUME NEW i \in S, NEW k \in S, turn[i] < turn[k]
      PROVE  Cardinality(Earlier(i)) # Cardinality(Earlier(k))
  <2>1. Earlier(i) \subseteq Earlier(k)
    BY <1>2
  <2>2. i \in Earlier(k) /\ i \notin Earlier(i)
    BY <1>2
  <2>3. IsFiniteSet(Earlier(k))
    BY <1>1
  <2> HIDE DEF Earlier
  <2> QED BY <2>1, <2>2, <2>3, FS_Subset
<1>3. rank \in [early -> 1 .. n]
  <2> HIDE DEF Earlier
  <2> QED BY <1>1
<1>4. \A i, k \in early : rank[i] = rank[k] => i = k
  <2> SUFFICES ASSUME NEW i \in early, NEW k \in early, rank[i] = rank[k], i # k  PROVE FALSE
    OBVIOUS
  <2>1. turn[i] < turn[k] \/ turn[k] < turn[i]
    OBVIOUS
  <2>2. Cardinality(Earlier(i)) = Cardinality(Earlier(k))
    <3> HIDE DEF Earlier
    <3> QED BY <1>1
  <2> QED BY <1>2, <2>1, <2>2
<1>5. rank \in Injection(early, 1 .. n)
  <2> HIDE DEF rank, early
  <2> QED BY <1>3, <1>4 DEF Injection, IsInjective
<1>6. IsFiniteSet(1 .. n) /\ Cardinality(1 .. n) = n
  BY FS_Interval
<1>7. Cardinality(early) <= Cardinality(1 .. n)
  <2> HIDE DEF rank, early
  <2> QED BY <1>5, <1>6, FS_Injection
<1> QED BY <1>6, <1>7
===============================================================================

-------------------------------- MODULE Lemmas --------------------------------
(***************************************************************************)
(* Lemmas that the proofs share: least elements of sets of integers,       *)
(* induction up to a number, what Selected keeps of a sequence.            *)
(***************************************************************************)
EXTENDS Selections, SequencesExt, SequenceTheorems, WellFoundedInduction, TLAPS

---------------------------------------------------------------------------
(* Numbers. *)

\* A non-empty set of naturals has a least element: < is well founded.
LEMMA LeastNatural ==
  ASSUME NEW S, S \subseteq Nat, S # {}
  PROVE  \E x \in S : \A y \in S : x <= y
<1>. DEFINE R == OpToRel(<, Nat)
<1>1. IsWellFoundedOn(R, Nat)
  BY NatLessThanWellFounded
<1>2. \A x, y \in Nat : <<y, x>> \in R <=> y < x
  BY DEF R, OpToRel
<1>. HIDE DEF R
<1>3. PICK x \in S : \A y \in S : ~ (<<y, x>> \in R)
  BY <1>1, WFMin, Zenon
<1>4. \A y \in S : ~ (y < x)
  BY <1>2, <1>3
<1>5. \A y \in S : x <= y
  BY <1>4
<1>. QED  BY <1>5

\* Induction up to n, for a property given as the set of numbers that have it.
LEMMA InductionUpTo ==
  ASSUME NEW n \in Nat, NEW S, 0 \in S, \A k \in 1 .. n : k - 1 \in S => k \in S
  PROVE  0 .. n \subseteq S
<1> DEFINE T == (0 .. n) \ S
<1> SUFFICES ASSUME T # {}  PROVE FALSE
  OBVIOUS
<1>1. PICK k \in T : \A y \in T : k <= y
  <2>1. T \subseteq Nat
    OBVIOUS
  <2> HIDE DEF T
  <2> QED BY <2>1, LeastNatural
<1>2. k \in 1 .. n /\ k - 1 \in 0 .. n /\ ~(k <= k - 1)
  OBVIOUS
<1>3. k - 1 \notin T
  BY <1>1, <1>2
<1> QED BY <1>2, <1>3

\* A non-empty set of integers that is bounded below has a least element.
LEMMA LeastInteger ==
  ASSUME NEW S, S \subseteq Int, S # {}, NEW low \in Int, \A x \in S : low <= x
  PROVE  \E x \in S : \A y \in S : x <= y
<1>. DEFINE T == {x - low : x \in S}
<1>1. \A x \in S : x - low \in Nat
  OBVIOUS
<1>2. T \subseteq Nat /\ T # {}
  BY <1>1
<1>3. PICK t \in T : \A u \in T : t <= u
  BY <1>2, LeastNatural
<1>4. PICK x \in S : t = x - low
  OBVIOUS
<1>5. \A y \in S : x - low <= y - low
  BY <1>3, <1>4
<1>. QED  BY <1>5

\* A non-empty set of integers that is bounded above has a greatest element.
LEMMA GreatestInteger ==
  ASSUME NEW S, S \subseteq Int, S # {}, NEW high \in Int, \A x \in S : x <= high
  PROVE  \E x \in S : \A y \in S : y <= x
<1>. DEFINE T == {high - x : x \in S}
<1>1. \A x \in S : high - x \in Nat
  OBVIOUS
<1>2. T \subseteq Nat /\ T # {}
  BY <1>1
<1>3. PICK t \in T : \A u \in T : t <= u
  BY <1>2, LeastNatural
<1>4. PICK x \in S : t = high - x
  OBVIOUS
<1>5. \A y \in S : high - x <= high - y
  BY <1>3, <1>4
<1>6. ASSUME NEW y \in S  PROVE y <= x
  <2>1. x \in Int /\ y \in Int
    OBVIOUS
  <2>. QED  BY <2>1, <1>5
<1>. QED  BY <1>6

---------------------------------------------------------------------------
(* Selections. *)

Longer(s, S, f, n) ==
  IF n = 0 THEN <<>> ELSE IF s[n] \in S THEN Append(f[n - 1], s[n]) ELSE f[n - 1]

\* The recursive function that defines Selected exists: it can be built up to
\* any length.
LEMMA SelectingExists ==
  ASSUME NEW s, NEW S, NEW len \in Nat
  PROVE  \E f : f = [n \in 0 .. len |-> Longer(s, S, f, n)]
<1> DEFINE Built(k) == \E f : f = [n \in 0 .. k |-> Longer(s, S, f, n)]
           N == {k \in 0 .. len : Built(k)}
<1>1. 0 \in N
  <2> DEFINE f == [n \in 0 .. 0 |-> <<>>]
  <2>1. f = [n \in 0 .. 0 |-> Longer(s, S, f, n)]
    BY DEF Longer
  <2> QED BY <2>1
<1>2. ASSUME NEW k \in 1 .. len, k - 1 \in N
      PROVE  k \in N
  <2>1. PICK g : g = [n \in 0 .. k - 1 |-> Longer(s, S, g, n)]
    BY <1>2
  <2> DEFINE f == [n \in 0 .. k |-> IF n = k THEN Longer(s, S, g, k) ELSE g[n]]
  <2>2. \A n \in 0 .. k : Longer(s, S, f, n) = Longer(s, S, g, n)
    BY DEF Longer
  <2>3. \A n \in 0 .. k - 1 : g[n] = Longer(s, S, g, n)
    BY <2>1
  <2>4. \A n \in 0 .. k : f[n] = Longer(s, S, f, n)
    BY <2>2, <2>3
  <2>5. f = [n \in 0 .. k |-> Longer(s, S, f, n)]
    BY <2>4
  <2> HIDE DEF f
  <2>6. Built(k)
    BY <2>5
  <2> QED BY <2>6
<1>3. 0 .. len \subseteq N
  <2> HIDE DEF N
  <2> QED BY <1>1, <1>2, InductionUpTo
<1> QED BY <1>3

LEMMA SelectedIsBuilt ==
  ASSUME NEW T, NEW s \in Seq(T), NEW S
  PROVE  \E f : /\ f = [n \in 0 .. Len(s) |-> Longer(s, S, f, n)]
                /\ Selected(s, S) = f[Len(s)]
<1> DEFINE f == CHOOSE f : f = [n \in 0 .. Len(s) |-> Longer(s, S, f, n)]
<1>1. f = [n \in 0 .. Len(s) |-> Longer(s, S, f, n)]
  <2>1. \E g : g = [n \in 0 .. Len(s) |-> Longer(s, S, g, n)]
    <3>1. Len(s) \in Nat
      OBVIOUS
    <3> HIDE DEF f
    <3> QED BY <3>1, SelectingExists
  <2> QED BY <2>1, Zenon
<1>2. Selected(s, S) = f[Len(s)]
  BY DEF Selected, Longer
<1> QED BY <1>1, <1>2

\* The selection is a sequence of the elements of s that are in S; it repeats
\* no element if s does not.
LEMMA SelectedProperties ==
  ASSUME NEW T, NEW s \in Seq(T), NEW S
  PROVE  /\ Selected(s, S) \in Seq(T)
         /\ ToSet(Selected(s, S)) = ToSet(s) \cap S
         /\ IsInjective(s) => IsInjective(Selected(s, S))
         /\ Len(Selected(s, S)) <= Len(s)
<1>1. PICK f : /\ f = [n \in 0 .. Len(s) |-> Longer(s, S, f, n)]
               /\ Selected(s, S) = f[Len(s)]
  BY SelectedIsBuilt
<1> DEFINE Kept(n) == {x \in S : \E i \in 1 .. n : s[i] = x}
           Right(n) == /\ f[n] \in Seq(T) /\ Len(f[n]) <= n
                       /\ ToSet(f[n]) = Kept(n)
                       /\ IsInjective(s) => IsInjective(f[n])
           N == {n \in 0 .. Len(s) : Right(n)}
<1>2. Len(s) \in Nat /\ DOMAIN s = 1 .. Len(s)
  OBVIOUS
<1>3. \A n \in 0 .. Len(s) : f[n] = Longer(s, S, f, n)
  BY <1>1
<1>4. 0 \in N
  <2>1. f[0] = <<>>
    BY <1>2, <1>3 DEF Longer
  <2>2. /\ <<>> \in Seq(T) /\ Len(<<>>) = 0 /\ ToSet(<<>>) = {} /\ IsInjective(<<>>)
    BY DEF ToSet, IsInjective
  <2>3. Kept(0) = {}
    OBVIOUS
  <2>4. Right(0)
    BY <2>1, <2>2, <2>3
  <2> QED BY <1>2, <2>4
<1>5. ASSUME NEW n \in 1 .. Len(s), n - 1 \in N
      PROVE  n \in N
  <2>1. f[n - 1] \in Seq(T) /\ Len(f[n - 1]) <= n - 1 /\ ToSet(f[n - 1]) = Kept(n - 1)
        /\ (IsInjective(s) => IsInjective(f[n - 1]))
    BY <1>5
  <2>2. f[n] = IF s[n] \in S THEN Append(f[n - 1], s[n]) ELSE f[n - 1]
    BY <1>3 DEF Longer
  <2>3. s[n] \in T
    OBVIOUS
  <2>4. Kept(n) = IF s[n] \in S THEN Kept(n - 1) \cup {s[n]} ELSE Kept(n - 1)
    <3>1. \A i : i \in 1 .. n <=> (i \in 1 .. n - 1 \/ i = n)
      OBVIOUS
    <3> QED BY <3>1, Zenon
  <2>5. CASE s[n] \notin S
    BY <2>1, <2>2, <2>4, <2>5
  <2>6. CASE s[n] \in S
    <3> DEFINE q == f[n - 1]
    <3>1. q \in Seq(T)
      BY <2>1
    <3> HIDE DEF q
    <3>2. /\ Append(q, s[n]) \in Seq(T) /\ Len(Append(q, s[n])) = Len(q) + 1
          /\ DOMAIN q = 1 .. Len(q) /\ DOMAIN Append(q, s[n]) = 1 .. Len(q) + 1 /\ Len(q) \in Nat
          /\ \A i \in 1 .. Len(q) : Append(q, s[n])[i] = q[i]
          /\ Append(q, s[n])[Len(q) + 1] = s[n]
      BY <2>3, <3>1
    <3>3. ToSet(Append(q, s[n])) = ToSet(q) \cup {s[n]}
      BY <3>2 DEF ToSet
    <3>4. ASSUME IsInjective(s)  PROVE IsInjective(Append(q, s[n]))
      <4>1. s[n] \notin ToSet(q)
        <5>1. ToSet(q) = Kept(n - 1)
          BY <2>1 DEF q
        <5>2. \A i \in 1 .. n - 1 : s[i] # s[n]
          BY <1>2, <3>4 DEF IsInjective
        <5> QED BY <5>1, <5>2
      <4>2. \A i \in 1 .. Len(q) : q[i] # s[n]
        BY <3>2, <4>1 DEF ToSet
      <4>3. IsInjective(q)
        BY <2>1, <3>4 DEF q
      <4> QED BY <3>2, <4>2, <4>3 DEF IsInjective
    <3>5. f[n] = Append(q, s[n]) /\ Len(q) <= n - 1 /\ ToSet(q) = Kept(n - 1)
      BY <2>1, <2>2, <2>6 DEF q
    <3>6. ToSet(f[n]) = Kept(n)
      BY <2>4, <2>6, <3>3, <3>5
    <3>7. Right(n)
      <4> HIDE DEF Kept
      <4> QED BY <3>2, <3>4, <3>5, <3>6
    <3> QED BY <3>7
  <2> QED BY <2>5, <2>6
<1>6. 0 .. Len(s) \subseteq N
  <2> HIDE DEF N
  <2> QED BY <1>2, <1>4, <1>5, InductionUpTo
<1>7. Right(Len(s))
  <2>1. Len(s) \in 0 .. Len(s)
    BY <1>2
  <2> HIDE DEF Right
  <2> QED BY <1>6, <2>1
<1>8. Kept(Len(s)) = ToSet(s) \cap S
  BY <1>2 DEF ToSet
<1> QED BY <1>1, <1>7, <1>8

\* Appending to a concatenation is appending to its second part.
LEMMA AppendToConcat ==
  ASSUME NEW T, NEW u \in Seq(T), NEW v \in Seq(T), NEW e \in T
  PROVE  Append(u \o v, e) = u \o Append(v, e) /\ Append(v, e) \in Seq(T)
<1>1. <<e>> \in Seq(T) /\ u \o v \in Seq(T)
  OBVIOUS
<1>2. Append(u \o v, e) = (u \o v) \o <<e>> /\ Append(v, e) = v \o <<e>>
  BY <1>1, AppendIsConcat
<1>3. (u \o v) \o <<e>> = u \o (v \o <<e>>)
  BY <1>1, ConcatAssociative
<1> QED BY <1>2, <1>3

\* The selection of a sequence followed by another.
LEMMA SelectedConcat ==
  ASSUME NEW T, NEW s \in Seq(T), NEW t \in Seq(T), NEW S
  PROVE  Selected(s \o t, S) = Selected(s, S) \o Selected(t, S)
<1> DEFINE all == s \o t
           m == Len(s)
           l == Len(t)
<1>1. /\ m \in Nat /\ l \in Nat /\ all \in Seq(T) /\ Len(all) = m + l
      /\ \A n \in 1 .. m : all[n] = s[n]
      /\ \A n \in 1 .. l : all[m + n] = t[n]
  OBVIOUS
<1>2. PICK f : f = [n \in 0 .. m |-> Longer(s, S, f, n)] /\ Selected(s, S) = f[m]
  BY SelectedIsBuilt
<1>3. PICK g : g = [n \in 0 .. l |-> Longer(t, S, g, n)] /\ Selected(t, S) = g[l]
  BY SelectedIsBuilt
<1> HIDE DEF all, m, l
<1>4. PICK h : h = [n \in 0 .. m + l |-> Longer(all, S, h, n)] /\ Selected(all, S) = h[m + l]
  <2>1. PICK h : h = [n \in 0 .. Len(all) |-> Longer(all, S, h, n)] /\ Selected(all, S) = h[Len(all)]
    BY <1>1, SelectedIsBuilt
  <2>2. h = [n \in 0 .. m + l |-> Longer(all, S, h, n)] /\ Selected(all, S) = h[m + l]
    BY <1>1, <2>1
  <2> QED BY <2>2
<1>5. \A n \in 0 .. m : f[n] = Longer(s, S, f, n)
  BY <1>2
<1>6. \A n \in 0 .. l : g[n] = Longer(t, S, g, n)
  BY <1>3
<1>7. \A n \in 0 .. m + l : h[n] = Longer(all, S, h, n)
  BY <1>4
<1>8. \A n \in 0 .. m : h[n] = f[n]
  <2> DEFINE N == {n \in 0 .. m : h[n] = f[n]}
  <2>1. 0 \in N
    <3>1. h[0] = Longer(all, S, h, 0) /\ f[0] = Longer(s, S, f, 0)
      BY <1>1, <1>5, <1>7
    <3> QED BY <1>1, <3>1 DEF Longer
  <2>2. ASSUME NEW k \in 1 .. m, k - 1 \in N  PROVE k \in N
    <3>1. h[k] = Longer(all, S, h, k) /\ f[k] = Longer(s, S, f, k)
      BY <1>1, <1>5, <1>7
    <3>2. all[k] = s[k] /\ h[k - 1] = f[k - 1] /\ k # 0
      BY <1>1, <2>2
    <3> QED BY <1>1, <3>1, <3>2 DEF Longer
  <2>3. 0 .. m \subseteq N
    <3> HIDE DEF N
    <3> QED BY <1>1, <2>1, <2>2, InductionUpTo
  <2> QED BY <2>3
<1>9. f[m] \in Seq(T)
  BY <1>2, SelectedProperties
<1>10. \A u, v \in Seq(T) : \A e \in T : Append(u \o v, e) = u \o Append(v, e) /\ Append(v, e) \in Seq(T)
  BY AppendToConcat
<1>11. \A n \in 0 .. l : g[n] \in Seq(T) /\ h[m + n] = f[m] \o g[n]
  <2> DEFINE N == {n \in 0 .. l : g[n] \in Seq(T) /\ h[m + n] = f[m] \o g[n]}
  <2>1. 0 \in N
    <3>1. g[0] = Longer(t, S, g, 0) /\ h[m + 0] = h[m]
      BY <1>1, <1>6
    <3>2. g[0] = <<>>
      BY <3>1 DEF Longer
    <3>3. h[m] = f[m]
      BY <1>1, <1>8
    <3>4. f[m] \o <<>> = f[m] /\ <<>> \in Seq(T)
      BY <1>9
    <3>5. 0 \in 0 .. l
      BY <1>1
    <3> QED BY <3>1, <3>2, <3>3, <3>4, <3>5
  <2>2. ASSUME NEW k \in 1 .. l, k - 1 \in N  PROVE k \in N
    <3>0. k \in 0 .. l
      BY <1>1
    <3>1. k - 1 \in 0 .. l /\ k # 0 /\ m + k # 0 /\ m + k \in 0 .. m + l /\ (m + k) - 1 = m + (k - 1) /\ all[m + k] = t[k]
      BY <1>1
    <3>2. h[m + k] = Longer(all, S, h, m + k) /\ g[k] = Longer(t, S, g, k)
      BY <1>1, <1>6, <1>7, <3>1
    <3>3. h[m + (k - 1)] = f[m] \o g[k - 1] /\ g[k - 1] \in Seq(T)
      BY <2>2
    <3>4. t[k] \in T
      BY DEF l
    <3>5. CASE t[k] \in S
      <4>1. g[k] = Append(g[k - 1], t[k]) /\ h[m + k] = Append(f[m] \o g[k - 1], t[k])
        BY <3>1, <3>2, <3>3, <3>5 DEF Longer
      <4>2. Append(f[m] \o g[k - 1], t[k]) = f[m] \o Append(g[k - 1], t[k]) /\ Append(g[k - 1], t[k]) \in Seq(T)
        <5>1. PICK u, v, e : u = f[m] /\ v = g[k - 1] /\ e = t[k]
          OBVIOUS
        <5>2. u \in Seq(T) /\ v \in Seq(T) /\ e \in T
          BY <1>9, <3>3, <3>4, <5>1
        <5>3. Append(u \o v, e) = u \o Append(v, e) /\ Append(v, e) \in Seq(T)
          BY <1>10, <5>2
        <5> QED BY <5>1, <5>3
      <4> QED BY <3>0, <4>1, <4>2
    <3>6. CASE t[k] \notin S
      <4>1. g[k] = g[k - 1] /\ h[m + k] = f[m] \o g[k - 1]
        BY <3>1, <3>2, <3>3, <3>6 DEF Longer
      <4> QED BY <3>0, <3>3, <4>1
    <3> QED BY <3>5, <3>6
  <2>3. 0 .. l \subseteq N
    <3> HIDE DEF N
    <3> QED BY <1>1, <2>1, <2>2, InductionUpTo
  <2> QED BY <2>3
<1>12. h[m + l] = f[m] \o g[l]
  <2>1. l \in 0 .. l
    BY <1>1
  <2> QED BY <1>11, <2>1
<1> QED BY <1>2, <1>3, <1>4, <1>12 DEF all

LEMMA SelectedNothing == \A S : Selected(<<>>, S) = <<>>
<1> TAKE S
<1>1. <<>> \in Seq({})
  OBVIOUS
<1>2. Selected(<<>>, S) \in Seq({})
  BY <1>1, SelectedProperties
<1> QED BY <1>2
================================================================================

---------------------------- MODULE ArchiversProofs ----------------------------
(***************************************************************************)
(* Proofs about the bots that move discussions: the archivers,             *)
(* TalkArchiver, for any threads, templates and counters, and BotRequests, *)
(* and SubpagesMover, for any titles and articles.                         *)
(***************************************************************************)
EXTENDS TalkArchiver, BotRequests, SubpagesMover, Lemmas, FiniteSetTheorems

Kinds == {p.kind : p \in Posts} \cup {"talk"}
Texts == [id : Threads, level : Int, kept : BOOLEAN, kind : Kinds, date : Int, since : Int]

---------------------------------------------------------------------------
(* The allocation of the texts to the archives.                            *)

LEMMA ItemFields ==
  ASSUME NEW T, NEW S, NEW u \in [title : T, texts : S], NEW q \in S
  PROVE  /\ u.title \in T /\ u.texts \in S
         /\ [u EXCEPT !.texts = q] \in [title : T, texts : S]
         /\ [u EXCEPT !.texts = q].title = u.title /\ [u EXCEPT !.texts = q].texts = q
  OBVIOUS

LEMMA AppendedText ==
  ASSUME NEW X, NEW q \in Seq(X), NEW text \in X
  PROVE  Append(q, text) \in Seq(X) /\ ToSet(Append(q, text)) = ToSet(q) \cup {text}
<1>1. /\ Append(q, text) \in Seq(X) /\ DOMAIN q = 1 .. Len(q) /\ DOMAIN Append(q, text) = 1 .. Len(q) + 1
      /\ Len(q) \in Nat /\ Append(q, text)[Len(q) + 1] = text
      /\ \A i \in 1 .. Len(q) : Append(q, text)[i] = q[i]
  OBVIOUS
<1> QED BY <1>1 DEF ToSet

\* The archives to write, with titles in T and texts in X.
Plans(T, X) == Seq([title : T, texts : Seq(X)])

Receives(new, used, T, X, title, text) ==
  /\ new \in Plans(T, X)
  /\ Len(new) \in {Len(used), Len(used) + 1}
  /\ \A k \in DOMAIN used : /\ k \in DOMAIN new /\ new[k].title = used[k].title
                            /\ ToSet(used[k].texts) \subseteq ToSet(new[k].texts)
  /\ \E k \in DOMAIN new : new[k].title = title /\ text \in ToSet(new[k].texts)
  /\ Len(new) = Len(used) + 1 => new[Len(new)].title = title

\* What addThread does to the list of archives: no text leaves it, the new one
\* is in it, and the only title that may be new is the last one.
LEMMA PutProperties ==
  ASSUME NEW T, NEW X, NEW used \in Plans(T, X), NEW title \in T, NEW text \in X,
         NEW new, new = Put(used, title, text)
  PROVE  Receives(new, used, T, X, title, text)
<1>1. PICK R : R = [title : T, texts : Seq(X)]
  OBVIOUS
<1>2. used \in Seq(R) /\ Len(used) \in Nat /\ DOMAIN used = 1 .. Len(used)
  BY <1>1 DEF Plans
<1>3. \A k \in DOMAIN used : used[k] \in R /\ used[k].texts \in Seq(X)
  <2>1. \A k \in DOMAIN used : used[k] \in R
    BY <1>2
  <2> QED BY <1>1, <2>1
<1>4. CASE Added(used, title) = {}
  <2> DEFINE item == [title |-> title, texts |-> <<text>>]
  <2>1. item \in R /\ text \in ToSet(item.texts) /\ item.title = title
    BY <1>1 DEF ToSet
  <2>2. new = Append(used, item)
    BY <1>4 DEF Put
  <2> HIDE DEF item
  <2>3. /\ new \in Seq(R) /\ Len(new) = Len(used) + 1 /\ new[Len(used) + 1] = item
        /\ DOMAIN new = 1 .. Len(used) + 1
        /\ \A k \in DOMAIN used : new[k] = used[k]
    BY <1>2, <2>1, <2>2
  <2>4. \A k \in DOMAIN used : k \in DOMAIN new
    BY <1>2, <2>3
  <2>5. Len(new) \in DOMAIN new /\ new[Len(new)] = item
    BY <1>2, <2>3
  <2> QED BY <1>1, <2>1, <2>3, <2>4, <2>5 DEF Plans, Receives
<1>5. CASE Added(used, title) # {}
  <2> DEFINE longer(k) == [used[k] EXCEPT !.texts = Append(used[k].texts, text)]
             changed(k) == IF used[k].title = title THEN longer(k) ELSE used[k]
  <2>1. new = [k \in DOMAIN used |-> changed(k)]
    BY <1>5 DEF Put
  <2>2. ASSUME NEW k \in DOMAIN used
        PROVE  longer(k) \in R /\ longer(k).title = used[k].title /\ longer(k).texts = Append(used[k].texts, text)
    <3>1. Append(used[k].texts, text) \in Seq(X)
      BY <1>3, AppendedText
    <3>2. used[k] \in [title : T, texts : Seq(X)]
      BY <1>1, <1>3
    <3> QED BY <1>1, <3>1, <3>2, ItemFields, Zenon
  <2> HIDE DEF longer
  <2>3. ASSUME NEW k \in DOMAIN used
        PROVE  /\ changed(k) \in R /\ changed(k).title = used[k].title
               /\ ToSet(used[k].texts) \subseteq ToSet(changed(k).texts)
               /\ used[k].title = title => text \in ToSet(changed(k).texts)
    <3>1. ToSet(Append(used[k].texts, text)) = ToSet(used[k].texts) \cup {text}
      BY <1>3, AppendedText
    <3>2. CASE used[k].title = title
      BY <2>2, <3>1, <3>2
    <3>3. CASE used[k].title # title
      BY <1>3, <3>3
    <3> QED BY <3>2, <3>3
  <2> HIDE DEF changed
  <2>4. new \in [1 .. Len(used) -> R] /\ DOMAIN new = DOMAIN used /\ \A k \in DOMAIN used : new[k] = changed(k)
    BY <1>2, <2>1, <2>3
  <2>5. new \in Seq(R) /\ Len(new) = Len(used)
    BY <1>2, <2>4
  <2>6. PICK k \in DOMAIN used : used[k].title = title
    BY <1>5 DEF Added
  <2>7. k \in DOMAIN new /\ new[k].title = title /\ text \in ToSet(new[k].texts)
    BY <2>3, <2>4, <2>6
  <2>8. Len(new) # Len(used) + 1
    <3>1. \A n \in Nat : n # n + 1
      OBVIOUS
    <3> QED BY <1>2, <2>5, <3>1
  <2> QED BY <1>1, <2>3, <2>4, <2>5, <2>7, <2>8 DEF Plans, Receives
<1> QED BY <1>4, <1>5

\* The archives from c up to the one chosen are all full.
LEMMA RoomProperties ==
  ASSUME NEW c \in Int, NEW used, Len(used) \in Nat, NEW arch, IsFiniteSet(DOMAIN arch), NEW maxSize
  PROVE  LET to == FirstWithRoom(c, used, arch, maxSize)
         IN  to \in Int /\ c <= to /\ \A j \in c .. to - 1 : Full(j, used, arch, maxSize)
<1> DEFINE n == Cardinality(DOMAIN arch) + Len(used)
           S == {i \in c .. c + Cardinality(DOMAIN arch) + Len(used) :
                   \A j \in c .. i - 1 : Full(j, used, arch, maxSize)}
<1>1. Cardinality(DOMAIN arch) \in Nat
  BY FS_CardinalityType
<1>2. c \in S /\ S \subseteq Int /\ \A x \in S : x <= c + n /\ c <= x
  BY <1>1
<1>3. c + n \in Int
  BY <1>1
<1>4. FirstWithRoom(c, used, arch, maxSize) = CHOOSE x \in S : \A y \in S : x >= y
  BY DEF FirstWithRoom, Max
<1>5. \E x \in S : \A y \in S : x >= y
  <2> HIDE DEF S, n
  <2>1. PICK x \in S : \A y \in S : y <= x
    BY <1>2, <1>3, GreatestInteger
  <2> QED BY <1>2, <2>1
<1>6. FirstWithRoom(c, used, arch, maxSize) \in S
  <2> HIDE DEF S
  <2> QED BY <1>4, <1>5
<1> QED BY <1>2, <1>6

\* Sets of archives without hole: the ones that exist, or will.
IsNumbered(title) == title[1] = "archive"
HoleFree(E) == \A title \in E : IsNumbered(title) => title[2] = 1 \/ Numbered(title[2] - 1) \in E
Follows(i, E) == i = 1 \/ Numbered(i - 1) \in E

LEMMA AddingTitles ==
  ASSUME NEW E, HoleFree(E)
  PROVE  /\ \A i \in Int : Numbered(i) \in E => Follows(i, E)
         /\ \A i \in Int : Follows(i, E) => HoleFree(E \cup {Numbered(i)})
         /\ \A d : HoleFree(E \cup {Dated(d)})
<1>1. \A i : IsNumbered(Numbered(i)) /\ Numbered(i)[2] = i
  BY DEF IsNumbered, Numbered
<1>2. \A d : ~IsNumbered(Dated(d))
  BY DEF IsNumbered, Dated
<1> QED BY <1>1, <1>2 DEF HoleFree, Follows

\* The search of the last archive ends on 1 or on an archive that exists.
LEMMA SearchExists ==
  ASSUME NEW arch, NEW len \in Nat
  PROVE  \E f : f = [n \in 0 .. len |-> IF n = 0 THEN [low |-> 1, high |-> NoLimit]
                                      ELSE NextPass(f[n - 1], arch)]
<1> DEFINE Body(f, n) == IF n = 0 THEN [low |-> 1, high |-> NoLimit] ELSE NextPass(f[n - 1], arch)
           Built(k) == \E f : f = [n \in 0 .. k |-> Body(f, n)]
           N == {k \in 0 .. len : Built(k)}
<1>1. 0 \in N
  <2> DEFINE f == [n \in 0 .. 0 |-> [low |-> 1, high |-> NoLimit]]
  <2>1. f = [n \in 0 .. 0 |-> Body(f, n)]
    OBVIOUS
  <2> HIDE DEF f
  <2>2. Built(0)
    BY <2>1
  <2> QED BY <2>2
<1>2. ASSUME NEW k \in 1 .. len, k - 1 \in N
      PROVE  k \in N
  <2>1. PICK g : g = [n \in 0 .. k - 1 |-> Body(g, n)]
    BY <1>2
  <2> DEFINE f == [n \in 0 .. k |-> IF n = k THEN Body(g, k) ELSE g[n]]
  <2>2. \A n \in 0 .. k : Body(f, n) = Body(g, n)
    OBVIOUS
  <2>3. \A n \in 0 .. k - 1 : g[n] = Body(g, n)
    BY <2>1
  <2> HIDE DEF Body
  <2>4. \A n \in 0 .. k : f[n] = Body(f, n)
    BY <2>2, <2>3
  <2>5. f = [n \in 0 .. k |-> Body(f, n)]
    BY <2>4
  <2> HIDE DEF f
  <2>6. Built(k)
    BY <2>5
  <2> QED BY <2>6
<1>3. 0 .. len \subseteq N
  <2> HIDE DEF N
  <2> QED BY <1>1, <1>2, InductionUpTo
<1>4. Built(len)
  <2> HIDE DEF Built
  <2> QED BY <1>3
<1> QED BY <1>4

LEMMA LastArchiveExists ==
  ASSUME NEW arch, IsFiniteSet(DOMAIN arch)
  PROVE  LET last == GoToLastArchive(arch) IN last \in Int /\ (last = 1 \/ Numbered(last) \in DOMAIN arch)
<1> DEFINE len == EnoughPasses(arch)
           Body(f, n) == IF n = 0 THEN [low |-> 1, high |-> NoLimit] ELSE NextPass(f[n - 1], arch)
           f == CHOOSE f : f = [n \in 0 .. len |-> Body(f, n)]
           Right(s) == /\ s \in [low : Int, high : Int]
                       /\ s.low = 1 \/ Numbered(s.low) \in DOMAIN arch
           N == {n \in 0 .. len : Right(f[n])}
<1>1. len \in Nat
  BY FS_CardinalityType DEF EnoughPasses
<1>2. f = [n \in 0 .. len |-> Body(f, n)]
  <2>1. \E g : g = [n \in 0 .. len |-> Body(g, n)]
    <3> HIDE DEF len
    <3> QED BY <1>1, SearchExists
  <2> QED BY <2>1, Zenon
<1>3. GoToLastArchive(arch) = f[len].low
  BY DEF GoToLastArchive
<1> HIDE DEF f, len
<1>4. Right(f[0])
  <2>1. f[0] = [low |-> 1, high |-> NoLimit]
    BY <1>1, <1>2
  <2> QED BY <2>1 DEF NoLimit
<1>5. ASSUME NEW n \in 1 .. len, n - 1 \in N
      PROVE  n \in N
  <2>1. PICK s : s = f[n - 1] /\ Right(s)
    BY <1>5
  <2>2. f[n] = NextPass(s, arch)
    BY <1>1, <1>2, <2>1
  <2>3. ASSUME NEW i \in Int
        PROVE  [s EXCEPT !.high = i - 1].low = s.low /\ [s EXCEPT !.low = i].low = i
               /\ [s EXCEPT !.high = i - 1] \in [low : Int, high : Int]
               /\ [s EXCEPT !.low = i] \in [low : Int, high : Int]
    BY <2>1
  <2>4. s.low \in Int /\ s.high \in Int
    BY <2>1
  <2> DEFINE index == IF s.high = NoLimit THEN 2 * s.low ELSE (s.low + s.high + 1) \div 2
  <2>5. index \in Int
    BY <2>4
  <2>6. \/ NextPass(s, arch) = s
        \/ NextPass(s, arch) = [s EXCEPT !.high = index - 1]
        \/ NextPass(s, arch) = [s EXCEPT !.low = index] /\ Size(arch, index) # 0
    <3>1. (s.high # NoLimit /\ s.low >= s.high) \/ s.high = NoLimit \/ s.low < s.high
      BY <2>4
    <3> QED BY <3>1 DEF NextPass
  <2> HIDE DEF index
  <2>7. Size(arch, index) # 0 => Numbered(index) \in DOMAIN arch
    BY DEF Size
  <2>8. Right(NextPass(s, arch))
    BY <2>1, <2>3, <2>5, <2>6, <2>7
  <2> QED BY <2>2, <2>8
<1>6. 0 .. len \subseteq N
  <2>1. 0 \in N
    BY <1>1, <1>4
  <2> HIDE DEF N
  <2> QED BY <1>1, <1>5, <2>1, InductionUpTo
<1>7. Right(f[len])
  <2>1. len \in 0 .. len
    BY <1>1
  <2> HIDE DEF Right
  <2> QED BY <1>6, <2>1
<1> QED BY <1>3, <1>7

\* What is true of the plan at every thread added: the archives to write, in
\* their order, leave no hole, and the counter follows one of them.
TitlesUpTo(used, k) == {used[j].title : j \in 1 .. k}
Fills(used, E) == \A k \in 0 .. Len(used) : HoleFree(E \cup TitlesUpTo(used, k))
PlanIsRight(plan, T, X, t, E) ==
  /\ plan.used \in Plans(T, X)
  /\ plan.counter \in Int
  /\ Fills(plan.used, E)
  /\ t.numbered /\ plan.used # <<>> => Follows(plan.counter, E \cup TitlesUpTo(plan.used, Len(plan.used)))

FillsToo(new, used, title, E) ==
  Fills(new, E) /\ TitlesUpTo(new, Len(new)) = TitlesUpTo(used, Len(used)) \cup {title} /\ new # <<>>

LEMMA PutFills ==
  ASSUME NEW T, NEW X, NEW used \in Plans(T, X), NEW title \in T, NEW text \in X,
         NEW new, new = Put(used, title, text), NEW E, Fills(used, E),
         HoleFree(E \cup TitlesUpTo(used, Len(used)) \cup {title})
  PROVE  FillsToo(new, used, title, E)
<1>0. Receives(new, used, T, X, title, text)
  BY PutProperties
<1>1. /\ new \in Plans(T, X)
      /\ Len(new) \in {Len(used), Len(used) + 1}
      /\ \A k \in DOMAIN used : /\ k \in DOMAIN new /\ new[k].title = used[k].title
                                /\ ToSet(used[k].texts) \subseteq ToSet(new[k].texts)
      /\ \E k \in DOMAIN new : new[k].title = title /\ text \in ToSet(new[k].texts)
      /\ Len(new) = Len(used) + 1 => new[Len(new)].title = title
  BY <1>0, Zenon DEF Receives
<1>2. PICK n \in Nat, m \in Nat : /\ n = Len(used) /\ m = Len(new) /\ DOMAIN new = 1 .. m /\ DOMAIN used = 1 .. n
                               /\ m \in {n, n + 1}
  BY <1>1 DEF Plans
<1>3. \A k \in 1 .. n : new[k].title = used[k].title
  BY <1>1, <1>2, Zenon
<1>4. \A k \in 0 .. n : TitlesUpTo(new, k) = TitlesUpTo(used, k)
  <2>1. \A k \in 0 .. n : \A j \in 1 .. k : j \in 1 .. n
    BY <1>2
  <2> QED BY <1>3, <2>1, Zenon DEF TitlesUpTo
<1>5. TitlesUpTo(new, m) = TitlesUpTo(used, n) \cup {title}
  <2>1. CASE m = n
    <3>1. \E k \in 1 .. n : new[k].title = title
      BY <1>1, <1>2, <2>1, Zenon
    <3> QED BY <1>3, <2>1, <3>1, Zenon DEF TitlesUpTo
  <2>2. CASE m = n + 1
    <3>1. \A j : j \in 1 .. m <=> j \in 1 .. n \/ j = m
      BY <1>2, <2>2
    <3>2. new[m].title = title
      BY <1>1, <1>2, <2>2, Zenon
    <3> QED BY <1>3, <3>1, <3>2, Zenon DEF TitlesUpTo
  <2> QED BY <1>2, <2>1, <2>2
<1>6. ASSUME NEW k \in 0 .. m
      PROVE  HoleFree(E \cup TitlesUpTo(new, k))
  <2>1. CASE k \in 0 .. n
    <3>1. TitlesUpTo(new, k) = TitlesUpTo(used, k)
      BY <1>4, <2>1
    <3> QED BY <1>2, <2>1, <3>1 DEF Fills
  <2>2. CASE k = m
    <3>1. E \cup TitlesUpTo(new, k) = E \cup TitlesUpTo(used, n) \cup {title}
      BY <1>5, <2>2
    <3> QED BY <1>2, <3>1
  <2>3. k \in 0 .. n \/ k = m
    BY <1>2
  <2> QED BY <2>1, <2>2, <2>3
<1>7. new # <<>>
  <2>1. \E k \in 1 .. m : TRUE
    BY <1>1, <1>2, Zenon
  <2> QED BY <1>2, <2>1
<1> QED BY <1>2, <1>5, <1>6, <1>7, Zenon DEF Fills, FillsToo

HasPlace(x, used) == \E k \in DOMAIN used : x \in ToSet(used[k].texts)
GrowsRightly(new, plan, text, T, X, t, E) ==
  /\ PlanIsRight(new, T, X, t, E)
  /\ HasPlace(text, new.used)
  /\ \A x : HasPlace(x, plan.used) => HasPlace(x, new.used)

\* addThread keeps the plan right, and has a place for the text it is given.
LEMMA AddThreadIsRight ==
  ASSUME NEW T, NEW X, NEW t, t.maxSize \in Nat \ {0}, NEW arch, IsFiniteSet(DOMAIN arch),
         HoleFree(DOMAIN arch), NEW plan, PlanIsRight(plan, T, X, t, DOMAIN arch),
         NEW text \in X, NEW day, \A i \in Int : Numbered(i) \in T,
         Dated(DateOfText(text, day, Algorithms(t))) \in T,
         NEW new, new = AddThread(plan, text, t, arch, day)
  PROVE  GrowsRightly(new, plan, text, T, X, t, DOMAIN arch)
<1> DEFINE used == plan.used
           E == DOMAIN arch
           all == E \cup TitlesUpTo(used, Len(used))
<1>1. used \in Plans(T, X) /\ Len(used) \in Nat /\ DOMAIN used = 1 .. Len(used)
      /\ plan.counter \in Int /\ Fills(used, E)
      /\ (t.numbered /\ used # <<>> => Follows(plan.counter, all))
  BY DEF PlanIsRight, Plans
<1>2. HoleFree(all)
  <2>1. Len(used) \in 0 .. Len(used)
    BY <1>1
  <2> QED BY <1>1, <2>1 DEF Fills
<1>3. CASE ~t.numbered
  <2>1. PICK title : title = Dated(DateOfText(text, day, Algorithms(t)))
    OBVIOUS
  <2>2. new = [used |-> Put(used, title, text), counter |-> plan.counter]
    BY <1>3, <2>1 DEF AddThread
  <2>3. title \in T /\ HoleFree(all \cup {title})
    BY <1>2, <2>1, AddingTitles
  <2>4. PICK to : to = Put(used, title, text)
    OBVIOUS
  <2>5. new.used = to /\ new.counter = plan.counter
    BY <2>2, <2>4
  <2>6. FillsToo(to, used, title, E)
    BY <1>1, <2>3, <2>4, PutFills
  <2>7. Receives(to, used, T, X, title, text)
    BY <1>1, <2>3, <2>4, PutProperties
  <2>8. /\ to \in Plans(T, X)
        /\ \A k \in DOMAIN used : k \in DOMAIN to /\ ToSet(used[k].texts) \subseteq ToSet(to[k].texts)
        /\ \E k \in DOMAIN to : text \in ToSet(to[k].texts)
    BY <2>7, Zenon DEF Receives
  <2>9. PlanIsRight(new, T, X, t, E)
    BY <1>1, <1>3, <2>5, <2>6, <2>8 DEF PlanIsRight, FillsToo, Plans
  <2> QED BY <2>5, <2>8, <2>9 DEF GrowsRightly, HasPlace
<1>4. CASE t.numbered
  <2>1. PICK from : from = IF used = <<>> THEN FirstCounter(plan.counter, arch) ELSE plan.counter
    OBVIOUS
  <2>2. PICK to : to = FirstWithRoom(from, used, arch, t.maxSize)
    OBVIOUS
  <2>3. PICK put : put = Put(used, Numbered(to), text)
    OBVIOUS
  <2>4. new = [used |-> put, counter |-> to]
    BY <1>4, <2>1, <2>2, <2>3 DEF AddThread
  <2>5. new.used = put /\ new.counter = to
    BY <2>4
  <2>6. from \in Int /\ Follows(from, all)
    <3>1. CASE used # <<>>
      BY <1>1, <1>4, <2>1, <3>1
    <3>2. CASE used = <<>>
      <4>1. from = FirstCounter(plan.counter, arch)
        BY <2>1, <3>2
      <4>2. PICK last \in Int : last = GoToLastArchive(arch) /\ (last = 1 \/ Numbered(last) \in E)
        BY LastArchiveExists
      <4>3. Follows(last, all)
        BY <1>2, <4>2, AddingTitles DEF Follows
      <4>4. CASE plan.counter < 1 \/ (plan.counter > 1 /\ Size(arch, plan.counter) = 0
                                     /\ Size(arch, plan.counter - 1) = 0)
        BY <4>1, <4>2, <4>3, <4>4 DEF FirstCounter
      <4>5. CASE ~(plan.counter < 1 \/ (plan.counter > 1 /\ Size(arch, plan.counter) = 0
                                     /\ Size(arch, plan.counter - 1) = 0))
        <5>1. from = plan.counter
          BY <4>1, <4>5 DEF FirstCounter
        <5>2. \A i : Size(arch, i) # 0 => Numbered(i) \in all
          BY DEF Size
        <5>3. plan.counter = 1 \/ Numbered(plan.counter) \in all \/ Numbered(plan.counter - 1) \in all
          BY <1>1, <4>5, <5>2
        <5> QED BY <1>1, <1>2, <5>1, <5>3, AddingTitles DEF Follows
      <4> QED BY <4>4, <4>5
    <3> QED BY <3>1, <3>2
  <2>7. to \in Int /\ from <= to /\ \A j \in from .. to - 1 : Full(j, used, arch, t.maxSize)
    BY <1>1, <2>2, <2>6, RoomProperties
  <2>8. Follows(to, all)
    <3>1. CASE to = from
      BY <2>6, <3>1
    <3>2. CASE from < to
      <4>1. to - 1 \in Int /\ Full(to - 1, used, arch, t.maxSize)
        BY <2>6, <2>7, <3>2
      <4>2. Numbered(to - 1) \in all
        <5>1. CASE Added(used, Numbered(to - 1)) # {}
          BY <1>1, <5>1 DEF Added, TitlesUpTo
        <5>2. CASE Added(used, Numbered(to - 1)) = {}
          <6>1. Size(arch, to - 1) + 0 >= t.maxSize
            BY <4>1, <5>2 DEF Full
          <6>2. Size(arch, to - 1) # 0
            BY <6>1
          <6> QED BY <6>2 DEF Size
        <5> QED BY <5>1, <5>2
      <4> QED BY <4>2 DEF Follows
    <3> QED BY <2>6, <2>7, <3>1, <3>2
  <2>9. HoleFree(all \cup {Numbered(to)})
    BY <1>2, <2>7, <2>8, AddingTitles
  <2>10. FillsToo(put, used, Numbered(to), E)
    <3>1. Numbered(to) \in T
      BY <2>7
    <3> QED BY <1>1, <2>3, <2>9, <3>1, PutFills
  <2>11. /\ put \in Plans(T, X)
         /\ \A k \in DOMAIN used : k \in DOMAIN put /\ ToSet(used[k].texts) \subseteq ToSet(put[k].texts)
         /\ \E k \in DOMAIN put : text \in ToSet(put[k].texts)
    <3>1. Numbered(to) \in T
      BY <2>7
    <3>2. Receives(put, used, T, X, Numbered(to), text)
      BY <1>1, <2>3, <3>1, PutProperties
    <3> QED BY <3>2, Zenon DEF Receives
  <2>12. Follows(to, E \cup TitlesUpTo(put, Len(put)))
    BY <2>8, <2>10 DEF Follows, FillsToo
  <2>13. PlanIsRight(new, T, X, t, E)
    BY <2>5, <2>7, <2>10, <2>11, <2>12 DEF PlanIsRight, FillsToo, Plans
  <2> QED BY <2>5, <2>11, <2>13 DEF GrowsRightly, HasPlace
<1> QED BY <1>3, <1>4
\* The plan of a run exists: it can be made thread by thread.
NextPlan(f, n, texts, t, c, arch, day) ==
  IF n = 0 THEN [used |-> <<>>, counter |-> c] ELSE AddThread(f[n - 1], texts[n], t, arch, day)
PlanUpTo(k, texts, t, c, arch, day) ==
  \E f : f = [n \in 0 .. k |-> NextPlan(f, n, texts, t, c, arch, day)]

LEMMA PlanExists ==
  ASSUME NEW texts, NEW t, NEW c, NEW arch, NEW day, NEW len \in Nat
  PROVE  PlanUpTo(len, texts, t, c, arch, day)
<1> DEFINE Built(k) == \E f : f = [n \in 0 .. k |-> NextPlan(f, n, texts, t, c, arch, day)]
           N == {k \in 0 .. len : Built(k)}
<1>1. 0 \in N
  <2> DEFINE f == [n \in 0 .. 0 |-> [used |-> <<>>, counter |-> c]]
  <2>1. f = [n \in 0 .. 0 |-> NextPlan(f, n, texts, t, c, arch, day)]
    BY DEF NextPlan
  <2> HIDE DEF f
  <2>2. Built(0)
    BY <2>1
  <2> QED BY <2>2
<1>2. ASSUME NEW k \in 1 .. len, k - 1 \in N
      PROVE  k \in N
  <2>1. PICK g : g = [n \in 0 .. k - 1 |-> NextPlan(g, n, texts, t, c, arch, day)]
    BY <1>2
  <2> DEFINE f == [n \in 0 .. k |-> IF n = k THEN NextPlan(g, k, texts, t, c, arch, day) ELSE g[n]]
  <2>2. \A n \in 0 .. k : NextPlan(f, n, texts, t, c, arch, day) = NextPlan(g, n, texts, t, c, arch, day)
    BY DEF NextPlan
  <2>3. \A n \in 0 .. k - 1 : g[n] = NextPlan(g, n, texts, t, c, arch, day)
    BY <2>1
  <2>4. \A n \in 0 .. k : f[n] = NextPlan(f, n, texts, t, c, arch, day)
    BY <2>2, <2>3
  <2>5. f = [n \in 0 .. k |-> NextPlan(f, n, texts, t, c, arch, day)]
    BY <2>4
  <2> HIDE DEF f
  <2>6. Built(k)
    BY <2>5
  <2> QED BY <2>6
<1>3. 0 .. len \subseteq N
  <2> HIDE DEF N
  <2> QED BY <1>1, <1>2, InductionUpTo
<1>4. Built(len)
  <2> HIDE DEF Built
  <2> QED BY <1>3
<1> QED BY <1>4 DEF PlanUpTo

\* Every text that leaves the page has a place in the plan of the run.
LEMMA PlanIsComplete ==
  ASSUME NEW X, NEW texts \in Seq(X), NEW t, t.maxSize \in Nat \ {0}, NEW c \in Int,
         NEW arch, IsFiniteSet(DOMAIN arch), HoleFree(DOMAIN arch), NEW day,
         NEW plan, plan = Allocate(texts, t, c, arch, day)
  PROVE  \E T : /\ PlanIsRight(plan, T, X, t, DOMAIN arch)
                /\ \A x \in ToSet(texts) : HasPlace(x, plan.used)
<1> DEFINE len == Len(texts)
           E == DOMAIN arch
           T == {Numbered(i) : i \in Int} \cup {Dated(DateOfText(texts[n], day, Algorithms(t))) : n \in 1 .. len}
           f == CHOOSE f : f = [n \in 0 .. len |-> NextPlan(f, n, texts, t, c, arch, day)]
           Right(n) == /\ PlanIsRight(f[n], T, X, t, E)
                       /\ \A i \in 1 .. n : HasPlace(texts[i], f[n].used)
           N == {n \in 0 .. len : Right(n)}
<1>1. len \in Nat /\ DOMAIN texts = 1 .. len
  OBVIOUS
<1>2. f = [n \in 0 .. len |-> NextPlan(f, n, texts, t, c, arch, day)]
  <2>1. \E g : g = [n \in 0 .. len |-> NextPlan(g, n, texts, t, c, arch, day)]
    <3> HIDE DEF len
    <3>1. PlanUpTo(len, texts, t, c, arch, day)
      BY <1>1, PlanExists
    <3> QED BY <3>1, Zenon DEF PlanUpTo
  <2> QED BY <2>1, Zenon
<1>3. plan = f[len]
  BY DEF Allocate, NextPlan
<1> HIDE DEF f
<1>4. \A n \in 0 .. len : f[n] = NextPlan(f, n, texts, t, c, arch, day)
  BY <1>2
<1>5. \A i \in Int : Numbered(i) \in T
  OBVIOUS
<1>6. \A n \in 1 .. len : Dated(DateOfText(texts[n], day, Algorithms(t))) \in T
  OBVIOUS
<1> HIDE DEF T
<1>7. 0 \in N
  <2>1. f[0] = [used |-> <<>>, counter |-> c]
    BY <1>1, <1>4 DEF NextPlan
  <2>2. f[0].used = <<>> /\ f[0].counter = c
    BY <2>1
  <2>3. Fills(<<>>, E)
    <3>1. TitlesUpTo(<<>>, 0) = {}
      BY DEF TitlesUpTo
    <3>2. E \cup TitlesUpTo(<<>>, 0) = E
      BY <3>1
    <3>3. \A k \in 0 .. Len(<<>>) : k = 0
      OBVIOUS
    <3> QED BY <3>2, <3>3, Zenon DEF Fills
  <2>4. PlanIsRight(f[0], T, X, t, E)
    <3>1. <<>> \in Seq([title : T, texts : Seq(X)])
      OBVIOUS
    <3> QED BY <2>2, <2>3, <3>1 DEF PlanIsRight, Plans
  <2> QED BY <1>1, <2>4
<1>8. ASSUME NEW n \in 1 .. len, n - 1 \in N
      PROVE  n \in N
  <2>1. PICK old : old = f[n - 1]
    OBVIOUS
  <2>2. PICK new : new = f[n]
    OBVIOUS
  <2>3. PlanIsRight(old, T, X, t, E) /\ \A i \in 1 .. n - 1 : HasPlace(texts[i], old.used)
    BY <1>8, <2>1
  <2>4. new = AddThread(old, texts[n], t, arch, day)
    BY <1>1, <1>4, <2>1, <2>2 DEF NextPlan
  <2>5. texts[n] \in X /\ Dated(DateOfText(texts[n], day, Algorithms(t))) \in T
    BY <1>6
  <2>6. GrowsRightly(new, old, texts[n], T, X, t, E)
    BY <1>5, <2>3, <2>4, <2>5, AddThreadIsRight
  <2>7. \A i \in 1 .. n : i \in 1 .. n - 1 \/ i = n
    OBVIOUS
  <2>8. \A i \in 1 .. n : HasPlace(texts[i], new.used)
    BY <2>3, <2>6, <2>7, Zenon DEF GrowsRightly
  <2>9. Right(n)
    BY <2>2, <2>6, <2>8, Zenon DEF GrowsRightly
  <2> HIDE DEF Right
  <2> QED BY <1>1, <2>9
<1>9. 0 .. len \subseteq N
  <2> HIDE DEF N, len
  <2> QED BY <1>1, <1>7, <1>8, InductionUpTo
<1>10. Right(len)
  <2>1. len \in 0 .. len
    BY <1>1
  <2> HIDE DEF Right, len
  <2> QED BY <1>9, <2>1
<1>11. \A x \in ToSet(texts) : HasPlace(x, plan.used)
  BY <1>1, <1>3, <1>10 DEF ToSet
<1> QED BY <1>3, <1>10, <1>11
---------------------------------------------------------------------------
(* The inductive invariant of the talk page archiver.                      *)

Runs(T) == [step : {"idle", "read", "archives", "save"}, base : Int, todo : Plans(T, Texts), page : Seq(Texts),
            gone : SUBSET Texts, counter : Int, newestFirst : BOOLEAN, stable : SUBSET Int]

ArchiverTypeOK ==
  /\ talkPage \in Seq(Texts) /\ template \in Templates /\ counter \in Int /\ talkRevid \in Int
  /\ IsFiniteSet(DOMAIN archives) /\ \A x \in DOMAIN archives : archives[x] \in Seq(Texts)
  /\ latest \in [Threads -> Texts \cup {NoText}]
  /\ today \in Int /\ stableRevids \subseteq Int
  /\ \E T : run \in Runs(T)

LatestIsOwn == \A id \in Threads : latest[id] # NoText => latest[id].id = id

\* A revision known to be stable is not after the current one, and if it is the
\* current one it is stable.
StableIsPast ==
  \A r \in stableRevids \cup run.stable :
    r <= talkRevid /\ (r = talkRevid => InStableState(talkPage, template))

\* While nobody edits the page that is being archived, each of its texts stays
\* on it, is erased, is archived or is still to archive.
PageIsCovered ==
  run.step = "archives" =>
    /\ run.base <= talkRevid
    /\ run.base = talkRevid =>
         \A x \in ToSet(talkPage) : x \in ToSet(run.page) \cup run.gone \cup Archived \/ HasPlace(x, run.todo)

\* Wherever the run stops, the archives it has written leave no hole.
RunFillsNoHole == run.step = "archives" => Fills(run.todo, DOMAIN archives)

ArchiverInv ==
  /\ ArchiverTypeOK /\ LatestIsOwn /\ StableIsPast /\ PageIsCovered /\ RunFillsNoHole
  /\ NothingIsLost /\ ArchivesHaveNoHole
LEMMA DefaultIsInt ==
  ASSUME NEW t \in Templates
  PROVE  /\ MinLeft(t) \in Int /\ MinToArchive(t) \in Int /\ MinToArchive(t) >= 1
         /\ t.maxSize \in Nat \ {0} /\ t.tracking \in BOOLEAN
<1>1. t.minLeft \in Int /\ t.minToArchive \in Int /\ t.maxSize \in Nat \ {0} /\ t.tracking \in BOOLEAN
  BY TemplatesAssumption
<1> QED BY <1>1 DEF MinLeft, MinToArchive, Default

\* What leaves the page in a run is a sequence of texts.
LEMMA GoingIsSequence ==
  ASSUME NEW texts \in Seq(Texts), NEW t \in Templates, NEW day
  PROVE  Going(texts, t, day) \in Seq(Texts)
<1> DEFINE all == Candidates(texts, t, day)
           room == ThreadsLeft(texts) - MinLeft(t)
<1>1. InOrder(texts, t) \in Seq(Texts)
  <2>1. Reverse(texts) \in Seq(Texts)
    BY DEF Reverse
  <2> QED BY <2>1 DEF InOrder
<1>2. all \in Seq(Texts)
  BY <1>1, SelectedProperties DEF Candidates
<1>3. ThreadsLeft(texts) \in Int
  <2> DEFINE S == {i \in DOMAIN texts : texts[i].level = 2}
  <2>1. IsFiniteSet(1 .. Len(texts)) /\ S \subseteq 1 .. Len(texts)
    BY FS_Interval
  <2>2. IsFiniteSet(S)
    BY <2>1, FS_Subset
  <2>3. Cardinality(S) \in Nat
    <3> HIDE DEF S
    <3> QED BY <2>2, FS_CardinalityType
  <2> QED BY <2>3 DEF ThreadsLeft
<1>4. MinLeft(t) \in Int
  BY DefaultIsInt
<1> HIDE DEF all
<1>5. CASE Len(all) < MinToArchive(t) \/ InStableState(texts, t)
  <2>1. Going(texts, t, day) = <<>>
    BY <1>5 DEF Going, all
  <2> QED BY <2>1
<1>6. CASE ~(Len(all) < MinToArchive(t) \/ InStableState(texts, t))
  <2> DEFINE n == IF Len(all) < room THEN Len(all) ELSE room
  <2>1. Going(texts, t, day) = SubSeq(all, 1, n)
    BY <1>6 DEF Going, all
  <2>2. n \in Int /\ n <= Len(all) /\ Len(all) \in Nat
    BY <1>2, <1>3, <1>4
  <2> HIDE DEF n
  <2>3. \A i \in 1 .. n : all[i] \in Texts
    BY <1>2, <2>2
  <2>4. SubSeq(all, 1, n) \in Seq(Texts)
    BY <2>2, <2>3, SubSeqProperties
  <2> QED BY <2>1, <2>4
<1> QED BY <1>5, <1>6

---------------------------------------------------------------------------
(* The users.                                                              *)

LEMMA UserEditKeeps ==
  ASSUME ArchiverInv, NEW newPage \in Seq(Texts), UserEdits(newPage), template' \in Templates,
         counter' \in Int, latest' \in [Threads -> Texts \cup {NoText}], LatestIsOwn', NothingIsLost'
  PROVE  ArchiverInv'
<1> USE DEF ArchiverInv
<1>1. /\ talkPage' = newPage /\ talkRevid' = talkRevid + 1
      /\ archives' = archives /\ today' = today /\ stableRevids' = stableRevids /\ run' = run
  BY DEF UserEdits
<1>2. talkRevid \in Int /\ stableRevids \subseteq Int
  BY DEF ArchiverTypeOK
<1>3. ArchiverTypeOK'
  BY <1>1, <1>2 DEF ArchiverTypeOK
<1>4. run.stable \subseteq Int /\ run.base \in Int
  BY DEF ArchiverTypeOK, Runs
<1>5. StableIsPast'
  <2>1. \A r \in Int : r <= talkRevid => r <= talkRevid + 1 /\ r # talkRevid + 1
    BY <1>2
  <2>2. \A r \in stableRevids \cup run.stable : r \in Int /\ r <= talkRevid
    BY <1>2, <1>4 DEF StableIsPast
  <2> QED BY <1>1, <2>1, <2>2 DEF StableIsPast
<1>6. PageIsCovered'
  BY <1>1, <1>2, <1>4 DEF PageIsCovered
<1>7. RunFillsNoHole' /\ ArchivesHaveNoHole'
  BY <1>1 DEF RunFillsNoHole, ArchivesHaveNoHole
<1> QED BY <1>3, <1>5, <1>6, <1>7

LEMMA PostKeeps ==
  ASSUME ArchiverInv, NEW p \in Posts, Post(p.level, p.kind, p.signed)
  PROVE  ArchiverInv'
<1> DEFINE id == CHOOSE t \in Threads : latest[t] = NoText
           text == [id |-> id, level |-> p.level, kept |-> FALSE, kind |-> p.kind,
                    date |-> IF p.signed THEN today ELSE NoDate, since |-> today]
<1>1. /\ \E t \in Threads : latest[t] = NoText
      /\ latest' = [latest EXCEPT ![id] = text]
      /\ UserEdits(Append(talkPage, text)) /\ template' = template /\ counter' = counter
  BY DEF Post
<1>2. id \in Threads
  BY <1>1, Zenon
<1>3. p.level \in Int /\ p.kind \in Kinds /\ p.signed \in BOOLEAN
  BY PostsAssumption DEF Kinds
<1>4. /\ talkPage \in Seq(Texts) /\ template \in Templates /\ counter \in Int /\ today \in Int
      /\ latest \in [Threads -> Texts \cup {NoText}]
  BY DEF ArchiverInv, ArchiverTypeOK
<1>5. text \in Texts /\ text.id = id
  <2>1. PICK d \in Int : d = IF p.signed THEN today ELSE NoDate
    BY <1>4 DEF NoDate
  <2> HIDE DEF id
  <2> QED BY <1>2, <1>3, <1>4, <2>1 DEF Texts
<1> HIDE DEF text, id
<1>6. PICK page : page = Append(talkPage, text) /\ page \in Seq(Texts) /\ ToSet(page) = ToSet(talkPage) \cup {text}
  <2>1. PICK q \in Seq(Texts) : q = talkPage
    BY <1>4
  <2>2. Append(q, text) \in Seq(Texts) /\ ToSet(Append(q, text)) = ToSet(q) \cup {text}
    BY <1>5, AppendedText
  <2> QED BY <2>1, <2>2
<1>7. /\ latest' \in [Threads -> Texts \cup {NoText}]
      /\ \A t \in Threads : latest'[t] = IF t = id THEN text ELSE latest[t]
  BY <1>1, <1>4, <1>5
<1>8. LatestIsOwn'
  BY <1>2, <1>5, <1>7 DEF ArchiverInv, LatestIsOwn
<1>9. UserEdits(page)
  BY <1>1, <1>6
<1>10. NothingIsLost'
  <2>1. talkPage' = page /\ Archived' = Archived /\ erased' = erased
    BY <1>9 DEF UserEdits, Archived
  <2> QED BY <1>6, <1>7, <2>1 DEF ArchiverInv, NothingIsLost
<1> QED BY <1>1, <1>4, <1>6, <1>7, <1>8, <1>9, <1>10, UserEditKeeps

LEMMA ChangeKeeps ==
  ASSUME ArchiverInv, NEW i \in DOMAIN talkPage, NEW keep \in BOOLEAN, Change(i, keep)
  PROVE  ArchiverInv'
<1>1. /\ talkPage \in Seq(Texts) /\ template \in Templates /\ counter \in Int /\ today \in Int
      /\ latest \in [Threads -> Texts \cup {NoText}]
  BY DEF ArchiverInv, ArchiverTypeOK
<1>2. PICK old \in Texts : old = talkPage[i]
  BY <1>1
<1>3. PICK text : /\ text = IF keep THEN [old EXCEPT !.kept = TRUE, !.since = today]
                           ELSE [old EXCEPT !.date = today, !.since = today,
                                   !.kind = IF @ = "newsletter" THEN "talk" ELSE @]
                  /\ latest' = [latest EXCEPT ![text.id] = text]
                  /\ UserEdits([talkPage EXCEPT ![i] = text])
                  /\ template' = template /\ counter' = counter
  BY <1>2, Zenon DEF Change
<1>4. text \in Texts /\ text.id = old.id /\ old.id \in Threads
  <2>1. CASE keep
    BY <1>1, <1>3, <2>1 DEF Texts
  <2>2. CASE ~keep
    <3>1. PICK k : k = IF old.kind = "newsletter" THEN "talk" ELSE old.kind
      OBVIOUS
    <3>2. k \in Kinds
      <4>1. old.kind \in Kinds
        BY DEF Texts
      <4> QED BY <3>1, <4>1 DEF Kinds
    <3>3. text = [old EXCEPT !.date = today, !.since = today, !.kind = k]
      BY <1>3, <2>2, <3>1
    <3> QED BY <1>1, <3>2, <3>3 DEF Texts
  <2> QED BY <2>1, <2>2
<1>5. PICK page : page = [talkPage EXCEPT ![i] = text]
  OBVIOUS
<1>6. /\ page \in Seq(Texts) /\ text \in ToSet(page)
      /\ \A x \in ToSet(talkPage) : x = old \/ x \in ToSet(page)
  BY <1>1, <1>2, <1>4, <1>5 DEF ToSet
<1>7. /\ latest' \in [Threads -> Texts \cup {NoText}]
      /\ \A t \in Threads : latest'[t] = IF t = old.id THEN text ELSE latest[t]
  BY <1>1, <1>3, <1>4
<1>8. LatestIsOwn'
  BY <1>4, <1>7 DEF ArchiverInv, LatestIsOwn
<1>9. UserEdits(page)
  BY <1>3, <1>5
<1>10. NothingIsLost'
  <2>1. talkPage' = page /\ Archived' = Archived /\ erased' = erased
    BY <1>9 DEF UserEdits, Archived
  <2>2. ASSUME NEW t \in Threads, latest'[t] # NoText
        PROVE  latest'[t] \in ToSet(page) \cup Archived \/ latest'[t] \in erased
    <3>1. CASE t = old.id
      BY <1>6, <1>7, <3>1
    <3>2. CASE t # old.id
      <4>1. latest'[t] = latest[t] /\ latest[t].id = t
        BY <1>7, <2>2, <3>2 DEF ArchiverInv, LatestIsOwn
      <4>2. latest[t] # old
        BY <3>2, <4>1
      <4>3. latest[t] \in ToSet(talkPage) \cup Archived \/ latest[t] \in erased
        BY <2>2, <4>1 DEF ArchiverInv, NothingIsLost
      <4> QED BY <1>6, <4>1, <4>2, <4>3
    <3> QED BY <3>1, <3>2
  <2> QED BY <2>1, <2>2 DEF NothingIsLost
<1> QED BY <1>1, <1>3, <1>6, <1>7, <1>8, <1>9, <1>10, UserEditKeeps

LEMMA ChangeTemplateKeeps ==
  ASSUME ArchiverInv, NEW t \in Templates, NEW c \in Counters \cup {NotSet}, ChangeTemplate(t, c)
  PROVE  ArchiverInv'
<1>1. talkPage \in Seq(Texts) /\ latest \in [Threads -> Texts \cup {NoText}]
  BY DEF ArchiverInv, ArchiverTypeOK
<1>2. template' = t /\ counter' = c /\ UserEdits(talkPage) /\ latest' = latest
  BY DEF ChangeTemplate
<1>3. c \in Int
  BY TemplatesAssumption DEF NotSet
<1>4. LatestIsOwn'
  BY <1>2 DEF ArchiverInv, LatestIsOwn
<1>5. NothingIsLost'
  BY <1>2 DEF ArchiverInv, NothingIsLost, UserEdits, Archived
<1> QED BY <1>1, <1>2, <1>3, <1>4, <1>5, UserEditKeeps
LEMMA NextDayKeeps ==
  ASSUME ArchiverInv, NextDay
  PROVE  ArchiverInv'
<1>1. UNCHANGED <<talkPage, template, counter, talkRevid, archives, erased, latest, stableRevids, run>>
      /\ today' = today + 1
  BY DEF NextDay
<1>2. ArchiverTypeOK'
  BY <1>1 DEF ArchiverInv, ArchiverTypeOK
<1>3. (LatestIsOwn /\ StableIsPast /\ PageIsCovered /\ RunFillsNoHole /\ NothingIsLost /\ ArchivesHaveNoHole)'
  BY <1>1 DEF ArchiverInv, LatestIsOwn, StableIsPast, PageIsCovered, RunFillsNoHole, NothingIsLost,
              ArchivesHaveNoHole, Archived
<1> QED BY <1>2, <1>3 DEF ArchiverInv

---------------------------------------------------------------------------
(* The bot.                                                                *)

WaitsAt(r, step, stable) == r \in Runs({}) /\ r.step = step /\ r.stable = stable

LEMMA WaitingRuns ==
  /\ WaitsAt(NoRun, "idle", {})
  /\ \A step \in {"idle", "read", "save"} : WaitsAt([NoRun EXCEPT !.step = step], step, {})
  /\ \A step \in {"idle", "read", "save"}, stable \in SUBSET Int :
       WaitsAt([NoRun EXCEPT !.step = step, !.stable = stable], step, stable)
<1>1. PICK todos, contents : todos = Plans({}, Texts) /\ contents = Seq(Texts)
  OBVIOUS
<1>2. PICK empty : empty = <<>> /\ empty \in todos /\ empty \in contents
  <2>1. <<>> \in Seq(Texts)
    OBVIOUS
  <2>2. <<>> \in Plans({}, Texts)
    BY DEF Plans
  <2> QED BY <1>1, <2>1, <2>2
<1>4. NoRun = [step |-> "idle", base |-> 0, todo |-> empty, page |-> empty, gone |-> {},
              counter |-> NotSet, newestFirst |-> FALSE, stable |-> {}]
  BY <1>2 DEF NoRun
<1>5. PICK R : R = [step : {"idle", "read", "archives", "save"}, base : Int, todo : todos, page : contents,
                    gone : SUBSET Texts, counter : Int, newestFirst : BOOLEAN, stable : SUBSET Int]
  OBVIOUS
<1>6. R = Runs({})
  BY <1>1, <1>5 DEF Runs
<1>7. NoRun \in R
  BY <1>2, <1>4, <1>5 DEF NotSet
<1>8. NoRun.step = "idle" /\ NoRun.stable = {}
  BY <1>4
<1>9. ASSUME NEW step \in {"idle", "read", "save"}, NEW stable \in SUBSET Int
      PROVE  WaitsAt([NoRun EXCEPT !.step = step, !.stable = stable], step, stable)
  <2>1. PICK r : r = [NoRun EXCEPT !.step = step, !.stable = stable]
    OBVIOUS
  <2>2. r \in R /\ r.step = step /\ r.stable = stable
    BY <1>5, <1>7, <2>1
  <2> QED BY <1>6, <2>1, <2>2 DEF WaitsAt
<1>10. ASSUME NEW step \in {"idle", "read", "save"}
       PROVE  WaitsAt([NoRun EXCEPT !.step = step], step, {})
  <2>1. PICK r : r = [NoRun EXCEPT !.step = step]
    OBVIOUS
  <2>2. r \in R /\ r.step = step /\ r.stable = {}
    BY <1>5, <1>7, <1>8, <2>1
  <2> QED BY <1>6, <2>1, <2>2 DEF WaitsAt
<1>11. WaitsAt(NoRun, "idle", {})
  BY <1>6, <1>7, <1>8 DEF WaitsAt
<1> QED BY <1>9, <1>10, <1>11

\* A run that writes nothing now keeps the invariant if what it knows to be
\* stable is.
LEMMA WaitingKeeps ==
  ASSUME ArchiverInv, NEW new \in Runs({}), run' = new, new.step # "archives",
         UNCHANGED <<talkPage, template, counter, talkRevid, archives, erased, latest, today>>,
         \A r \in stableRevids' \cup new.stable :
           r \in Int /\ r <= talkRevid /\ (r = talkRevid => InStableState(talkPage, template))
  PROVE  ArchiverInv'
<1>1. ArchiverTypeOK'
  <2>1. stableRevids' \subseteq Int
    OBVIOUS
  <2>2. \E T : run' \in Runs(T)
    OBVIOUS
  <2> QED BY <2>1, <2>2 DEF ArchiverInv, ArchiverTypeOK
<1>2. (LatestIsOwn /\ NothingIsLost /\ ArchivesHaveNoHole)'
  BY DEF ArchiverInv, LatestIsOwn, NothingIsLost, ArchivesHaveNoHole, Archived
<1>3. StableIsPast'
  BY DEF StableIsPast
<1>4. PageIsCovered' /\ RunFillsNoHole'
  BY DEF PageIsCovered, RunFillsNoHole
<1> QED BY <1>1, <1>2, <1>3, <1>4 DEF ArchiverInv

LEMMA StartRunKeeps ==
  ASSUME ArchiverInv, StartRun
  PROVE  ArchiverInv'
<1>1. /\ UNCHANGED <<talkPage, template, counter, talkRevid, archives, erased, latest, today, stableRevids>>
      /\ run' = IF KnownStable THEN [NoRun EXCEPT !.step = "save", !.stable = {talkRevid}]
               ELSE [NoRun EXCEPT !.step = "read"]
  BY DEF StartRun, UsersWait
<1>2. talkRevid \in Int /\ stableRevids \subseteq Int
  BY DEF ArchiverInv, ArchiverTypeOK
<1>3. \A r \in stableRevids : r \in Int /\ r <= talkRevid /\ (r = talkRevid => InStableState(talkPage, template))
  BY <1>2 DEF ArchiverInv, StableIsPast
<1>4. CASE KnownStable
  <2>1. PICK new \in Runs({}) : run' = new /\ new.step = "save" /\ new.stable = {talkRevid}
    <3>1. run' = [NoRun EXCEPT !.step = "save", !.stable = {talkRevid}] /\ {talkRevid} \in SUBSET Int
      BY <1>1, <1>2, <1>4
    <3> QED BY <3>1, WaitingRuns DEF WaitsAt
  <2>2. talkRevid \in stableRevids
    BY <1>4 DEF KnownStable
  <2>3. stableRevids' \cup {talkRevid} = stableRevids
    BY <1>1, <2>2
  <2> QED BY <1>1, <1>2, <1>3, <2>1, <2>3, WaitingKeeps
<1>5. CASE ~KnownStable
  <2>1. PICK new \in Runs({}) : run' = new /\ new.step = "read" /\ new.stable = {}
    BY <1>1, <1>5, WaitingRuns DEF WaitsAt
  <2>2. stableRevids' \cup {} = stableRevids
    BY <1>1
  <2> QED BY <1>1, <1>3, <2>1, <2>2, WaitingKeeps
<1> QED BY <1>4, <1>5

LEMMA SaveKeeps ==
  ASSUME ArchiverInv, SaveStableRevids
  PROVE  ArchiverInv'
<1>1. /\ UNCHANGED <<talkPage, template, counter, talkRevid, archives, erased, latest, today>>
      /\ run' = NoRun /\ stableRevids' = run.stable
  BY DEF SaveStableRevids, UsersWait
<1>2. run.stable \subseteq Int
  BY DEF ArchiverInv, ArchiverTypeOK, Runs
<1>3. \A r \in run.stable : r \in Int /\ r <= talkRevid /\ (r = talkRevid => InStableState(talkPage, template))
  BY <1>2 DEF ArchiverInv, StableIsPast
<1>4. PICK new \in Runs({}) : run' = new /\ new.step = "idle" /\ new.stable = {}
  BY <1>1, WaitingRuns DEF WaitsAt
<1> QED BY <1>1, <1>3, <1>4, WaitingKeeps

LEMMA CrashKeeps ==
  ASSUME ArchiverInv, Crash
  PROVE  ArchiverInv'
<1>1. /\ UNCHANGED <<talkPage, template, counter, talkRevid, archives, erased, latest, today, stableRevids>>
      /\ run' = NoRun
  BY DEF Crash, UsersWait
<1>2. \A r \in stableRevids : r \in Int /\ r <= talkRevid /\ (r = talkRevid => InStableState(talkPage, template))
  BY DEF ArchiverInv, ArchiverTypeOK, StableIsPast
<1>3. PICK new \in Runs({}) : run' = new /\ new.step = "idle" /\ new.stable = {}
  BY <1>1, WaitingRuns DEF WaitsAt
<1> QED BY <1>1, <1>2, <1>3, WaitingKeeps
\* The sets of texts of the sequences the bot makes.
LEMMA TextsOfSequences ==
  ASSUME NEW X, NEW a \in Seq(X)
  PROVE  /\ ToSet(a) \subseteq X
         /\ Reverse(a) \in Seq(X) /\ ToSet(Reverse(a)) = ToSet(a)
<1>1. PICK m \in Nat : m = Len(a) /\ DOMAIN a = 1 .. m
  OBVIOUS
<1>2. Reverse(a) \in Seq(X) /\ DOMAIN Reverse(a) = 1 .. m /\ \A i \in 1 .. m : Reverse(a)[i] = a[m - i + 1]
  BY <1>1 DEF Reverse
<1>3. ToSet(Reverse(a)) = ToSet(a)
  <2>1. ASSUME NEW i \in 1 .. m  PROVE m - i + 1 \in 1 .. m /\ Reverse(a)[m - i + 1] = a[i] /\ Reverse(a)[i] = a[m - i + 1]
    <3>1. m - i + 1 \in 1 .. m /\ m - (m - i + 1) + 1 = i
      BY <1>1
    <3> QED BY <1>2, <3>1
  <2>2. PICK r : r = Reverse(a) /\ DOMAIN r = 1 .. m
    BY <1>2
  <2>3. ASSUME NEW i \in 1 .. m
        PROVE  a[i] \in ToSet(r) /\ r[i] \in ToSet(a)
    BY <1>1, <2>1, <2>2 DEF ToSet
  <2>4. ToSet(r) = {r[i] : i \in 1 .. m} /\ ToSet(a) = {a[i] : i \in 1 .. m}
    BY <1>1, <2>2 DEF ToSet
  <2>5. ToSet(a) \subseteq ToSet(r)
    BY <2>3, <2>4, Zenon
  <2>6. ToSet(r) \subseteq ToSet(a)
    BY <2>3, <2>4, Zenon
  <2> QED BY <2>2, <2>5, <2>6
<1>4. ToSet(a) \subseteq X
  BY DEF ToSet
<1> QED BY <1>2, <1>3, <1>4

IsJoined(c, a, b, X) == c \in Seq(X) /\ ToSet(c) = ToSet(a) \cup ToSet(b)

LEMMA TextsOfJoined ==
  ASSUME NEW X, NEW a \in Seq(X), NEW b \in Seq(X)
  PROVE  IsJoined(a \o b, a, b, X)
<1>1. PICK m \in Nat, n \in Nat : m = Len(a) /\ n = Len(b) /\ DOMAIN a = 1 .. m /\ DOMAIN b = 1 .. n
  OBVIOUS
<1>2. /\ a \o b \in Seq(X) /\ DOMAIN (a \o b) = 1 .. m + n
      /\ \A i \in 1 .. m : (a \o b)[i] = a[i] /\ i \in 1 .. m + n
      /\ \A i \in 1 .. n : (a \o b)[m + i] = b[i] /\ m + i \in 1 .. m + n
      /\ \A i \in 1 .. m + n : i \in 1 .. m \/ \E j \in 1 .. n : i = m + j
  <2>1. /\ a \o b \in Seq(X) /\ DOMAIN (a \o b) = 1 .. m + n
        /\ \A i \in 1 .. m + n : (a \o b)[i] = IF i <= m THEN a[i] ELSE b[i - m]
    BY <1>1
  <2>2. \A i \in 1 .. n : m + i \in 1 .. m + n /\ ~(m + i <= m) /\ m + i - m = i
    BY <1>1
  <2>3. \A i \in 1 .. m : i \in 1 .. m + n /\ i <= m
    BY <1>1
  <2>4. ASSUME NEW i \in 1 .. m + n, i \notin 1 .. m  PROVE i - m \in 1 .. n /\ i = m + (i - m)
    BY <1>1, <2>4
  <2> QED BY <2>1, <2>2, <2>3, <2>4
<1>3. ToSet(a \o b) = ToSet(a) \cup ToSet(b)
  <2>1. PICK c : c = a \o b
    OBVIOUS
  <2>2. /\ ToSet(c) = {c[i] : i \in 1 .. m + n} /\ ToSet(a) = {a[i] : i \in 1 .. m}
        /\ ToSet(b) = {b[i] : i \in 1 .. n}
    BY <1>1, <1>2, <2>1 DEF ToSet
  <2>3. /\ \A i \in 1 .. m : c[i] = a[i] /\ i \in 1 .. m + n
        /\ \A i \in 1 .. n : c[m + i] = b[i] /\ m + i \in 1 .. m + n
        /\ \A i \in 1 .. m + n : i \in 1 .. m \/ \E j \in 1 .. n : i = m + j
    BY <1>2, <2>1
  <2>4. ToSet(a) \cup ToSet(b) \subseteq ToSet(c)
    BY <2>2, <2>3
  <2>5. ASSUME NEW x \in ToSet(c)
        PROVE  x \in ToSet(a) \cup ToSet(b)
    <3>1. PICK i \in 1 .. m + n : x = c[i]
      BY <2>2, Zenon
    <3>2. CASE i \in 1 .. m
      BY <2>2, <2>3, <3>1, <3>2
    <3>3. CASE \E j \in 1 .. n : i = m + j
      <4>1. PICK j \in 1 .. n : i = m + j
        BY <3>3
      <4>2. x = b[j]
        BY <2>3, <3>1, <4>1
      <4> QED BY <2>2, <4>2
    <3> QED BY <2>3, <3>2, <3>3
  <2> QED BY <2>1, <2>4, <2>5
<1> QED BY <1>2, <1>3 DEF IsJoined

LEMMA ReadKeeps ==
  ASSUME ArchiverInv, ReadAndPlan
  PROVE  ArchiverInv'
<1> DEFINE going == Going(talkPage, template, today)
           archived == Selected(going, {x \in ToSet(going) : State(x, today, Algorithms(template)) = "archive"})
           plan == Allocate(archived, template, counter, archives, today)
<1>1. /\ talkPage \in Seq(Texts) /\ template \in Templates /\ counter \in Int /\ talkRevid \in Int
      /\ IsFiniteSet(DOMAIN archives) /\ stableRevids \subseteq Int
  BY DEF ArchiverInv, ArchiverTypeOK
<1>2. UNCHANGED <<talkPage, template, counter, talkRevid, archives, erased, latest, today, stableRevids>>
  BY DEF ReadAndPlan, UsersWait
<1>3. \A r \in stableRevids : r \in Int /\ r <= talkRevid /\ (r = talkRevid => InStableState(talkPage, template))
  BY <1>1 DEF ArchiverInv, StableIsPast
<1>4. going \in Seq(Texts)
  BY <1>1, GoingIsSequence
<1>5. archived \in Seq(Texts)
  BY <1>4, SelectedProperties
<1>6. CASE Refused(template) \/ going = <<>>
  <2>1. PICK stable : stable = IF Stable(talkPage, template) THEN {talkRevid} ELSE {}
    OBVIOUS
  <2>2. run' = [NoRun EXCEPT !.step = "save", !.stable = stable]
    BY <1>6, <2>1 DEF ReadAndPlan
  <2>3. stable \in SUBSET Int
    BY <1>1, <2>1
  <2>4. PICK new \in Runs({}) : run' = new /\ new.step = "save" /\ new.stable = stable
    BY <2>2, <2>3, WaitingRuns DEF WaitsAt
  <2>5. \A r \in stable : r \in Int /\ r <= talkRevid /\ (r = talkRevid => InStableState(talkPage, template))
    BY <1>1, <2>1 DEF Stable
  <2> QED BY <1>2, <1>3, <2>4, <2>5, WaitingKeeps
<1>7. CASE ~(Refused(template) \/ going = <<>>)
  <2>1. PICK p : p = plan
    OBVIOUS
  <2>2. HoleFree(DOMAIN archives)
    BY DEF ArchiverInv, ArchivesHaveNoHole, HoleFree, IsNumbered
  <2>3. PICK T : /\ PlanIsRight(p, T, Texts, template, DOMAIN archives)
                 /\ \A x \in ToSet(archived) : HasPlace(x, p.used)
    <3>1. template.maxSize \in Nat \ {0}
      BY <1>1, DefaultIsInt
    <3> HIDE DEF archived
    <3> QED BY <1>1, <1>5, <2>1, <2>2, <3>1, PlanIsComplete
  <2>4. PICK page : /\ page = Remaining(talkPage, going) /\ page \in Seq(Texts)
                    /\ ToSet(page) = ToSet(talkPage) \cap (ToSet(talkPage) \ ToSet(going))
    <3> HIDE DEF going
    <3> QED BY <1>1, SelectedProperties DEF Remaining
  <2>5. PICK gone : gone = ToSet(going) \ ToSet(archived) /\ gone \in SUBSET Texts
    <3> HIDE DEF going, archived
    <3>1. ToSet(going) \subseteq Texts
      BY <1>4, TextsOfSequences
    <3> QED BY <3>1
  <2>6. PICK c \in Int : c = NewCounter(template, p.counter)
    BY <2>3 DEF NewCounter, NotSet, PlanIsRight
  <2>7. template.tracking \in BOOLEAN
    BY <1>1, DefaultIsInt
  <2>8. PICK new : /\ new = [NoRun EXCEPT !.step = "archives", !.base = talkRevid, !.todo = p.used, !.page = page,
                              !.gone = gone, !.newestFirst = template.tracking, !.counter = c]
                   /\ run' = new
    BY <1>7, <2>1, <2>4, <2>5, <2>6 DEF ReadAndPlan
  <2>9. /\ new \in Runs(T) /\ new.step = "archives" /\ new.base = talkRevid /\ new.todo = p.used
        /\ new.page = page /\ new.gone = gone /\ new.stable = {}
    <3>1. p.used \in Plans(T, Texts)
      BY <2>3 DEF PlanIsRight
    <3>2. NoRun \in Runs({}) /\ NoRun.stable = {}
      BY WaitingRuns DEF WaitsAt
    <3>3. PICK none, tracking, base, queue : none = NoRun /\ tracking = template.tracking /\ base = talkRevid /\ queue = p.used
      OBVIOUS
    <3>4. PICK todos, contents, empty : todos = Plans(T, Texts) /\ contents = Seq(Texts) /\ empty = Plans({}, Texts)
      OBVIOUS
    <3>5. new = [none EXCEPT !.step = "archives", !.base = base, !.todo = queue, !.page = page,
                              !.gone = gone, !.newestFirst = tracking, !.counter = c]
      BY <2>8, <3>3
    <3>6. none \in [step : {"idle", "read", "archives", "save"}, base : Int, todo : empty, page : contents,
                    gone : SUBSET Texts, counter : Int, newestFirst : BOOLEAN, stable : SUBSET Int]
      BY <3>2, <3>3, <3>4 DEF Runs
    <3>7. queue \in todos /\ page \in contents /\ base \in Int /\ tracking \in BOOLEAN
      BY <1>1, <2>4, <2>7, <3>1, <3>3, <3>4
    <3>8. new \in [step : {"idle", "read", "archives", "save"}, base : Int, todo : todos, page : contents,
                   gone : SUBSET Texts, counter : Int, newestFirst : BOOLEAN, stable : SUBSET Int]
      BY <2>5, <3>5, <3>6, <3>7
    <3>9. /\ new.step = "archives" /\ new.base = base /\ new.todo = queue
          /\ new.page = page /\ new.gone = gone /\ new.stable = none.stable
      BY <3>5, <3>6
    <3> QED BY <3>2, <3>3, <3>4, <3>8, <3>9 DEF Runs
  <2>10. ArchiverTypeOK'
    BY <1>2, <2>8, <2>9 DEF ArchiverInv, ArchiverTypeOK
  <2>11. StableIsPast'
    BY <1>2, <1>3, <2>8, <2>9 DEF StableIsPast
  <2>12. PageIsCovered'
    <3>1. \A x \in ToSet(talkPage) : x \in ToSet(page) \/ x \in gone \/ HasPlace(x, p.used)
      BY <2>3, <2>4, <2>5
    <3>2. talkRevid <= talkRevid
      BY <1>1
    <3> QED BY <1>2, <2>8, <2>9, <3>1, <3>2 DEF PageIsCovered
  <2>13. RunFillsNoHole'
    BY <1>2, <2>3, <2>8, <2>9 DEF RunFillsNoHole, PlanIsRight
  <2>14. (LatestIsOwn /\ NothingIsLost /\ ArchivesHaveNoHole)'
    BY <1>2 DEF ArchiverInv, LatestIsOwn, NothingIsLost, ArchivesHaveNoHole, Archived
  <2> QED BY <2>10, <2>11, <2>12, <2>13, <2>14 DEF ArchiverInv
<1> QED BY <1>6, <1>7
\* A write of an archive that goes through: nothing that was archived leaves
\* the archives, and the numbered ones still have no hole.
LEMMA ArchiveIsWritten ==
  ASSUME ArchiverInv, run.step = "archives", run.todo # <<>>,
         NEW next, next = Head(run.todo), NEW new \in Seq(Texts),
         next.title \in DOMAIN archives => ToSet(archives[next.title]) \subseteq ToSet(new),
         ToSet(next.texts) \subseteq ToSet(new),
         archives' = [x \in DOMAIN archives \cup {next.title} |-> IF x = next.title THEN new ELSE archives[x]]
  PROVE  /\ IsFiniteSet(DOMAIN archives') /\ \A x \in DOMAIN archives' : archives'[x] \in Seq(Texts)
         /\ Archived \cup ToSet(next.texts) \subseteq Archived'
         /\ Fills(Tail(run.todo), DOMAIN archives') /\ ArchivesHaveNoHole'
         /\ \A x : HasPlace(x, run.todo) => HasPlace(x, Tail(run.todo)) \/ x \in ToSet(next.texts)
<1>1. PICK T : run \in Runs(T)
  BY DEF ArchiverInv, ArchiverTypeOK
<1>2. PICK R, queue : R = [title : T, texts : Seq(Texts)] /\ queue = run.todo /\ queue \in Seq(R) /\ queue # <<>>
  BY <1>1 DEF Runs, Plans
<1>3. PICK n \in Nat : n = Len(queue) /\ n >= 1 /\ DOMAIN queue = 1 .. n
  BY <1>2
<1>4. next = queue[1]
  BY <1>2
<1>5. PICK rest : /\ rest = Tail(queue) /\ Len(rest) = n - 1 /\ DOMAIN rest = 1 .. n - 1
                  /\ \A i \in 1 .. n - 1 : rest[i] = queue[i + 1]
  <2>1. /\ Tail(queue) \in Seq(R) /\ Len(Tail(queue)) = Len(queue) - 1
        /\ \A i \in 1 .. Len(Tail(queue)) : Tail(queue)[i] = queue[i + 1]
    BY <1>2, HeadTailProperties
  <2>2. PICK rest \in Seq(R) : rest = Tail(queue)
    BY <2>1
  <2>3. Len(rest) = n - 1 /\ DOMAIN rest = 1 .. Len(rest)
    BY <1>3, <2>1, <2>2
  <2>4. \A i \in 1 .. n - 1 : rest[i] = queue[i + 1]
    BY <2>1, <2>2, <2>3
  <2> QED BY <2>2, <2>3, <2>4
<1>6. DOMAIN archives' = DOMAIN archives \cup {next.title}
  OBVIOUS
<1>7. IsFiniteSet(DOMAIN archives') /\ \A x \in DOMAIN archives' : archives'[x] \in Seq(Texts)
  <2>1. IsFiniteSet(DOMAIN archives) /\ \A x \in DOMAIN archives : archives[x] \in Seq(Texts)
    BY DEF ArchiverInv, ArchiverTypeOK
  <2>2. IsFiniteSet(DOMAIN archives \cup {next.title})
    BY <2>1, FS_AddElement
  <2> QED BY <1>6, <2>1, <2>2
<1>8. Archived \cup ToSet(next.texts) \subseteq Archived'
  <2>1. \A x \in DOMAIN archives : ToSet(archives[x]) \subseteq ToSet(archives'[x])
    OBVIOUS
  <2>2. ToSet(next.texts) \subseteq ToSet(archives'[next.title])
    OBVIOUS
  <2> QED BY <1>6, <2>1, <2>2 DEF Archived
<1>9. Fills(rest, DOMAIN archives')
  <2>1. Fills(queue, DOMAIN archives)
    BY <1>2 DEF ArchiverInv, RunFillsNoHole
  <2>2. ASSUME NEW k \in 0 .. n - 1
        PROVE  HoleFree(DOMAIN archives' \cup TitlesUpTo(rest, k))
    <3>1. k + 1 \in 0 .. n
      BY <1>3
    <3>2. HoleFree(DOMAIN archives \cup TitlesUpTo(queue, k + 1))
      BY <1>3, <2>1, <3>1 DEF Fills
    <3>3. TitlesUpTo(queue, k + 1) = {next.title} \cup TitlesUpTo(rest, k)
      <4>1. \A j \in 1 .. k : j + 1 \in 1 .. k + 1 /\ j \in 1 .. n - 1
        BY <1>3
      <4>2. \A j \in 1 .. k + 1 : j = 1 \/ (j - 1 \in 1 .. k /\ j - 1 + 1 = j)
        BY <1>3
      <4>3. 1 \in 1 .. k + 1
        BY <1>3
      <4>4. \A j \in 1 .. k : rest[j].title = queue[j + 1].title
        BY <1>5, <4>1
      <4>5. TitlesUpTo(rest, k) \subseteq TitlesUpTo(queue, k + 1)
        BY <4>1, <4>4 DEF TitlesUpTo
      <4>6. next.title \in TitlesUpTo(queue, k + 1)
        BY <1>4, <4>3 DEF TitlesUpTo
      <4>7. ASSUME NEW j \in 1 .. k + 1
            PROVE  queue[j].title \in {next.title} \cup TitlesUpTo(rest, k)
        <5>1. CASE j = 1
          BY <1>4, <5>1
        <5>2. CASE j - 1 \in 1 .. k /\ j - 1 + 1 = j
          BY <4>4, <5>2 DEF TitlesUpTo
        <5> QED BY <4>2, <5>1, <5>2
      <4> QED BY <4>5, <4>6, <4>7 DEF TitlesUpTo
    <3>4. DOMAIN archives \cup TitlesUpTo(queue, k + 1) = DOMAIN archives' \cup TitlesUpTo(rest, k)
      BY <1>6, <3>3
    <3> QED BY <3>2, <3>4
  <2> QED BY <1>5, <2>2 DEF Fills
<1>10. ArchivesHaveNoHole'
  <2>1. 0 \in 0 .. Len(rest)
    BY <1>3, <1>5
  <2>2. TitlesUpTo(rest, 0) = {}
    BY DEF TitlesUpTo
  <2>3. DOMAIN archives' \cup TitlesUpTo(rest, 0) = DOMAIN archives'
    BY <2>2
  <2>4. HoleFree(DOMAIN archives')
    BY <1>9, <2>1, <2>3 DEF Fills
  <2> QED BY <2>4 DEF HoleFree, IsNumbered, ArchivesHaveNoHole
<1>11. ASSUME NEW x, HasPlace(x, queue)
       PROVE  HasPlace(x, rest) \/ x \in ToSet(next.texts)
  <2>1. PICK k \in 1 .. n : x \in ToSet(queue[k].texts)
    BY <1>3, <1>11 DEF HasPlace
  <2>2. CASE k = 1
    BY <1>4, <2>1, <2>2
  <2>3. CASE k # 1
    <3>1. k - 1 \in 1 .. n - 1 /\ k - 1 + 1 = k
      BY <2>3
    <3>2. rest[k - 1] = queue[k]
      BY <1>5, <3>1
    <3> QED BY <1>5, <2>1, <3>1, <3>2 DEF HasPlace
  <2> QED BY <2>2, <2>3
<1> QED BY <1>2, <1>5, <1>7, <1>8, <1>9, <1>10, <1>11
LEMMA WriteArchiveKeeps ==
  ASSUME ArchiverInv, NEW outcome \in Outcomes, WriteArchive(outcome)
  PROVE  ArchiverInv'
<1>1. PICK T : run \in Runs(T)
  BY DEF ArchiverInv, ArchiverTypeOK
<1>2. PICK next : next = Head(run.todo)
  OBVIOUS
<1>3. PICK old : old = IF next.title \in DOMAIN archives THEN archives[next.title] ELSE <<>>
  OBVIOUS
<1>4. PICK new : new = IF run.newestFirst THEN Reverse(next.texts) \o old ELSE old \o next.texts
  OBVIOUS
<1>5. /\ run.step = "archives" /\ run.todo # <<>>
      /\ archives' = IF outcome = "failed" THEN archives
                    ELSE [x \in DOMAIN archives \cup {next.title} |-> IF x = next.title THEN new ELSE archives[x]]
      /\ run' = [run EXCEPT !.todo = Tail(@), !.step = AfterCall(outcome)]
      /\ UNCHANGED <<talkPage, template, counter, talkRevid, erased, latest, today, stableRevids>>
  BY <1>2, <1>3, <1>4, Zenon DEF WriteArchive, UsersWait
<1>6. new \in Seq(Texts) /\ ToSet(old) \cup ToSet(next.texts) \subseteq ToSet(new)
  <2>1. next.texts \in Seq(Texts)
    <3>1. PICK R, queue : R = [title : T, texts : Seq(Texts)] /\ queue = run.todo /\ queue \in Seq(R) /\ queue # <<>>
      BY <1>1, <1>5 DEF Runs, Plans
    <3>2. next \in R
      BY <1>2, <3>1, HeadTailProperties
    <3> QED BY <3>1, <3>2
  <2>2. old \in Seq(Texts)
    BY <1>3 DEF ArchiverInv, ArchiverTypeOK
  <2>3. PICK texts \in Seq(Texts), back \in Seq(Texts), before \in Seq(Texts) :
          texts = next.texts /\ back = Reverse(texts) /\ ToSet(back) = ToSet(texts) /\ before = old
    BY <2>1, <2>2, TextsOfSequences
  <2>4. /\ back \o before \in Seq(Texts) /\ ToSet(back \o before) = ToSet(back) \cup ToSet(before)
        /\ before \o texts \in Seq(Texts) /\ ToSet(before \o texts) = ToSet(before) \cup ToSet(texts)
    <3>1. IsJoined(back \o before, back, before, Texts) /\ IsJoined(before \o texts, before, texts, Texts)
      BY TextsOfJoined
    <3> QED BY <3>1 DEF IsJoined
  <2> QED BY <1>4, <2>3, <2>4
<1>7. PICK r : /\ r = run' /\ r \in Runs(T) /\ r.step = AfterCall(outcome) /\ r.todo = Tail(run.todo)
               /\ r.base = run.base /\ r.page = run.page /\ r.gone = run.gone /\ r.stable = run.stable
  <2>1. PICK o, todos, contents, rest : o = run /\ todos = Plans(T, Texts) /\ contents = Seq(Texts) /\ rest = Tail(o.todo)
    OBVIOUS
  <2>2. o \in [step : {"idle", "read", "archives", "save"}, base : Int, todo : todos, page : contents,
               gone : SUBSET Texts, counter : Int, newestFirst : BOOLEAN, stable : SUBSET Int]
    BY <1>1, <2>1 DEF Runs
  <2>3. rest \in todos
    <3>1. PICK R : R = [title : T, texts : Seq(Texts)] /\ o.todo \in Seq(R) /\ todos = Seq(R) /\ o.todo # <<>>
      BY <1>5, <2>1, <2>2 DEF Plans
    <3> QED BY <2>1, <3>1, HeadTailProperties
  <2>4. PICK step : step = AfterCall(outcome) /\ step \in {"archives", "save"}
    BY DEF AfterCall
  <2>5. PICK s : s = [o EXCEPT !.todo = rest, !.step = step]
    OBVIOUS
  <2>6. s = run'
    BY <1>5, <2>1, <2>4, <2>5
  <2>7. s \in [step : {"idle", "read", "archives", "save"}, base : Int, todo : todos, page : contents,
               gone : SUBSET Texts, counter : Int, newestFirst : BOOLEAN, stable : SUBSET Int]
    BY <2>2, <2>3, <2>4, <2>5
  <2>8. /\ s.step = step /\ s.todo = rest /\ s.base = o.base /\ s.page = o.page /\ s.gone = o.gone
        /\ s.stable = o.stable
    BY <2>2, <2>5
  <2> QED BY <2>1, <2>4, <2>6, <2>7, <2>8 DEF Runs
<1>8. /\ IsFiniteSet(DOMAIN archives') /\ \A x \in DOMAIN archives' : archives'[x] \in Seq(Texts)
      /\ Archived \subseteq Archived' /\ ArchivesHaveNoHole'
  <2>1. CASE outcome = "failed"
    BY <1>5, <2>1 DEF ArchiverInv, ArchiverTypeOK, ArchivesHaveNoHole, Archived
  <2>2. CASE outcome # "failed"
    BY <1>2, <1>3, <1>5, <1>6, <2>2, ArchiveIsWritten
  <2> QED BY <2>1, <2>2
<1>9. ArchiverTypeOK'
  BY <1>5, <1>7, <1>8 DEF ArchiverInv, ArchiverTypeOK
<1>10. LatestIsOwn' /\ StableIsPast'
  BY <1>5, <1>7 DEF ArchiverInv, LatestIsOwn, StableIsPast
<1>11. NothingIsLost'
  BY <1>5, <1>8 DEF ArchiverInv, NothingIsLost
<1>12. PageIsCovered' /\ RunFillsNoHole'
  <2>1. CASE outcome # "done"
    BY <1>7, <2>1 DEF AfterCall, PageIsCovered, RunFillsNoHole
  <2>2. CASE outcome = "done"
    <3>1. /\ Archived \cup ToSet(next.texts) \subseteq Archived'
          /\ Fills(Tail(run.todo), DOMAIN archives')
          /\ \A x : HasPlace(x, run.todo) => HasPlace(x, Tail(run.todo)) \/ x \in ToSet(next.texts)
      BY <1>2, <1>3, <1>5, <1>6, <2>2, ArchiveIsWritten
    <3>2. PageIsCovered'
      BY <1>5, <1>7, <3>1 DEF ArchiverInv, PageIsCovered
    <3> QED BY <1>7, <3>1, <3>2 DEF RunFillsNoHole
  <2> QED BY <2>1, <2>2
<1> QED BY <1>8, <1>9, <1>10, <1>11, <1>12 DEF ArchiverInv
LEMMA WritePageKeeps ==
  ASSUME ArchiverInv, NEW outcome \in Outcomes, WritePage(outcome)
  PROVE  ArchiverInv'
<1>1. /\ run.step = "archives" /\ run.todo = <<>>
      /\ talkRevid' = IF PageIsWritten(outcome) THEN talkRevid + 1 ELSE talkRevid
      /\ talkPage' = IF PageIsWritten(outcome) THEN run.page ELSE talkPage
      /\ erased' = IF PageIsWritten(outcome) THEN erased \cup run.gone ELSE erased
      /\ counter' = IF PageIsWritten(outcome) /\ run.counter # NotSet THEN run.counter ELSE counter
      /\ run' = [NoRun EXCEPT !.step = "save"]
      /\ UNCHANGED <<template, archives, latest, today, stableRevids>>
  BY DEF WritePage, UsersWait
<1>2. PICK new \in Runs({}) : run' = new /\ new.step = "save" /\ new.stable = {}
  BY <1>1, WaitingRuns DEF WaitsAt
<1>3. /\ run.page \in Seq(Texts) /\ run.counter \in Int /\ counter \in Int /\ talkRevid \in Int
      /\ stableRevids \subseteq Int
  BY DEF ArchiverInv, ArchiverTypeOK, Runs
<1>4. \A r \in stableRevids : r \in Int /\ r <= talkRevid /\ (r = talkRevid => InStableState(talkPage, template))
  BY <1>3 DEF ArchiverInv, StableIsPast
<1>5. CASE ~PageIsWritten(outcome)
  <2>1. UNCHANGED <<talkPage, template, counter, talkRevid, archives, erased, latest, today>>
    BY <1>1, <1>5
  <2>2. stableRevids' \cup new.stable = stableRevids
    BY <1>1, <1>2
  <2> QED BY <1>2, <1>4, <2>1, <2>2, WaitingKeeps
<1>6. CASE PageIsWritten(outcome)
  <2>1. /\ talkRevid' = talkRevid + 1 /\ talkPage' = run.page /\ erased' = erased \cup run.gone
        /\ counter' \in Int /\ talkRevid = run.base
    BY <1>1, <1>3, <1>6 DEF PageIsWritten
  <2>2. ArchiverTypeOK'
    <3>1. talkPage' \in Seq(Texts) /\ talkRevid' \in Int /\ \E T : run' \in Runs(T)
      BY <1>2, <1>3, <2>1
    <3> QED BY <1>1, <2>1, <3>1 DEF ArchiverInv, ArchiverTypeOK
  <2>3. StableIsPast'
    <3>1. \A r \in Int : r <= talkRevid => r <= talkRevid + 1 /\ r # talkRevid + 1
      BY <1>3
    <3> QED BY <1>1, <1>2, <1>4, <2>1, <3>1 DEF StableIsPast
  <2>4. LatestIsOwn' /\ ArchivesHaveNoHole'
    BY <1>1 DEF ArchiverInv, LatestIsOwn, ArchivesHaveNoHole
  <2>5. PageIsCovered' /\ RunFillsNoHole'
    BY <1>2 DEF PageIsCovered, RunFillsNoHole
  <2>6. NothingIsLost'
    <3>1. Archived' = Archived
      BY <1>1 DEF Archived
    <3>2. \A x : ~HasPlace(x, <<>>)
      BY DEF HasPlace
    <3>3. \A x \in ToSet(talkPage) : x \in ToSet(run.page) \cup run.gone \cup Archived
      BY <1>1, <2>1, <3>2 DEF ArchiverInv, PageIsCovered
    <3> QED BY <1>1, <2>1, <3>1, <3>3 DEF ArchiverInv, NothingIsLost
  <2> QED BY <2>2, <2>3, <2>4, <2>5, <2>6 DEF ArchiverInv
<1> QED BY <1>5, <1>6

LEMMA ArchiverStarts ==
  ASSUME ArchiverInit
  PROVE  ArchiverInv
<1>1. /\ talkPage = <<>> /\ counter = NotSet /\ talkRevid = 1 /\ archives = <<>>
      /\ latest = [t \in Threads |-> NoText] /\ today = 0 /\ stableRevids = {} /\ run = NoRun
  BY DEF ArchiverInit
<1>2. template \in Templates
  BY TemplatesAssumption, Zenon DEF ArchiverInit
<1>3. DOMAIN archives = {}
  BY <1>1
<1>4. ArchiverTypeOK
  <2>1. IsFiniteSet(DOMAIN archives)
    BY <1>3, FS_EmptySet
  <2>2. run \in Runs({})
    BY <1>1, WaitingRuns DEF WaitsAt
  <2>3. <<>> \in Seq(Texts)
    OBVIOUS
  <2> QED BY <1>1, <1>2, <1>3, <2>1, <2>2, <2>3 DEF ArchiverTypeOK, NotSet
<1>5. run.step = "idle" /\ run.stable = {}
  BY <1>1, WaitingRuns DEF WaitsAt
<1>6. PageIsCovered /\ RunFillsNoHole /\ StableIsPast
  BY <1>1, <1>5 DEF PageIsCovered, RunFillsNoHole, StableIsPast
<1>7. LatestIsOwn /\ NothingIsLost
  BY <1>1 DEF LatestIsOwn, NothingIsLost
<1>8. ArchivesHaveNoHole
  BY <1>3 DEF ArchivesHaveNoHole
<1> QED BY <1>4, <1>6, <1>7, <1>8 DEF ArchiverInv

LEMMA ArchiverSteps ==
  ASSUME ArchiverInv, [ArchiverNext]_archiverVars
  PROVE  ArchiverInv'
<1>1. ASSUME NEW p \in Posts, Post(p.level, p.kind, p.signed)  PROVE ArchiverInv'
  BY <1>1, PostKeeps
<1>2. ASSUME NEW i \in DOMAIN talkPage, NEW keep \in BOOLEAN, Change(i, keep)  PROVE ArchiverInv'
  BY <1>2, ChangeKeeps
<1>3. ASSUME NEW t \in Templates, NEW c \in Counters \cup {NotSet}, ChangeTemplate(t, c)  PROVE ArchiverInv'
  BY <1>3, ChangeTemplateKeeps
<1>4. CASE NextDay
  BY <1>4, NextDayKeeps
<1>5. CASE StartRun
  BY <1>5, StartRunKeeps
<1>6. CASE ReadAndPlan
  BY <1>6, ReadKeeps
<1>7. ASSUME NEW outcome \in Outcomes, WriteArchive(outcome)  PROVE ArchiverInv'
  BY <1>7, WriteArchiveKeeps
<1>8. ASSUME NEW outcome \in Outcomes, WritePage(outcome)  PROVE ArchiverInv'
  BY <1>8, WritePageKeeps
<1>9. CASE SaveStableRevids
  BY <1>9, SaveKeeps
<1>10. CASE Crash
  BY <1>10, CrashKeeps
<1>11. CASE UNCHANGED archiverVars
  <2>1. UNCHANGED <<talkPage, template, counter, talkRevid, archives, erased, latest, today, stableRevids, run>>
    BY <1>11 DEF archiverVars
  <2>2. ArchiverTypeOK'
    BY <2>1 DEF ArchiverInv, ArchiverTypeOK
  <2>3. (LatestIsOwn /\ StableIsPast /\ PageIsCovered /\ RunFillsNoHole /\ NothingIsLost /\ ArchivesHaveNoHole)'
    BY <2>1 DEF ArchiverInv, LatestIsOwn, StableIsPast, PageIsCovered, RunFillsNoHole, NothingIsLost,
                ArchivesHaveNoHole, Archived
  <2> QED BY <2>2, <2>3 DEF ArchiverInv
<1> QED BY <1>1, <1>2, <1>3, <1>4, <1>5, <1>6, <1>7, <1>8, <1>9, <1>10, <1>11 DEF ArchiverNext

LEMMA ArchiverInvariant == ArchiverSpec => []ArchiverInv
<1>1. ArchiverInit => ArchiverInv
  BY ArchiverStarts
<1>2. ArchiverInv /\ [ArchiverNext]_archiverVars => ArchiverInv'
  BY ArchiverSteps
<1> QED BY <1>1, <1>2, PTL DEF ArchiverSpec

\* Whatever the threads, the templates and the counters of users, and wherever
\* runs fail or are interrupted, the last text of a thread is on the page, in
\* an archive, or was erased because an algorithm that erases chose it.
THEOREM NoThreadIsLost == ArchiverSpec => []NothingIsLost
<1>1. ArchiverInv => NothingIsLost
  BY DEF ArchiverInv
<1> QED BY <1>1, ArchiverInvariant, PTL

\* The numbered archives never have a hole, for any counter users write in the
\* template and any maximal size of an archive.
THEOREM ArchivesStayContiguous == ArchiverSpec => []ArchivesHaveNoHole
<1>1. ArchiverInv => ArchivesHaveNoHole
  BY DEF ArchiverInv
<1> QED BY <1>1, ArchiverInvariant, PTL

\* The file of stable revisions never makes the bot skip a page that a later
\* run would archive something from.
THEOREM StablePagesCanBeSkipped == ArchiverSpec => []StableMeansNothingToDo
<1>1. ArchiverInv => StableMeansNothingToDo
  <2>1. \A day : InStableState(talkPage, template) => Going(talkPage, template, day) = <<>>
    BY DEF Going
  <2> QED BY <2>1 DEF ArchiverInv, StableIsPast, StableMeansNothingToDo
<1> QED BY <1>1, ArchiverInvariant, PTL
---------------------------------------------------------------------------
(* The archiver of bot requests.                                           *)

Reqs == [id : Requests, done : BOOLEAN]
Items == [month : Int, all : BOOLEAN, redirect : {"yes", "if_changed", "no"}, init : BOOLEAN]
CallSteps == {"read", "cut", "look", "append"}
Cuttings == [step : CallSteps, attempts : {1, 2}, base : Nat, left : Seq(Reqs), moved : Seq(Reqs),
             redirect : BOOLEAN, executed : BOOLEAN]

RequestsTypeOK ==
  /\ requests \in [Months -> Seq(Reqs)] /\ archive \in [Months -> Seq(Reqs)]
  /\ edits \in [Months -> Nat] /\ archiveEdits \in [Months -> Nat]
  /\ month \in Int /\ errors \in Nat
  /\ posted \subseteq Requests /\ dropped \subseteq posted
  /\ todo \in Seq(Items) /\ \A i \in DOMAIN todo : todo[i].month \in Months
  /\ cutting \in Cuttings

ListedOnce(s) == \A i, j \in DOMAIN s : s[i].id = s[j].id => i = j

\* A run that is cutting a page is at a month that is not to create.
CutIsRight ==
  cutting.step # "read" => /\ todo # <<>> /\ ~Head(todo).init /\ Head(todo).month \in Months
                           /\ ListedOnce(cutting.moved)

\* Until somebody edits the page, the run holds what stays and what goes.
PageCutIsRight ==
  cutting.step = "cut" =>
    LET m == Head(todo).month
    IN  /\ ListedOnce(cutting.left) /\ Ids(cutting.left) \cap Ids(cutting.moved) = {}
        /\ Ids(cutting.moved) \cap repeated = {}
        /\ cutting.base <= edits[m]
        /\ cutting.base = edits[m] =>
             Ids(requests[m]) = Ids(cutting.left) \cup (IF cutting.executed THEN {} ELSE Ids(cutting.moved))

\* What the run appends, and what it has appended: the second attempt, which
\* follows an edit of the archive, may append what is there once.
AppendIsRight ==
  cutting.step \in {"look", "append"} =>
    LET m == Head(todo).month
    IN  /\ \A id \in Ids(cutting.moved) :
             /\ id \in repeated => cutting.attempts = 1 /\ id \in Ids(archive[m])
             /\ ~cutting.executed \/ cutting.attempts = 2 => NamedOnce(archive[m], id)
        /\ cutting.step = "look" => ~cutting.executed
        /\ cutting.step = "append" =>
             /\ cutting.base <= archiveEdits[m]
             /\ cutting.left = IF cutting.executed THEN archive[m] ELSE archive[m] \o cutting.moved
             /\ cutting.executed => Ids(cutting.moved) \subseteq Ids(archive[m])

HasOnePlace(id) ==
  IF id \in posted \ dropped THEN \E place : Places(id) = {place} ELSE Places(id) = {}

ArchiveIsListed(m) ==
  \A id : IF id \in repeated THEN NamedTwice(archive[m], id) ELSE NamedOnce(archive[m], id)
ListsAreRight ==
  /\ \A m \in Months : ListedOnce(requests[m]) /\ ArchiveIsListed(m)
  /\ \A id \in repeated : \E m \in Months : id \in Ids(archive[m])

\* Without an error, no edit is sent again, and only edits of the archive make
\* the run give up.
ErrorsExplain ==
  errors = 0 => /\ ~cutting.executed /\ repeated = {}
                /\ dropped # {} => \E m \in Months : archiveEdits[m] > 0

RequestsInv ==
  /\ RequestsTypeOK /\ CutIsRight /\ PageCutIsRight /\ AppendIsRight /\ ListsAreRight
  /\ ErrorsExplain /\ \A id : HasOnePlace(id)

\* What is in Places, place by place.
LEMMA PlacesAre ==
  ASSUME NEW id
  PROVE  /\ \A m \in Months : <<"page", m>> \in Places(id) <=> id \in Ids(requests[m])
         /\ \A m \in Months : <<"archive", m>> \in Places(id) <=> id \in Ids(archive[m])
         /\ <<"run", 0>> \in Places(id) <=> id \in Held
         /\ \A place \in Places(id) : \/ \E m \in Months : place = <<"page", m>> \/ place = <<"archive", m>>
                                    \/ place = <<"run", 0>>
  BY DEF Places

\* A step after which every page, archive and run holds what it held.
LEMMA SamePlaces ==
  ASSUME \A m \in Months : Ids(requests'[m]) = Ids(requests[m]) /\ Ids(archive'[m]) = Ids(archive[m]),
         Held' = Held, posted' = posted, dropped' = dropped,
         \A id : HasOnePlace(id)
  PROVE  \A id : HasOnePlace(id)'
<1>1. ASSUME NEW id
      PROVE  Places(id)' = Places(id)
  BY DEF Places
<1> QED BY <1>1 DEF HasOnePlace

\* The run gives up what it holds.
LEMMA HandIsEmptied ==
  ASSUME UNCHANGED <<requests, archive, posted>>, Held' = {}, dropped' = dropped \cup Held,
         \A id : HasOnePlace(id)
  PROVE  \A id : HasOnePlace(id)'
<1>1. ASSUME NEW id, id \in Held
      PROVE  HasOnePlace(id)'
  <2>1. <<"run", 0>> \in Places(id)
    BY <1>1, PlacesAre
  <2>2. Places(id) = {<<"run", 0>>}
    BY <2>1 DEF HasOnePlace
  <2>3. \A m \in Months : id \notin Ids(requests[m]) /\ id \notin Ids(archive[m])
    BY <2>2, PlacesAre
  <2>4. Places(id)' = {}
    BY <2>3 DEF Places
  <2> QED BY <1>1, <2>4 DEF HasOnePlace
<1>2. ASSUME NEW id, id \notin Held
      PROVE  HasOnePlace(id)'
  <2>1. Places(id)' = Places(id)
    BY <1>2 DEF Places
  <2> QED BY <1>2, <2>1 DEF HasOnePlace
<1> QED BY <1>1, <1>2

\* The requests cut from a page go to the run.
LEMMA CutMoves ==
  ASSUME NEW m \in Months, NEW moved, Held = {}, Held' = moved,
         UNCHANGED <<archive, posted, dropped>>,
         \A x \in Months : x # m => requests'[x] = requests[x],
         Ids(requests'[m]) \cup moved = Ids(requests[m]), Ids(requests'[m]) \cap moved = {},
         \A id : HasOnePlace(id)
  PROVE  \A id : HasOnePlace(id)'
<1>1. ASSUME NEW id, id \in moved
      PROVE  HasOnePlace(id)'
  <2>1. <<"page", m>> \in Places(id)
    BY <1>1, PlacesAre
  <2>2. Places(id) = {<<"page", m>>} /\ id \in posted \ dropped
    BY <2>1 DEF HasOnePlace
  <2>3. \A x \in Months : id \notin Ids(archive[x]) /\ (x # m => id \notin Ids(requests[x]))
    BY <2>2, PlacesAre
  <2>4. \A x \in Months : id \notin Ids(requests'[x])
    BY <1>1, <2>3
  <2>5. Places(id)' = {<<"run", 0>>}
    BY <1>1, <2>3, <2>4 DEF Places
  <2> QED BY <2>2, <2>5 DEF HasOnePlace
<1>2. ASSUME NEW id, id \notin moved
      PROVE  HasOnePlace(id)'
  <2>1. \A x \in Months : id \in Ids(requests'[x]) <=> id \in Ids(requests[x])
    BY <1>2
  <2>2. Places(id)' = Places(id)
    BY <1>2, <2>1 DEF Places
  <2> QED BY <2>2 DEF HasOnePlace
<1> QED BY <1>1, <1>2

\* The requests the run holds go to an archive.
LEMMA ArchiveMoves ==
  ASSUME NEW m \in Months, Held' = {}, UNCHANGED <<requests, posted, dropped>>,
         \A x \in Months : x # m => archive'[x] = archive[x],
         Ids(archive'[m]) = Ids(archive[m]) \cup Held,
         \A id : HasOnePlace(id)
  PROVE  \A id : HasOnePlace(id)'
<1>1. ASSUME NEW id, id \in Held
      PROVE  HasOnePlace(id)'
  <2>1. <<"run", 0>> \in Places(id)
    BY <1>1, PlacesAre
  <2>2. Places(id) = {<<"run", 0>>} /\ id \in posted \ dropped
    BY <2>1 DEF HasOnePlace
  <2>3. \A x \in Months : id \notin Ids(requests[x]) /\ id \notin Ids(archive[x])
    BY <2>2, PlacesAre
  <2>4. \A x \in Months : id \in Ids(archive'[x]) <=> x = m
    BY <1>1, <2>3
  <2>5. Places(id)' = {<<"archive", m>>}
    BY <2>3, <2>4 DEF Places
  <2> QED BY <2>2, <2>5 DEF HasOnePlace
<1>2. ASSUME NEW id, id \notin Held
      PROVE  HasOnePlace(id)'
  <2>1. \A x \in Months : id \in Ids(archive'[x]) <=> id \in Ids(archive[x])
    BY <1>2
  <2>2. Places(id)' = Places(id)
    BY <1>2, <2>1 DEF Places
  <2> QED BY <2>2 DEF HasOnePlace
<1> QED BY <1>1, <1>2

\* A part of a list of requests.
LEMMA PartIsRight ==
  ASSUME NEW s \in Seq(Reqs), ListedOnce(s), NEW A, NEW a, a = Selected(s, A)
  PROVE  /\ a \in Seq(Reqs) /\ ListedOnce(a) /\ ToSet(a) = ToSet(s) \cap A
         /\ \A r \in ToSet(s) : r.id \in Ids(a) <=> r \in A
<1>1. ASSUME NEW i \in DOMAIN s, NEW j \in DOMAIN s, s[i].id = s[j].id
      PROVE  i = j
  BY <1>1 DEF ListedOnce
<1>2. IsInjective(s)
  BY <1>1 DEF IsInjective
<1>3. a \in Seq(Reqs) /\ ToSet(a) = ToSet(s) \cap A /\ IsInjective(a)
  BY <1>2, SelectedProperties
<1>4. \A i \in DOMAIN a : a[i] \in ToSet(s) /\ a[i] \in A
  BY <1>3 DEF ToSet
<1>5. \A x, y \in ToSet(s) : x.id = y.id => x = y
  BY <1>1 DEF ToSet
<1>6. ListedOnce(a)
  BY <1>3, <1>4, <1>5 DEF ListedOnce, IsInjective
<1>7. ASSUME NEW r \in ToSet(s)
      PROVE  r.id \in Ids(a) <=> r \in A
  <2>1. ASSUME r \in A  PROVE r.id \in Ids(a)
    BY <1>3, <2>1 DEF Ids, ToSet
  <2>2. ASSUME r.id \in Ids(a)  PROVE r \in A
    <3>1. PICK i \in DOMAIN a : r.id = a[i].id
      BY <2>2 DEF Ids
    <3> QED BY <1>4, <1>5, <3>1
  <2> QED BY <2>1, <2>2
<1> QED BY <1>3, <1>6, <1>7

\* What splitRequests returns: every request is in one of the two lists.
SplitIsRight(left, moved, s) ==
  /\ left \in Seq(Reqs) /\ moved \in Seq(Reqs) /\ ListedOnce(left) /\ ListedOnce(moved)
  /\ Ids(left) \cap Ids(moved) = {} /\ Ids(left) \cup Ids(moved) = Ids(s)

LEMMA SplitRequests ==
  ASSUME NEW m, requests[m] \in Seq(Reqs), ListedOnce(requests[m]), NEW all
  PROVE  SplitIsRight(Staying(m, all), Leaving(m, all), requests[m])
<1>1. PICK s : s = requests[m] /\ s \in Seq(Reqs) /\ ListedOnce(s)
  OBVIOUS
<1>2. PICK A, B : A = {r \in ToSet(s) : ~Leaves(r, all)} /\ B = {r \in ToSet(s) : Leaves(r, all)}
  OBVIOUS
<1>3. A \cup B = ToSet(s) /\ A \cap B = {}
  BY <1>2
<1>4. PICK a, b : a = Selected(s, A) /\ b = Selected(s, B)
  OBVIOUS
<1>5. a = Staying(m, all) /\ b = Leaving(m, all)
  BY <1>1, <1>2, <1>4 DEF Staying, Leaving
<1>6. /\ a \in Seq(Reqs) /\ ListedOnce(a) /\ ToSet(a) = ToSet(s) \cap A
      /\ \A r \in ToSet(s) : r.id \in Ids(a) <=> r \in A
  BY <1>1, <1>4, PartIsRight
<1>7. /\ b \in Seq(Reqs) /\ ListedOnce(b) /\ ToSet(b) = ToSet(s) \cap B
      /\ \A r \in ToSet(s) : r.id \in Ids(b) <=> r \in B
  BY <1>1, <1>4, PartIsRight
<1>8. \A x : x \in Ids(s) <=> \E r \in ToSet(s) : x = r.id
  BY DEF Ids, ToSet
<1>9. \A x : x \in Ids(a) <=> \E r \in ToSet(a) : x = r.id
  BY DEF Ids, ToSet
<1>10. \A x : x \in Ids(b) <=> \E r \in ToSet(b) : x = r.id
  BY DEF Ids, ToSet
<1>11. Ids(a) \cap Ids(b) = {}
  BY <1>3, <1>6, <1>7, <1>9
<1>12. Ids(a) \cup Ids(b) = Ids(s)
  BY <1>3, <1>6, <1>7, <1>8, <1>9, <1>10
<1> QED BY <1>1, <1>5, <1>6, <1>7, <1>11, <1>12 DEF SplitIsRight

\* The requests of a month as the actions change them.
LEMMA RequestsOf ==
  ASSUME RequestsTypeOK, NEW m \in Months, NEW new \in Seq(Reqs), requests' = [requests EXCEPT ![m] = new]
  PROVE  /\ requests' \in [Months -> Seq(Reqs)] /\ requests'[m] = new
         /\ \A x \in Months : x # m => requests'[x] = requests[x]
  BY DEF RequestsTypeOK

\* An archive with the requests of a run added.
LEMMA AppendedTo ==
  ASSUME NEW s \in Seq(Reqs), NEW t \in Seq(Reqs), ListedOnce(t), NEW c, c = s \o t
  PROVE  /\ c \in Seq(Reqs) /\ Ids(c) = Ids(s) \cup Ids(t)
         /\ \A id : id \notin Ids(t) => /\ NamedOnce(s, id) => NamedOnce(c, id)
                                        /\ NamedTwice(s, id) => NamedTwice(c, id)
         /\ \A id : id \notin Ids(s) => NamedOnce(c, id)
         /\ \A id : NamedOnce(s, id) => NamedTwice(c, id)
<1>1. PICK m \in Nat, n \in Nat : m = Len(s) /\ n = Len(t) /\ DOMAIN s = 1 .. m /\ DOMAIN t = 1 .. n
  OBVIOUS
<1>2. /\ c \in Seq(Reqs) /\ DOMAIN c = 1 .. m + n
      /\ \A i \in 1 .. m + n : c[i] = IF i <= m THEN s[i] ELSE t[i - m]
  BY <1>1
<1>3. \A i \in DOMAIN c : \/ i \in DOMAIN s /\ c[i] = s[i] /\ i <= m
                          \/ i - m \in DOMAIN t /\ c[i] = t[i - m] /\ i > m
  BY <1>1, <1>2
<1>4. /\ \A i \in DOMAIN s : i \in DOMAIN c /\ c[i] = s[i]
      /\ \A j \in DOMAIN t : m + j \in DOMAIN c /\ c[m + j] = t[j]
  <2>1. \A j \in DOMAIN t : m + j \in 1 .. m + n /\ ~(m + j <= m) /\ m + j - m = j
    BY <1>1
  <2>2. \A i \in DOMAIN s : i \in 1 .. m + n /\ i <= m
    BY <1>1
  <2>3. ASSUME NEW i \in DOMAIN s  PROVE i \in DOMAIN c /\ c[i] = s[i]
    BY <1>2, <2>2
  <2>4. ASSUME NEW j \in DOMAIN t  PROVE m + j \in DOMAIN c /\ c[m + j] = t[j]
    <3>1. PICK k : k = m + j /\ k \in 1 .. m + n /\ ~(k <= m) /\ k - m = j
      BY <2>1
    <3> QED BY <1>2, <3>1
  <2> QED BY <2>3, <2>4
<1>5. Ids(c) = Ids(s) \cup Ids(t)
  <2>1. Ids(c) \subseteq Ids(s) \cup Ids(t)
    BY <1>3 DEF Ids
  <2>2. Ids(s) \subseteq Ids(c) /\ Ids(t) \subseteq Ids(c)
    BY <1>4 DEF Ids
  <2> QED BY <2>1, <2>2
<1>6. DOMAIN c \subseteq Int
  BY <1>2
<1>7. ASSUME NEW id, id \notin Ids(t), NEW i \in DOMAIN c, c[i].id = id
      PROVE  i \in DOMAIN s /\ s[i].id = id
  BY <1>3, <1>7 DEF Ids
<1>8. ASSUME NEW id, id \notin Ids(s), NEW i \in DOMAIN c, c[i].id = id
      PROVE  i - m \in DOMAIN t /\ t[i - m].id = id
  BY <1>3, <1>8 DEF Ids
<1>9. ASSUME NEW id, id \notin Ids(t), NamedOnce(s, id)  PROVE NamedOnce(c, id)
  BY <1>7, <1>9 DEF NamedOnce
<1>10. ASSUME NEW id, id \notin Ids(t), NamedTwice(s, id)  PROVE NamedTwice(c, id)
  BY <1>7, <1>10 DEF NamedTwice
<1>11. ASSUME NEW i \in DOMAIN c, NEW j \in DOMAIN c, c[i].id = c[j].id, i > m, j > m
       PROVE  i = j
  <2>1. i - m \in DOMAIN t /\ j - m \in DOMAIN t /\ t[i - m].id = t[j - m].id
    BY <1>1, <1>3, <1>11
  <2>2. i - m = j - m
    BY <2>1 DEF ListedOnce
  <2> QED BY <1>6, <2>2
<1>12. ASSUME NEW id, id \notin Ids(s)  PROVE NamedOnce(c, id)
  <2>1. ASSUME NEW i \in DOMAIN c, NEW j \in DOMAIN c, c[i].id = id, c[j].id = id
        PROVE  i = j
    <3>1. i > m /\ j > m
      BY <1>3, <1>12, <2>1 DEF Ids
    <3> QED BY <1>11, <2>1, <3>1
  <2> QED BY <2>1 DEF NamedOnce
<1>13. ASSUME NEW id, NamedOnce(s, id)  PROVE NamedTwice(c, id)
  <2>1. ASSUME NEW i \in DOMAIN c, NEW j \in DOMAIN c, NEW k \in DOMAIN c, i < j, j < k,
               c[i].id = id, c[j].id = id, c[k].id = id
        PROVE  FALSE
    <3>1. CASE j > m
      <4>1. k > m
        BY <1>1, <1>6, <2>1, <3>1
      <4>2. j = k
        BY <1>11, <2>1, <3>1, <4>1
      <4> QED BY <1>6, <2>1, <4>2
    <3>2. CASE ~(j > m)
      <4>1. i \in DOMAIN s /\ j \in DOMAIN s /\ s[i].id = id /\ s[j].id = id
        BY <1>1, <1>3, <1>6, <2>1, <3>2
      <4>2. i = j
        BY <1>13, <4>1 DEF NamedOnce
      <4> QED BY <1>6, <2>1, <4>2
    <3> QED BY <3>1, <3>2
  <2> QED BY <2>1 DEF NamedTwice
<1> QED BY <1>2, <1>5, <1>9, <1>10, <1>12, <1>13

\* A run at the start of a call holds nothing.
LEMMA ReadingHoldsNothing ==
  ASSUME cutting'.step = "read"
  PROVE  CutIsRight' /\ PageCutIsRight' /\ AppendIsRight' /\ Held' = {}
  BY DEF CutIsRight, PageCutIsRight, AppendIsRight, Held

LEMMA SameHand ==
  ASSUME UNCHANGED <<cutting, repeated>>
  PROVE  Held' = Held
  BY DEF Held

\* Edits of users leave what a run has read in the past, and explain more.
LEMMA AppendGetsOlder ==
  ASSUME RequestsTypeOK, CutIsRight, AppendIsRight, UNCHANGED <<todo, cutting, repeated, archive>>,
         \A m \in Months : archiveEdits'[m] \in Nat /\ archiveEdits'[m] >= archiveEdits[m]
  PROVE  AppendIsRight'
<1> SUFFICES ASSUME cutting.step \in {"look", "append"}  PROVE AppendIsRight'
  BY DEF AppendIsRight
<1>1. PICK m \in Months : m = Head(todo).month
  BY DEF CutIsRight
<1>2. cutting.base \in Nat /\ archiveEdits[m] \in Nat
  BY DEF RequestsTypeOK, Cuttings
<1>3. archiveEdits'[m] \in Nat /\ archiveEdits'[m] >= archiveEdits[m]
  OBVIOUS
<1> QED BY <1>1, <1>2, <1>3 DEF AppendIsRight

LEMMA ErrorsStillExplain ==
  ASSUME RequestsTypeOK, ErrorsExplain, UNCHANGED <<errors, dropped, repeated>>,
         cutting'.executed => cutting.executed,
         \A m \in Months : archiveEdits'[m] \in Nat /\ archiveEdits'[m] >= archiveEdits[m]
  PROVE  ErrorsExplain'
<1>1. \A m \in Months : archiveEdits[m] \in Nat
  BY DEF RequestsTypeOK
<1>2. \A m \in Months : archiveEdits[m] > 0 => archiveEdits'[m] > 0
  BY <1>1
<1> QED BY <1>2 DEF ErrorsExplain

\* An edit of a user leaves a run that is cutting the page with an old one.
LEMMA EditedMeanwhile ==
  ASSUME RequestsTypeOK, CutIsRight, PageCutIsRight, NEW m \in Months, edits' = [edits EXCEPT ![m] = @ + 1],
         UNCHANGED <<todo, cutting, repeated>>,
         \A x \in Months : x # m => requests'[x] = requests[x]
  PROVE  CutIsRight' /\ PageCutIsRight'
<1>1. CutIsRight'
  BY DEF CutIsRight
<1>2. ASSUME cutting.step = "cut"
      PROVE  PageCutIsRight'
  <2>1. PICK x \in Months : x = Head(todo).month
    BY <1>2 DEF CutIsRight
  <2>2. edits[x] \in Nat /\ cutting.base \in Nat /\ cutting.base <= edits[x]
    BY <1>2, <2>1 DEF PageCutIsRight, RequestsTypeOK, Cuttings
  <2>3. edits'[x] = IF x = m THEN edits[x] + 1 ELSE edits[x]
    BY <2>1 DEF RequestsTypeOK
  <2>4. cutting.base <= edits'[x] /\ (cutting.base = edits'[x] => x # m /\ cutting.base = edits[x])
    BY <2>2, <2>3
  <2> QED BY <1>2, <2>1, <2>4 DEF PageCutIsRight
<1>3. ASSUME cutting.step # "cut"
      PROVE  PageCutIsRight'
  BY <1>3 DEF PageCutIsRight
<1> QED BY <1>1, <1>2, <1>3

\* What every edit of the page by a user keeps.
LEMMA EditRequestsKeeps ==
  ASSUME RequestsInv, NEW m \in Months, NEW new \in Seq(Reqs), EditRequests(m, new), ListedOnce(new),
         posted \subseteq posted', posted' \subseteq Requests
  PROVE  /\ RequestsTypeOK' /\ CutIsRight' /\ PageCutIsRight' /\ AppendIsRight' /\ ListsAreRight'
         /\ ErrorsExplain' /\ Held' = Held
         /\ requests'[m] = new /\ \A x \in Months : x # m => requests'[x] = requests[x]
         /\ UNCHANGED <<archive, dropped>>
<1>1. /\ requests' = [requests EXCEPT ![m] = new] /\ edits' = [edits EXCEPT ![m] = @ + 1]
      /\ UNCHANGED <<archive, archiveEdits, month, todo, cutting, errors, dropped, repeated>>
  BY DEF EditRequests, EditByUser
<1>2. /\ requests' \in [Months -> Seq(Reqs)] /\ requests'[m] = new
      /\ \A x \in Months : x # m => requests'[x] = requests[x]
  BY <1>1, RequestsOf DEF RequestsInv
<1>3. edits' \in [Months -> Nat]
  BY <1>1 DEF RequestsInv, RequestsTypeOK
<1>4. RequestsTypeOK'
  BY <1>1, <1>2, <1>3 DEF RequestsInv, RequestsTypeOK
<1>5. CutIsRight' /\ PageCutIsRight'
  BY <1>1, <1>2, EditedMeanwhile DEF RequestsInv
<1>6. \A x \in Months : archiveEdits'[x] \in Nat /\ archiveEdits'[x] >= archiveEdits[x]
  BY <1>1 DEF RequestsInv, RequestsTypeOK
<1>7. AppendIsRight' /\ ErrorsExplain'
  BY <1>1, <1>6, AppendGetsOlder, ErrorsStillExplain DEF RequestsInv
<1>8. ListsAreRight'
  BY <1>1, <1>2 DEF RequestsInv, ListsAreRight, ArchiveIsListed
<1> QED BY <1>1, <1>2, <1>4, <1>5, <1>7, <1>8, SameHand

LEMMA PostRequestKeeps ==
  ASSUME RequestsInv, NEW m \in Months, PostRequest(m)
  PROVE  RequestsInv'
<1> DEFINE id == CHOOSE q \in Requests : q \notin posted
<1>1. PICK new : /\ new = Append(requests[m], [id |-> id, done |-> FALSE])
                 /\ EditRequests(m, new) /\ posted # Requests /\ posted' = posted \cup {id}
  BY DEF PostRequest
<1>2. id \in Requests /\ id \notin posted /\ posted \subseteq Requests
  <2>1. posted \subseteq Requests
    BY DEF RequestsInv, RequestsTypeOK
  <2>2. \E q \in Requests : q \notin posted
    BY <1>1, <2>1
  <2> QED BY <2>1, <2>2, Zenon
<1> HIDE DEF id
<1>3. PICK old \in Seq(Reqs), r \in Reqs : old = requests[m] /\ r = [id |-> id, done |-> FALSE] /\ r.id = id
  <2>1. requests[m] \in Seq(Reqs)
    BY DEF RequestsInv, RequestsTypeOK
  <2>2. [id |-> id, done |-> FALSE] \in Reqs
    BY <1>2 DEF Reqs
  <2> QED BY <2>1, <2>2
<1>4. /\ new = Append(old, r) /\ new \in Seq(Reqs) /\ DOMAIN old = 1 .. Len(old) /\ Len(old) \in Nat
      /\ DOMAIN new = 1 .. Len(old) + 1 /\ new[Len(old) + 1] = r
      /\ \A i \in 1 .. Len(old) : new[i] = old[i]
  BY <1>1, <1>3
<1>5. Ids(new) = Ids(old) \cup {id}
  BY <1>3, <1>4 DEF Ids
<1>6. Places(id) = {}
  BY <1>2 DEF RequestsInv, HasOnePlace
<1>7. id \notin Ids(old)
  BY <1>3, <1>6, PlacesAre
<1>8. ListedOnce(new)
  <2>1. ListedOnce(old)
    BY <1>3 DEF RequestsInv, ListsAreRight
  <2>2. \A i \in 1 .. Len(old) : old[i].id # id
    BY <1>4, <1>7 DEF Ids
  <2> QED BY <1>3, <1>4, <2>1, <2>2 DEF ListedOnce
<1>9. /\ RequestsTypeOK' /\ CutIsRight' /\ PageCutIsRight' /\ AppendIsRight' /\ ListsAreRight'
      /\ ErrorsExplain' /\ Held' = Held
      /\ requests'[m] = new /\ \A x \in Months : x # m => requests'[x] = requests[x]
      /\ UNCHANGED <<archive, dropped>>
  <2>1. posted \subseteq posted' /\ posted' \subseteq Requests
    BY <1>1, <1>2
  <2> QED BY <1>1, <1>4, <1>8, <2>1, EditRequestsKeeps
<1>10. ASSUME NEW x
       PROVE  HasOnePlace(x)'
  <2>1. CASE x = id
    <3>1. \A y \in Months : y # m => x \notin Ids(requests'[y])
      BY <1>6, <1>9, <2>1, PlacesAre
    <3>2. x \in Ids(requests'[m])
      BY <1>5, <1>9, <2>1
    <3>3. (\A y \in Months : x \notin Ids(archive[y])) /\ x \notin Held
      BY <1>6, <2>1, PlacesAre
    <3>4. Places(x)' = {<<"page", m>>}
      BY <1>9, <3>1, <3>2, <3>3 DEF Places
    <3>5. x \in posted' \ dropped'
      BY <1>1, <1>2, <1>9, <2>1 DEF RequestsInv, RequestsTypeOK
    <3> QED BY <3>4, <3>5 DEF HasOnePlace
  <2>2. CASE x # id
    <3>1. \A y \in Months : x \in Ids(requests'[y]) <=> x \in Ids(requests[y])
      BY <1>3, <1>5, <1>9, <2>2
    <3>2. Places(x)' = Places(x)
      BY <1>9, <3>1 DEF Places
    <3> QED BY <1>1, <1>9, <2>2, <3>2 DEF RequestsInv, HasOnePlace
  <2> QED BY <2>1, <2>2
<1> QED BY <1>9, <1>10 DEF RequestsInv

LEMMA MarkRequestKeeps ==
  ASSUME RequestsInv, NEW m \in Months, NEW i \in DOMAIN requests[m], MarkRequest(m, i)
  PROVE  RequestsInv'
<1>1. PICK old \in Seq(Reqs) : old = requests[m]
  BY DEF RequestsInv, RequestsTypeOK
<1>2. PICK new : new = [old EXCEPT ![i].done = ~@] /\ EditRequests(m, new) /\ posted' = posted
  BY <1>1 DEF MarkRequest
<1>3. /\ new \in Seq(Reqs) /\ DOMAIN new = DOMAIN old /\ \A j \in DOMAIN old : new[j].id = old[j].id
  <2>1. PICK r : r = [old[i] EXCEPT !.done = ~@]
    OBVIOUS
  <2>2. r \in Reqs /\ r.id = old[i].id
    <3>1. PICK q \in Reqs : q = old[i]
      BY <1>1
    <3>2. PICK b \in BOOLEAN : b = ~q.done
      OBVIOUS
    <3>3. r = [q EXCEPT !.done = b]
      BY <2>1, <3>1, <3>2
    <3> QED BY <3>1, <3>3 DEF Reqs
  <2>3. new = [old EXCEPT ![i] = r]
    BY <1>2, <2>1
  <2> QED BY <1>1, <2>2, <2>3
<1>4. Ids(new) = Ids(old)
  BY <1>3 DEF Ids
<1>5. ListedOnce(new)
  BY <1>1, <1>3 DEF RequestsInv, ListsAreRight, ListedOnce
<1>6. /\ RequestsTypeOK' /\ CutIsRight' /\ PageCutIsRight' /\ AppendIsRight' /\ ListsAreRight'
      /\ ErrorsExplain' /\ Held' = Held
      /\ requests'[m] = new /\ \A x \in Months : x # m => requests'[x] = requests[x]
      /\ UNCHANGED <<archive, dropped>>
  <2>1. posted \subseteq posted' /\ posted' \subseteq Requests
    BY <1>2 DEF RequestsInv, RequestsTypeOK
  <2> QED BY <1>2, <1>3, <1>5, <2>1, EditRequestsKeeps
<1>7. \A y \in Months : Ids(requests'[y]) = Ids(requests[y]) /\ Ids(archive'[y]) = Ids(archive[y])
  BY <1>1, <1>4, <1>6
<1> QED BY <1>2, <1>6, <1>7, SamePlaces DEF RequestsInv

LEMMA EditArchiveKeeps ==
  ASSUME RequestsInv, NEW m \in Months, EditArchive(m)
  PROVE  RequestsInv'
<1>1. /\ archiveEdits' = [archiveEdits EXCEPT ![m] = @ + 1]
      /\ UNCHANGED <<requests, edits, archive, month, todo, cutting, errors, posted, dropped, repeated>>
  BY DEF EditArchive, EditByUser
<1>2. /\ archiveEdits' \in [Months -> Nat]
      /\ \A x \in Months : archiveEdits'[x] \in Nat /\ archiveEdits'[x] >= archiveEdits[x]
  BY <1>1 DEF RequestsInv, RequestsTypeOK
<1>3. RequestsTypeOK'
  BY <1>1, <1>2 DEF RequestsInv, RequestsTypeOK
<1>4. AppendIsRight' /\ ErrorsExplain'
  BY <1>1, <1>2, AppendGetsOlder, ErrorsStillExplain DEF RequestsInv
<1>5. CutIsRight' /\ PageCutIsRight' /\ ListsAreRight'
  BY <1>1 DEF RequestsInv, CutIsRight, PageCutIsRight, ListsAreRight, ArchiveIsListed
<1>6. \A x : HasOnePlace(x)'
  BY <1>1, SameHand, SamePlaces DEF RequestsInv
<1> QED BY <1>3, <1>4, <1>5, <1>6 DEF RequestsInv

\* A step that changes neither the pages nor the call in progress.
LEMMA NothingMoves ==
  ASSUME RequestsInv, month' \in Int,
         UNCHANGED <<requests, edits, archive, archiveEdits, todo, cutting, errors, posted, dropped, repeated>>
  PROVE  RequestsInv'
<1>1. RequestsTypeOK'
  BY DEF RequestsInv, RequestsTypeOK
<1>2. CutIsRight' /\ PageCutIsRight' /\ AppendIsRight' /\ ListsAreRight' /\ ErrorsExplain'
  BY DEF RequestsInv, CutIsRight, PageCutIsRight, AppendIsRight, ListsAreRight, ArchiveIsListed, ErrorsExplain
<1>3. \A x : HasOnePlace(x)'
  BY SameHand, SamePlaces DEF RequestsInv
<1> QED BY <1>1, <1>2, <1>3 DEF RequestsInv

LEMMA ClockTicksKeeps ==
  ASSUME RequestsInv, ClockTicks
  PROVE  RequestsInv'
<1>1. /\ UNCHANGED <<requests, edits, archive, archiveEdits, todo, cutting, errors, posted, dropped, repeated>>
      /\ month' = IF firstDay THEN month ELSE month + 1
  BY DEF ClockTicks, pageVars, historyVars
<1>2. month' \in Int
  BY <1>1 DEF RequestsInv, RequestsTypeOK
<1> QED BY <1>1, <1>2, NothingMoves

\* The work of a run is about months that have a page.
LEMMA WorkIsKnown ==
  ASSUME NEW m \in Int, NEW first
  PROVE  Work(m, first) \in Seq(Items) /\ \A i \in DOMAIN Work(m, first) : Work(m, first)[i].month \in Months
<1> DEFINE Item(i, all, redirect) == [month |-> i, all |-> all, redirect |-> redirect, init |-> FALSE]
           Past(i) == Item(i, FALSE, IF first /\ i = m - 1 THEN "yes" ELSE "if_changed")
           old == IF first THEN <<Item(m - Watched - 1, TRUE, "if_changed")>> ELSE <<>>
           current == IF first THEN <<[Item(m, FALSE, "no") EXCEPT !.init = TRUE]>>
                      ELSE <<Item(m, FALSE, "no")>>
           past == [k \in 1 .. Watched |-> Past(m - Watched - 1 + k)]
           every == old \o past \o current
<1>1. Watched \in Nat
  BY WatchedAssumption
<1>2. ASSUME NEW i \in Int, NEW all \in BOOLEAN, NEW redirect \in {"yes", "if_changed", "no"}
      PROVE  Item(i, all, redirect) \in Items /\ [Item(i, all, redirect) EXCEPT !.init = TRUE] \in Items
  BY DEF Items
<1> HIDE DEF Item
<1>3. old \in Seq(Items)
  <2>1. PICK a \in Items : a = Item(m - Watched - 1, TRUE, "if_changed")
    <3>1. m - Watched - 1 \in Int
      BY <1>1
    <3>2. Item(m - Watched - 1, TRUE, "if_changed") \in Items
      BY <1>2, <3>1
    <3> QED BY <3>2
  <2>2. <<a>> \in Seq(Items) /\ <<>> \in Seq(Items)
    OBVIOUS
  <2> QED BY <2>1, <2>2
<1>4. current \in Seq(Items)
  <2>1. PICK a \in Items, b \in Items :
          a = Item(m, FALSE, "no") /\ b = [Item(m, FALSE, "no") EXCEPT !.init = TRUE]
    BY <1>2
  <2>2. <<a>> \in Seq(Items) /\ <<b>> \in Seq(Items)
    OBVIOUS
  <2> QED BY <2>1, <2>2
<1>5. past \in Seq(Items)
  <2>1. \A i \in Int : Past(i) \in Items
    BY <1>2
  <2> HIDE DEF Past
  <2>2. \A k \in 1 .. Watched : Past(m - Watched - 1 + k) \in Items
    BY <1>1, <2>1
  <2> QED BY <1>1, <2>2
<1>6. Work(m, first) = Selected(every, {w \in ToSet(every) : w.month \in Months})
  BY DEF Work, Item
<1> HIDE DEF old, current, past
<1>7. every \in Seq(Items)
  BY <1>3, <1>4, <1>5
<1> HIDE DEF every
<1>8. PICK work : /\ work = Work(m, first) /\ work \in Seq(Items)
                  /\ ToSet(work) = ToSet(every) \cap {w \in ToSet(every) : w.month \in Months}
  BY <1>6, <1>7, SelectedProperties
<1>9. \A i \in DOMAIN work : work[i] \in ToSet(work)
  BY DEF ToSet
<1> QED BY <1>8, <1>9

\* The calls of editPage as the actions write them.
LEMMA NotCuttingFields ==
  /\ NotCutting \in Cuttings /\ NotCutting.step = "read" /\ ~NotCutting.executed /\ NotCutting.attempts = 2
<1>1. PICK lists, empty : lists = Seq(Reqs) /\ empty = <<>> /\ empty \in lists
  <2>1. <<>> \in Seq(Reqs)
    OBVIOUS
  <2> QED BY <2>1
<1>2. NotCutting = [step |-> "read", attempts |-> 2, base |-> 0, left |-> empty, moved |-> empty,
                    redirect |-> FALSE, executed |-> FALSE]
  BY <1>1 DEF NotCutting, EditAttempts
<1> QED BY <1>1, <1>2 DEF Cuttings, CallSteps

\* A call that starts again reads the page.
LEMMA StartedAgain ==
  ASSUME NEW d, NEW n \in {1, 2}, d = [NotCutting EXCEPT !.attempts = n]
  PROVE  d \in Cuttings /\ d.step = "read" /\ ~d.executed
<1>1. PICK lists, empty : lists = Seq(Reqs) /\ empty = <<>> /\ empty \in lists
  <2>1. <<>> \in Seq(Reqs)
    OBVIOUS
  <2> QED BY <2>1
<1>2. NotCutting = [step |-> "read", attempts |-> 2, base |-> 0, left |-> empty, moved |-> empty,
                    redirect |-> FALSE, executed |-> FALSE]
  BY <1>1 DEF NotCutting, EditAttempts
<1>3. Cuttings = [step : {"read", "cut", "look", "append"}, attempts : {1, 2}, base : Nat, left : lists, moved : lists,
                  redirect : BOOLEAN, executed : BOOLEAN]
  BY <1>1 DEF Cuttings, CallSteps
<1> HIDE DEF Cuttings
<1> QED BY <1>1, <1>2, <1>3

\* An edit is sent again as it was.
LEMMA SentAgain ==
  ASSUME NEW d, NEW c \in Cuttings, d = [c EXCEPT !.executed = TRUE]
  PROVE  /\ d \in Cuttings /\ d.executed /\ d.step = c.step /\ d.attempts = c.attempts
         /\ d.base = c.base /\ d.left = c.left /\ d.moved = c.moved
<1>1. PICK lists, empty : lists = Seq(Reqs) /\ empty = <<>> /\ empty \in lists
  <2>1. <<>> \in Seq(Reqs)
    OBVIOUS
  <2> QED BY <2>1
<1>2. NotCutting = [step |-> "read", attempts |-> 2, base |-> 0, left |-> empty, moved |-> empty,
                    redirect |-> FALSE, executed |-> FALSE]
  BY <1>1 DEF NotCutting, EditAttempts
<1>3. Cuttings = [step : {"read", "cut", "look", "append"}, attempts : {1, 2}, base : Nat, left : lists, moved : lists,
                  redirect : BOOLEAN, executed : BOOLEAN]
  BY <1>1 DEF Cuttings, CallSteps
<1> HIDE DEF Cuttings
<1> QED BY <1>1, <1>2, <1>3

\* The next call holds what the page lost.
LEMMA LooksAtArchive ==
  ASSUME NEW d, NEW c \in Cuttings, NEW n \in {1, 2},
         d = [NotCutting EXCEPT !.step = "look", !.attempts = n, !.moved = c.moved]
  PROVE  d \in Cuttings /\ d.step = "look" /\ ~d.executed /\ d.attempts = n /\ d.moved = c.moved
<1>1. PICK lists, empty : lists = Seq(Reqs) /\ empty = <<>> /\ empty \in lists
  <2>1. <<>> \in Seq(Reqs)
    OBVIOUS
  <2> QED BY <2>1
<1>2. NotCutting = [step |-> "read", attempts |-> 2, base |-> 0, left |-> empty, moved |-> empty,
                    redirect |-> FALSE, executed |-> FALSE]
  BY <1>1 DEF NotCutting, EditAttempts
<1>3. Cuttings = [step : {"read", "cut", "look", "append"}, attempts : {1, 2}, base : Nat, left : lists, moved : lists,
                  redirect : BOOLEAN, executed : BOOLEAN]
  BY <1>1 DEF Cuttings, CallSteps
<1> HIDE DEF Cuttings
<1>4. c.moved \in lists
  BY <1>1, <1>3
<1> QED BY <1>1, <1>2, <1>3, <1>4

LEMMA NextMonthIsRight ==
  ASSUME RequestsTypeOK, todo # <<>>, NextMonth
  PROVE  /\ todo' \in Seq(Items) /\ \A i \in DOMAIN todo' : todo'[i].month \in Months
         /\ cutting' \in Cuttings /\ cutting'.step = "read" /\ ~cutting'.executed
<1>1. PICK t \in Seq(Items) : t = todo /\ t # <<>> /\ \A i \in DOMAIN t : t[i].month \in Months
  BY DEF RequestsTypeOK
<1>2. /\ Tail(t) \in Seq(Items) /\ Len(Tail(t)) = Len(t) - 1
      /\ \A i \in 1 .. Len(Tail(t)) : Tail(t)[i] = t[i + 1]
  BY <1>1, HeadTailProperties
<1>3. PICK u \in Seq(Items) : u = Tail(t)
  BY <1>2
<1>4. \A i \in DOMAIN u : i + 1 \in DOMAIN t /\ u[i] = t[i + 1]
  BY <1>2, <1>3
<1> QED BY <1>1, <1>3, <1>4, NotCuttingFields DEF NextMonth

LEMMA FirstMonthIsKnown ==
  ASSUME RequestsTypeOK, todo # <<>>
  PROVE  Head(todo).month \in Months
<1>1. PICK t \in Seq(Items) : t = todo /\ t # <<>> /\ \A i \in DOMAIN t : t[i].month \in Months
  BY DEF RequestsTypeOK
<1>2. Head(t) = t[1] /\ 1 \in DOMAIN t
  BY <1>1
<1> QED BY <1>1, <1>2

\* A step of a run between two months, or two calls, without any request in
\* hand.
LEMMA EmptyHandKeeps ==
  ASSUME RequestsInv, Held = {}, cutting' \in Cuttings, cutting'.step = "read", ~cutting'.executed,
         todo' \in Seq(Items), \A i \in DOMAIN todo' : todo'[i].month \in Months,
         UNCHANGED <<requests, edits, archive, archiveEdits, month, errors, posted, dropped, repeated>>
  PROVE  RequestsInv'
<1>1. RequestsTypeOK'
  BY DEF RequestsInv, RequestsTypeOK
<1>2. CutIsRight' /\ PageCutIsRight' /\ AppendIsRight' /\ Held' = {}
  BY ReadingHoldsNothing
<1>3. ListsAreRight' /\ ErrorsExplain'
  BY DEF RequestsInv, ListsAreRight, ArchiveIsListed, ErrorsExplain
<1>4. \A x : HasOnePlace(x)'
  BY <1>2, SamePlaces DEF RequestsInv
<1> QED BY <1>1, <1>2, <1>3, <1>4 DEF RequestsInv

LEMMA StartRequestsRunKeeps ==
  ASSUME RequestsInv, StartRequestsRun
  PROVE  RequestsInv'
<1>1. /\ todo = <<>> /\ todo' = Work(month, firstDay) /\ cutting' = NotCutting
      /\ UNCHANGED <<requests, edits, archive, archiveEdits, month, errors, posted, dropped, repeated>>
  BY DEF StartRequestsRun, RequestsUsersWait, NothingFails
<1>2. Held = {}
  BY <1>1 DEF RequestsInv, CutIsRight, Held
<1>3. /\ todo' \in Seq(Items) /\ \A i \in DOMAIN todo' : todo'[i].month \in Months
  BY <1>1, WorkIsKnown DEF RequestsInv, RequestsTypeOK
<1> QED BY <1>1, <1>2, <1>3, NotCuttingFields, EmptyHandKeeps

LEMMA InitPageKeeps ==
  ASSUME RequestsInv, InitPage
  PROVE  RequestsInv'
<1>1. /\ todo # <<>> /\ Head(todo).init /\ NextMonth
      /\ UNCHANGED <<requests, edits, archive, archiveEdits, month, errors, posted, dropped, repeated>>
  BY DEF InitPage, RequestsUsersWait, NothingFails
<1>2. Held = {}
  BY <1>1 DEF RequestsInv, CutIsRight, Held
<1>3. /\ todo' \in Seq(Items) /\ \A i \in DOMAIN todo' : todo'[i].month \in Months
      /\ cutting' \in Cuttings /\ cutting'.step = "read" /\ ~cutting'.executed
  BY <1>1, NextMonthIsRight DEF RequestsInv
<1> QED BY <1>1, <1>2, <1>3, EmptyHandKeeps

LEMMA ReadRequestsKeeps ==
  ASSUME RequestsInv, ReadRequests
  PROVE  RequestsInv'
<1>1. PICK w : w = Head(todo)
  OBVIOUS
<1>2. PICK left, moved, redirect : /\ left = Staying(w.month, w.all) /\ moved = Leaving(w.month, w.all)
                                   /\ redirect = BecomesRedirect(w.month, w.all, w.redirect)
  OBVIOUS
<1>3. /\ todo # <<>> /\ ~w.init /\ cutting.step = "read"
      /\ \/ NextMonth
         \/ /\ todo' = todo
            /\ cutting' = [NotCutting EXCEPT !.step = "cut", !.attempts = cutting.attempts,
                             !.base = edits[w.month], !.left = left, !.moved = moved, !.redirect = redirect]
      /\ UNCHANGED <<requests, edits, archive, archiveEdits, month, errors, posted, dropped, repeated>>
  BY <1>1, <1>2, Zenon DEF ReadRequests, RequestsUsersWait, NothingFails
<1>4. Held = {}
  BY <1>3 DEF Held
<1>5. CASE NextMonth
  <2>1. /\ todo' \in Seq(Items) /\ \A i \in DOMAIN todo' : todo'[i].month \in Months
        /\ cutting' \in Cuttings /\ cutting'.step = "read" /\ ~cutting'.executed
    BY <1>3, <1>5, NextMonthIsRight DEF RequestsInv
  <2> QED BY <1>3, <1>4, <2>1, EmptyHandKeeps
<1>6. CASE ~NextMonth
  <2>1. /\ w.month \in Months /\ requests[w.month] \in Seq(Reqs) /\ ListedOnce(requests[w.month])
        /\ edits[w.month] \in Nat /\ cutting \in Cuttings
    <3>1. w.month \in Months
      BY <1>1, <1>3, FirstMonthIsKnown DEF RequestsInv
    <3> QED BY <3>1 DEF RequestsInv, RequestsTypeOK, ListsAreRight
  <2>2. SplitIsRight(left, moved, requests[w.month])
    BY <1>2, <2>1, SplitRequests
  <2>3. PICK base \in Nat, r \in BOOLEAN, n \in {1, 2} :
          /\ base = edits[w.month] /\ todo' = todo
          /\ cutting' = [step |-> "cut", attempts |-> n, base |-> base, left |-> left, moved |-> moved,
                         redirect |-> r, executed |-> FALSE]
    <3>1. redirect \in BOOLEAN
      BY <1>2 DEF BecomesRedirect
    <3>2. cutting.attempts \in {1, 2}
      BY <2>1 DEF Cuttings
    <3> QED BY <1>3, <1>6, <2>1, <3>1, <3>2 DEF NotCutting
  <2>4. PICK new : /\ new = cutting' /\ new \in Cuttings /\ new.step = "cut" /\ new.base = base
                   /\ new.left = left /\ new.moved = moved /\ new.executed = FALSE
    <3>1. left \in Seq(Reqs) /\ moved \in Seq(Reqs) /\ "cut" \in CallSteps /\ FALSE \in BOOLEAN
      BY <2>2 DEF SplitIsRight, CallSteps
    <3>2. PICK new : new = cutting'
      OBVIOUS
    <3>3. new = [step |-> "cut", attempts |-> n, base |-> base, left |-> left, moved |-> moved,
                 redirect |-> r, executed |-> FALSE]
      BY <2>3, <3>2
    <3>4. /\ new \in Cuttings /\ new.step = "cut" /\ new.base = base
          /\ new.left = left /\ new.moved = moved /\ new.executed = FALSE
      <4>1. PICK lists : lists = Seq(Reqs)
        OBVIOUS
      <4>2. new \in [step : CallSteps, attempts : {1, 2}, base : Nat, left : lists, moved : lists,
                     redirect : BOOLEAN, executed : BOOLEAN]
        BY <3>1, <3>3, <4>1
      <4> QED BY <3>3, <4>1, <4>2 DEF Cuttings
    <3> QED BY <3>2, <3>4
  <2>5. RequestsTypeOK'
    BY <1>3, <2>3, <2>4 DEF RequestsInv, RequestsTypeOK
  <2>6. CutIsRight' /\ AppendIsRight' /\ Held' = {}
    BY <1>1, <1>3, <2>1, <2>2, <2>3, <2>4 DEF CutIsRight, AppendIsRight, Held, SplitIsRight
  <2>7. Ids(moved) \cap repeated = {}
    <3>1. ASSUME NEW id, id \in Ids(moved)
          PROVE  id \notin repeated
      <4>1. id \in Ids(requests[w.month])
        BY <2>2, <3>1 DEF SplitIsRight
      <4>2. <<"page", w.month>> \in Places(id)
        BY <2>1, <4>1, PlacesAre
      <4>3. Places(id) = {<<"page", w.month>>}
        BY <4>2 DEF RequestsInv, HasOnePlace
      <4>4. \A x \in Months : id \notin Ids(archive[x])
        BY <4>3, PlacesAre
      <4> QED BY <4>4 DEF RequestsInv, ListsAreRight
    <3> QED BY <3>1
  <2>8. PageCutIsRight'
    BY <1>1, <1>3, <2>2, <2>3, <2>4, <2>7 DEF PageCutIsRight, SplitIsRight
  <2>9. ListsAreRight' /\ ErrorsExplain'
    BY <1>3, <2>3, <2>4 DEF RequestsInv, ListsAreRight, ArchiveIsListed, ErrorsExplain
  <2>10. \A x : HasOnePlace(x)'
    BY <1>3, <1>4, <2>6, SamePlaces DEF RequestsInv
  <2> QED BY <2>5, <2>6, <2>8, <2>9, <2>10 DEF RequestsInv
<1> QED BY <1>5, <1>6

\* A crash, and every step that gives the month up, drop what the run holds.
LEMMA GivingUpKeeps ==
  ASSUME RequestsInv, cutting' \in Cuttings, cutting'.step = "read", ~cutting'.executed,
         todo' \in Seq(Items), \A i \in DOMAIN todo' : todo'[i].month \in Months,
         UNCHANGED <<requests, edits, archive, archiveEdits, month, posted, repeated>>,
         dropped' = dropped \cup Held, errors' \in Nat, errors' >= errors,
         errors' = 0 /\ Held # {} => \E m \in Months : archiveEdits[m] > 0
  PROVE  RequestsInv'
<1>1. CutIsRight' /\ PageCutIsRight' /\ AppendIsRight' /\ Held' = {}
  BY ReadingHoldsNothing
<1>2. \A x : HasOnePlace(x)'
  BY <1>1, HandIsEmptied DEF RequestsInv
<1>3. dropped' \subseteq posted
  <2>1. ASSUME NEW id \in Held  PROVE id \in posted
    <3>1. <<"run", 0>> \in Places(id)
      BY PlacesAre
    <3> QED BY <3>1 DEF RequestsInv, HasOnePlace
  <2> QED BY <2>1 DEF RequestsInv, RequestsTypeOK
<1>4. RequestsTypeOK'
  BY <1>3 DEF RequestsInv, RequestsTypeOK
<1>5. ListsAreRight'
  BY DEF RequestsInv, ListsAreRight, ArchiveIsListed
<1>6. ErrorsExplain'
  <2>1. errors \in Nat /\ (errors' = 0 => errors = 0)
    BY DEF RequestsInv, RequestsTypeOK
  <2> QED BY <2>1 DEF RequestsInv, ErrorsExplain
<1> QED BY <1>1, <1>2, <1>4, <1>5, <1>6 DEF RequestsInv

LEMMA CrashRequestsKeeps ==
  ASSUME RequestsInv, RequestsCrash
  PROVE  RequestsInv'
<1>1. /\ UNCHANGED <<requests, edits, archive, archiveEdits, month, posted, repeated>>
      /\ todo' = <<>> /\ cutting' = NotCutting /\ dropped' = dropped \cup Held /\ errors' = errors + 1
  BY DEF RequestsCrash, RequestsUsersWait
<1>2. errors \in Nat
  BY DEF RequestsInv, RequestsTypeOK
<1>3. errors' \in Nat /\ errors' >= errors /\ errors' # 0
  BY <1>1, <1>2
<1>4. todo' \in Seq(Items) /\ \A i \in DOMAIN todo' : todo'[i].month \in Months
  BY <1>1
<1> QED BY <1>1, <1>3, <1>4, NotCuttingFields, GivingUpKeeps

LEMMA CutRequestsKeeps ==
  ASSUME RequestsInv, NEW outcome \in CallOutcomes, CutRequests(outcome)
  PROVE  RequestsInv'
<1>1. PICK m \in Months : m = Head(todo).month
  BY FirstMonthIsKnown DEF RequestsInv, CutRequests
<1>2. PICK conflict \in BOOLEAN : conflict = (edits[m] # cutting.base)
  OBVIOUS
<1>3. /\ todo # <<>> /\ cutting.step = "cut" /\ cutting \in Cuttings
      /\ errors \in Nat /\ errors' = errors + (IF outcome = "answered" THEN 0 ELSE 1)
      /\ outcome = "lost" => ~conflict
      /\ UNCHANGED <<edits, archive, archiveEdits, month, posted, repeated>>
  BY <1>1, <1>2 DEF CutRequests, Conflicts, CountCall, RequestsUsersWait, RequestsInv, RequestsTypeOK
<1>4. /\ outcome \in {"answered", "failed", "lost"}
      /\ errors' \in Nat /\ errors' >= errors /\ (errors' = 0 => errors = 0 /\ outcome = "answered")
  <2>1. outcome \in {"answered", "failed", "lost"}
    BY DEF CallOutcomes
  <2> QED BY <1>3, <2>1
<1>5. CASE outcome = "failed" \/ conflict
  <2>1. requests' = requests /\ dropped' = dropped \cup Held
    BY <1>1, <1>2, <1>5 DEF CutRequests, Conflicts
  <2>2. NextMonth \/ (cutting' = [NotCutting EXCEPT !.attempts = cutting.attempts - 1]
                      /\ cutting.attempts # 1 /\ todo' = todo)
    BY <1>1, <1>2, <1>5 DEF CutRequests, Conflicts, GivesUp
  <2>3. /\ cutting' \in Cuttings /\ cutting'.step = "read" /\ ~cutting'.executed
        /\ todo' \in Seq(Items) /\ \A i \in DOMAIN todo' : todo'[i].month \in Months
    <3>1. CASE NextMonth
      BY <1>3, <3>1, NextMonthIsRight DEF RequestsInv
    <3>2. CASE ~NextMonth
      <4>1. cutting' = [NotCutting EXCEPT !.attempts = 1] /\ todo' = todo
        BY <1>3, <2>2, <3>2 DEF Cuttings
      <4>2. PICK d : d = [NotCutting EXCEPT !.attempts = 1]
        OBVIOUS
      <4>3. d \in Cuttings /\ d.step = "read" /\ ~d.executed
        BY <4>2, StartedAgain
      <4> QED BY <4>1, <4>2, <4>3 DEF RequestsInv, RequestsTypeOK
    <3> QED BY <3>1, <3>2
  <2>4. errors' = 0 => Held = {}
    BY <1>3, <1>4 DEF RequestsInv, ErrorsExplain, Held
  <2> QED BY <1>3, <1>4, <2>1, <2>3, <2>4, GivingUpKeeps
<1>6. CASE outcome # "failed" /\ ~conflict
  <2>1. /\ requests' = [requests EXCEPT ![m] = cutting.left] /\ dropped' = dropped
        /\ edits[m] = cutting.base
    BY <1>1, <1>2, <1>6 DEF CutRequests, Conflicts
  <2>2. /\ ListedOnce(cutting.left) /\ ListedOnce(cutting.moved)
        /\ Ids(cutting.left) \cap Ids(cutting.moved) = {} /\ Ids(cutting.moved) \cap repeated = {}
        /\ Ids(requests[m]) = Ids(cutting.left) \cup (IF cutting.executed THEN {} ELSE Ids(cutting.moved))
        /\ ~Head(todo).init
    BY <1>1, <1>3, <2>1 DEF RequestsInv, CutIsRight, PageCutIsRight
  <2>3. cutting.left \in Seq(Reqs) /\ cutting.moved \in Seq(Reqs) /\ 0 \in Nat /\ 1 \in {1, 2}
    BY <1>3 DEF Cuttings
  <2>4. /\ requests' \in [Months -> Seq(Reqs)] /\ requests'[m] = cutting.left
        /\ \A x \in Months : x # m => requests'[x] = requests[x]
    BY <2>1, <2>3, RequestsOf DEF RequestsInv
  <2>5. PICK new : new = cutting'
    OBVIOUS
  <2>6. /\ new \in Cuttings
        /\ todo' \in Seq(Items) /\ \A i \in DOMAIN todo' : todo'[i].month \in Months
        /\ \/ /\ new.step = "cut" /\ new.executed /\ new.base = cutting.base /\ new.left = cutting.left
              /\ new.moved = cutting.moved /\ todo' = todo /\ outcome = "lost"
           \/ /\ new.step = "read" /\ ~new.executed /\ cutting.moved = <<>>
           \/ /\ new.step = "look" /\ ~new.executed /\ new.attempts = 2 /\ new.moved = cutting.moved /\ todo' = todo
    <3>1. CASE outcome = "lost"
      <4>1. cutting' = [cutting EXCEPT !.executed = TRUE] /\ todo' = todo
        BY <1>1, <1>2, <1>6, <3>1 DEF CutRequests, Conflicts, GivesUp
      <4>2. PICK d : d = [cutting EXCEPT !.executed = TRUE]
        OBVIOUS
      <4>3. /\ d \in Cuttings /\ d.executed /\ d.step = cutting.step /\ d.base = cutting.base
            /\ d.left = cutting.left /\ d.moved = cutting.moved
        BY <1>3, <4>2, SentAgain
      <4> QED BY <1>3, <2>5, <3>1, <4>1, <4>2, <4>3 DEF RequestsInv, RequestsTypeOK
    <3>2. CASE outcome # "lost" /\ cutting.moved = <<>>
      <4>1. NextMonth
        BY <1>1, <1>2, <1>6, <3>2 DEF CutRequests, Conflicts, GivesUp
      <4> QED BY <1>3, <2>5, <3>2, <4>1, NextMonthIsRight DEF RequestsInv
    <3>3. CASE outcome # "lost" /\ cutting.moved # <<>>
      <4>1. cutting' = [NotCutting EXCEPT !.step = "look", !.moved = cutting.moved] /\ todo' = todo
        BY <1>1, <1>2, <1>6, <3>3 DEF CutRequests, Conflicts, GivesUp
      <4>2. PICK d : d = [NotCutting EXCEPT !.step = "look", !.attempts = 2, !.moved = cutting.moved]
        OBVIOUS
      <4>3. d \in Cuttings /\ d.step = "look" /\ ~d.executed /\ d.attempts = 2 /\ d.moved = cutting.moved
        BY <1>3, <4>2, LooksAtArchive
      <4>4. cutting' = d
        <5>1. NotCutting.attempts = 2
          BY NotCuttingFields
        <5> QED BY <4>1, <4>2, <5>1 DEF NotCutting, EditAttempts
      <4> QED BY <2>5, <4>1, <4>3, <4>4 DEF RequestsInv, RequestsTypeOK
    <3> QED BY <3>1, <3>2, <3>3
  <2>7. RequestsTypeOK'
    BY <1>3, <1>4, <2>1, <2>4, <2>5, <2>6 DEF RequestsInv, RequestsTypeOK
  <2>8. Held' = Ids(cutting.moved) /\ Held = IF cutting.executed THEN Ids(cutting.moved) ELSE {}
    <3>1. cutting.moved = <<>> => Ids(cutting.moved) = {}
      BY DEF Ids
    <3>2. Ids(cutting.moved) \ repeated = Ids(cutting.moved)
      BY <2>2
    <3> HIDE DEF Ids
    <3>3. Held = IF cutting.executed THEN Ids(cutting.moved) ELSE {}
      BY <1>3, <3>2 DEF Held
    <3>4. Held' = Ids(cutting.moved)
      BY <1>3, <2>5, <2>6, <3>1, <3>2 DEF Held
    <3> QED BY <3>3, <3>4
  <2>9. \A x : HasOnePlace(x)'
    <3>1. CASE cutting.executed
      <4>1. \A x \in Months : Ids(requests'[x]) = Ids(requests[x]) /\ Ids(archive'[x]) = Ids(archive[x])
        BY <1>3, <2>2, <2>4, <3>1
      <4> QED BY <1>3, <2>1, <2>8, <3>1, <4>1, SamePlaces DEF RequestsInv
    <3>2. CASE ~cutting.executed
      <4>1. /\ Ids(requests'[m]) \cup Ids(cutting.moved) = Ids(requests[m])
            /\ Ids(requests'[m]) \cap Ids(cutting.moved) = {}
        BY <2>2, <2>4, <3>2
      <4> QED BY <1>3, <2>1, <2>4, <2>8, <3>2, <4>1, CutMoves DEF RequestsInv
    <3> QED BY <3>1, <3>2
  <2>10. CutIsRight'
    BY <1>1, <1>3, <2>2, <2>5, <2>6 DEF CutIsRight
  <2>11. PageCutIsRight'
    <3>1. CASE new.step = "cut"
      <4>1. /\ cutting'.executed /\ cutting'.base = edits'[m] /\ cutting'.left = cutting.left
            /\ cutting'.moved = cutting.moved /\ Head(todo').month = m /\ repeated' = repeated
        BY <1>1, <1>3, <2>1, <2>5, <2>6, <3>1
      <4>2. Ids(requests'[m]) = Ids(cutting'.left)
        BY <2>4, <4>1
      <4>3. edits'[m] \in Nat
        BY <2>7 DEF RequestsTypeOK
      <4>4. cutting'.base <= edits'[m]
        BY <4>1, <4>3
      <4>5. /\ ListedOnce(cutting'.left) /\ Ids(cutting'.left) \cap Ids(cutting'.moved) = {}
            /\ Ids(cutting'.moved) \cap repeated' = {}
        BY <2>2, <4>1
      <4> QED BY <4>1, <4>2, <4>4, <4>5, Zenon DEF PageCutIsRight
    <3>2. CASE new.step # "cut"
      BY <2>5, <3>2 DEF PageCutIsRight
    <3> QED BY <3>1, <3>2
  <2>12. AppendIsRight'
    <3> SUFFICES ASSUME new.step = "look"  PROVE AppendIsRight'
      BY <2>5, <2>6 DEF AppendIsRight
    <3>1. ASSUME NEW id \in Ids(cutting.moved)
          PROVE  id \notin repeated /\ NamedOnce(archive[m], id)
      <4>1. id \in Held'
        BY <2>8
      <4>2. Places(id)' = {<<"run", 0>>}
        <5>1. <<"run", 0>> \in Places(id)'
          BY <4>1 DEF Places
        <5> QED BY <2>9, <5>1 DEF HasOnePlace
      <4>3. id \notin Ids(archive'[m])
        <5>1. <<"archive", m>> \notin Places(id)'
          BY <4>2
        <5> QED BY <5>1 DEF Places
      <4> QED BY <1>3, <2>2, <4>3 DEF NamedOnce, Ids
    <3>2. /\ new.attempts = 2 /\ ~new.executed /\ new.moved = cutting.moved /\ todo' = todo
      BY <2>6
    <3>3. /\ cutting'.step = "look" /\ cutting'.attempts = 2 /\ ~cutting'.executed
          /\ cutting'.moved = cutting.moved /\ Head(todo').month = m
          /\ repeated' = repeated /\ archive'[m] = archive[m]
      BY <1>1, <1>3, <2>5, <3>2
    <3>4. 2 # 1 /\ "look" # "append"
      OBVIOUS
    <3> QED BY <3>1, <3>3, <3>4 DEF AppendIsRight
  <2>13. ListsAreRight'
    BY <1>3, <2>2, <2>4 DEF RequestsInv, ListsAreRight, ArchiveIsListed
  <2>14. ErrorsExplain'
    BY <1>3, <1>4, <2>1, <2>5, <2>6 DEF RequestsInv, ErrorsExplain
  <2> QED BY <2>7, <2>9, <2>10, <2>11, <2>12, <2>13, <2>14 DEF RequestsInv
<1> QED BY <1>5, <1>6

LEMMA ReadArchiveKeeps ==
  ASSUME RequestsInv, ReadArchive
  PROVE  RequestsInv'
<1>1. PICK m \in Months : m = Head(todo).month
  BY FirstMonthIsKnown DEF RequestsInv, ReadArchive
<1>2. PICK base, left : base = archiveEdits[m] /\ left = archive[m] \o cutting.moved
  OBVIOUS
<1>3. /\ todo # <<>> /\ cutting.step = "look"
      /\ cutting' = [cutting EXCEPT !.step = "append", !.base = base, !.left = left]
      /\ UNCHANGED <<requests, edits, archive, archiveEdits, month, todo, errors, posted, dropped, repeated>>
  BY <1>1, <1>2 DEF ReadArchive, RequestsUsersWait, NothingFails
<1>4. cutting \in Cuttings /\ base \in Nat /\ archive[m] \in Seq(Reqs)
  BY <1>2 DEF RequestsInv, RequestsTypeOK
<1>5. left \in Seq(Reqs)
  <2>1. cutting.moved \in Seq(Reqs)
    BY <1>4 DEF Cuttings
  <2> QED BY <1>2, <1>4, <2>1
<1>6. PICK new : /\ new = cutting' /\ new \in Cuttings /\ new.step = "append" /\ new.base = base /\ new.left = left
                 /\ new.attempts = cutting.attempts /\ new.moved = cutting.moved
                 /\ new.executed = cutting.executed
  <2>1. PICK new : new = [cutting EXCEPT !.step = "append", !.base = base, !.left = left]
    OBVIOUS
  <2>2. /\ new \in Cuttings /\ new.step = "append" /\ new.base = base /\ new.left = left
        /\ new.attempts = cutting.attempts /\ new.moved = cutting.moved
        /\ new.executed = cutting.executed
    <3>1. PICK lists : lists = Seq(Reqs)
      OBVIOUS
    <3>2. Cuttings = [step : {"read", "cut", "look", "append"}, attempts : {1, 2}, base : Nat, left : lists,
                      moved : lists, redirect : BOOLEAN, executed : BOOLEAN]
      BY <3>1 DEF Cuttings, CallSteps
    <3>3. left \in lists
      BY <1>5, <3>1
    <3> HIDE DEF Cuttings
    <3> QED BY <1>4, <2>1, <3>2, <3>3
  <2> QED BY <1>3, <2>1, <2>2
<1>7. ~cutting.executed
  BY <1>3 DEF RequestsInv, AppendIsRight
<1>8. RequestsTypeOK'
  BY <1>3, <1>6 DEF RequestsInv, RequestsTypeOK
<1>9. CutIsRight' /\ PageCutIsRight'
  BY <1>1, <1>3, <1>6 DEF RequestsInv, CutIsRight, PageCutIsRight
<1>10. AppendIsRight'
  <2>1. \A id \in Ids(cutting.moved) :
          /\ id \in repeated => cutting.attempts = 1 /\ id \in Ids(archive[m])
          /\ NamedOnce(archive[m], id)
    BY <1>1, <1>2, <1>3, <1>7 DEF RequestsInv, AppendIsRight
  <2>2. /\ cutting'.step = "append" /\ cutting'.base = base /\ cutting'.left = archive'[m] \o cutting.moved
        /\ cutting'.attempts = cutting.attempts /\ cutting'.moved = cutting.moved /\ ~cutting'.executed
        /\ Head(todo').month = m /\ repeated' = repeated /\ archive'[m] = archive[m]
        /\ archiveEdits'[m] = base
    BY <1>1, <1>2, <1>3, <1>6, <1>7
  <2>3. base <= base
    BY <1>4
  <2> QED BY <2>1, <2>2, <2>3 DEF AppendIsRight
<1>11. Held' = Held
  BY <1>3, <1>6, <1>7 DEF Held
<1>12. ListsAreRight' /\ ErrorsExplain'
  BY <1>3, <1>6 DEF RequestsInv, ListsAreRight, ArchiveIsListed, ErrorsExplain
<1>13. \A x : HasOnePlace(x)'
  BY <1>3, <1>11, SamePlaces DEF RequestsInv
<1> QED BY <1>8, <1>9, <1>10, <1>12, <1>13 DEF RequestsInv

LEMMA AppendToArchiveKeeps ==
  ASSUME RequestsInv, NEW outcome \in CallOutcomes, AppendToArchive(outcome)
  PROVE  RequestsInv'
<1>1. PICK m \in Months : m = Head(todo).month
  BY FirstMonthIsKnown DEF RequestsInv, AppendToArchive
<1>2. PICK conflict, exists \in BOOLEAN :
        conflict = (archiveEdits[m] # cutting.base) /\ exists = (Creates /\ ArchiveExists(m))
  OBVIOUS
<1>3. /\ todo # <<>> /\ cutting.step = "append" /\ cutting \in Cuttings
      /\ errors \in Nat /\ errors' = errors + (IF outcome = "answered" THEN 0 ELSE 1)
      /\ outcome = "lost" => ~conflict /\ ~exists
      /\ UNCHANGED <<requests, edits, archiveEdits, month, posted>>
  BY <1>1, <1>2 DEF AppendToArchive, Conflicts, CountCall, RequestsUsersWait, RequestsInv, RequestsTypeOK
<1>4. /\ outcome \in {"answered", "failed", "lost"}
      /\ errors' \in Nat /\ errors' >= errors /\ (errors' = 0 => errors = 0 /\ outcome = "answered")
  <2>1. outcome \in {"answered", "failed", "lost"}
    BY DEF CallOutcomes
  <2> QED BY <1>3, <2>1
\* What the invariant says of this call.
<1>5. /\ cutting.base <= archiveEdits[m] /\ cutting.base \in Nat /\ archiveEdits[m] \in Nat
      /\ \A id \in Ids(cutting.moved) :
           /\ id \in repeated => cutting.attempts = 1 /\ id \in Ids(archive[m])
           /\ ~cutting.executed \/ cutting.attempts = 2 => NamedOnce(archive[m], id)
      /\ cutting.left = IF cutting.executed THEN archive[m] ELSE archive[m] \o cutting.moved
      /\ cutting.executed => Ids(cutting.moved) \subseteq Ids(archive[m])
      /\ ~Head(todo).init /\ ListedOnce(cutting.moved)
  BY <1>1, <1>3 DEF RequestsInv, CutIsRight, AppendIsRight, RequestsTypeOK, Cuttings
<1>6. /\ cutting.moved \in Seq(Reqs) /\ archive[m] \in Seq(Reqs) /\ cutting.attempts \in {1, 2}
      /\ 0 \in Nat /\ 1 \in {1, 2}
  BY <1>3 DEF RequestsInv, RequestsTypeOK, Cuttings
<1>7. Held = IF cutting.executed THEN {} ELSE Ids(cutting.moved) \ repeated
  BY <1>3 DEF Held
\* The run gives the month up.
<1>8. CASE exists \/ GivesUp(outcome, conflict)
  <2>1. exists \/ outcome = "failed" \/ (conflict /\ cutting.attempts = 1)
    BY <1>8 DEF GivesUp
  <2>2. /\ archive' = archive /\ dropped' = dropped \cup Held /\ repeated' = repeated
        /\ outcome # "lost" /\ NextMonth
    BY <1>1, <1>2, <1>3, <1>8, <2>1 DEF AppendToArchive, Conflicts
  <2>3. /\ cutting' \in Cuttings /\ cutting'.step = "read" /\ ~cutting'.executed
        /\ todo' \in Seq(Items) /\ \A i \in DOMAIN todo' : todo'[i].month \in Months
    BY <1>3, <2>2, NextMonthIsRight DEF RequestsInv
  <2>4. errors' = 0 => archiveEdits[m] > 0
    <3>1. SUFFICES ASSUME errors' = 0  PROVE archiveEdits[m] > 0
      OBVIOUS
    <3>2. CASE exists
      <4>1. ~cutting.executed
        BY <1>4, <3>1 DEF RequestsInv, ErrorsExplain
      <4>2. Len(archive[m] \o cutting.moved) = Len(cutting.moved) /\ ArchiveExists(m)
        BY <1>2, <1>5, <3>2, <4>1 DEF Creates
      <4>3. archive[m] = <<>>
        <5>1. PICK s, t \in Seq(Reqs) : s = archive[m] /\ t = cutting.moved
          BY <1>6
        <5>2. Len(s \o t) = Len(s) + Len(t)
          OBVIOUS
        <5>3. Len(s) = 0
          <6>1. Len(s \o t) = Len(t)
            BY <4>2, <5>1
          <6>2. Len(s) \in Nat /\ Len(t) \in Nat
            OBVIOUS
          <6> QED BY <5>2, <6>1, <6>2
        <5>4. s = <<>>
          BY <5>3
        <5> QED BY <5>1, <5>4
      <4> QED BY <4>2, <4>3 DEF ArchiveExists
    <3>3. CASE ~exists
      <4>1. conflict /\ cutting.attempts = 1
        BY <1>4, <2>1, <3>1, <3>3
      <4>2. archiveEdits[m] # cutting.base
        BY <1>2, <4>1
      <4> QED BY <1>5, <4>2
    <3> QED BY <3>2, <3>3
  <2> QED BY <1>1, <1>3, <1>4, <2>2, <2>3, <2>4, GivingUpKeeps
\* The call starts again after a conflict.
<1>9. CASE conflict /\ ~exists /\ ~GivesUp(outcome, conflict)
  <2>1. /\ archive' = archive /\ dropped' = dropped /\ outcome # "failed" /\ cutting.attempts = 2
        /\ cutting' = [NotCutting EXCEPT !.step = "look", !.attempts = cutting.attempts - 1,
                         !.moved = cutting.moved]
        /\ todo' = todo
        /\ repeated' = IF cutting.executed THEN repeated \cup Ids(cutting.moved) ELSE repeated
    BY <1>1, <1>2, <1>6, <1>9 DEF AppendToArchive, Conflicts, GivesUp
  <2>2. PICK new : /\ new = cutting' /\ new \in Cuttings /\ new.step = "look" /\ ~new.executed
                   /\ new.attempts = 1 /\ new.moved = cutting.moved
    <3>1. PICK new : new = [NotCutting EXCEPT !.step = "look", !.attempts = 1, !.moved = cutting.moved]
      OBVIOUS
    <3>2. new \in Cuttings /\ new.step = "look" /\ ~new.executed /\ new.attempts = 1 /\ new.moved = cutting.moved
      BY <1>3, <1>6, <3>1, LooksAtArchive
    <3>3. new = cutting'
      BY <2>1, <3>1
    <3> QED BY <3>2, <3>3
  <2>3. RequestsTypeOK'
    BY <1>3, <1>4, <2>1, <2>2 DEF RequestsInv, RequestsTypeOK
  <2>4. CutIsRight' /\ PageCutIsRight'
    BY <1>1, <1>3, <1>5, <2>1, <2>2 DEF CutIsRight, PageCutIsRight
  <2>5. AppendIsRight'
    <3>1. ASSUME NEW id \in Ids(cutting.moved)
          PROVE  NamedOnce(archive[m], id) /\ (id \in repeated' => id \in Ids(archive[m]))
      BY <1>5, <2>1
    <3>2. /\ cutting'.step = "look" /\ cutting'.attempts = 1 /\ ~cutting'.executed
          /\ cutting'.moved = cutting.moved /\ Head(todo').month = m /\ archive'[m] = archive[m]
      BY <1>1, <2>1, <2>2
    <3>3. "look" # "append"
      OBVIOUS
    <3> QED BY <3>1, <3>2, <3>3 DEF AppendIsRight
  <2>6. Held' = Held
    <3>1. Held' = Ids(cutting.moved) \ repeated'
      BY <2>2 DEF Held
    <3> QED BY <1>7, <2>1, <3>1
  <2>7. \A x : HasOnePlace(x)'
    BY <1>3, <2>1, <2>6, SamePlaces DEF RequestsInv
  <2>8. ListsAreRight'
    <3>1. ASSUME NEW x \in Months
          PROVE  ArchiveIsListed(x)'
      <4>1. ASSUME NEW id
            PROVE  IF id \in repeated' THEN NamedTwice(archive[x], id) ELSE NamedOnce(archive[x], id)
        <5>1. IF id \in repeated THEN NamedTwice(archive[x], id) ELSE NamedOnce(archive[x], id)
          BY DEF RequestsInv, ListsAreRight, ArchiveIsListed
        <5>2. NamedOnce(archive[x], id) => NamedTwice(archive[x], id)
          <6>1. PICK s \in Seq(Reqs) : s = archive[x]
            BY DEF RequestsInv, RequestsTypeOK
          <6>2. DOMAIN s \subseteq Int
            BY <6>1
          <6>3. NamedOnce(s, id) => NamedTwice(s, id)
            BY <6>2 DEF NamedOnce, NamedTwice
          <6> QED BY <6>1, <6>3
        <5> QED BY <2>1, <5>1, <5>2
      <4> QED BY <2>1, <4>1 DEF ArchiveIsListed
    <3>2. \A id \in repeated' : \E x \in Months : id \in Ids(archive[x])
      BY <1>5, <2>1 DEF RequestsInv, ListsAreRight
    <3> QED BY <1>3, <2>1, <3>1, <3>2 DEF RequestsInv, ListsAreRight
  <2>9. ErrorsExplain'
    BY <1>3, <1>4, <2>1, <2>2 DEF RequestsInv, ErrorsExplain
  <2> QED BY <2>3, <2>4, <2>5, <2>7, <2>8, <2>9 DEF RequestsInv
\* The archive is written.
<1>10. CASE ~conflict /\ ~exists /\ ~GivesUp(outcome, conflict)
  <2>1. /\ archive' = [archive EXCEPT ![m] = cutting.left] /\ outcome # "failed"
        /\ dropped' = dropped /\ repeated' = repeated
        /\ IF outcome = "lost" THEN cutting' = [cutting EXCEPT !.executed = TRUE] /\ todo' = todo ELSE NextMonth
    BY <1>1, <1>2, <1>10 DEF AppendToArchive, Conflicts, GivesUp
  <2>2. /\ cutting.left \in Seq(Reqs) /\ Ids(cutting.left) = Ids(archive[m]) \cup Ids(cutting.moved)
        /\ \A id \in Ids(cutting.moved) : cutting.attempts = 2 => NamedOnce(cutting.left, id)
        /\ \A id : IF id \in repeated THEN NamedTwice(cutting.left, id) ELSE NamedOnce(cutting.left, id)
    <3>1. \A id : IF id \in repeated THEN NamedTwice(archive[m], id) ELSE NamedOnce(archive[m], id)
      BY DEF RequestsInv, ListsAreRight, ArchiveIsListed
    <3>2. CASE cutting.executed
      BY <1>5, <1>6, <3>1, <3>2
    <3>3. CASE ~cutting.executed
      <4>1. /\ cutting.left \in Seq(Reqs) /\ Ids(cutting.left) = Ids(archive[m]) \cup Ids(cutting.moved)
            /\ \A id : id \notin Ids(cutting.moved) => /\ NamedOnce(archive[m], id) => NamedOnce(cutting.left, id)
                                                       /\ NamedTwice(archive[m], id) => NamedTwice(cutting.left, id)
            /\ \A id : id \notin Ids(archive[m]) => NamedOnce(cutting.left, id)
            /\ \A id : NamedOnce(archive[m], id) => NamedTwice(cutting.left, id)
        <5>1. PICK s, t, c : s = archive[m] /\ t = cutting.moved /\ c = s \o t
          OBVIOUS
        <5>2. s \in Seq(Reqs) /\ t \in Seq(Reqs) /\ ListedOnce(t) /\ c = cutting.left
          BY <1>5, <1>6, <3>3, <5>1
        <5>3. /\ c \in Seq(Reqs) /\ Ids(c) = Ids(s) \cup Ids(t)
              /\ \A id : id \notin Ids(t) => /\ NamedOnce(s, id) => NamedOnce(c, id)
                                             /\ NamedTwice(s, id) => NamedTwice(c, id)
              /\ \A id : id \notin Ids(s) => NamedOnce(c, id)
              /\ \A id : NamedOnce(s, id) => NamedTwice(c, id)
          BY <5>1, <5>2, AppendedTo
        <5> QED BY <5>1, <5>2, <5>3
      <4>2. ASSUME NEW id \in Ids(cutting.moved), id \notin repeated
            PROVE  id \notin Ids(archive[m])
        <5>1. id \in Held
          BY <1>7, <3>3, <4>2
        <5>2. <<"run", 0>> \in Places(id)
          BY <5>1, PlacesAre
        <5>3. Places(id) = {<<"run", 0>>}
          BY <5>2 DEF RequestsInv, HasOnePlace
        <5> QED BY <5>3, PlacesAre
      <4>3. \A id \in Ids(cutting.moved) : NamedOnce(archive[m], id) /\ (cutting.attempts = 2 => id \notin repeated)
        BY <1>5, <3>3
      <4>4. ASSUME NEW id
            PROVE  IF id \in repeated THEN NamedTwice(cutting.left, id) ELSE NamedOnce(cutting.left, id)
        <5>1. CASE id \notin Ids(cutting.moved)
          BY <3>1, <4>1, <5>1
        <5>2. CASE id \in Ids(cutting.moved)
          BY <4>1, <4>2, <4>3, <5>2
        <5> QED BY <5>1, <5>2
      <4> QED BY <4>1, <4>2, <4>3, <4>4
    <3> QED BY <3>2, <3>3
  <2>3. /\ archive' \in [Months -> Seq(Reqs)] /\ archive'[m] = cutting.left
        /\ \A x \in Months : x # m => archive'[x] = archive[x]
    BY <2>1, <2>2 DEF RequestsInv, RequestsTypeOK
  <2>4. PICK new : new = cutting'
    OBVIOUS
  <2>5. /\ new \in Cuttings
        /\ todo' \in Seq(Items) /\ \A i \in DOMAIN todo' : todo'[i].month \in Months
        /\ \/ /\ new.step = "append" /\ new.executed /\ new.base = cutting.base /\ new.left = cutting.left
              /\ new.moved = cutting.moved /\ new.attempts = cutting.attempts /\ todo' = todo
              /\ outcome = "lost"
           \/ new.step = "read" /\ ~new.executed
    <3>1. CASE outcome = "lost"
      <4>1. PICK d : d = [cutting EXCEPT !.executed = TRUE]
        OBVIOUS
      <4>2. /\ d \in Cuttings /\ d.executed /\ d.step = cutting.step /\ d.attempts = cutting.attempts
            /\ d.base = cutting.base /\ d.left = cutting.left /\ d.moved = cutting.moved
        BY <1>3, <4>1, SentAgain
      <4> QED BY <1>3, <2>1, <2>4, <3>1, <4>1, <4>2 DEF RequestsInv, RequestsTypeOK
    <3>2. CASE outcome # "lost"
      BY <1>3, <2>1, <2>4, <3>2, NextMonthIsRight DEF RequestsInv
    <3> QED BY <3>1, <3>2
  <2>6. RequestsTypeOK'
    BY <1>3, <1>4, <2>1, <2>3, <2>4, <2>5 DEF RequestsInv, RequestsTypeOK
  <2>7. CutIsRight' /\ PageCutIsRight'
    BY <1>1, <1>3, <1>5, <2>4, <2>5 DEF CutIsRight, PageCutIsRight
  <2>8. Held' = {}
    BY <2>4, <2>5 DEF Held
  <2>9. \A x : HasOnePlace(x)'
    <3>1. Ids(archive'[m]) = Ids(archive[m]) \cup Held
      BY <1>5, <1>7, <2>2, <2>3
    <3> QED BY <1>3, <2>1, <2>3, <2>8, <3>1, ArchiveMoves DEF RequestsInv
  <2>10. AppendIsRight'
    <3> SUFFICES ASSUME new.step = "append"  PROVE AppendIsRight'
      BY <2>4, <2>5 DEF AppendIsRight
    <3>1. /\ cutting'.step = "append" /\ cutting'.executed /\ cutting'.base = cutting.base
          /\ cutting'.left = archive'[m] /\ cutting'.moved = cutting.moved
          /\ cutting'.attempts = cutting.attempts /\ Head(todo').month = m
          /\ repeated' = repeated /\ archiveEdits' = archiveEdits
      BY <1>1, <1>3, <2>1, <2>3, <2>4, <2>5
    <3>2. ASSUME NEW id \in Ids(cutting.moved)
          PROVE  /\ id \in Ids(archive'[m])
                 /\ id \in repeated => cutting.attempts = 1
                 /\ cutting.attempts = 2 => NamedOnce(archive'[m], id)
      BY <1>5, <2>2, <2>3
    <3>3. Ids(cutting.moved) \subseteq Ids(archive'[m]) /\ cutting.base <= archiveEdits[m]
      BY <1>5, <3>2
    <3>4. "look" # "append"
      OBVIOUS
    <3> QED BY <3>1, <3>2, <3>3, <3>4 DEF AppendIsRight
  <2>11. ListsAreRight'
    <3>1. ASSUME NEW x \in Months
          PROVE  ArchiveIsListed(x)'
      <4>1. CASE x = m
        BY <2>1, <2>2, <2>3, <4>1 DEF ArchiveIsListed
      <4>2. CASE x # m
        BY <2>1, <2>3, <4>2 DEF RequestsInv, ListsAreRight, ArchiveIsListed
      <4> QED BY <4>1, <4>2
    <3>2. \A id \in repeated : \E x \in Months : id \in Ids(archive'[x])
      <4>1. \A x \in Months : Ids(archive[x]) \subseteq Ids(archive'[x])
        BY <2>2, <2>3
      <4> QED BY <4>1 DEF RequestsInv, ListsAreRight
    <3> QED BY <1>3, <2>1, <3>1, <3>2 DEF RequestsInv, ListsAreRight
  <2>12. ErrorsExplain'
    BY <1>3, <1>4, <2>1, <2>4, <2>5 DEF RequestsInv, ErrorsExplain
  <2> QED BY <2>6, <2>7, <2>9, <2>10, <2>11, <2>12 DEF RequestsInv
<1> QED BY <1>8, <1>9, <1>10

LEMMA RequestsStart ==
  ASSUME RequestsInit
  PROVE  RequestsInv
<1>1. /\ requests = [m \in Months |-> <<>>] /\ edits = [m \in Months |-> 0]
      /\ archive = [m \in Months |-> <<>>] /\ archiveEdits = [m \in Months |-> 0]
      /\ month = 1 /\ todo = <<>> /\ cutting = NotCutting /\ errors = 0
      /\ posted = {} /\ dropped = {} /\ repeated = {}
  BY DEF RequestsInit
<1>2. cutting \in Cuttings /\ cutting.step = "read" /\ ~cutting.executed
  BY <1>1, NotCuttingFields
<1>3. RequestsTypeOK
  BY <1>1, <1>2 DEF RequestsTypeOK
<1>4. CutIsRight /\ PageCutIsRight /\ AppendIsRight /\ Held = {}
  BY <1>2 DEF CutIsRight, PageCutIsRight, AppendIsRight, Held
<1>5. ListsAreRight
  BY <1>1 DEF ListsAreRight, ArchiveIsListed, ListedOnce, NamedOnce
<1>6. ErrorsExplain
  BY <1>1, <1>2 DEF ErrorsExplain
<1>7. ASSUME NEW id  PROVE HasOnePlace(id)
  <2>1. Ids(<<>>) = {}
    BY DEF Ids
  <2>2. Places(id) = {}
    BY <1>1, <1>4, <2>1 DEF Places
  <2> QED BY <1>1, <2>2 DEF HasOnePlace
<1> QED BY <1>3, <1>4, <1>5, <1>6, <1>7 DEF RequestsInv

LEMMA RequestsSteps ==
  ASSUME RequestsInv, [RequestsNext]_requestVars
  PROVE  RequestsInv'
<1>1. ASSUME NEW m \in Months, PostRequest(m)  PROVE RequestsInv'
  BY <1>1, PostRequestKeeps
<1>2. ASSUME NEW m \in Months, EditArchive(m)  PROVE RequestsInv'
  BY <1>2, EditArchiveKeeps
<1>3. ASSUME NEW m \in Months, NEW i \in DOMAIN requests[m], MarkRequest(m, i)  PROVE RequestsInv'
  BY <1>3, MarkRequestKeeps
<1>4. CASE ClockTicks
  BY <1>4, ClockTicksKeeps
<1>5. CASE StartRequestsRun
  BY <1>5, StartRequestsRunKeeps
<1>6. CASE InitPage
  BY <1>6, InitPageKeeps
<1>7. CASE ReadRequests
  BY <1>7, ReadRequestsKeeps
<1>8. CASE ReadArchive
  BY <1>8, ReadArchiveKeeps
<1>9. ASSUME NEW outcome \in CallOutcomes, CutRequests(outcome)  PROVE RequestsInv'
  BY <1>9, CutRequestsKeeps
<1>10. ASSUME NEW outcome \in CallOutcomes, AppendToArchive(outcome)  PROVE RequestsInv'
  BY <1>10, AppendToArchiveKeeps
<1>11. CASE RequestsCrash
  BY <1>11, CrashRequestsKeeps
<1>12. CASE UNCHANGED requestVars
  <2>1. UNCHANGED <<requests, edits, archive, archiveEdits, month, todo, cutting, errors, posted, dropped, repeated>>
    BY <1>12 DEF requestVars
  <2>2. month' \in Int
    BY <2>1 DEF RequestsInv, RequestsTypeOK
  <2> QED BY <2>1, <2>2, NothingMoves
<1> QED BY <1>1, <1>2, <1>3, <1>4, <1>5, <1>6, <1>7, <1>8, <1>9, <1>10, <1>11, <1>12 DEF RequestsNext

\* Whatever months users edit while the bot archives them, and whichever calls
\* conflict, fail, lose their answer or crash: a request posted is on one page,
\* in one archive or in the hands of the run; it is nowhere exactly when the run
\* gave up what it had cut, and twice in an archive only when an append that was
\* executed is done again.  Without errors, only edits of the archive lose any.
THEOREM RequestsStayInOnePlace == RequestsSpec => []RequestsInOnePlace
<1>1. RequestsInit => RequestsInv
  BY RequestsStart
<1>2. RequestsInv /\ [RequestsNext]_requestVars => RequestsInv'
  BY RequestsSteps
<1>3. RequestsInv => RequestsInOnePlace
  <2>1. ASSUME RequestsInv, NEW id \in posted
        PROVE  Cardinality(Places(id)) = IF id \in dropped THEN 0 ELSE 1
    <3>1. CASE id \in dropped
      BY <2>1, <3>1, FS_EmptySet DEF RequestsInv, HasOnePlace
    <3>2. CASE id \notin dropped
      <4>1. PICK place : Places(id) = {place}
        BY <2>1, <3>2 DEF RequestsInv, HasOnePlace
      <4> QED BY <3>2, <4>1, FS_Singleton
    <3> QED BY <3>1, <3>2
  <2>2. ASSUME RequestsInv, NEW id \in posted, NEW m \in Months
        PROVE  /\ NamedOnce(requests[m], id)
               /\ IF id \in repeated THEN NamedTwice(archive[m], id) ELSE NamedOnce(archive[m], id)
    BY <2>2 DEF RequestsInv, ListsAreRight, ArchiveIsListed, ListedOnce, NamedOnce
  <2>3. RequestsInv => (errors = 0 => repeated = {} /\ (dropped # {} => \E m \in Months : archiveEdits[m] > 0))
    BY DEF RequestsInv, ErrorsExplain
  <2> QED BY <2>1, <2>2, <2>3 DEF RequestsInOnePlace
<1> QED BY <1>1, <1>2, <1>3, PTL DEF RequestsSpec

---------------------------------------------------------------------------
(* The mover of subpages. *)

MoveRecords == [from : AllTitles, to : AllTitles, time : Nat \ {0}, article : FirstTitles,
                seen : Nat, hidden : BOOLEAN]
MoverTypeOK ==
  /\ pages \in [AllTitles -> FirstTitles \cup {"none", "redirect"}]
  /\ subpages \in [AllTitles \X SubpageNames -> {"none", "text", "redirect"}]
  /\ moveLog \in Seq(MoveRecords)
  /\ now \in Nat \ {0} /\ lastProcessed \in Nat /\ newest \in Nat /\ moveErrors \in Nat
  /\ events \in Seq([from : Titles, to : Titles])
  /\ settled \in Nat /\ seen \in Nat /\ settled <= seen /\ seen <= Len(moveLog)

\* Dates go up; the date of a run is that of the last move it has seen.
DatesAreOrdered ==
  /\ \A i \in 1 .. Len(moveLog) : moveLog[i].time <= now /\ moveLog[i].from # moveLog[i].to
  /\ \A i, j \in 1 .. Len(moveLog) : i <= j => moveLog[i].time <= moveLog[j].time
  /\ settled # 0 => lastProcessed = moveLog[settled].time
  /\ settled = 0 => lastProcessed = 0
  /\ newest # 0 => seen # 0 /\ newest = moveLog[seen].time
  /\ newest = 0 => events = <<>> /\ seen = settled
  /\ quiet => seen = Len(moveLog)

\* An article has one title; where a move took it, it stays until the next move from there.
NoneFrom(log, t, i, j) == \A k \in i + 1 .. j : log[k].from # t
NotLeft(t, i, j) == NoneFrom(moveLog, t, i, j)
TitlesDiffer == \A t, u \in AllTitles : IsArticle(t) /\ pages[t] = pages[u] => t = u
TargetsHold ==
  \A i \in 1 .. Len(moveLog) : NotLeft(moveLog[i].to, i, Len(moveLog)) =>
     pages[moveLog[i].to] = moveLog[i].article
MovesAreLinked ==
  \A i \in 1 .. Len(moveLog) : \A j \in i + 1 .. Len(moveLog) :
     moveLog[j].from = moveLog[i].to /\ NotLeft(moveLog[i].to, i, j - 1) =>
        moveLog[j].article = moveLog[i].article
ArticlesAreSomewhere ==
  \A i \in 1 .. Len(moveLog) : \E m \in i .. Len(moveLog) :
     moveLog[m].article = moveLog[i].article /\ pages[moveLog[m].to] = moveLog[i].article
MapIsSound == TitlesDiffer /\ TargetsHold /\ MovesAreLinked /\ ArticlesAreSomewhere

\* A title that is gone since the run has read the log was left without redirect.
Untouched(j) ==
  \A k \in j + 1 .. Len(moveLog) : moveLog[k].from # moveLog[j].from /\ moveLog[k].to # moveLog[j].from
GoneIsHidden ==
  newest # 0 => \A j \in seen + 1 .. Len(moveLog) :
     Untouched(j) /\ pages[moveLog[j].from] = "none" => moveLog[j].hidden

\* A pending event leads from the title of a move to where the run has seen its article.
LeadsTo(e, i) ==
  /\ e.from = moveLog[i].from
  /\ \E m \in i .. seen : /\ moveLog[m].article = moveLog[i].article /\ moveLog[m].to = e.to
                          /\ NotLeft(e.to, m, seen)
EventsAreSound == \A e \in ToSet(events) : \E i \in 1 .. seen : LeadsTo(e, i)

\* What was seen is done or pending; what a run that ended has seen is done.
PendingIsLeft ==
  \A i \in 1 .. seen : \A x \in SubpageNames :
     LeftBehind(i, x) => \E e \in ToSet(events) : LeadsTo(e, i)
SettledIsDone == \A i \in 1 .. settled : \A x \in SubpageNames : ~LeftBehind(i, x)

NothingLeftBehind ==
  /\ MoverTypeOK /\ DatesAreOrdered /\ MapIsSound /\ GoneIsHidden
  /\ EventsAreSound /\ PendingIsLeft /\ SettledIsDone

---------------------------------------------------------------------------
(* Subpages mover: the log and its collapse. *)

\* Sequences and their elements.
LEMMA HeadIsElement ==
  ASSUME NEW X, NEW q \in Seq(X), q # <<>>
  PROVE  Head(q) \in X
OBVIOUS

LEMMA FunctionIsSequence ==
  ASSUME NEW X, NEW size \in Nat, NEW q, q = [k \in 1 .. size |-> q[k]], \A k \in 1 .. size : q[k] \in X
  PROVE  q \in Seq(X)
<1>1. q \in [1 .. size -> X]
  OBVIOUS
<1> QED BY <1>1

LEMMA ElementOfSequence ==
  ASSUME NEW X, NEW q \in Seq(X), NEW x \in ToSet(q)
  PROVE  x \in X
BY DEF ToSet

LEMMA SequenceOfItsElements ==
  ASSUME NEW X, NEW Y, NEW q \in Seq(X), ToSet(q) \subseteq Y
  PROVE  q \in Seq(Y)
<1>1. Len(q) \in Nat /\ q = [k \in 1 .. Len(q) |-> q[k]] /\ DOMAIN q = 1 .. Len(q)
  OBVIOUS
<1>2. \A k \in 1 .. Len(q) : q[k] \in Y
  BY <1>1 DEF ToSet
<1> QED BY <1>1, <1>2, FunctionIsSequence

\* A step of the recursive function of Collapse.
NameOf(log, f, k) ==
  LET newer == {j \in 1 .. k - 1 : log[j].from = log[k].to}
  IN  IF newer = {} THEN log[k].to ELSE f[Max(newer)]

\* The greatest number of a set bounded by n.
LEMMA NewestOf ==
  ASSUME NEW S, NEW n \in Nat, S \subseteq 1 .. n, S # {}
  PROVE  Max(S) \in S /\ \A y \in S : y <= Max(S)
<1>1. \E x \in S : \A y \in S : y <= x
  <2>1. S \subseteq Int /\ n \in Int /\ \A x \in S : x <= n
    OBVIOUS
  <2> QED BY <2>1, GreatestInteger
<1>2. \E x \in S : \A y \in S : x >= y
  BY <1>1
<1> QED BY <1>2 DEF Max

\* The recursive function of Collapse exists: it can be built up to any length.
LEMMA NamesExist ==
  ASSUME NEW log, NEW len \in Nat
  PROVE  \E f : f = [k \in 1 .. len |-> NameOf(log, f, k)]
<1> DEFINE Built(m) == \E f : f = [k \in 1 .. m |-> NameOf(log, f, k)]
           N == {m \in 0 .. len : Built(m)}
<1>1. 0 \in N
  <2> DEFINE f == [k \in 1 .. 0 |-> 0]
  <2>1. f = [k \in 1 .. 0 |-> NameOf(log, f, k)]
    OBVIOUS
  <2> HIDE DEF f
  <2>2. Built(0)
    BY <2>1
  <2> HIDE DEF Built
  <2> QED BY <2>2
<1>2. ASSUME NEW m \in 1 .. len, m - 1 \in N
      PROVE  m \in N
  <2>1. PICK g : g = [k \in 1 .. m - 1 |-> NameOf(log, g, k)]
    BY <1>2
  <2> DEFINE f == [k \in 1 .. m |-> IF k = m THEN NameOf(log, g, m) ELSE g[k]]
  <2>2. ASSUME NEW k \in 1 .. m  PROVE NameOf(log, f, k) = NameOf(log, g, k)
    <3> DEFINE newer == {j \in 1 .. k - 1 : log[j].from = log[k].to}
    <3>1. CASE newer = {}
      BY <3>1 DEF NameOf
    <3>2. CASE newer # {}
      <4>1. Max(newer) \in 1 .. k - 1
        <5>1. newer \subseteq 1 .. k - 1 /\ k - 1 \in Nat
          OBVIOUS
        <5> HIDE DEF newer
        <5> QED BY <3>2, <5>1, NewestOf
      <4>2. PICK j : j = Max(newer)
        OBVIOUS
      <4>3. f[j] = g[j]
        BY <4>1, <4>2
      <4> QED BY <3>2, <4>2, <4>3 DEF NameOf
    <3> QED BY <3>1, <3>2
  <2>3. \A k \in 1 .. m - 1 : g[k] = NameOf(log, g, k)
    BY <2>1
  <2>4. \A k \in 1 .. m : f[k] = NameOf(log, f, k)
    BY <2>2, <2>3
  <2>5. f = [k \in 1 .. m |-> NameOf(log, f, k)]
    BY <2>4
  <2> HIDE DEF f
  <2>6. Built(m)
    BY <2>5
  <2> QED BY <2>6
<1>3. 0 .. len \subseteq N
  <2> HIDE DEF N
  <2> QED BY <1>1, <1>2, InductionUpTo
<1> QED BY <1>3

CollapsesTo(log, len, f) ==
  /\ \A k \in 1 .. len : f[k] = NameOf(log, f, k)
  /\ Collapse(log) = [k \in 1 .. len |-> [from |-> log[k].from, to |-> f[k]]]

\* Collapse is given by a function that satisfies its recursive equation.
LEMMA CollapseIsBuilt ==
  ASSUME NEW log, NEW len \in Nat, DOMAIN log = 1 .. len
  PROVE  \E f : CollapsesTo(log, len, f)
<1> DEFINE f == CHOOSE f : f = [k \in DOMAIN log |-> NameOf(log, f, k)]
<1>1. f = [k \in DOMAIN log |-> NameOf(log, f, k)]
  <2>1. \E g : g = [k \in DOMAIN log |-> NameOf(log, g, k)]
    <3> HIDE DEF f
    <3> QED BY NamesExist
  <2> QED BY <2>1, Zenon
<1>2. Collapse(log) = [k \in DOMAIN log |-> [from |-> log[k].from, to |-> f[k]]]
  BY DEF Collapse, NameOf
<1> HIDE DEF f
<1>3. \A k \in 1 .. len : f[k] = NameOf(log, f, k)
  BY <1>1
<1> QED BY <1>2, <1>3 DEF CollapsesTo

\* The fields of the moves, where the proofs need nothing else of the types.
LEMMA MovesAreTyped ==
  ASSUME MoverTypeOK
  PROVE  /\ Len(moveLog) \in Nat /\ DOMAIN moveLog = 1 .. Len(moveLog)
         /\ seen \in 0 .. Len(moveLog) /\ settled \in 0 .. seen
         /\ \A i \in 1 .. Len(moveLog) :
               /\ moveLog[i].from \in AllTitles /\ moveLog[i].to \in AllTitles
               /\ moveLog[i].time \in Nat \ {0} /\ moveLog[i].article \in FirstTitles
               /\ moveLog[i].seen \in Nat /\ moveLog[i].hidden \in BOOLEAN
<1>1. \A i \in 1 .. Len(moveLog) : moveLog[i] \in MoveRecords
  BY DEF MoverTypeOK
<1>2. Len(moveLog) \in Nat /\ DOMAIN moveLog = 1 .. Len(moveLog)
  BY DEF MoverTypeOK
<1>3. seen \in 0 .. Len(moveLog) /\ settled \in 0 .. seen
  BY <1>2 DEF MoverTypeOK
<1> QED BY <1>1, <1>2, <1>3 DEF MoveRecords

\* What getLogEvents returns: the end of the log, upside down.
LEMMA LogIsTheEnd ==
  ASSUME MoverTypeOK, DatesAreOrdered, LogSince(lastProcessed) # <<>>
  PROVE  \E low \in 1 .. Len(moveLog) :
            /\ low <= settled + 1
            /\ LogSince(lastProcessed) = [k \in 1 .. Len(moveLog) + 1 - low |-> moveLog[Len(moveLog) + 1 - k]]
<1> DEFINE n == Len(moveLog)
           kept == {k \in DOMAIN moveLog : moveLog[k].time >= lastProcessed}
<1>1. n \in Nat /\ DOMAIN moveLog = 1 .. n /\ settled \in 0 .. n /\ lastProcessed \in Nat
  BY DEF MoverTypeOK
<1>2. LogSince(lastProcessed) = [k \in 1 .. Cardinality(kept) |-> moveLog[n + 1 - k]]
  BY DEF LogSince, NewestFirst
<1>3. \A i \in 1 .. n : moveLog[i].time \in Nat
  <2>1. \A i \in 1 .. n : moveLog[i] \in MoveRecords
    BY DEF MoverTypeOK
  <2> QED BY <2>1 DEF MoveRecords
<1>4. kept # {}
  <2> SUFFICES ASSUME kept = {}  PROVE FALSE
    OBVIOUS
  <2>1. Cardinality(kept) = 0
    BY FS_EmptySet
  <2> HIDE DEF kept
  <2> QED BY <1>2, <2>1
<1>5. PICK low \in kept : \A k \in kept : low <= k
  <2>1. kept \subseteq Nat
    BY <1>1
  <2> HIDE DEF kept
  <2> QED BY <1>4, <2>1, LeastNatural
<1>6. kept = low .. n
  <2>1. kept \subseteq 1 .. n /\ low \in 1 .. n /\ moveLog[low].time >= lastProcessed
    BY <1>1
  <2>2. ASSUME NEW k \in low .. n  PROVE k \in kept
    <3>1. k \in 1 .. n /\ moveLog[low].time <= moveLog[k].time
      BY <2>1 DEF DatesAreOrdered
    <3> QED BY <1>1, <1>3, <2>1, <3>1
  <2> QED BY <1>5, <2>1, <2>2
<1>7. Cardinality(kept) = n + 1 - low
  <2>1. low \in 1 .. n
    BY <1>1
  <2> HIDE DEF kept
  <2> QED BY <1>1, <1>6, <2>1, FS_Interval
<1>8. low <= settled + 1
  <2>1. CASE settled = 0
    <3>1. 1 \in kept
      BY <1>1, <1>3, <1>5, <2>1 DEF DatesAreOrdered
    <3> QED BY <1>1, <1>5, <2>1, <3>1
  <2>2. CASE settled # 0
    <3>1. settled \in kept
      BY <1>1, <1>3, <2>2 DEF DatesAreOrdered
    <3> QED BY <1>1, <1>5, <3>1
  <2> QED BY <2>1, <2>2
<1>9. low \in 1 .. n
  BY <1>1
<1> QED BY <1>2, <1>7, <1>8, <1>9

\* Where an article was seen, and no move left from there.
Found(i, title) ==
  \E m \in i .. Len(moveLog) : /\ moveLog[m].article = moveLog[i].article /\ moveLog[m].to = title
                               /\ NotLeft(title, m, Len(moveLog))

\* Collapsing gives each move the title where its article is.
Resolved(i, e) == e.from = moveLog[i].from /\ Found(i, e.to)
CollapseFinds(log, low) ==
  /\ Collapse(log) \in Seq([from : AllTitles, to : AllTitles])
  /\ \A i \in low .. Len(moveLog) : \E e \in ToSet(Collapse(log)) : Resolved(i, e)
  /\ \A e \in ToSet(Collapse(log)) : \E i \in low .. Len(moveLog) : Resolved(i, e)

LEMMA CollapseFollowsArticles ==
  ASSUME MoverTypeOK, MovesAreLinked, NEW low \in 1 .. Len(moveLog), NEW log,
         log = [k \in 1 .. Len(moveLog) + 1 - low |-> moveLog[Len(moveLog) + 1 - k]]
  PROVE  CollapseFinds(log, low)
<1> DEFINE n == Len(moveLog)
           len == n + 1 - low
<1>1. n \in Nat /\ len \in Nat /\ DOMAIN log = 1 .. len
  BY DEF MoverTypeOK
<1>a. PICK f : CollapsesTo(log, len, f)
  <2> HIDE DEF len
  <2> QED BY <1>1, CollapseIsBuilt
<1>2. /\ \A k \in 1 .. len : f[k] = NameOf(log, f, k)
      /\ Collapse(log) = [k \in 1 .. len |-> [from |-> log[k].from, to |-> f[k]]]
  BY <1>a DEF CollapsesTo
<1>3. \A k \in 1 .. len : log[k] = moveLog[n + 1 - k]
  BY <1>1
<1> DEFINE N == {k \in 0 .. len : \A j \in 1 .. k : Found(n + 1 - j, f[j])}
<1>4. 0 \in N
  BY <1>1
<1>5. ASSUME NEW k \in 1 .. len, k - 1 \in N
      PROVE  k \in N
  <2> DEFINE newer == {j \in 1 .. k - 1 : log[j].from = log[k].to}
             i == n + 1 - k
  <2>1. i \in 1 .. n /\ log[k] = moveLog[i]
    BY <1>1, <1>3
  <2>0. ASSUME Found(i, f[k])  PROVE k \in N
    <3>1. \A j \in 1 .. k : j = k \/ j \in 1 .. k - 1
      OBVIOUS
    <3>2. \A j \in 1 .. k - 1 : Found(n + 1 - j, f[j])
      BY <1>5
    <3>3. k \in 0 .. len
      BY <1>1
    <3> QED BY <2>0, <3>1, <3>2, <3>3
  <2>2. CASE newer = {}
    <3>1. f[k] = moveLog[i].to
      BY <1>2, <2>1, <2>2 DEF NameOf
    <3>2. ASSUME NEW p \in i + 1 .. n  PROVE moveLog[p].from # moveLog[i].to
      <4>1. n + 1 - p \in 1 .. k - 1 /\ log[n + 1 - p] = moveLog[p]
        BY <1>1, <1>3, <2>1
      <4> QED BY <2>1, <2>2, <4>1
    <3>3. Found(i, f[k])
      BY <2>1, <3>1, <3>2 DEF Found, NotLeft, NoneFrom
    <3> QED BY <2>0, <3>3
  <2>3. CASE newer # {}
    <3>1. PICK j : j = Max(newer)
      OBVIOUS
    <3>2. j \in newer /\ \A y \in newer : y <= j
      <4>1. newer \subseteq 1 .. k - 1 /\ k - 1 \in Nat
        BY <1>1
      <4> HIDE DEF newer
      <4> QED BY <2>3, <3>1, <4>1, NewestOf
    <3>3. f[k] = f[j]
      BY <1>2, <2>3, <3>1 DEF NameOf
    <3>4. PICK p : p = n + 1 - j
      OBVIOUS
    <3>5. p \in i + 1 .. n /\ log[j] = moveLog[p] /\ moveLog[p].from = moveLog[i].to
      BY <1>1, <1>3, <2>1, <3>2, <3>4
    <3>6. NotLeft(moveLog[i].to, i, p - 1)
      <4> SUFFICES ASSUME NEW y \in i + 1 .. p - 1, moveLog[y].from = moveLog[i].to  PROVE FALSE
        BY DEF NotLeft, NoneFrom
      <4>1. n + 1 - y \in 1 .. k - 1 /\ log[n + 1 - y] = moveLog[y] /\ n + 1 - y > j
        <5>1. j \in 1 .. k - 1 /\ p \in Int /\ y \in Int /\ y > i /\ y < p
          BY <1>1, <3>2, <3>5
        <5>2. n + 1 - y \in 1 .. k - 1 /\ n + 1 - y > j
          BY <1>1, <3>4, <5>1
        <5>3. n + 1 - y \in 1 .. len /\ n + 1 - (n + 1 - y) = y
          BY <1>1, <5>1, <5>2
        <5> QED BY <1>3, <5>2, <5>3
      <4>2. n + 1 - y \in newer
        BY <2>1, <4>1
      <4>3. n + 1 - y <= j
        <5> HIDE DEF newer
        <5> QED BY <3>2, <4>2
      <4> QED BY <1>1, <3>2, <4>1, <4>3
    <3>7. moveLog[p].article = moveLog[i].article
      BY <2>1, <3>5, <3>6 DEF MovesAreLinked
    <3>8. Found(p, f[j])
      BY <1>5, <3>2, <3>4
    <3>9. Found(i, f[k])
      <4>1. PICK m \in p .. n : /\ moveLog[m].article = moveLog[p].article /\ moveLog[m].to = f[j]
                                /\ NotLeft(f[j], m, n)
        BY <3>8 DEF Found
      <4>2. m \in i .. n
        BY <1>1, <2>1, <3>5
      <4> QED BY <3>3, <3>7, <4>1, <4>2 DEF Found
    <3> QED BY <2>0, <3>9
  <2> QED BY <2>2, <2>3
<1>6. 0 .. len \subseteq N
  <2> HIDE DEF N, len
  <2> QED BY <1>1, <1>4, <1>5, InductionUpTo
<1>7. ASSUME NEW k \in 1 .. len
      PROVE  /\ Collapse(log)[k] = [from |-> moveLog[n + 1 - k].from, to |-> f[k]]
             /\ Found(n + 1 - k, f[k])
  <2>1. Collapse(log)[k] = [from |-> moveLog[n + 1 - k].from, to |-> f[k]]
    BY <1>2, <1>3
  <2>2. k \in N
    <3> HIDE DEF N, len
    <3>1. k \in 0 .. len
      BY <1>1
    <3> QED BY <1>6, <3>1
  <2> QED BY <2>1, <2>2
<1>8. DOMAIN Collapse(log) = 1 .. len
  BY <1>2
<1>9. ASSUME NEW k \in 1 .. len
      PROVE  Collapse(log)[k] \in [from : AllTitles, to : AllTitles] /\ Resolved(n + 1 - k, Collapse(log)[k])
  <2>1. PICK i : i = n + 1 - k
    OBVIOUS
  <2>2. i \in 1 .. n
    BY <1>1, <2>1
  <2>3. moveLog[i].from \in AllTitles /\ \A m \in 1 .. n : moveLog[m].to \in AllTitles
    BY <2>2, MovesAreTyped
  <2>4. f[k] \in AllTitles
    <3>1. PICK m \in i .. n : moveLog[m].to = f[k]
      BY <1>7, <2>1 DEF Found
    <3> QED BY <1>1, <2>2, <2>3, <3>1
  <2>5. Collapse(log)[k] = [from |-> moveLog[i].from, to |-> f[k]] /\ Found(i, f[k])
    BY <1>7, <2>1
  <2> QED BY <2>1, <2>3, <2>4, <2>5 DEF Resolved
<1>10. Collapse(log) \in Seq([from : AllTitles, to : AllTitles])
  <2>1. PICK c : c = Collapse(log)
    OBVIOUS
  <2>2. c = [k \in 1 .. len |-> c[k]] /\ \A k \in 1 .. len : c[k] \in [from : AllTitles, to : AllTitles]
    BY <1>2, <1>9, <2>1
  <2>3. c \in Seq([from : AllTitles, to : AllTitles])
    <3> HIDE DEF len
    <3> QED BY <1>1, <2>2, FunctionIsSequence
  <2> QED BY <2>1, <2>3
<1>11. ASSUME NEW i \in low .. n
       PROVE  \E e \in ToSet(Collapse(log)) : Resolved(i, e)
  <2>1. PICK k : k = n + 1 - i
    OBVIOUS
  <2>2. k \in 1 .. len /\ i = n + 1 - k
    BY <1>1, <2>1
  <2>3. Collapse(log)[k] \in ToSet(Collapse(log))
    BY <1>8, <2>2 DEF ToSet
  <2> QED BY <1>9, <2>2, <2>3
<1>12. ASSUME NEW e \in ToSet(Collapse(log))
       PROVE  \E i \in low .. n : Resolved(i, e)
  <2>1. PICK k \in 1 .. len : e = Collapse(log)[k]
    BY <1>8, <1>12 DEF ToSet
  <2>2. n + 1 - k \in low .. n
    BY <1>1
  <2> QED BY <1>9, <2>1, <2>2
<1> QED BY <1>10, <1>11, <1>12 DEF CollapseFinds


---------------------------------------------------------------------------
(* Subpages mover: the steps. *)

\* No move leads back to a title that was left for good.
Abandoned(i) == ~IsArticle(moveLog[i].from) /\ NotLeft(moveLog[i].from, i, Len(moveLog))

LEMMA NoReturn ==
  ASSUME MoverTypeOK, TargetsHold, NEW i \in 1 .. Len(moveLog), Abandoned(i)
  PROVE  \A j \in i + 1 .. Len(moveLog) : moveLog[j].to # moveLog[i].from
<1> SUFFICES ASSUME NEW j \in i + 1 .. Len(moveLog), moveLog[j].to = moveLog[i].from  PROVE FALSE
  OBVIOUS
<1>1. j \in 1 .. Len(moveLog) /\ j + 1 .. Len(moveLog) \subseteq i + 1 .. Len(moveLog)
  BY MovesAreTyped
<1>2. NotLeft(moveLog[j].to, j, Len(moveLog))
  BY <1>1 DEF Abandoned, NotLeft, NoneFrom
<1>3. pages[moveLog[j].to] = moveLog[j].article
  BY <1>1, <1>2 DEF TargetsHold
<1> QED BY <1>1, <1>3, MovesAreTyped DEF Abandoned, IsArticle

\* An event never leads to a title that was left for good before the run has read the log.
LEMMA EventsLeadElsewhere ==
  ASSUME MoverTypeOK, TargetsHold, DatesAreOrdered, NEW i \in 1 .. seen, Abandoned(i),
         NEW e, NEW k \in 1 .. seen, LeadsTo(e, k)
  PROVE  e.to # moveLog[i].from
<1> SUFFICES ASSUME e.to = moveLog[i].from  PROVE FALSE
  OBVIOUS
<1>1. PICK m \in k .. seen : moveLog[m].to = e.to /\ NotLeft(e.to, m, seen)
  BY DEF LeadsTo
<1>2. m \in 1 .. Len(moveLog) /\ i \in 1 .. Len(moveLog) /\ Len(moveLog) \in Nat /\ seen \in Nat
  BY MovesAreTyped
<1>3. ~(i > m)
  BY <1>1, <1>2 DEF NotLeft, NoneFrom
<1>4. i # m
  BY <1>1, <1>2 DEF DatesAreOrdered
<1>5. m \in i + 1 .. Len(moveLog)
  BY <1>2, <1>3, <1>4
<1> QED BY <1>1, <1>2, <1>5, NoReturn

\* processMove applies to an event whose title was left for good, unless its
\* target disappeared during the run.
LEMMA EventsApply ==
  ASSUME MoverTypeOK, MapIsSound, GoneIsHidden, newest # 0, NEW i \in 1 .. seen,
         Abandoned(i), Traceable(i), NEW e, LeadsTo(e, i)
  PROVE  Applies(e)
<1> DEFINE n == Len(moveLog)
<1>1. PICK m \in i .. seen : /\ moveLog[m].article = moveLog[i].article /\ moveLog[m].to = e.to
                             /\ NotLeft(e.to, m, seen)
  BY DEF LeadsTo
<1>2. m \in 1 .. n /\ i \in 1 .. n /\ n \in Nat /\ seen \in 0 .. n
  BY MovesAreTyped
<1>3. ASSUME NEW k \in 1 .. n, moveLog[k].to = e.to, NotLeft(e.to, k, n)
      PROVE  pages[e.to] # "none"
  <2>1. pages[e.to] = moveLog[k].article
    BY <1>3 DEF MapIsSound, TargetsHold
  <2>2. pages[e.to] \in FirstTitles
    BY <2>1, MovesAreTyped
  <2> QED BY <2>2, TitlesAreNames
<1>4. SUFFICES pages[e.to] # "none"
  BY DEF Applies, Abandoned, LeadsTo
<1>5. CASE NotLeft(e.to, m, n)
  BY <1>1, <1>2, <1>3, <1>5
<1>6. CASE ~NotLeft(e.to, m, n)
  <2> DEFINE leaving == {k \in m + 1 .. n : moveLog[k].from = e.to}
  <2>1. leaving # {} /\ leaving \subseteq Nat /\ \A k \in leaving : k <= n
    BY <1>2, <1>6 DEF NotLeft, NoneFrom
  <2>2. PICK first \in leaving : \A k \in leaving : first <= k
    <3> HIDE DEF leaving
    <3> QED BY <2>1, LeastNatural
  <2>3. PICK last \in leaving : \A k \in leaving : k <= last
    <3>1. leaving \subseteq Int /\ n \in Int
      BY <1>2, <2>1
    <3> HIDE DEF leaving, n
    <3> QED BY <2>1, <3>1, GreatestInteger
  <2>4. moveLog[first].article = moveLog[i].article
    <3>1. NotLeft(moveLog[m].to, m, first - 1)
      BY <1>1, <1>2, <2>2 DEF NotLeft, NoneFrom
    <3> QED BY <1>1, <1>2, <2>2, <3>1 DEF MapIsSound, MovesAreLinked
  <2>5. first \in Journey(i) /\ last \in i .. n
    BY <1>2, <2>2, <2>3, <2>4 DEF Journey
  <2>6. moveLog[last].from = moveLog[first].from /\ moveLog[last].from = e.to
    OBVIOUS
  <2>7. ~moveLog[last].hidden
    BY <2>5, <2>6 DEF Traceable
  <2>8. last \in seen + 1 .. n
    BY <1>1, <1>2, <2>3 DEF NotLeft, NoneFrom
  <2>9. CASE \E k \in last + 1 .. n : moveLog[k].to = e.to
    <3>1. PICK k \in last + 1 .. n : moveLog[k].to = e.to
      BY <2>9
    <3>2. k \in 1 .. n /\ NotLeft(e.to, k, n)
      BY <1>2, <2>3, <3>1 DEF NotLeft, NoneFrom
    <3> QED BY <1>3, <3>1, <3>2
  <2>10. CASE ~\E k \in last + 1 .. n : moveLog[k].to = e.to
    <3>1. Untouched(last)
      BY <1>2, <2>3, <2>6, <2>10 DEF Untouched
    <3> QED BY <2>6, <2>7, <2>8, <3>1 DEF GoneIsHidden
  <2> QED BY <2>9, <2>10
<1> QED BY <1>5, <1>6

\* What is left behind was abandoned.
LEMMA LeftIsAbandoned ==
  ASSUME NEW i, NEW x, LeftBehind(i, x)
  PROVE  Abandoned(i) /\ Traceable(i) /\ HasText(moveLog[i].from, x)
BY DEF LeftBehind, Abandoned, NotLeft, NoneFrom

\* processMove moves the subpages or gives them up.
LEMMA ProcessingLeavesNothing ==
  ASSUME NothingLeftBehind, ProcessMove
  PROVE  NothingLeftBehind'
<1>0. /\ MoverTypeOK /\ DatesAreOrdered /\ MapIsSound /\ GoneIsHidden
      /\ EventsAreSound /\ PendingIsLeft /\ SettledIsDone
  BY DEF NothingLeftBehind
<1> DEFINE e == Head(events)
           present == Present(e)
<1>1. PICK refused \in SUBSET present, done \in SUBSET present :
        /\ subpages' = MoveSubpages(e, done)
        /\ skipped' = {p \in skipped \cup ({e.from} \X (present \ done)) : subpages'[p] = "text"}
        /\ moveErrors' = moveErrors + (IF refused \cup done = present THEN 0 ELSE 1)
  BY DEF ProcessMove
<1>2. /\ events # <<>> /\ events' = Tail(events)
      /\ UNCHANGED <<pages, moveLog, now, lastProcessed, newest, settled, seen, quiet>>
  BY DEF ProcessMove
<1>3. /\ events \in Seq([from : Titles, to : Titles]) /\ e \in ToSet(events)
      /\ e \in [from : Titles, to : Titles]
      /\ events' \in Seq([from : Titles, to : Titles])
      /\ \A d \in ToSet(events) : d = e \/ d \in ToSet(events')
      /\ \A d \in ToSet(events') : d \in ToSet(events)
  <2>1. events \in Seq([from : Titles, to : Titles]) /\ Len(events) \in Nat \ {0}
    BY <1>0, <1>2 DEF MoverTypeOK
  <2>2. Tail(events) \in Seq([from : Titles, to : Titles]) /\ Len(Tail(events)) = Len(events) - 1
    BY <1>2, <2>1
  <2>3. \A k \in 1 .. Len(Tail(events)) : Tail(events)[k] = events[k + 1]
    BY <1>2, <2>1
  <2>4. ASSUME NEW d \in ToSet(events)  PROVE d = e \/ d \in ToSet(Tail(events))
    <3>1. PICK k \in 1 .. Len(events) : d = events[k]
      BY <2>1 DEF ToSet
    <3>2. CASE k = 1
      BY <2>1, <3>1, <3>2
    <3>3. CASE k # 1
      <4>1. k - 1 \in 1 .. Len(Tail(events)) /\ Tail(events)[k - 1] = d
        BY <2>1, <2>2, <2>3, <3>1, <3>3
      <4>2. DOMAIN Tail(events) = 1 .. Len(Tail(events))
        BY <2>2
      <4> QED BY <4>1, <4>2 DEF ToSet
    <3> QED BY <3>2, <3>3
  <2>5. ASSUME NEW d \in ToSet(Tail(events))  PROVE d \in ToSet(events)
    <3>1. PICK k \in 1 .. Len(Tail(events)) : d = Tail(events)[k]
      BY <2>2 DEF ToSet
    <3>2. k + 1 \in DOMAIN events /\ d = events[k + 1]
      BY <2>1, <2>2, <2>3, <3>1
    <3> QED BY <3>2 DEF ToSet
  <2>6. e \in ToSet(events)
    <3>1. 1 \in DOMAIN events /\ e = events[1]
      BY <2>1
    <3> QED BY <3>1 DEF ToSet
  <2>7. Head(events) \in [from : Titles, to : Titles]
    BY <1>2, <2>1, HeadIsElement
  <2> QED BY <1>2, <2>1, <2>2, <2>4, <2>5, <2>6, <2>7
<1>4. e.from \in AllTitles /\ e.to \in AllTitles
  <2>1. e \in [from : Titles, to : Titles]
    BY <1>3
  <2> HIDE DEF e
  <2> QED BY <2>1 DEF AllTitles
<1>5. subpages' \in [AllTitles \X SubpageNames -> {"none", "text", "redirect"}]
  BY <1>0, <1>1 DEF MoverTypeOK, MoveSubpages
<1>6. MoverTypeOK'
  <2>1. moveErrors' \in Nat
    BY <1>0, <1>1 DEF MoverTypeOK
  <2> QED BY <1>0, <1>2, <1>3, <1>5, <2>1 DEF MoverTypeOK, MoveRecords
<1>7. DatesAreOrdered' /\ GoneIsHidden'
  <2>1. newest # 0
    BY <1>0, <1>2 DEF DatesAreOrdered
  <2> QED BY <1>0, <1>2, <2>1 DEF DatesAreOrdered, GoneIsHidden, Untouched
<1>8. MapIsSound'
  BY <1>0, <1>2 DEF MapIsSound, TitlesDiffer, IsArticle, TargetsHold, MovesAreLinked, ArticlesAreSomewhere, NotLeft, NoneFrom
<1>9. ASSUME NEW d, NEW i  PROVE LeadsTo(d, i)' <=> LeadsTo(d, i)
  BY <1>2 DEF LeadsTo, NotLeft, NoneFrom
<1>10. EventsAreSound'
  BY <1>0, <1>2, <1>3, <1>9 DEF EventsAreSound
<1>11. ASSUME NEW i \in 1 .. seen, NEW x \in SubpageNames, LeftBehind(i, x)'
       PROVE  LeftBehind(i, x) /\ ~LeadsTo(e, i)
  <2>1. /\ moveLog[i].from \in Titles /\ ~IsArticle(moveLog[i].from)
        /\ \A j \in i + 1 .. Len(moveLog) : moveLog[j].from # moveLog[i].from
        /\ \E home \in Titles : pages[home] = moveLog[i].article
        /\ Traceable(i)
    BY <1>2, <1>11 DEF LeftBehind, IsArticle, Traceable, Journey
  <2>2. subpages'[<<moveLog[i].from, x>>] = "text" /\ <<moveLog[i].from, x>> \notin skipped'
    BY <1>2, <1>11 DEF LeftBehind, HasText
  <2>3. PICK t : t = moveLog[i].from
    OBVIOUS
  <2>4. t \in AllTitles /\ <<t, x>> \in DOMAIN subpages
    BY <1>0, <2>1, <2>3 DEF AllTitles, MoverTypeOK
  <2>5. Abandoned(i)
    BY <2>1 DEF Abandoned, NotLeft, NoneFrom
  <2>6. t # e.to
    <3>1. PICK k \in 1 .. seen : LeadsTo(e, k)
      BY <1>0, <1>3 DEF EventsAreSound
    <3> QED BY <1>0, <2>3, <2>5, <3>1, EventsLeadElsewhere DEF MapIsSound
  <2>7. subpages[<<t, x>>] = "text" /\ ~(x \in done /\ t = e.from)
    <3>1. subpages'[<<t, x>>] = IF x \notin done THEN subpages[<<t, x>>]
                               ELSE IF t = e.from
                                    THEN (IF x \in NoRedirectNames THEN "none" ELSE "redirect")
                                    ELSE subpages[<<t, x>>]
      BY <1>1, <2>4, <2>6 DEF MoveSubpages
    <3> QED BY <2>2, <2>3, <3>1
  <2>8. <<t, x>> \notin skipped /\ ~(t = e.from /\ x \in present \ done)
    <3> HIDE DEF e, present
    <3> QED BY <1>1, <2>2, <2>3
  <2>9. LeftBehind(i, x)
    BY <2>1, <2>3, <2>7, <2>8 DEF LeftBehind, HasText
  <2>10. ~LeadsTo(e, i)
    <3> SUFFICES ASSUME LeadsTo(e, i)  PROVE FALSE
      OBVIOUS
    <3>1. t = e.from
      BY <2>3 DEF LeadsTo
    <3>2. newest # 0
      BY <1>0, <1>2 DEF DatesAreOrdered
    <3>3. Applies(e)
      BY <1>0, <2>1, <2>5, <3>2, EventsApply
    <3>4. x \in present
      BY <2>7, <3>1, <3>3 DEF Present, HasText
    <3> HIDE DEF e, present
    <3> QED BY <2>7, <2>8, <3>1, <3>4
  <2> QED BY <2>9, <2>10
<1>12. PendingIsLeft'
  <2> SUFFICES ASSUME NEW i \in 1 .. seen, NEW x \in SubpageNames, LeftBehind(i, x)'
               PROVE  \E d \in ToSet(events') : LeadsTo(d, i)'
    BY <1>2 DEF PendingIsLeft
  <2>1. PICK d \in ToSet(events) : LeadsTo(d, i)
    BY <1>0, <1>11 DEF PendingIsLeft
  <2>2. d # e
    BY <1>11, <2>1
  <2> QED BY <1>3, <1>9, <2>1, <2>2
<1>13. SettledIsDone'
  <2> SUFFICES ASSUME NEW i \in 1 .. settled, NEW x \in SubpageNames, LeftBehind(i, x)'
               PROVE  FALSE
    BY <1>2 DEF SettledIsDone
  <2>1. i \in 1 .. seen
    BY <1>0, MovesAreTyped
  <2> QED BY <1>0, <1>11, <2>1 DEF SettledIsDone
<1> QED BY <1>6, <1>7, <1>8, <1>10, <1>12, <1>13 DEF NothingLeftBehind


\* A user renames a page: what was abandoned before and after is the same.
LEMMA RenamingLeavesNothing ==
  ASSUME NothingLeftBehind, NEW from \in AllTitles, NEW to \in AllTitles,
         NEW r \in BOOLEAN, NEW s \in BOOLEAN, NEW d \in BOOLEAN, Rename(from, to, r, s, d)
  PROVE  NothingLeftBehind'
<1>0. /\ MoverTypeOK /\ DatesAreOrdered /\ MapIsSound /\ GoneIsHidden
      /\ EventsAreSound /\ PendingIsLeft /\ SettledIsDone
  BY DEF NothingLeftBehind
<1> DEFINE n == Len(moveLog)
           new == [from |-> from, to |-> to, time |-> IF d THEN now ELSE now + 1,
                   article |-> pages[from], seen |-> seen, hidden |-> newest # 0 /\ ~r]
<1>1. /\ from # to /\ IsArticle(from) /\ ~IsArticle(to)
      /\ pages' = [pages EXCEPT ![to] = pages[from], ![from] = IF r THEN "redirect" ELSE "none"]
      /\ subpages' = IF s THEN MoveSubpages(new, {x \in NamesFree(new) : HasText(from, x)}) ELSE subpages
      /\ moveLog' = Append(moveLog, new) /\ now' = new.time
      /\ skipped' = {p \in skipped : p[1] # from} /\ quiet' = FALSE
      /\ UNCHANGED <<settled, seen, lastProcessed, events, newest, moveErrors>>
  BY DEF Rename
<1>2. n \in Nat /\ now \in Nat \ {0} /\ seen \in 0 .. n /\ settled \in 0 .. seen
  BY <1>0, MovesAreTyped DEF MoverTypeOK
<1>3. new \in MoveRecords
  BY <1>0, <1>1, <1>2 DEF MoveRecords, IsArticle, MoverTypeOK
<1>4. /\ Len(moveLog') = n + 1 /\ moveLog'[n + 1] = new
      /\ \A i \in 1 .. n : moveLog'[i] = moveLog[i]
      /\ moveLog' \in Seq(MoveRecords)
  BY <1>0, <1>1, <1>3 DEF MoverTypeOK
<1>a. PICK last : last = new
  OBVIOUS
<1>b. last.time = IF d THEN now ELSE now + 1
  BY <1>a
<1>c. last.hidden = (newest # 0 /\ ~r)
  BY <1>a
<1>5. /\ last = new /\ last.from = from /\ last.to = to /\ last.article = pages[from] /\ last.seen = seen
      /\ last.hidden = (newest # 0 /\ ~r) /\ last.time \in Nat \ {0} /\ now <= last.time
  BY <1>2, <1>a, <1>b, <1>c
<1>6. now' = last.time /\ moveLog'[n + 1] = last
  BY <1>1, <1>4, <1>5
<1> HIDE DEF new
<1>7. /\ pages'[to] = pages[from] /\ pages'[from] = (IF r THEN "redirect" ELSE "none")
      /\ \A t \in AllTitles : t # from /\ t # to => pages'[t] = pages[t]
      /\ pages' \in [AllTitles -> FirstTitles \cup {"none", "redirect"}]
      /\ pages[from] \in FirstTitles /\ "redirect" \notin FirstTitles /\ "none" \notin FirstTitles
  <2>1. pages \in [AllTitles -> FirstTitles \cup {"none", "redirect"}] /\ pages[from] \in FirstTitles
    BY <1>0, <1>1 DEF MoverTypeOK, IsArticle
  <2>2. "redirect" \notin FirstTitles /\ "none" \notin FirstTitles
    BY TitlesAreNames
  <2>3. (IF r THEN "redirect" ELSE "none") \in {"none", "redirect"}
    OBVIOUS
  <2> QED BY <1>1, <2>1, <2>2, <2>3
<1>8. \A i \in 1 .. n : moveLog[i].from \in AllTitles /\ moveLog[i].to \in AllTitles /\ moveLog[i].article \in FirstTitles
  BY <1>0, MovesAreTyped
<1>9. MoverTypeOK'
  <2>1. subpages' \in [AllTitles \X SubpageNames -> {"none", "text", "redirect"}]
    BY <1>0, <1>1 DEF MoverTypeOK, MoveSubpages
  <2>2. now' \in Nat \ {0}
    BY <1>5, <1>6
  <2>3. seen <= Len(moveLog')
    BY <1>2, <1>4
  <2> QED BY <1>0, <1>1, <1>4, <1>7, <2>1, <2>2, <2>3 DEF MoverTypeOK, MoveRecords
<1>10. DatesAreOrdered'
  <2>1. \A i \in 1 .. n + 1 : i \in 1 .. n \/ i = n + 1
    BY <1>2
  <2>2. \A i \in 1 .. n : moveLog[i].time \in Nat /\ moveLog[i].time <= now /\ moveLog[i].from # moveLog[i].to
    BY <1>0, MovesAreTyped DEF DatesAreOrdered
  <2>3. \A i \in 1 .. n + 1 : moveLog'[i].time <= now' /\ moveLog'[i].from # moveLog'[i].to
    BY <1>1, <1>2, <1>4, <1>5, <1>6, <2>1, <2>2
  <2>4. \A i, j \in 1 .. n + 1 : i <= j => moveLog'[i].time <= moveLog'[j].time
    <3> SUFFICES ASSUME NEW i \in 1 .. n + 1, NEW j \in 1 .. n + 1, i <= j
                 PROVE  moveLog'[i].time <= moveLog'[j].time
      OBVIOUS
    <3>1. CASE j = n + 1
      BY <1>6, <2>3, <3>1
    <3>2. CASE j # n + 1
      <4>1. i \in 1 .. n /\ j \in 1 .. n
        BY <1>2, <3>2
      <4> QED BY <1>0, <1>4, <4>1 DEF DatesAreOrdered
    <3> QED BY <3>1, <3>2
  <2>5. settled # 0 => moveLog'[settled] = moveLog[settled]
    BY <1>2, <1>4
  <2>6. newest # 0 => seen # 0 /\ moveLog'[seen] = moveLog[seen]
    BY <1>0, <1>2, <1>4 DEF DatesAreOrdered
  <2> QED BY <1>0, <1>1, <1>4, <2>3, <2>4, <2>5, <2>6 DEF DatesAreOrdered
<1>11. ASSUME NEW t, NEW i \in 1 .. n, NEW j \in 1 .. n
       PROVE  NoneFrom(moveLog', t, i, j) <=> NoneFrom(moveLog, t, i, j)
  <2>1. \A k \in i + 1 .. j : moveLog'[k] = moveLog[k]
    BY <1>2, <1>4
  <2> QED BY <2>1 DEF NotLeft, NoneFrom
<1>12. ASSUME NEW t, NEW i \in 1 .. n, NoneFrom(moveLog', t, i, n + 1)
       PROVE  NoneFrom(moveLog, t, i, n) /\ t # from
  <2>1. \A k \in i + 1 .. n : k \in i + 1 .. n + 1
    BY <1>2
  <2>2. n + 1 \in i + 1 .. n + 1
    BY <1>2
  <2>3. NoneFrom(moveLog', t, i, n)
    BY <1>12, <2>1 DEF NotLeft, NoneFrom
  <2>4. t # from
    BY <1>5, <1>6, <1>12, <2>2 DEF NotLeft, NoneFrom
  <2>5. n \in 1 .. n
    BY <1>2
  <2> QED BY <1>11, <2>3, <2>4, <2>5
<1>13. MapIsSound'
  <2>1. TitlesDiffer'
    <3> SUFFICES ASSUME NEW t \in AllTitles, NEW u \in AllTitles, pages'[t] \in FirstTitles, pages'[t] = pages'[u]
                 PROVE  t = u
      BY DEF TitlesDiffer, IsArticle
    <3>1. t # from /\ u # from
      BY <1>7
    <3>2. \A v \in AllTitles : v # from => pages[v] # pages[from]
      BY <1>0, <1>1 DEF MapIsSound, TitlesDiffer, IsArticle
    <3>3. CASE t = to \/ u = to
      BY <1>7, <3>1, <3>2, <3>3
    <3>4. CASE t # to /\ u # to
      <4>1. pages[t] \in FirstTitles /\ pages[t] = pages[u]
        BY <1>7, <3>1, <3>4
      <4> QED BY <1>0, <4>1 DEF MapIsSound, TitlesDiffer, IsArticle
    <3> QED BY <3>3, <3>4
  <2>2. TargetsHold'
    <3> SUFFICES ASSUME NEW i \in 1 .. n + 1, NoneFrom(moveLog', moveLog'[i].to, i, n + 1)
                 PROVE  pages'[moveLog'[i].to] = moveLog'[i].article
      BY <1>4 DEF TargetsHold, NotLeft
    <3>1. CASE i = n + 1
      BY <1>5, <1>6, <1>7, <3>1
    <3>2. CASE i # n + 1
      <4>1. i \in 1 .. n /\ moveLog'[i] = moveLog[i]
        BY <1>2, <1>4, <3>2
      <4>2. NoneFrom(moveLog, moveLog[i].to, i, n) /\ moveLog[i].to # from
        <5>1. PICK t : t = moveLog[i].to
          OBVIOUS
        <5>2. NoneFrom(moveLog', t, i, n + 1)
          BY <4>1, <5>1 DEF NotLeft, NoneFrom
        <5> QED BY <1>12, <4>1, <5>1, <5>2
      <4>3. pages[moveLog[i].to] = moveLog[i].article /\ moveLog[i].article \in FirstTitles
        BY <1>0, <1>8, <4>1, <4>2 DEF MapIsSound, TargetsHold, NotLeft
      <4>4. moveLog[i].to # to /\ moveLog[i].to \in AllTitles
        BY <1>1, <1>8, <4>1, <4>3 DEF IsArticle
      <4> QED BY <1>7, <4>1, <4>2, <4>3, <4>4
    <3> QED BY <3>1, <3>2
  <2>3. MovesAreLinked'
    <3> SUFFICES ASSUME NEW i \in 1 .. n + 1, NEW j \in i + 1 .. n + 1,
                        moveLog'[j].from = moveLog'[i].to, NoneFrom(moveLog', moveLog'[i].to, i, j - 1)
                 PROVE  moveLog'[j].article = moveLog'[i].article
      BY <1>4 DEF MovesAreLinked, NotLeft
    <3>1. i \in 1 .. n /\ moveLog'[i] = moveLog[i] /\ j - 1 \in 1 .. n
      BY <1>2, <1>4
    <3>2. PICK t : t = moveLog[i].to
      OBVIOUS
    <3>3. NoneFrom(moveLog', t, i, j - 1)
      BY <3>1, <3>2 DEF NotLeft, NoneFrom
    <3>4. NoneFrom(moveLog, moveLog[i].to, i, j - 1)
      BY <1>11, <3>1, <3>2, <3>3
    <3>5. CASE j = n + 1
      <4>1. NoneFrom(moveLog, moveLog[i].to, i, n) /\ moveLog[i].to = from
        BY <1>2, <1>5, <1>6, <3>1, <3>4, <3>5
      <4>2. pages[from] = moveLog[i].article
        BY <1>0, <3>1, <4>1 DEF MapIsSound, TargetsHold, NotLeft
      <4> QED BY <1>5, <1>6, <3>1, <3>5, <4>2
    <3>6. CASE j # n + 1
      <4>1. j \in i + 1 .. n /\ moveLog'[j] = moveLog[j]
        BY <1>2, <1>4, <3>1, <3>6
      <4> QED BY <1>0, <3>1, <3>4, <4>1 DEF MapIsSound, MovesAreLinked, NotLeft
    <3> QED BY <3>5, <3>6
  <2>4. ArticlesAreSomewhere'
    <3> SUFFICES ASSUME NEW i \in 1 .. n + 1
                 PROVE  \E m \in i .. n + 1 : /\ moveLog'[m].article = moveLog'[i].article
                                              /\ pages'[moveLog'[m].to] = moveLog'[i].article
      BY <1>4 DEF ArticlesAreSomewhere
    <3>1. CASE moveLog'[i].article = pages[from]
      <4>1. n + 1 \in i .. n + 1
        BY <1>2
      <4>2. moveLog'[n + 1].article = pages[from] /\ pages'[moveLog'[n + 1].to] = pages[from]
        BY <1>5, <1>6, <1>7
      <4> QED BY <3>1, <4>1, <4>2
    <3>2. CASE moveLog'[i].article # pages[from]
      <4>1. i \in 1 .. n /\ moveLog'[i] = moveLog[i]
        BY <1>2, <1>4, <1>5, <1>6, <3>2
      <4>2. PICK m \in i .. n : moveLog[m].article = moveLog[i].article /\ pages[moveLog[m].to] = moveLog[i].article
        BY <1>0, <4>1 DEF MapIsSound, ArticlesAreSomewhere
      <4>3. m \in 1 .. n /\ m \in i .. n + 1 /\ moveLog'[m] = moveLog[m]
        BY <1>2, <1>4, <4>1
      <4>4. moveLog[m].to \in AllTitles /\ moveLog[m].to # from /\ moveLog[m].to # to
        BY <1>1, <1>8, <3>2, <4>1, <4>2, <4>3 DEF IsArticle
      <4> QED BY <1>7, <4>1, <4>2, <4>3, <4>4
    <3> QED BY <3>1, <3>2
  <2> QED BY <2>1, <2>2, <2>3, <2>4 DEF MapIsSound
<1>14. GoneIsHidden'
  <2> SUFFICES ASSUME newest # 0, NEW j \in seen + 1 .. n + 1, Untouched(j)', pages'[moveLog'[j].from] = "none"
               PROVE  moveLog'[j].hidden
    BY <1>1, <1>4 DEF GoneIsHidden
  <2>1. CASE j = n + 1
    BY <1>5, <1>6, <1>7, <2>1
  <2>2. CASE j # n + 1
    <3>1. j \in seen + 1 .. n /\ j \in 1 .. n /\ moveLog'[j] = moveLog[j] /\ n + 1 \in j + 1 .. n + 1
      BY <1>2, <1>4, <2>2
    <3>2. moveLog[j].from # from /\ moveLog[j].from # to
      BY <1>4, <1>5, <1>6, <3>1 DEF Untouched
    <3>3. pages[moveLog[j].from] = "none"
      BY <1>7, <1>8, <3>1, <3>2
    <3>4. Untouched(j)
      <4>1. \A k \in j + 1 .. n : k \in j + 1 .. n + 1 /\ moveLog'[k] = moveLog[k]
        BY <1>2, <1>4, <3>1
      <4> QED BY <1>4, <3>1, <4>1 DEF Untouched
    <3> QED BY <1>0, <3>1, <3>3, <3>4 DEF GoneIsHidden
  <2> QED BY <2>1, <2>2
<1>15. ASSUME NEW e, NEW i \in 1 .. seen
       PROVE  LeadsTo(e, i)' <=> LeadsTo(e, i)
  <2>1. \A m \in i .. seen : m \in 1 .. n /\ moveLog'[m] = moveLog[m]
    BY <1>2, <1>4
  <2>2. \A m \in i .. seen : NoneFrom(moveLog', e.to, m, seen) <=> NoneFrom(moveLog, e.to, m, seen)
    <3>1. seen \in 1 .. n
      BY <1>2
    <3> HIDE DEF n
    <3> QED BY <1>11, <2>1, <3>1
  <2>3. i \in i .. seen /\ seen' = seen
    BY <1>1, <1>2
  <2>4. moveLog'[i] = moveLog[i]
    BY <2>1, <2>3
  <2> QED BY <2>1, <2>2, <2>3, <2>4 DEF LeadsTo, NotLeft
<1>16. EventsAreSound'
  BY <1>0, <1>1, <1>15 DEF EventsAreSound
<1>17. ASSUME NEW i \in 1 .. seen, NEW x \in SubpageNames, LeftBehind(i, x)'
       PROVE  LeftBehind(i, x)
  <2>1. i \in 1 .. n /\ moveLog'[i] = moveLog[i] /\ n + 1 \in i + 1 .. n + 1
    BY <1>2, <1>4
  <2>2. PICK t : t = moveLog[i].from /\ t \in AllTitles
    BY <1>8, <2>1
  <2>3. t \in Titles /\ pages'[t] \notin FirstTitles /\ subpages'[<<t, x>>] = "text" /\ <<t, x>> \notin skipped'
    BY <1>17, <2>1, <2>2 DEF LeftBehind, IsArticle, HasText
  <2>4. NoneFrom(moveLog', t, i, n + 1)
    BY <1>4, <1>17, <2>1, <2>2 DEF LeftBehind, NotLeft, NoneFrom
  <2>5. NoneFrom(moveLog, t, i, n) /\ t # from
    BY <1>12, <2>1, <2>4
  <2>6. t # to
    BY <1>7, <2>3
  <2>7. ~IsArticle(t)
    BY <1>7, <2>2, <2>3, <2>5, <2>6 DEF IsArticle
  <2>8. subpages[<<t, x>>] = "text"
    <3>1. <<t, x>> \in DOMAIN subpages
      BY <1>0, <2>2 DEF MoverTypeOK
    <3>2. subpages'[<<t, x>>] = subpages[<<t, x>>]
      BY <1>1, <1>5, <2>5, <2>6, <3>1 DEF MoveSubpages
    <3> QED BY <2>3, <3>2
  <2>9. <<t, x>> \notin skipped
    BY <1>1, <2>3, <2>5
  <2>10. \A j \in Journey(i) : j \in Journey(i)' /\ moveLog'[j] = moveLog[j]
    <3>1. \A j \in i .. n : j \in i .. n + 1 /\ moveLog'[j] = moveLog[j]
      BY <1>2, <1>4, <2>1
    <3> QED BY <1>4, <2>1, <3>1 DEF Journey
  <2>11. Traceable(i)'
    BY <1>17 DEF LeftBehind
  <2>12. Traceable(i)
    <3>1. (\E j \in Journey(i) : moveLog[j].to \notin Titles) => \A j \in Journey(i) : moveLog[j].seen < i
      BY <2>10, <2>11 DEF Traceable
    <3>2. \A k \in i .. n : k \in i .. n + 1 /\ moveLog'[k] = moveLog[k]
      BY <1>2, <1>4, <2>1
    <3>3. \A j \in Journey(i), k \in i .. n : moveLog[k].from = moveLog[j].from => ~moveLog[k].hidden
      BY <1>4, <2>10, <2>11, <3>2 DEF Traceable
    <3> QED BY <3>1, <3>3 DEF Traceable
  <2>13. \E home \in Titles : pages[home] = moveLog[i].article
    <3>1. PICK home \in Titles : pages'[home] = moveLog[i].article
      BY <1>17, <2>1 DEF LeftBehind
    <3>2. PICK m \in i .. n : moveLog[m].article = moveLog[i].article /\ pages[moveLog[m].to] = moveLog[i].article
      BY <1>0, <2>1 DEF MapIsSound, ArticlesAreSomewhere
    <3>3. CASE pages[from] = moveLog[i].article
      <4>1. n + 1 \in Journey(i)' /\ moveLog'[n + 1].seen = seen
        BY <1>2, <1>4, <1>5, <1>6, <2>1, <3>3 DEF Journey
      <4>2. ~(seen < i)
        BY <1>2
      <4>3. m \in Journey(i)' /\ moveLog'[m] = moveLog[m]
        BY <2>10, <3>2 DEF Journey
      <4>4. moveLog[m].to \in Titles
        BY <2>11, <4>1, <4>2, <4>3 DEF Traceable
      <4> QED BY <3>2, <4>4
    <3>4. CASE pages[from] # moveLog[i].article
      <4>1. home # from /\ home # to /\ home \in AllTitles
        BY <1>7, <1>8, <2>1, <3>1, <3>4 DEF AllTitles
      <4> QED BY <1>7, <3>1, <4>1
    <3> QED BY <3>3, <3>4
  <2> QED BY <2>2, <2>3, <2>5, <2>7, <2>8, <2>9, <2>12, <2>13 DEF LeftBehind, HasText, NotLeft, NoneFrom
<1>18. PendingIsLeft'
  <2> SUFFICES ASSUME NEW i \in 1 .. seen, NEW x \in SubpageNames, LeftBehind(i, x)'
               PROVE  \E e \in ToSet(events) : LeadsTo(e, i)'
    BY <1>1 DEF PendingIsLeft
  <2>1. PICK e \in ToSet(events) : LeadsTo(e, i)
    BY <1>0, <1>17 DEF PendingIsLeft
  <2> QED BY <1>15, <2>1
<1>19. SettledIsDone'
  <2> SUFFICES ASSUME NEW i \in 1 .. settled, NEW x \in SubpageNames, LeftBehind(i, x)'
               PROVE  FALSE
    BY <1>1 DEF SettledIsDone
  <2>1. i \in 1 .. seen
    BY <1>2
  <2> QED BY <1>0, <1>17, <2>1 DEF SettledIsDone
<1> QED BY <1>9, <1>10, <1>13, <1>14, <1>16, <1>18, <1>19 DEF NothingLeftBehind


\* A subpage is created in an article: nothing changes at the titles left behind.
LEMMA CreatingLeavesNothing ==
  ASSUME NothingLeftBehind, NEW t \in Titles, NEW y \in SubpageNames, CreateSubpage(t, y)
  PROVE  NothingLeftBehind'
<1>0. /\ MoverTypeOK /\ DatesAreOrdered /\ MapIsSound /\ GoneIsHidden
      /\ EventsAreSound /\ PendingIsLeft /\ SettledIsDone
  BY DEF NothingLeftBehind
<1>1. /\ IsArticle(t) /\ subpages' = [subpages EXCEPT ![<<t, y>>] = "text"] /\ quiet' = FALSE
      /\ UNCHANGED <<settled, seen, skipped, pages, moveLog, now, lastProcessed, events, newest, moveErrors>>
  BY DEF CreateSubpage
<1>2. MoverTypeOK'
  BY <1>0, <1>1 DEF MoverTypeOK, MoveRecords
<1>3. DatesAreOrdered' /\ GoneIsHidden'
  BY <1>0, <1>1 DEF DatesAreOrdered, GoneIsHidden, Untouched
<1>4. MapIsSound'
  BY <1>0, <1>1 DEF MapIsSound, TitlesDiffer, IsArticle, TargetsHold, MovesAreLinked, ArticlesAreSomewhere, NotLeft, NoneFrom
<1>5. ASSUME NEW e, NEW i  PROVE LeadsTo(e, i)' <=> LeadsTo(e, i)
  BY <1>1 DEF LeadsTo, NotLeft, NoneFrom
<1>6. EventsAreSound'
  BY <1>0, <1>1, <1>5 DEF EventsAreSound
<1>7. ASSUME NEW i, NEW x \in SubpageNames, LeftBehind(i, x)'
      PROVE  LeftBehind(i, x)
  <2>1. /\ moveLog[i].from \in Titles /\ ~IsArticle(moveLog[i].from)
        /\ \A j \in i + 1 .. Len(moveLog) : moveLog[j].from # moveLog[i].from
        /\ <<moveLog[i].from, x>> \notin skipped
        /\ \E home \in Titles : pages[home] = moveLog[i].article
        /\ Traceable(i)
    BY <1>1, <1>7 DEF LeftBehind, IsArticle, Traceable, Journey
  <2>2. subpages'[<<moveLog[i].from, x>>] = "text"
    BY <1>1, <1>7 DEF LeftBehind, HasText
  <2>3. moveLog[i].from # t
    BY <1>1, <2>1
  <2>4. subpages[<<moveLog[i].from, x>>] = "text"
    <3>1. PICK p : p = <<moveLog[i].from, x>>
      OBVIOUS
    <3>2. p # <<t, y>> /\ p \in DOMAIN subpages
      BY <1>0, <2>1, <2>3, <3>1 DEF MoverTypeOK, AllTitles
    <3> QED BY <1>1, <2>2, <3>1, <3>2
  <2> QED BY <2>1, <2>4 DEF LeftBehind, HasText
<1>8. PendingIsLeft'
  BY <1>0, <1>1, <1>5, <1>7 DEF PendingIsLeft
<1>9. SettledIsDone'
  BY <1>0, <1>1, <1>7 DEF SettledIsDone
<1> QED BY <1>2, <1>3, <1>4, <1>6, <1>8, <1>9 DEF NothingLeftBehind

\* The bot keeps its own data: the map and what is left behind are as they were.
BotVars == <<pages, subpages, moveLog, now, skipped>>

LEMMA BotDataApart ==
  ASSUME UNCHANGED BotVars
  PROVE  /\ MapIsSound' <=> MapIsSound
         /\ \A i, x : LeftBehind(i, x)' <=> LeftBehind(i, x)
<1>1. MapIsSound' <=> MapIsSound
  BY DEF BotVars, MapIsSound, TitlesDiffer, IsArticle, TargetsHold, MovesAreLinked, ArticlesAreSomewhere, NotLeft, NoneFrom
<1>2. ASSUME NEW i, NEW x  PROVE LeftBehind(i, x)' <=> LeftBehind(i, x)
  BY DEF BotVars, LeftBehind, IsArticle, Traceable, Journey, HasText
<1> QED BY <1>1, <1>2

\* A run reads the log: there is an event for each title left behind.
LEMMA ReadingLeavesNothing ==
  ASSUME NothingLeftBehind, ReadMoveLog
  PROVE  NothingLeftBehind'
<1>0. /\ MoverTypeOK /\ DatesAreOrdered /\ MapIsSound /\ SettledIsDone
  BY DEF NothingLeftBehind
<1> DEFINE n == Len(moveLog)
           S == {e \in [from : Titles, to : Titles] : e.from # e.to}
<1>1. PICK log : log = LogSince(lastProcessed)
  OBVIOUS
<1>2. /\ newest = 0 /\ log # <<>>
      /\ events' = Relevant(log) /\ newest' = Head(log).time /\ seen' = n /\ quiet' = TRUE
      /\ UNCHANGED <<pages, subpages, moveLog, now, lastProcessed, settled, skipped, moveErrors>>
  BY <1>1 DEF ReadMoveLog
<1>3. PICK low \in 1 .. n : /\ low <= settled + 1
                            /\ log = [k \in 1 .. n + 1 - low |-> moveLog[n + 1 - k]]
  BY <1>0, <1>1, <1>2, LogIsTheEnd
<1>4. n \in Nat \ {0} /\ settled \in 0 .. n /\ low \in 1 .. n
  BY <1>0, MovesAreTyped
<1>5. CollapseFinds(log, low)
  BY <1>0, <1>3, CollapseFollowsArticles DEF MapIsSound
<1>6. PICK c : c = Collapse(log)
  OBVIOUS
<1>7. /\ c \in Seq([from : AllTitles, to : AllTitles])
      /\ \A i \in low .. n : \E e \in ToSet(c) : Resolved(i, e)
      /\ \A e \in ToSet(c) : \E i \in low .. n : Resolved(i, e)
  BY <1>5, <1>6 DEF CollapseFinds
<1>8. events' = Selected(c, S)
  BY <1>2, <1>6 DEF Relevant
<1>9. events' \in Seq(S) /\ ToSet(events') = ToSet(c) \cap S
  <2> HIDE DEF S
  <2>1. ToSet(Selected(c, S)) = ToSet(c) \cap S /\ Selected(c, S) \in Seq([from : AllTitles, to : AllTitles])
    BY <1>7, SelectedProperties
  <2>2. PICK q : q = Selected(c, S)
    OBVIOUS
  <2>3. q \in Seq([from : AllTitles, to : AllTitles]) /\ ToSet(q) \subseteq S
    BY <2>1, <2>2
  <2>4. q \in Seq(S)
    BY <2>3, SequenceOfItsElements
  <2> QED BY <1>8, <2>1, <2>2, <2>4
<1>10. events' \in Seq([from : Titles, to : Titles])
  <2>1. S \subseteq [from : Titles, to : Titles]
    OBVIOUS
  <2>2. PICK q : q = events'
    OBVIOUS
  <2> HIDE DEF S
  <2>3. q \in Seq(S) /\ ToSet(q) \subseteq [from : Titles, to : Titles]
    BY <1>9, <2>1, <2>2
  <2>4. q \in Seq([from : Titles, to : Titles])
    BY <2>3, SequenceOfItsElements
  <2> QED BY <2>2, <2>4
<1>11. MoverTypeOK'
  <2>1. newest' \in Nat /\ newest' = moveLog[n].time /\ newest' # 0
    <3>1. 1 \in 1 .. n + 1 - low
      BY <1>4
    <3>2. Head(log) = moveLog[n]
      <4>1. Head(log) = log[1] /\ n + 1 - 1 = n
        BY <1>3, <1>4
      <4> QED BY <1>3, <3>1, <4>1
    <3> QED BY <1>0, <1>2, <1>4, <3>2, MovesAreTyped
  <2>2. /\ pages' \in [AllTitles -> FirstTitles \cup {"none", "redirect"}]
        /\ subpages' \in [AllTitles \X SubpageNames -> {"none", "text", "redirect"}]
        /\ moveLog' \in Seq(MoveRecords)
        /\ now' \in Nat \ {0} /\ lastProcessed' \in Nat /\ moveErrors' \in Nat
    BY <1>0, <1>2 DEF MoverTypeOK
  <2>3. settled' \in Nat /\ seen' \in Nat /\ settled' <= seen' /\ seen' <= Len(moveLog')
    BY <1>2, <1>4
  <2> QED BY <1>10, <2>1, <2>2, <2>3 DEF MoverTypeOK, MoveRecords
<1>12. DatesAreOrdered'
  <2>1. newest' = moveLog[n].time /\ newest' # 0
    <3>1. 1 \in 1 .. n + 1 - low
      BY <1>4
    <3>2. Head(log) = moveLog[n]
      <4>1. Head(log) = log[1] /\ n + 1 - 1 = n
        BY <1>3, <1>4
      <4> QED BY <1>3, <3>1, <4>1
    <3> QED BY <1>0, <1>2, <1>4, <3>2, MovesAreTyped
  <2> QED BY <1>0, <1>2, <1>4, <2>1 DEF DatesAreOrdered
<1>13. MapIsSound' /\ \A i, x : LeftBehind(i, x)' <=> LeftBehind(i, x)
  BY <1>0, <1>2, BotDataApart DEF BotVars
<1>14. GoneIsHidden'
  BY <1>2, <1>4 DEF GoneIsHidden
<1>15. ASSUME NEW i \in 1 .. n, NEW e, Resolved(i, e)
       PROVE  LeadsTo(e, i)'
  BY <1>2, <1>15 DEF Resolved, Found, LeadsTo, NotLeft, NoneFrom
<1>16. EventsAreSound'
  <2> SUFFICES ASSUME NEW e \in ToSet(events')  PROVE \E i \in 1 .. n : LeadsTo(e, i)'
    BY <1>2 DEF EventsAreSound
  <2>1. PICK i \in low .. n : Resolved(i, e)
    BY <1>7, <1>9
  <2>2. i \in 1 .. n
    BY <1>4
  <2> QED BY <1>15, <2>1, <2>2
<1>17. ASSUME NEW i \in 1 .. n, NEW x \in SubpageNames, LeftBehind(i, x)
       PROVE  \E e \in ToSet(events') : LeadsTo(e, i)'
  <2>1. i \in low .. n
    <3>1. i \notin 1 .. settled
      BY <1>0, <1>17 DEF SettledIsDone
    <3> QED BY <1>3, <1>4, <3>1
  <2>2. PICK e \in ToSet(c) : Resolved(i, e)
    BY <1>7, <2>1
  <2>3. PICK m \in i .. n : /\ moveLog[m].article = moveLog[i].article /\ moveLog[m].to = e.to
                            /\ NotLeft(e.to, m, n)
    BY <2>2 DEF Resolved, Found
  <2>4. pages[e.to] = moveLog[i].article /\ e.to \in AllTitles /\ moveLog[i].article \in FirstTitles
    <3>1. m \in 1 .. n
      BY <1>4
    <3>2. pages[moveLog[m].to] = moveLog[m].article
      BY <1>0, <2>3, <3>1 DEF MapIsSound, TargetsHold
    <3> QED BY <1>0, <2>3, <3>1, <3>2, MovesAreTyped
  <2>5. PICK home \in Titles : pages[home] = moveLog[i].article
    BY <1>17 DEF LeftBehind
  <2>6. e.to = home
    BY <1>0, <2>4, <2>5 DEF MapIsSound, TitlesDiffer, IsArticle, AllTitles
  <2>7. e.from \in Titles /\ e.from # e.to
    BY <1>17, <2>2, <2>4 DEF Resolved, LeftBehind, IsArticle
  <2>8. e \in [from : AllTitles, to : AllTitles]
    BY <1>7, <2>2, ElementOfSequence
  <2>9. e \in S
    BY <2>6, <2>7, <2>8
  <2>10. e \in ToSet(events')
    <3> HIDE DEF S
    <3> QED BY <1>9, <2>2, <2>9
  <2> QED BY <1>15, <2>2, <2>10
<1>18. PendingIsLeft'
  BY <1>2, <1>13, <1>17 DEF PendingIsLeft
<1>19. SettledIsDone'
  BY <1>0, <1>2, <1>13 DEF SettledIsDone
<1> QED BY <1>11, <1>12, <1>13, <1>14, <1>16, <1>18, <1>19 DEF NothingLeftBehind

\* A run ends with no event, or is interrupted and forgets what it has read.
LEMMA EndingLeavesNothing ==
  ASSUME NothingLeftBehind, EndOfRun \/ InterruptRun
  PROVE  NothingLeftBehind'
<1>0. /\ MoverTypeOK /\ DatesAreOrdered /\ MapIsSound /\ GoneIsHidden
      /\ EventsAreSound /\ PendingIsLeft /\ SettledIsDone
  BY DEF NothingLeftBehind
<1>1. Len(moveLog) \in Nat /\ seen \in 0 .. Len(moveLog) /\ settled \in 0 .. seen
  BY <1>0, MovesAreTyped
<1>2. UNCHANGED BotVars
  BY DEF EndOfRun, InterruptRun, BotVars
<1>3. MapIsSound' /\ \A i, x : LeftBehind(i, x)' <=> LeftBehind(i, x)
  BY <1>0, <1>2, BotDataApart
<1>4. ToSet(<<>>) = {} /\ <<>> \in Seq([from : Titles, to : Titles])
  BY DEF ToSet
<1>5. events' = <<>> /\ newest' = 0 /\ seen' = settled' /\ settled' \in {settled, seen}
  BY DEF EndOfRun, InterruptRun
<1>6. MoverTypeOK'
  <2>1. /\ pages' = pages /\ subpages' = subpages /\ moveLog' = moveLog /\ now' = now
        /\ lastProcessed' \in {lastProcessed, newest} /\ moveErrors' \in {moveErrors, moveErrors + 1}
    BY DEF EndOfRun, InterruptRun
  <2>2. /\ seen' \in Nat /\ settled' \in Nat /\ settled' <= seen' /\ seen' <= Len(moveLog)
        /\ lastProcessed' \in Nat /\ moveErrors' \in Nat /\ newest' \in Nat
        /\ events' \in Seq([from : Titles, to : Titles])
    BY <1>0, <1>1, <1>4, <1>5, <2>1 DEF MoverTypeOK
  <2> QED BY <1>0, <2>1, <2>2 DEF MoverTypeOK, MoveRecords
<1>7. DatesAreOrdered'
  <2>1. CASE EndOfRun
    BY <1>0, <2>1 DEF DatesAreOrdered, EndOfRun
  <2>2. CASE InterruptRun
    BY <1>0, <2>2 DEF DatesAreOrdered, InterruptRun
  <2> QED BY <2>1, <2>2
<1>8. GoneIsHidden' /\ EventsAreSound'
  BY <1>4, <1>5 DEF GoneIsHidden, EventsAreSound
<1>9. SettledIsDone'
  <2>1. CASE EndOfRun
    <3>1. \A i \in 1 .. seen, x \in SubpageNames : ~LeftBehind(i, x)
      BY <1>0, <1>4, <2>1 DEF PendingIsLeft, EndOfRun
    <3> QED BY <1>3, <2>1, <3>1 DEF SettledIsDone, EndOfRun
  <2>2. CASE InterruptRun
    BY <1>0, <1>3, <2>2 DEF SettledIsDone, InterruptRun
  <2> QED BY <2>1, <2>2
<1>10. PendingIsLeft'
  BY <1>5, <1>9 DEF PendingIsLeft, SettledIsDone
<1> QED BY <1>3, <1>6, <1>7, <1>8, <1>9, <1>10 DEF NothingLeftBehind

\* Once a run ended with no user acting since it read the log, no subpage is left
\* behind, for any titles, articles, moves, errors and interrupted runs: what a
\* run has seen and not done has an event pending, and a run ends without any.
THEOREM SubpagesAreNotForgotten == MoverSpec => []SubpagesFollowTheirPage
<1>1. MoverInit => NothingLeftBehind
  <2> SUFFICES ASSUME MoverInit  PROVE NothingLeftBehind
    OBVIOUS
  <2>1. /\ pages = [t \in AllTitles |-> IF t \in FirstTitles THEN t ELSE "none"]
        /\ subpages = [p \in AllTitles \X SubpageNames |-> "none"]
        /\ moveLog = <<>> /\ now = 1 /\ lastProcessed = 0 /\ events = <<>> /\ newest = 0
        /\ settled = 0 /\ seen = 0 /\ quiet = FALSE /\ moveErrors = 0
    BY DEF MoverInit
  <2>2. Len(moveLog) = 0 /\ <<>> \in Seq(MoveRecords) /\ ToSet(<<>>) = {}
        /\ <<>> \in Seq([from : Titles, to : Titles])
    BY <2>1 DEF ToSet
  <2>3. MoverTypeOK
    BY <2>1, <2>2 DEF MoverTypeOK
  <2>4. DatesAreOrdered /\ GoneIsHidden
    BY <2>1, <2>2 DEF DatesAreOrdered, GoneIsHidden
  <2>5. TitlesDiffer
    <3>1. "none" \notin FirstTitles
      BY TitlesAreNames
    <3>2. \A t \in AllTitles : pages[t] = IF t \in FirstTitles THEN t ELSE "none"
      BY <2>1
    <3> QED BY <3>1, <3>2 DEF TitlesDiffer, IsArticle
  <2>6. TargetsHold /\ MovesAreLinked /\ ArticlesAreSomewhere
    BY <2>2 DEF TargetsHold, MovesAreLinked, ArticlesAreSomewhere
  <2>7. EventsAreSound /\ PendingIsLeft /\ SettledIsDone
    BY <2>1, <2>2 DEF EventsAreSound, PendingIsLeft, SettledIsDone
  <2> QED BY <2>3, <2>4, <2>5, <2>6, <2>7 DEF NothingLeftBehind, MapIsSound
<1>2. NothingLeftBehind /\ [MoverNext]_moverVars => NothingLeftBehind'
  <2> SUFFICES ASSUME NothingLeftBehind, [MoverNext]_moverVars  PROVE NothingLeftBehind'
    OBVIOUS
  <2>1. CASE \E from, to \in AllTitles, r, s, d \in BOOLEAN : Rename(from, to, r, s, d)
    BY <2>1, RenamingLeavesNothing
  <2>2. CASE \E t \in Titles, x \in SubpageNames : CreateSubpage(t, x)
    BY <2>2, CreatingLeavesNothing
  <2>3. CASE ReadMoveLog
    BY <2>3, ReadingLeavesNothing
  <2>4. CASE ProcessMove
    BY <2>4, ProcessingLeavesNothing
  <2>5. CASE EndOfRun \/ InterruptRun
    BY <2>5, EndingLeavesNothing
  <2>6. CASE UNCHANGED moverVars
    <3>1. UNCHANGED BotVars
      BY <2>6 DEF moverVars, BotVars
    <3>2. MapIsSound' /\ \A i, x : LeftBehind(i, x)' <=> LeftBehind(i, x)
      BY <3>1, BotDataApart DEF NothingLeftBehind
    <3>3. \A e, i : LeadsTo(e, i)' <=> LeadsTo(e, i)
      BY <2>6 DEF moverVars, LeadsTo, NotLeft, NoneFrom
    <3>4. MoverTypeOK' /\ DatesAreOrdered' /\ GoneIsHidden'
      BY <2>6 DEF moverVars, NothingLeftBehind, MoverTypeOK, MoveRecords, DatesAreOrdered, GoneIsHidden, Untouched
    <3>5. EventsAreSound' /\ PendingIsLeft' /\ SettledIsDone'
      BY <2>6, <3>2, <3>3 DEF moverVars, NothingLeftBehind, EventsAreSound, PendingIsLeft, SettledIsDone
    <3> QED BY <3>2, <3>4, <3>5 DEF NothingLeftBehind
  <2> QED BY <2>1, <2>2, <2>3, <2>4, <2>5, <2>6 DEF MoverNext
<1>3. NothingLeftBehind => SubpagesFollowTheirPage
  <2> SUFFICES ASSUME NothingLeftBehind, newest = 0, quiet, NEW i \in DOMAIN moveLog, NEW x \in SubpageNames,
                      LeftBehind(i, x)
               PROVE  FALSE
    BY DEF SubpagesFollowTheirPage
  <2>1. i \in 1 .. settled
    BY MovesAreTyped DEF NothingLeftBehind, DatesAreOrdered
  <2> QED BY <2>1 DEF NothingLeftBehind, SettledIsDone
<1> QED BY <1>1, <1>2, <1>3, PTL DEF MoverSpec
================================================================================

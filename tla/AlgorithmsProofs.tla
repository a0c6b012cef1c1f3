--------------------------- MODULE AlgorithmsProofs ---------------------------
(***************************************************************************)
(* Proofs about three of the algorithms of MCAlgorithms: the loop of       *)
(* enumerateJobsToRun hands the rows over in the order of Place, what is   *)
(* parsed of a title, once normalized, is read back, and the calendar      *)
(* keeps its days apart.                                                   *)
(***************************************************************************)
EXTENDS JobEnumeration, Titles, Calendar, JobOrderProofs

---------------------------------------------------------------------------
(* The rows of the job queue.                                              *)

RowsAt(p) == {k \in Ready(queue) : queue[k].priority = p}
RowsBelow(p) == {k \in Ready(queue) : queue[k].priority < p}
RowsUpTo(p) == {k \in Ready(queue) : queue[k].priority <= p}
ShownIn(rows) == {rows[k] : k \in 1 .. Len(rows)}
Shown == ShownIn(visited)

EnumerationTypeOK ==
  /\ queue \in Queues /\ newestFirst \in BOOLEAN
  /\ unread \subseteq Ready(queue) /\ visited \in Seq(Ready(queue)) /\ ~failed
  /\ middleReached \in BOOLEAN /\ stopped \in BOOLEAN

\* readJobs returns the rows from the oldest on.
ReadInOrder == \A i \in Ready(queue) \ unread, k \in unread : Before(queue, i, k)

InPlace(q, flag, rows) ==
  /\ \A k \in 1 .. Len(rows) : Place(q, flag, rows[k]) = k
  /\ Len(rows) = Cardinality(ShownIn(rows))
PlacesAreFollowed == InPlace(queue, newestFirst, visited)

\* At priority p: the rows that readJobs has returned, those that readJobsBackward has returned, and
\* what was handed over.  Both cursors have returned as many rows, and none the same one, until they
\* meet in the middle.
AtPriority(p, backward, previous, atMiddle) ==
  LET read == RowsAt(p) \ unread
      taken == RowsAt(p) \ backward
  IN  /\ backward \subseteq RowsAt(p)
      /\ IF atMiddle THEN Shown = RowsUpTo(p)
         ELSE /\ \A i \in backward, k \in taken : Before(queue, i, k)
              /\ read \cap taken = {} /\ Cardinality(read) = Cardinality(taken)
              /\ Shown = RowsBelow(p) \cup read \cup taken
              /\ IF taken = {} THEN previous = NoJob
                 ELSE previous \in taken /\ \A k \in taken \ {previous} : Before(queue, previous, k)

LevelIsSound ==
  \/ level = NoLevel /\ unread = Ready(queue) /\ visited = <<>> /\ ~stopped
  \/ \E p \in level :
       /\ level = {p} /\ p \in Int /\ RowsAt(p) \ unread # {}
       /\ \A k \in Ready(queue) \ unread : queue[k].priority <= p
       /\ stopped \/ AtPriority(p, unreadBackward, previousNew, middleReached)

EnumerationInv == EnumerationTypeOK /\ ReadInOrder /\ PlacesAreFollowed /\ LevelIsSound

---------------------------------------------------------------------------

LEMMA OneMoreRow ==
  ASSUME NEW q, IsFiniteSet(DOMAIN q), NEW flag, NEW rows \in Seq(Ready(q)), InPlace(q, flag, rows),
         NEW x \in Ready(q), Place(q, flag, x) = Len(rows) + 1
  PROVE  /\ Append(rows, x) \in Seq(Ready(q)) /\ InPlace(q, flag, Append(rows, x))
         /\ ShownIn(Append(rows, x)) = ShownIn(rows) \cup {x}
         /\ Len(Append(rows, x)) = Len(rows) + 1
<1> DEFINE more == Append(rows, x)
           len == Len(rows)
<1>1. /\ more \in Seq(Ready(q)) /\ len \in Nat /\ Len(more) = len + 1 /\ more[len + 1] = x
      /\ \A k \in 1 .. len : more[k] = rows[k]
  OBVIOUS
<1>2. ShownIn(more) = ShownIn(rows) \cup {x}
  <2> HIDE DEF more
  <2> QED BY <1>1 DEF ShownIn
<1>3. \A k \in 1 .. len + 1 : Place(q, flag, more[k]) = k
  <2>1. ASSUME NEW k \in 1 .. len + 1  PROVE Place(q, flag, more[k]) = k
    <3>1. CASE k = len + 1
      BY <1>1, <3>1
    <3>2. CASE k \in 1 .. len
      BY <1>1, <3>2 DEF InPlace
    <3> QED BY <1>1, <3>1, <3>2
  <2> QED BY <2>1
<1>4. x \notin ShownIn(rows)
  <2> SUFFICES ASSUME NEW k \in 1 .. len, rows[k] = x  PROVE FALSE
    BY DEF ShownIn
  <2> QED BY <1>1 DEF InPlace
<1>5. Cardinality(ShownIn(more)) = len + 1
  <2>1. ShownIn(rows) \subseteq DOMAIN q
    BY <1>1 DEF ShownIn, Ready
  <2>2. IsFiniteSet(ShownIn(rows)) /\ Cardinality(ShownIn(rows)) = len
    BY <2>1, FS_Subset DEF InPlace
  <2> QED BY <1>2, <1>4, <2>2, FS_AddElement
<1> QED BY <1>1, <1>2, <1>3, <1>5 DEF InPlace

\* The places of the two rows that one iteration reads, old from one end and new from the other.
LEMMA PlacesOfPair ==
  ASSUME NEW q, Table(q), NEW flag \in BOOLEAN, NEW old \in Ready(q), NEW new \in SameLevel(q, old),
         Cardinality(OlderThan(q, old)) = Cardinality(NewerThan(q, new)),
         old \notin NewerThan(q, new), new \notin OlderThan(q, old),
         NEW before, before = Cardinality(AheadOf(q, old)) + 2 * Cardinality(OlderThan(q, old))
  PROVE  /\ old = new => Place(q, flag, old) = before + 1
         /\ old # new => /\ Place(q, flag, old) = before + (IF flag THEN 2 ELSE 1)
                         /\ Place(q, flag, new) = before + (IF flag THEN 1 ELSE 2)
<1>1. /\ IsFiniteSet(DOMAIN q) /\ old \in DOMAIN q /\ new \in DOMAIN q /\ new \in Ready(q)
      /\ SameLevel(q, new) = SameLevel(q, old) /\ AheadOf(q, new) = AheadOf(q, old)
      /\ old \in SameLevel(q, old) /\ SameLevel(q, old) \subseteq DOMAIN q
  BY DEF Table, Ready, SameLevel, AheadOf
<1>2. PICK a, n, oldNewer, newOlder :
        /\ a = Cardinality(AheadOf(q, old)) /\ n = Cardinality(OlderThan(q, old))
        /\ oldNewer = Cardinality(NewerThan(q, old)) /\ newOlder = Cardinality(OlderThan(q, new))
        /\ a \in Nat /\ n \in Nat /\ oldNewer \in Nat /\ newOlder \in Nat
  BY <1>1, RowsOfALevel
<1>3. Place(q, flag, old) = a + 2 * Lower(n, oldNewer) + IF IsSecond(n, oldNewer, flag) THEN 2 ELSE 1
  BY <1>2, PlaceIs
<1>4. Place(q, flag, new) = a + 2 * Lower(newOlder, n) + IF IsSecond(newOlder, n, flag) THEN 2 ELSE 1
  BY <1>1, <1>2, PlaceIs
<1>5. CASE old = new
  <2>1. oldNewer = n
    BY <1>2, <1>5
  <2> QED BY <1>2, <1>3, <1>5, <2>1 DEF Lower, IsSecond
<1>6. CASE old # new
  <2>1. Before(q, old, new)
    BY <1>1, <1>6, BeforeIsTotal DEF OlderThan
  <2>2. n < newOlder /\ n < oldNewer
    BY <1>1, <1>2, <2>1, OlderHasFewer
  <2>3. Lower(n, oldNewer) = n /\ Lower(newOlder, n) = n
    BY <1>2, <2>2 DEF Lower
  <2>4. n < oldNewer /\ n # oldNewer /\ ~(newOlder < n) /\ newOlder # n
    BY <1>2, <2>2
  <2>5. (IsSecond(n, oldNewer, flag) <=> flag) /\ (IsSecond(newOlder, n, flag) <=> ~flag)
    BY <2>4, Zenon DEF IsSecond
  <2>6. CASE flag
    <3>1. IsSecond(n, oldNewer, flag) /\ ~IsSecond(newOlder, n, flag)
      BY <2>5, <2>6, Zenon
    <3> QED BY <1>2, <1>3, <1>4, <1>6, <2>3, <2>6, <3>1
  <2>7. CASE ~flag
    <3>1. ~IsSecond(n, oldNewer, flag) /\ IsSecond(newOlder, n, flag)
      BY <2>5, <2>7, Zenon
    <3> QED BY <1>2, <1>3, <1>4, <1>6, <2>3, <2>7, <3>1
  <2> QED BY <2>6, <2>7
<1> QED BY <1>5, <1>6

---------------------------------------------------------------------------

\* The row that readJobs returns.
IsNext(old) == old \in unread /\ \A k \in unread \ {old} : Before(queue, old, k)

LEMMA RowsOfTheTable ==
  ASSUME EnumerationTypeOK
  PROVE  /\ Table(queue) /\ IsFiniteSet(DOMAIN queue) /\ Ready(queue) \subseteq DOMAIN queue
         /\ \A i \in Ready(queue) : i # NoJob /\ queue[i].priority \in Int
<1>1. \A i \in DOMAIN queue : i \in Nat
  BY QueuesAreTables DEF EnumerationTypeOK
<1> QED BY <1>1, QueuesAreTables DEF EnumerationTypeOK, Table, Ready, NoJob

\* Priorities are read in order.
LEMMA PrioritiesInOrder ==
  ASSUME EnumerationTypeOK, ReadInOrder, NEW old, IsNext(old), NEW p, p = queue[old].priority
  PROVE  /\ p \in Int /\ old \in Ready(queue) /\ old \in DOMAIN queue
         /\ RowsAt(p) = SameLevel(queue, old) /\ RowsBelow(p) = AheadOf(queue, old)
         /\ \A k \in unread : queue[k].priority >= p
         /\ \A k \in Ready(queue) \ unread : queue[k].priority <= p
<1>1. old \in Ready(queue) /\ old \in DOMAIN queue /\ p \in Int
      /\ \A i \in Ready(queue) : queue[i].priority \in Int
  BY RowsOfTheTable DEF IsNext, EnumerationTypeOK
<1>2. RowsAt(p) = SameLevel(queue, old) /\ RowsBelow(p) = AheadOf(queue, old)
  BY DEF RowsAt, RowsBelow, SameLevel, AheadOf
<1>3. ASSUME NEW k \in unread  PROVE queue[k].priority >= p
  <2>1. k = old \/ Before(queue, old, k)
    BY DEF IsNext
  <2>2. queue[k].priority \in Int
    BY <1>1 DEF EnumerationTypeOK
  <2> QED BY <1>1, <2>1, <2>2 DEF Before
<1>4. ASSUME NEW k \in Ready(queue) \ unread  PROVE queue[k].priority <= p
  <2>1. Before(queue, k, old)
    BY DEF ReadInOrder, IsNext
  <2>2. queue[k].priority \in Int
    BY <1>1
  <2> QED BY <1>1, <2>1, <2>2 DEF Before
<1> QED BY <1>1, <1>2, <1>3, <1>4

\* The rows of a priority were all handed over when readJobs has read them all.
LEMMA LevelEnds ==
  ASSUME EnumerationInv, ~stopped, NEW p, level = {p}, RowsAt(p) \cap unread = {}
  PROVE  Shown = RowsUpTo(p)
<1>1. RowsAt(p) \ unread # {} /\ AtPriority(p, unreadBackward, previousNew, middleReached)
  BY DEF EnumerationInv, LevelIsSound, NoLevel
<1>2. IsFiniteSet(RowsAt(p))
  <2>1. RowsAt(p) \subseteq DOMAIN queue /\ IsFiniteSet(DOMAIN queue)
    BY RowsOfTheTable DEF EnumerationInv, RowsAt
  <2> QED BY <2>1, FS_Subset
<1>3. CASE middleReached
  BY <1>1, <1>3 DEF AtPriority
<1>4. CASE ~middleReached
  <2>1. PICK read, taken : read = RowsAt(p) \ unread /\ taken = RowsAt(p) \ unreadBackward
    OBVIOUS
  <2>2. read \cap taken = {} /\ Cardinality(read) = Cardinality(taken)
    BY <1>1, <1>4, <2>1 DEF AtPriority
  <2>3. read = RowsAt(p) /\ taken = {}
    BY <2>1, <2>2
  <2>4. read = {}
    BY <1>2, <2>2, <2>3, FS_EmptySet
  <2> QED BY <1>1, <2>1, <2>4
<1> QED BY <1>3, <1>4

\* What an iteration starts from.
LEMMA LevelStarts ==
  ASSUME EnumerationInv, ~stopped, NEW old, IsNext(old), NEW p, p = queue[old].priority
  PROVE  IF level # {p} THEN AtPriority(p, SameLevel(queue, old), NoJob, FALSE)
         ELSE AtPriority(p, unreadBackward, previousNew, middleReached)
<1>1. /\ p \in Int /\ old \in Ready(queue) /\ RowsAt(p) = SameLevel(queue, old)
      /\ \A k \in unread : queue[k].priority >= p
      /\ \A k \in Ready(queue) \ unread : queue[k].priority <= p
      /\ \A i \in Ready(queue) : queue[i].priority \in Int
  BY PrioritiesInOrder, RowsOfTheTable DEF EnumerationInv
<1>2. CASE level = {p}
  BY <1>2 DEF EnumerationInv, LevelIsSound, NoLevel
<1>3. CASE level # {p}
  <2>1. RowsAt(p) \ unread = {} /\ Shown = RowsBelow(p)
    <3>1. CASE level = NoLevel
      <4>1. unread = Ready(queue) /\ visited = <<>>
        BY <3>1 DEF EnumerationInv, LevelIsSound, NoLevel
      <4>2. Shown = {}
        BY <4>1 DEF Shown, ShownIn
      <4>3. \A k \in Ready(queue) : ~(queue[k].priority < p)
        BY <1>1, <4>1
      <4> QED BY <4>1, <4>2, <4>3 DEF RowsAt, RowsBelow
    <3>2. CASE level # NoLevel
      <4>1. PICK l \in Int : level = {l} /\ RowsAt(l) \ unread # {}
                             /\ \A k \in Ready(queue) \ unread : queue[k].priority <= l
        BY <3>2 DEF EnumerationInv, LevelIsSound
      <4>2. l < p
        <5>1. PICK i \in Ready(queue) \ unread : queue[i].priority = l
          BY <4>1 DEF RowsAt
        <5>2. l <= p /\ l # p
          BY <1>1, <1>3, <4>1, <5>1
        <5> QED BY <1>1, <4>1, <5>2
      <4>3. RowsAt(l) \cap unread = {} /\ RowsAt(p) \ unread = {}
        BY <1>1, <4>1, <4>2 DEF RowsAt
      <4>4. Shown = RowsUpTo(l)
        BY <4>1, <4>3, LevelEnds
      <4>5. RowsUpTo(l) = RowsBelow(p)
        <5>1. ASSUME NEW k \in Ready(queue)
              PROVE  queue[k].priority <= l <=> queue[k].priority < p
          <6>1. CASE k \in unread
            BY <1>1, <4>1, <4>2, <6>1
          <6>2. CASE k \notin unread
            BY <1>1, <4>1, <4>2, <6>2
          <6> QED BY <6>1, <6>2
        <5> QED BY <5>1 DEF RowsUpTo, RowsBelow
      <4> QED BY <4>3, <4>4, <4>5
    <3> QED BY <3>1, <3>2
  <2>2. RowsAt(p) \ SameLevel(queue, old) = {}
    BY <1>1
  <2> QED BY <1>1, <1>3, <2>1, <2>2 DEF AtPriority
<1> QED BY <1>2, <1>3

\* The cursors meet at the row that readJobs returns, or that row is still ahead of readJobsBackward.
LEMMA TheCursors ==
  ASSUME EnumerationTypeOK, ReadInOrder, NEW old, IsNext(old), NEW p, p = queue[old].priority,
         NEW backward, NEW previous, AtPriority(p, backward, previous, FALSE)
  PROVE  /\ RowsAt(p) \ unread = OlderThan(queue, old)
         /\ old = previous => Shown = RowsUpTo(p)
         /\ old # previous => old \in backward
<1>1. /\ p \in Int /\ old \in Ready(queue) /\ old \in DOMAIN queue /\ RowsAt(p) = SameLevel(queue, old)
      /\ Table(queue) /\ Ready(queue) \subseteq DOMAIN queue /\ \A i \in Ready(queue) : i # NoJob
  BY PrioritiesInOrder, RowsOfTheTable
<1>2. PICK read, taken : read = RowsAt(p) \ unread /\ taken = RowsAt(p) \ backward
  OBVIOUS
<1>3. /\ backward \subseteq RowsAt(p) /\ \A i \in backward, k \in taken : Before(queue, i, k)
      /\ read \cap taken = {} /\ Shown = RowsBelow(p) \cup read \cup taken
      /\ IF taken = {} THEN previous = NoJob
         ELSE previous \in taken /\ \A k \in taken \ {previous} : Before(queue, previous, k)
  BY <1>2 DEF AtPriority
<1>4. /\ RowsAt(p) \subseteq DOMAIN queue /\ old \in RowsAt(p) /\ RowsAt(p) \subseteq Ready(queue)
      /\ \A i \in RowsAt(p) : i # old => Before(queue, i, old) \/ Before(queue, old, i)
      /\ \A i \in RowsAt(p) : ~(Before(queue, i, old) /\ Before(queue, old, i)) /\ ~Before(queue, i, i)
  <2>1. RowsAt(p) \subseteq DOMAIN queue /\ old \in RowsAt(p) /\ RowsAt(p) \subseteq Ready(queue)
    BY <1>1 DEF RowsAt
  <2> QED BY <1>1, <2>1, BeforeIsTotal
<1>5. \A i \in RowsAt(p) : i \in read <=> Before(queue, i, old)
  BY <1>2, <1>4 DEF ReadInOrder, IsNext
<1>6. read = OlderThan(queue, old)
  BY <1>1, <1>2, <1>5 DEF OlderThan
<1>7. ASSUME old = previous  PROVE Shown = RowsUpTo(p)
  <2>1. old \in taken /\ \A k \in taken \ {old} : Before(queue, old, k)
    BY <1>1, <1>3, <1>7
  <2>2. \A i \in RowsAt(p) : i \in read \/ i \in taken
    <3> SUFFICES ASSUME NEW i \in RowsAt(p), i \notin read, i \in backward  PROVE FALSE
      BY <1>2
    <3>1. Before(queue, i, old)
      BY <1>3, <2>1
    <3> QED BY <1>5, <3>1
  <2>3. RowsUpTo(p) = RowsBelow(p) \cup RowsAt(p)
    <3>1. \A k \in Ready(queue) : queue[k].priority \in Int
      BY <1>1 DEF Table
    <3> QED BY <1>1, <3>1 DEF RowsUpTo, RowsBelow, RowsAt
  <2> QED BY <1>2, <1>3, <2>2, <2>3
<1>8. ASSUME old # previous  PROVE old \in backward
  <2> SUFFICES ASSUME old \in taken  PROVE FALSE
    BY <1>2, <1>4
  <2>1. previous \in taken /\ Before(queue, previous, old)
    BY <1>3, <1>8
  <2>2. previous \in read
    BY <1>2, <1>5, <2>1
  <2> QED BY <1>3, <2>1, <2>2
<1> QED BY <1>2, <1>6, <1>7, <1>8

---------------------------------------------------------------------------
(* One iteration. *)

LEMMA ReadRowKeepsOrder ==
  ASSUME EnumerationInv, ReadRow
  PROVE  EnumerationInv'
<1>1. PICK old : old = OldestOf(unread)
  OBVIOUS
<1>2. PICK p, back, previous, atMiddle :
        /\ p = queue[old].priority
        /\ back = IF level # {p} THEN SameLevel(queue, old) ELSE unreadBackward
        /\ previous = IF level # {p} THEN NoJob ELSE previousNew
        /\ atMiddle = IF level # {p} THEN FALSE ELSE middleReached
  OBVIOUS
<1>3. /\ unread # {} /\ ~stopped /\ unread' = unread \ {old} /\ level' = {p}
      /\ failed' = (~atMiddle /\ old # previous /\ back = {})
      /\ \/ /\ atMiddle \/ old = previous \/ back = {}
            /\ middleReached' = (atMiddle \/ old = previous) /\ unreadBackward' = back
            /\ UNCHANGED <<stopped, visited>>
         \/ /\ ~atMiddle /\ old # previous /\ back # {}
            /\ unreadBackward' = back \ {NewestOf(back)}
            /\ HandOver(IF NewestOf(back) = old THEN <<old>> ELSE Pair(old, NewestOf(back)))
            /\ middleReached' = (NewestOf(back) = old)
            /\ previousNew' = IF NewestOf(back) = old THEN previous ELSE NewestOf(back)
      /\ queue' = queue /\ newestFirst' = newestFirst
  BY <1>1, <1>2, Zenon DEF ReadRow
<1>4. EnumerationTypeOK /\ ReadInOrder /\ PlacesAreFollowed /\ LevelIsSound
  BY DEF EnumerationInv
<1>5. /\ Table(queue) /\ IsFiniteSet(DOMAIN queue) /\ Ready(queue) \subseteq DOMAIN queue
      /\ newestFirst \in BOOLEAN /\ visited \in Seq(Ready(queue)) /\ Len(visited) \in Nat
      /\ unread \subseteq Ready(queue) /\ \A i \in Ready(queue) : i # NoJob
      /\ InPlace(queue, newestFirst, visited) /\ atMiddle \in BOOLEAN
  <2>1. unread \subseteq Ready(queue) /\ visited \in Seq(Ready(queue)) /\ newestFirst \in BOOLEAN
        /\ middleReached \in BOOLEAN /\ Len(visited) \in Nat
    BY <1>4 DEF EnumerationTypeOK
  <2>2. Table(queue) /\ IsFiniteSet(DOMAIN queue) /\ Ready(queue) \subseteq DOMAIN queue
        /\ \A i \in Ready(queue) : i # NoJob
    BY <1>4, RowsOfTheTable
  <2>3. InPlace(queue, newestFirst, visited)
    BY <1>4 DEF PlacesAreFollowed
  <2>4. atMiddle \in BOOLEAN
    BY <1>2, <2>1
  <2> QED BY <2>1, <2>2, <2>3, <2>4
<1>6. IsNext(old)
  <2>1. \E i \in unread : \A k \in unread \ {i} : Before(queue, i, k)
    BY <1>3, <1>5, OldestAndNewest
  <2> QED BY <1>1, <2>1, Zenon DEF OldestOf, IsNext
<1>7. /\ p \in Int /\ old \in Ready(queue) /\ old \in DOMAIN queue /\ old \in unread
      /\ RowsAt(p) = SameLevel(queue, old) /\ RowsBelow(p) = AheadOf(queue, old)
      /\ \A k \in Ready(queue) \ unread : queue[k].priority <= p
  BY <1>2, <1>4, <1>6, PrioritiesInOrder DEF IsNext
<1>8. AtPriority(p, back, previous, atMiddle)
  BY <1>2, <1>3, <1>6, LevelStarts
<1>9. ASSUME ~failed', visited' \in Seq(Ready(queue)), InPlace(queue, newestFirst, visited'),
             middleReached' \in BOOLEAN, stopped' \in BOOLEAN,
             stopped' \/ AtPriority(p, unreadBackward, previousNew, middleReached)'
      PROVE  EnumerationInv'
  <2>1. EnumerationTypeOK'
    BY <1>3, <1>4, <1>5, <1>9 DEF EnumerationTypeOK
  <2>2. ReadInOrder'
    BY <1>3, <1>4, <1>6 DEF ReadInOrder, IsNext
  <2>3. PlacesAreFollowed'
    BY <1>3, <1>9 DEF PlacesAreFollowed
  <2>4. old \in RowsAt(p)' \ unread'
    BY <1>2, <1>3, <1>7 DEF RowsAt
  <2>5. \A k \in Ready(queue)' \ unread' : queue'[k].priority <= p
    BY <1>2, <1>3, <1>7
  <2>6. LevelIsSound'
    BY <1>3, <1>7, <1>9, <2>4, <2>5 DEF LevelIsSound
  <2> QED BY <2>1, <2>2, <2>3, <2>6 DEF EnumerationInv
<1>10. RowsUpTo(p) = RowsBelow(p) \cup RowsAt(p)
  <2>1. \A k \in Ready(queue) : queue[k].priority \in Int
    BY <1>5 DEF Table
  <2> QED BY <1>7, <2>1 DEF RowsUpTo, RowsBelow, RowsAt
<1>11. CASE atMiddle \/ old = previous
  <2>1. ~failed' /\ middleReached' = TRUE /\ unreadBackward' = back /\ UNCHANGED <<stopped, visited>>
    BY <1>3, <1>5, <1>11
  <2>2. Shown = RowsUpTo(p)
    <3>1. CASE atMiddle
      BY <1>8, <3>1 DEF AtPriority
    <3>2. CASE ~atMiddle
      <4>1. AtPriority(p, back, previous, FALSE)
        BY <1>5, <1>8, <3>2 DEF AtPriority
      <4> QED BY <1>2, <1>4, <1>6, <1>11, <3>2, <4>1, TheCursors
    <3> QED BY <3>1, <3>2
  <2>3. back \subseteq RowsAt(p)
    BY <1>8 DEF AtPriority
  <2>4. AtPriority(p, unreadBackward, previousNew, middleReached)'
    BY <1>3, <2>1, <2>2, <2>3 DEF AtPriority, RowsAt, RowsUpTo, Shown
  <2> QED BY <1>3, <1>4, <1>5, <1>9, <2>1, <2>4 DEF EnumerationTypeOK
<1>12. CASE ~atMiddle /\ old # previous
  <2>1. AtPriority(p, back, previous, FALSE)
    BY <1>5, <1>8, <1>12 DEF AtPriority
  <2>2. old \in back /\ RowsAt(p) \ unread = OlderThan(queue, old)
    BY <1>2, <1>4, <1>6, <1>12, <2>1, TheCursors
  <2>3. PICK read, taken : read = RowsAt(p) \ unread /\ taken = RowsAt(p) \ back
    OBVIOUS
  <2>4. /\ back \subseteq RowsAt(p) /\ \A i \in back, k \in taken : Before(queue, i, k)
        /\ read \cap taken = {} /\ Cardinality(read) = Cardinality(taken)
        /\ Shown = RowsBelow(p) \cup read \cup taken
    BY <2>1, <2>3 DEF AtPriority
  <2>5. /\ RowsAt(p) \subseteq Ready(queue) /\ RowsAt(p) \subseteq DOMAIN queue /\ back \subseteq DOMAIN queue
    BY <1>5, <2>4 DEF RowsAt
  <2>6. PICK new : new = NewestOf(back)
    OBVIOUS
  <2>7. new \in back /\ \A k \in back \ {new} : Before(queue, k, new)
    <3>1. \E i \in back : \A k \in back \ {i} : Before(queue, k, i)
      BY <1>5, <2>2, <2>5, OldestAndNewest
    <3> QED BY <2>6, <3>1, Zenon DEF NewestOf
  <2>8. new \in RowsAt(p) /\ new \in Ready(queue) /\ SameLevel(queue, new) = SameLevel(queue, old)
    BY <1>7, <2>4, <2>5, <2>7 DEF SameLevel
  <2>9. taken = NewerThan(queue, new)
    <3>1. \A i \in RowsAt(p) : i \in taken <=> Before(queue, new, i)
      BY <1>5, <2>3, <2>4, <2>5, <2>7, <2>8, BeforeIsTotal
    <3> QED BY <1>7, <2>3, <2>8, <3>1 DEF NewerThan
  <2>10. read = OlderThan(queue, old) /\ old \notin taken /\ new \notin taken /\ old \notin read
    BY <1>7, <2>2, <2>3, <2>7
  <2>11. new \notin read
    <3>1. ~Before(queue, new, old)
      BY <1>5, <1>7, <2>2, <2>5, <2>7, <2>8, BeforeIsTotal
    <3> QED BY <2>10, <3>1 DEF OlderThan
  <2>12. Len(visited) = Cardinality(AheadOf(queue, old)) + 2 * Cardinality(OlderThan(queue, old))
    <3>1. PICK ahead : ahead = AheadOf(queue, old)
      OBVIOUS
    <3>2. IsFiniteSet(ahead) /\ IsFiniteSet(read) /\ IsFiniteSet(taken) /\ Cardinality(ahead) \in Nat
          /\ Cardinality(read) \in Nat
      BY <1>5, <2>9, <2>10, <3>1, RowsOfALevel
    <3>3. ahead \cap read = {} /\ (ahead \cup read) \cap taken = {}
      <4>1. \A k \in ahead : k \notin RowsAt(p)
        <5> SUFFICES ASSUME NEW k \in ahead, queue[k].priority = p  PROVE FALSE
          BY DEF RowsAt
        <5>1. queue[k].priority < p
          BY <1>2, <3>1 DEF AheadOf
        <5> QED BY <1>7, <5>1
      <4> QED BY <2>3, <2>4, <4>1
    <3>4. IsFiniteSet(ahead \cup read) /\ Cardinality(ahead \cup read) = Cardinality(ahead) + Cardinality(read)
      BY <3>2, <3>3, FS_Union, FS_EmptySet
    <3>5. Cardinality((ahead \cup read) \cup taken) = Cardinality(ahead \cup read) + Cardinality(taken)
      <4>1. PICK both : both = ahead \cup read /\ both \cap taken = {} /\ IsFiniteSet(both)
        BY <3>3, <3>4
      <4>2. Cardinality(both) \in Nat /\ Cardinality(taken) \in Nat
        BY <3>2, <4>1, FS_CardinalityType
      <4>3. Cardinality(both \cup taken) = Cardinality(both) + Cardinality(taken) - Cardinality(both \cap taken)
        BY <3>2, <4>1, FS_Union
      <4>4. Cardinality(both \cap taken) = 0
        BY <4>1, FS_EmptySet
      <4> QED BY <4>1, <4>2, <4>3, <4>4
    <3>6. Shown = (ahead \cup read) \cup taken
      BY <1>7, <2>4, <3>1
    <3>7. Len(visited) = Cardinality(Shown)
      BY <1>5 DEF InPlace, Shown
    <3> QED BY <2>4, <2>10, <3>1, <3>2, <3>4, <3>5, <3>6, <3>7
  <2>13. /\ old = new => Place(queue, newestFirst, old) = Len(visited) + 1
         /\ old # new => /\ Place(queue, newestFirst, old) = Len(visited) + (IF newestFirst THEN 2 ELSE 1)
                         /\ Place(queue, newestFirst, new) = Len(visited) + (IF newestFirst THEN 1 ELSE 2)
    BY <1>5, <1>7, <2>4, <2>8, <2>9, <2>10, <2>11, <2>12, PlacesOfPair
  <2>14. CASE old = new
    <3>1. /\ ~failed' /\ unreadBackward' = back \ {new} /\ HandOver(<<old>>) /\ middleReached' = TRUE
      BY <1>3, <1>12, <2>2, <2>6, <2>14
    <3>2. visited' = Append(visited, old) /\ stopped' \in BOOLEAN
      BY <1>5, <3>1 DEF HandOver
    <3>3. /\ visited' \in Seq(Ready(queue)) /\ InPlace(queue, newestFirst, visited')
          /\ ShownIn(visited') = Shown \cup {old}
      BY <1>5, <1>7, <2>13, <2>14, <3>2, OneMoreRow DEF Shown
    <3>4. \A i \in RowsAt(p) : i = old \/ i \in read \/ i \in taken
      <4>1. \A i \in RowsAt(p) : i = old \/ Before(queue, i, old) \/ Before(queue, old, i)
        BY <1>5, <1>7, <2>5, BeforeIsTotal
      <4> QED BY <1>7, <2>8, <2>9, <2>10, <2>14, <4>1 DEF OlderThan, NewerThan
    <3>5. ShownIn(visited') = RowsUpTo(p)
      BY <1>10, <2>2, <2>3, <2>4, <3>3, <3>4
    <3>6. AtPriority(p, unreadBackward, previousNew, middleReached)'
      BY <1>3, <2>4, <3>1, <3>5 DEF AtPriority, RowsAt, RowsUpTo, Shown
    <3> QED BY <1>9, <3>1, <3>2, <3>3, <3>6
  <2>15. CASE old # new
    <3>1. /\ ~failed' /\ unreadBackward' = back \ {new} /\ HandOver(Pair(old, new)) /\ middleReached' = FALSE
          /\ previousNew' = new
      BY <1>3, <1>12, <2>2, <2>6, <2>15
    <3>2. PICK first, second :
            /\ Pair(old, new) = <<first, second>> /\ {first, second} = {old, new}
            /\ first \in Ready(queue) /\ second \in Ready(queue)
            /\ Place(queue, newestFirst, first) = Len(visited) + 1
            /\ Place(queue, newestFirst, second) = Len(visited) + 2
      <4>1. CASE newestFirst
        BY <1>7, <2>8, <2>13, <2>15, <4>1 DEF Pair
      <4>2. CASE ~newestFirst
        BY <1>7, <2>8, <2>13, <2>15, <4>2 DEF Pair
      <4> QED BY <4>1, <4>2
    <3>3. PICK one, two : one = Append(visited, first) /\ two = Append(one, second)
      OBVIOUS
    <3>4. /\ one \in Seq(Ready(queue)) /\ InPlace(queue, newestFirst, one) /\ Len(one) = Len(visited) + 1
          /\ ShownIn(one) = Shown \cup {first}
      BY <1>5, <3>2, <3>3, OneMoreRow DEF Shown
    <3>5. /\ two \in Seq(Ready(queue)) /\ InPlace(queue, newestFirst, two)
          /\ ShownIn(two) = ShownIn(one) \cup {second}
      <4>1. Place(queue, newestFirst, second) = Len(one) + 1
        BY <1>5, <3>2, <3>4
      <4>2. /\ Append(one, second) \in Seq(Ready(queue)) /\ InPlace(queue, newestFirst, Append(one, second))
            /\ ShownIn(Append(one, second)) = ShownIn(one) \cup {second}
        BY <1>5, <3>2, <3>4, <4>1, OneMoreRow
      <4> QED BY <3>3, <4>2
    <3>6. CASE visited' = two /\ stopped' \in BOOLEAN
      <4>1. ShownIn(visited') = Shown \cup {old, new}
        BY <3>2, <3>4, <3>5, <3>6
      <4>2. PICK read2, taken2 : read2 = RowsAt(p) \ unread' /\ taken2 = RowsAt(p) \ (back \ {new})
        OBVIOUS
      <4>3. read2 = read \cup {old} /\ taken2 = taken \cup {new}
        BY <1>3, <1>7, <2>2, <2>3, <2>4, <2>8, <4>2
      <4>4. read2 \cap taken2 = {}
        BY <2>4, <2>10, <2>11, <2>15, <4>3
      <4>5. Cardinality(read2) = Cardinality(taken2)
        <5>1. IsFiniteSet(read) /\ IsFiniteSet(taken)
          BY <1>5, <2>9, <2>10, RowsOfALevel
        <5>2. Cardinality(read \cup {old}) = Cardinality(read) + 1
          BY <2>10, <5>1, FS_AddElement
        <5>3. Cardinality(taken \cup {new}) = Cardinality(taken) + 1
          BY <2>10, <5>1, FS_AddElement
        <5> QED BY <2>4, <4>3, <5>2, <5>3
      <4>6. \A i \in back \ {new}, k \in taken2 : Before(queue, i, k)
        BY <2>4, <2>7, <4>3
      <4>7. new \in taken2 /\ \A k \in taken2 \ {new} : Before(queue, new, k)
        BY <2>4, <2>7, <4>3
      <4>8. ShownIn(visited') = RowsBelow(p) \cup read2 \cup taken2
        BY <2>4, <4>1, <4>3
      <4>9. RowsAt(p)' = RowsAt(p) /\ RowsBelow(p)' = RowsBelow(p) /\ Shown' = ShownIn(visited')
        BY <1>3 DEF RowsAt, RowsBelow, Shown
      <4>10. AtPriority(p, unreadBackward, previousNew, middleReached)'
        BY <1>3, <2>4, <3>1, <4>2, <4>4, <4>5, <4>6, <4>7, <4>8, <4>9 DEF AtPriority
      <4> QED BY <1>9, <3>1, <3>5, <3>6, <4>10
    <3>7. CASE visited' = one /\ stopped'
      BY <1>9, <3>1, <3>4, <3>7
    <3>8. (visited' = two /\ stopped' \in BOOLEAN) \/ (visited' = one /\ stopped' = TRUE)
      <4>1. visited \o <<first, second>> = two
        BY <1>5, <3>2, <3>3
      <4> QED BY <3>1, <3>2, <3>3, <4>1 DEF HandOver
    <3> QED BY <3>6, <3>7, <3>8
  <2> QED BY <2>14, <2>15
<1> QED BY <1>5, <1>11, <1>12

LEMMA EverythingIsVisited ==
  ASSUME EnumerationInv
  PROVE  VisitsInOrder
<1>1. ~failed /\ \A k \in 1 .. Len(visited) : Place(queue, newestFirst, visited[k]) = k
  BY DEF EnumerationInv, EnumerationTypeOK, PlacesAreFollowed, InPlace
<1>2. ASSUME unread = {}, ~stopped  PROVE Shown = Ready(queue)
  <2>1. CASE level = NoLevel
    <3>1. Ready(queue) = {} /\ visited = <<>>
      BY <1>2, <2>1 DEF EnumerationInv, LevelIsSound, NoLevel
    <3> QED BY <3>1 DEF Shown, ShownIn
  <2>2. CASE level # NoLevel
    <3>1. PICK p \in Int : level = {p} /\ \A k \in Ready(queue) \ unread : queue[k].priority <= p
      BY <2>2 DEF EnumerationInv, LevelIsSound
    <3>2. Shown = RowsUpTo(p)
      BY <1>2, <3>1, LevelEnds
    <3> QED BY <1>2, <3>1, <3>2 DEF RowsUpTo
  <2> QED BY <2>1, <2>2
<1> QED BY <1>1, <1>2 DEF VisitsInOrder, Shown, ShownIn

\* enumerateJobsToRun, with its two cursors, hands over the ready rows of any table in the order
\* that JobOrder defines, each once and, unless the callback stops it, all of them; its assertion
\* on readJobsBackward holds.
THEOREM RowsAreVisitedInOrder == Spec => []VisitsInOrder
<1>1. Init => EnumerationInv
  <2> SUFFICES ASSUME Init  PROVE EnumerationInv
    OBVIOUS
  <2>1. visited = <<>> /\ unread = Ready(queue) /\ ~failed /\ ~stopped /\ level = NoLevel /\ ~middleReached
        /\ queue \in Queues /\ newestFirst \in BOOLEAN /\ stopped \in BOOLEAN /\ middleReached \in BOOLEAN
    BY DEF Init
  <2>2. visited \in Seq(Ready(queue)) /\ Len(visited) = 0
    BY <2>1
  <2>3. InPlace(queue, newestFirst, visited)
    <3>1. ShownIn(visited) = {}
      BY <2>2 DEF ShownIn
    <3> QED BY <2>2, <3>1, FS_EmptySet DEF InPlace
  <2> QED BY <2>1, <2>2, <2>3 DEF EnumerationInv, EnumerationTypeOK, ReadInOrder, PlacesAreFollowed, LevelIsSound
<1>2. EnumerationInv /\ [Next]_vars => EnumerationInv'
  <2> SUFFICES ASSUME EnumerationInv, [Next]_vars  PROVE EnumerationInv'
    OBVIOUS
  <2>1. CASE UNCHANGED vars
    <3>1. UNCHANGED <<queue, newestFirst, unread, unreadBackward, level, previousNew, middleReached, failed,
                      stopped, visited>>
      BY <2>1 DEF vars
    <3>2. EnumerationTypeOK' /\ ReadInOrder' /\ PlacesAreFollowed'
      BY <3>1 DEF EnumerationInv, EnumerationTypeOK, ReadInOrder, PlacesAreFollowed
    <3>3. ASSUME NEW p, AtPriority(p, unreadBackward, previousNew, middleReached)
          PROVE  AtPriority(p, unreadBackward, previousNew, middleReached)'
      BY <3>1, <3>3 DEF AtPriority, RowsAt, RowsBelow, RowsUpTo, Shown
    <3>4. LevelIsSound'
      BY <3>1, <3>3 DEF EnumerationInv, LevelIsSound, RowsAt
    <3> QED BY <3>2, <3>4 DEF EnumerationInv
  <2> QED BY <2>1, ReadRowKeepsOrder DEF Next
<1> QED BY <1>1, <1>2, EverythingIsVisited, PTL DEF Spec

---------------------------------------------------------------------------
(* Titles.                                                                 *)

\* Induction over sequences, for a property given as the set of sequences that have it.
LEMMA SequenceInduction ==
  ASSUME NEW T, NEW S, <<>> \in S, \A u \in Seq(T) : \A x \in T : u \in S => Append(u, x) \in S
  PROVE  Seq(T) \subseteq S
<1> SUFFICES ASSUME NEW s \in Seq(T)  PROVE s \in S
  OBVIOUS
<1> DEFINE l == Len(s)
           N == {n \in 0 .. l : SubSeq(s, 1, n) \in S}
<1>1. l \in Nat /\ SubSeq(s, 1, 0) = <<>> /\ SubSeq(s, 1, l) = s
  OBVIOUS
<1>2. 0 \in N
  <2> HIDE DEF l
  <2>1. 0 \in 0 .. l
    BY <1>1
  <2>2. SubSeq(s, 1, 0) \in S
    BY <1>1, Zenon
  <2> QED BY <2>1, <2>2
<1>3. ASSUME NEW k \in 1 .. l, k - 1 \in N  PROVE k \in N
  <2>1. SubSeq(s, 1, k - 1) \in Seq(T) /\ s[k] \in T /\ SubSeq(s, 1, k) = Append(SubSeq(s, 1, k - 1), s[k])
    BY <1>1
  <2>2. SubSeq(s, 1, k - 1) \in S /\ k \in 0 .. l
    BY <1>3
  <2> HIDE DEF l
  <2> QED BY <2>1, <2>2
<1>4. 0 .. l \subseteq N
  <2> HIDE DEF N, l
  <2> QED BY <1>1, <1>2, <1>3, InductionUpTo
<1>5. l \in N
  BY <1>1, <1>4
<1> QED BY <1>1, <1>5

\* AppendSymbols one symbol at a time.
Appending(text, firstLetter, f, n) ==
  IF n = 0 THEN [out |-> <<>>, blank |-> FALSE] ELSE AppendSymbol(f[n - 1], text[n], firstLetter)

\* The function that appends the symbols one by one exists, so CHOOSE finds it.
LEMMA AppendingExists ==
  ASSUME NEW text, NEW firstLetter, NEW len \in Nat
  PROVE  \E f : f = [n \in 0 .. len |-> Appending(text, firstLetter, f, n)]
<1> DEFINE Built(k) == \E f : f = [n \in 0 .. k |-> Appending(text, firstLetter, f, n)]
           N == {k \in 0 .. len : Built(k)}
<1>1. 0 \in N
  <2> DEFINE f == [n \in 0 .. 0 |-> [out |-> <<>>, blank |-> FALSE]]
  <2>1. f = [n \in 0 .. 0 |-> Appending(text, firstLetter, f, n)]
    BY DEF Appending
  <2> QED BY <2>1
<1>2. ASSUME NEW k \in 1 .. len, k - 1 \in N
      PROVE  k \in N
  <2>1. PICK g : g = [n \in 0 .. k - 1 |-> Appending(text, firstLetter, g, n)]
    BY <1>2
  <2> DEFINE f == [n \in 0 .. k |-> IF n = k THEN Appending(text, firstLetter, g, k) ELSE g[n]]
  <2>2. \A n \in 0 .. k : Appending(text, firstLetter, f, n) = Appending(text, firstLetter, g, n)
    BY DEF Appending
  <2>3. \A n \in 0 .. k - 1 : g[n] = Appending(text, firstLetter, g, n)
    BY <2>1
  <2>4. \A n \in 0 .. k : f[n] = Appending(text, firstLetter, f, n)
    BY <2>2, <2>3
  <2>5. f = [n \in 0 .. k |-> Appending(text, firstLetter, f, n)]
    BY <2>4
  <2> HIDE DEF f
  <2>6. Built(k)
    BY <2>5
  <2> QED BY <2>6
<1>3. 0 .. len \subseteq N
  <2> HIDE DEF N
  <2> QED BY <1>1, <1>2, InductionUpTo
<1> QED BY <1>3

\* It is the one that AppendSymbols uses.
LEMMA AppendingIsBuilt ==
  ASSUME NEW T, NEW text \in Seq(T), NEW firstLetter
  PROVE  \E f : /\ f = [n \in 0 .. Len(text) |-> Appending(text, firstLetter, f, n)]
                /\ AppendSymbols(text, firstLetter) = f[Len(text)]
<1> DEFINE f == CHOOSE f : f = [n \in 0 .. Len(text) |-> Appending(text, firstLetter, f, n)]
<1>1. f = [n \in 0 .. Len(text) |-> Appending(text, firstLetter, f, n)]
  <2>1. \E g : g = [n \in 0 .. Len(text) |-> Appending(text, firstLetter, g, n)]
    <3>1. Len(text) \in Nat
      OBVIOUS
    <3> HIDE DEF f
    <3> QED BY <3>1, AppendingExists
  <2> QED BY <2>1, Zenon
<1>2. AppendSymbols(text, firstLetter) = f[Len(text)]
  BY DEF AppendSymbols, Appending
<1> QED BY <1>1, <1>2

\* The symbols of a longer text are appended one after the other.
LEMMA AppendSymbolsOneByOne ==
  ASSUME NEW T, NEW text \in Seq(T), NEW symbol \in T, NEW firstLetter
  PROVE  AppendSymbols(Append(text, symbol), firstLetter) = AppendSymbol(AppendSymbols(text, firstLetter), symbol, firstLetter)
<1> DEFINE l == Len(text)
           longer == Append(text, symbol)
<1>1. l \in Nat /\ longer \in Seq(T) /\ Len(longer) = l + 1 /\ longer[l + 1] = symbol /\ \A n \in 1 .. l : longer[n] = text[n]
  OBVIOUS
<1>2. PICK f : f = [n \in 0 .. l |-> Appending(text, firstLetter, f, n)] /\ AppendSymbols(text, firstLetter) = f[l]
  BY AppendingIsBuilt
<1> HIDE DEF longer, l
<1>3. PICK g : g = [n \in 0 .. l + 1 |-> Appending(longer, firstLetter, g, n)] /\ AppendSymbols(longer, firstLetter) = g[l + 1]
  <2>1. \E g : /\ g = [n \in 0 .. Len(longer) |-> Appending(longer, firstLetter, g, n)]
               /\ AppendSymbols(longer, firstLetter) = g[Len(longer)]
    BY <1>1, AppendingIsBuilt
  <2> QED BY <1>1, <2>1
<1>4. \A n \in 0 .. l : f[n] = Appending(text, firstLetter, f, n)
  BY <1>2
<1>5. \A n \in 0 .. l + 1 : g[n] = Appending(longer, firstLetter, g, n)
  BY <1>3
<1> DEFINE N == {n \in 0 .. l : g[n] = f[n]}
<1>6. 0 \in N
  <2>1. 0 \in 0 .. l /\ 0 \in 0 .. l + 1
    BY <1>1
  <2>2. f[0] = Appending(text, firstLetter, f, 0) /\ g[0] = Appending(longer, firstLetter, g, 0)
    BY <1>4, <1>5, <2>1
  <2> QED BY <2>1, <2>2 DEF Appending
<1>7. ASSUME NEW k \in 1 .. l, k - 1 \in N  PROVE k \in N
  <2>1. k \in 0 .. l /\ k \in 0 .. l + 1 /\ k # 0 /\ longer[k] = text[k]
    BY <1>1
  <2>2. f[k] = Appending(text, firstLetter, f, k) /\ g[k] = Appending(longer, firstLetter, g, k)
    BY <1>4, <1>5, <2>1
  <2>3. f[k - 1] = g[k - 1]
    BY <1>7
  <2> QED BY <2>1, <2>2, <2>3 DEF Appending
<1>8. 0 .. l \subseteq N
  <2> HIDE DEF N
  <2> QED BY <1>1, <1>6, <1>7, InductionUpTo
<1>9. g[l] = f[l]
  <2>1. l \in 0 .. l
    BY <1>1
  <2> QED BY <1>8, <2>1
<1>10. g[l + 1] = AppendSymbol(g[l], symbol, firstLetter)
  <2>1. l + 1 \in 0 .. l + 1 /\ l + 1 # 0 /\ (l + 1) - 1 = l
    BY <1>1
  <2>2. g[l + 1] = Appending(longer, firstLetter, g, l + 1)
    BY <1>5, <2>1
  <2> QED BY <1>1, <2>1, <2>2 DEF Appending
<1> QED BY <1>2, <1>3, <1>9, <1>10 DEF longer, l

\* An empty text gives an empty one.
LEMMA AppendNoSymbol == \A firstLetter : AppendSymbols(<<>>, firstLetter) = [out |-> <<>>, blank |-> FALSE]
<1> TAKE firstLetter
<1>1. <<>> \in Seq({}) /\ Len(<<>>) = 0
  OBVIOUS
<1>2. PICK f : f = [n \in 0 .. 0 |-> Appending(<<>>, firstLetter, f, n)] /\ AppendSymbols(<<>>, firstLetter) = f[0]
  <2>1. \E f : /\ f = [n \in 0 .. Len(<<>>) |-> Appending(<<>>, firstLetter, f, n)]
               /\ AppendSymbols(<<>>, firstLetter) = f[Len(<<>>)]
    BY <1>1, AppendingIsBuilt
  <2> QED BY <1>1, <2>1
<1>3. f[0] = Appending(<<>>, firstLetter, f, 0)
  BY <1>2
<1> QED BY <1>2, <1>3 DEF Appending

---------------------------------------------------------------------------
\* The symbols of titles, of names and of redirects.
Ignored == Blanks \cup {"LRM"}
Signs == {":", "#", "[", "]", "|"}
Names == {n.name : n \in SiteAnswer.namespaces} \cup SiteAnswer.interwikis
Symbols ==
  TitleSymbols \cup Meaningful \cup {"Redirect"} \cup DOMAIN Capital \cup {Capital[w] : w \in DOMAIN Capital}
  \cup UNION {ToSet(name) : name \in Names}
Capitalized(symbol, firstLetter) == IF firstLetter THEN TitleCase(symbol) ELSE symbol

\* The symbols that the code names.
LEMMA SymbolFacts ==
  /\ \A c \in {":", "#", "[", "]", "|", " ", "/", "\n", "Redirect"} : c \in Symbols
  /\ \A c \in {":", "#", "[", "]", "|"} : c \in Signs /\ c \in Meaningful /\ c \notin Ignored /\ c # " "
  /\ " " \in Blanks /\ " " \in Ignored
BY DEF Symbols, Meaningful, Signs, Ignored, Blanks

\* Capitals.
LEMMA CasesOfSymbols ==
  \A s : /\ TitleCase(TitleCase(s)) = TitleCase(s) /\ ToLowerCase(TitleCase(s)) = ToLowerCase(s)
         /\ s \in Symbols => TitleCase(s) \in Symbols
         /\ s \in Meaningful => TitleCase(s) = s /\ ToLowerCase(s) = s
         /\ TitleCase(s) \in Meaningful => TitleCase(s) = s
         /\ ToLowerCase(s) \in Meaningful => ToLowerCase(s) = s
<1> TAKE s
<1>1. \A w \in DOMAIN Capital : ToLowerCase(w) = w
  BY CapitalAssumption, Zenon DEF ToLowerCase
<1>2. \A w \in DOMAIN Capital : ToLowerCase(Capital[w]) = w
  BY CapitalAssumption, Zenon DEF ToLowerCase
<1>3. TitleCase(s) \in Meaningful => TitleCase(s) = s
  BY CapitalAssumption DEF TitleCase
<1>4. s \in Meaningful => TitleCase(s) = s
  BY CapitalAssumption DEF TitleCase
<1>5. s \in Meaningful => ToLowerCase(s) = s
  BY CapitalAssumption DEF ToLowerCase
<1>6. ToLowerCase(s) \in Meaningful => ToLowerCase(s) = s
  BY CapitalAssumption DEF ToLowerCase
<1>7. s \in Symbols => TitleCase(s) \in Symbols
  BY DEF TitleCase, Symbols
<1>8. TitleCase(TitleCase(s)) = TitleCase(s)
  BY CapitalAssumption DEF TitleCase
<1>9. ToLowerCase(TitleCase(s)) = ToLowerCase(s)
  BY <1>1, <1>2 DEF TitleCase
<1> QED BY <1>3, <1>4, <1>5, <1>6, <1>7, <1>8, <1>9

\* Sequences and one more element.
LEMMA SetsOfSequences ==
  ASSUME NEW T
  PROVE  /\ \A u \in Seq(T) : ToSet(u) \subseteq T
         /\ \A u \in Seq(T), e \in T :
              /\ ToSet(Append(u, e)) = ToSet(u) \cup {e}
              /\ Append(u, e) \in Seq(T) /\ Append(u, e) # <<>> /\ u \o <<e>> = Append(u, e)
              /\ Append(u, e)[1] = IF u = <<>> THEN e ELSE u[1]
<1>1. ASSUME NEW u \in Seq(T)  PROVE ToSet(u) \subseteq T
  BY DEF ToSet
<1>2. ASSUME NEW u \in Seq(T), NEW e \in T
      PROVE  /\ ToSet(Append(u, e)) = ToSet(u) \cup {e}
             /\ Append(u, e) \in Seq(T) /\ Append(u, e) # <<>> /\ u \o <<e>> = Append(u, e)
             /\ Append(u, e)[1] = IF u = <<>> THEN e ELSE u[1]
  <2> DEFINE v == Append(u, e)
             n == Len(u)
  <2>1. /\ n \in Nat /\ DOMAIN u = 1 .. n /\ DOMAIN v = 1 .. n + 1 /\ v[n + 1] = e /\ v \in Seq(T)
        /\ \A k \in 1 .. n : v[k] = u[k]
    OBVIOUS
  <2>2. Len(v) = n + 1 /\ Len(<<>>) = 0
    OBVIOUS
  <2>3. v[1] = IF u = <<>> THEN e ELSE u[1]
    OBVIOUS
  <2>4. u \o <<e>> = v
    <3>1. <<e>> \in Seq(T) /\ Len(<<e>>) = 1 /\ <<e>>[1] = e
      OBVIOUS
    <3> QED BY <3>1
  <2> HIDE DEF v, n
  <2>5. v # <<>>
    BY <2>1, <2>2
  <2>6. ToSet(v) \subseteq ToSet(u) \cup {e}
    BY <2>1 DEF ToSet
  <2>7. ToSet(u) \subseteq ToSet(v)
    BY <2>1 DEF ToSet
  <2>8. e \in ToSet(v)
    <3>1. n + 1 \in 1 .. n + 1
      BY <2>1
    <3> QED BY <2>1, <3>1 DEF ToSet
  <2>9. /\ ToSet(v) = ToSet(u) \cup {e} /\ v \in Seq(T) /\ v # <<>> /\ u \o <<e>> = v
        /\ v[1] = IF u = <<>> THEN e ELSE u[1]
    BY <2>1, <2>3, <2>4, <2>5, <2>6, <2>7, <2>8
  <2> QED BY <2>9 DEF v
<1> QED BY <1>1, <1>2

\* One more symbol at the end.
LEMMA SymbolsAppended ==
  \A u \in Seq(Symbols), e \in Symbols :
    /\ ToSet(Append(u, e)) = ToSet(u) \cup {e}
    /\ Append(u, e) \in Seq(Symbols) /\ Append(u, e) # <<>> /\ u \o <<e>> = Append(u, e)
    /\ Append(u, e)[1] = IF u = <<>> THEN e ELSE u[1]
BY SetsOfSequences

\* What a symbol adds.
Spaced(out, blank) == IF blank THEN Append(out, " ") ELSE out
Adds(out, blank, s, firstLetter, acc) ==
  /\ s = "LRM" => acc = [out |-> out, blank |-> blank]
  /\ s \in Blanks => acc = [out |-> out, blank |-> out # <<>>]
  /\ s \notin Ignored =>
       acc = [out |-> Append(Spaced(out, blank), Capitalized(s, out = <<>> /\ firstLetter)), blank |-> FALSE]

\* AppendSymbol adds just that.
LEMMA AppendSymbolCases ==
  \A out \in Seq(Symbols), blank \in BOOLEAN, s \in Symbols, firstLetter \in BOOLEAN :
    Adds(out, blank, s, firstLetter, AppendSymbol([out |-> out, blank |-> blank], s, firstLetter))
<1> TAKE out \in Seq(Symbols), blank \in BOOLEAN, s \in Symbols, firstLetter \in BOOLEAN
<1>1. " " \in Symbols /\ "LRM" \notin Blanks
  BY DEF Symbols, Meaningful, Blanks
<1>2. CASE s = "LRM"
  BY <1>1, <1>2 DEF AppendSymbol, Adds, Ignored
<1>3. CASE s \in Blanks
  BY <1>1, <1>3 DEF AppendSymbol, Adds, Ignored
<1>4. CASE s \notin Ignored
  <2> DEFINE c == Capitalized(s, out = <<>> /\ firstLetter)
             middle == Spaced(out, blank)
  <2>1. c \in Symbols
    BY CasesOfSymbols DEF Capitalized
  <2>2. middle \in Seq(Symbols) /\ middle = out \o (IF blank THEN <<" ">> ELSE <<>>)
    <3>1. out \o <<" ">> = Append(out, " ") /\ Append(out, " ") \in Seq(Symbols)
      BY <1>1, SymbolsAppended
    <3>2. out \o <<>> = out
      OBVIOUS
    <3> QED BY <3>1, <3>2 DEF Spaced
  <2>3. <<c>> = IF out = <<>> /\ firstLetter THEN <<TitleCase(s)>> ELSE <<s>>
    BY DEF Capitalized
  <2>4. AppendSymbol([out |-> out, blank |-> blank], s, firstLetter) = [out |-> middle \o <<c>>, blank |-> FALSE]
    BY <1>4, <2>2, <2>3 DEF AppendSymbol, Ignored
  <2> HIDE DEF middle, c
  <2>5. middle \o <<c>> = Append(middle, c)
    BY <2>1, <2>2, SymbolsAppended
  <2> QED BY <1>4, <2>4, <2>5 DEF Adds, Ignored, middle, c
<1> QED BY <1>2, <1>3, <1>4 DEF Ignored

\* What normalization keeps: the signs, and nothing that is ignored at the beginning.
KeepsSigns(text, firstLetter, out, blank) ==
  /\ out \in Seq(Symbols) /\ blank \in BOOLEAN
  /\ blank => out # <<>>
  /\ ToSet(out) \cap (Ignored \ {" "}) = {}
  /\ ToSet(out) \cap Signs = ToSet(text) \cap Signs
  /\ out # <<>> => out[1] \notin Ignored
  /\ text # <<>> /\ text[1] \notin Ignored => out # <<>> /\ out[1] = Capitalized(text[1], firstLetter)
Appends(text, firstLetter, acc) ==
  acc = [out |-> acc.out, blank |-> acc.blank] /\ KeepsSigns(text, firstLetter, acc.out, acc.blank)

\* It holds after any number of symbols.
LEMMA NormalizingKeepsSigns ==
  ASSUME NEW firstLetter \in BOOLEAN
  PROVE  \A text \in Seq(Symbols) : Appends(text, firstLetter, AppendSymbols(text, firstLetter))
<1> DEFINE A(text) == AppendSymbols(text, firstLetter)
           S == {text \in Seq(Symbols) : Appends(text, firstLetter, A(text))}
<1>1. <<>> \in S
  <2>1. A(<<>>) = [out |-> <<>>, blank |-> FALSE]
    BY AppendNoSymbol
  <2>2. ToSet(<<>>) = {} /\ <<>> \in Seq(Symbols)
    BY DEF ToSet
  <2>3. KeepsSigns(<<>>, firstLetter, <<>>, FALSE)
    BY <2>2 DEF KeepsSigns
  <2>4. Appends(<<>>, firstLetter, A(<<>>))
    <3>1. \A acc : acc = [out |-> <<>>, blank |-> FALSE] => acc.out = <<>> /\ acc.blank = FALSE
      OBVIOUS
    <3>2. A(<<>>).out = <<>> /\ A(<<>>).blank = FALSE
      BY <2>1, <3>1
    <3> HIDE DEF A
    <3> QED BY <2>1, <2>3, <3>2 DEF Appends
  <2> HIDE DEF A
  <2> QED BY <2>2, <2>4
<1>2. ASSUME NEW u \in Seq(Symbols), NEW x \in Symbols, u \in S
      PROVE  Append(u, x) \in S
  <2> DEFINE out == A(u).out
             blank == A(u).blank
             longer == Append(u, x)
  <2>1. A(u) = [out |-> out, blank |-> blank] /\ KeepsSigns(u, firstLetter, out, blank)
    BY <1>2 DEF Appends
  <2>2. out \in Seq(Symbols) /\ blank \in BOOLEAN
    BY <2>1 DEF KeepsSigns
  <2>3. A(longer) = AppendSymbol(A(u), x, firstLetter)
    BY AppendSymbolsOneByOne
  <2>4. /\ ToSet(longer) = ToSet(u) \cup {x} /\ longer \in Seq(Symbols) /\ longer # <<>>
        /\ longer[1] = IF u = <<>> THEN x ELSE u[1]
    BY SymbolsAppended
  <2> HIDE DEF A, longer, out, blank
  <2>5. Adds(out, blank, x, firstLetter, A(longer))
    BY <2>1, <2>2, <2>3, AppendSymbolCases
  <2>6. SUFFICES \E o, b : A(longer) = [out |-> o, blank |-> b] /\ KeepsSigns(longer, firstLetter, o, b)
    BY <2>4 DEF longer, Appends
  <2>7. CASE x = "LRM"
    <3>1. A(longer) = [out |-> out, blank |-> blank]
      BY <2>5, <2>7 DEF Adds
    <3>2. x \in Ignored /\ x \notin Signs
      BY <2>7 DEF Ignored, Signs
    <3>3. KeepsSigns(longer, firstLetter, out, blank)
      BY <2>1, <2>4, <3>2 DEF KeepsSigns
    <3> QED BY <3>1, <3>3
  <2>8. CASE x \in Blanks
    <3>1. A(longer) = [out |-> out, blank |-> out # <<>>]
      BY <2>5, <2>8 DEF Adds
    <3>2. x \in Ignored /\ x \notin Signs
      BY <2>8 DEF Ignored, Signs, Blanks
    <3>3. KeepsSigns(longer, firstLetter, out, out # <<>>)
      BY <2>1, <2>4, <3>2 DEF KeepsSigns
    <3> QED BY <3>1, <3>3
  <2>9. CASE x \notin Ignored
    <3> DEFINE c == Capitalized(x, out = <<>> /\ firstLetter)
               middle == Spaced(out, blank)
               full == Append(middle, c)
    <3>1. A(longer) = [out |-> full, blank |-> FALSE]
      BY <2>5, <2>9 DEF Adds
    <3>2. c \in Symbols /\ (c \in Meaningful \/ x \in Meaningful => c = x)
      BY CasesOfSymbols DEF Capitalized
    <3>3. Ignored \cup Signs \subseteq Meaningful /\ " " \notin Signs /\ " " \in Symbols
      BY DEF Ignored, Signs, Blanks, Meaningful, Symbols
    <3>4. /\ middle \in Seq(Symbols) /\ ToSet(middle) \subseteq ToSet(out) \cup {" "} /\ ToSet(out) \subseteq ToSet(middle)
          /\ out # <<>> => middle # <<>> /\ middle[1] = out[1]
          /\ out = <<>> => middle = <<>>
      <4>1. CASE blank
        <5>1. middle = Append(out, " ") /\ out # <<>>
          BY <2>1, <4>1 DEF Spaced, KeepsSigns
        <5> HIDE DEF middle
        <5> QED BY <2>2, <3>3, <5>1, SymbolsAppended
      <4>2. CASE ~blank
        BY <2>2, <4>2 DEF Spaced
      <4> QED BY <2>2, <4>1, <4>2
    <3> HIDE DEF middle
    <3>5. /\ full \in Seq(Symbols) /\ full # <<>> /\ ToSet(full) = ToSet(middle) \cup {c}
          /\ full[1] = IF middle = <<>> THEN c ELSE middle[1]
      <4> HIDE DEF c
      <4> QED BY <3>2, <3>4, SymbolsAppended
    <3>6. ToSet(full) \cap (Ignored \ {" "}) = {}
      BY <2>1, <2>9, <3>2, <3>3, <3>4, <3>5 DEF KeepsSigns
    <3>7. ToSet(full) \cap Signs = ToSet(longer) \cap Signs
      <4>1. c \in Signs \/ x \in Signs => c = x
        BY <3>2, <3>3
      <4> HIDE DEF c, full
      <4> QED BY <2>1, <2>4, <3>3, <3>4, <3>5, <4>1 DEF KeepsSigns
    <3>8. full[1] \notin Ignored
      <4>1. c \notin Ignored
        BY <2>9, <3>2, <3>3
      <4> HIDE DEF c, full
      <4> QED BY <2>1, <3>4, <3>5, <4>1 DEF KeepsSigns
    <3>9. longer[1] \notin Ignored => full[1] = Capitalized(longer[1], firstLetter)
      <4>1. CASE u = <<>>
        <5>1. out = <<>>
          <6>1. A(<<>>) = [out |-> <<>>, blank |-> FALSE]
            BY AppendNoSymbol DEF A
          <6> QED BY <4>1, <6>1 DEF out
        <5>2. c = Capitalized(x, firstLetter)
          BY <5>1 DEF Capitalized
        <5>3. full[1] = c /\ longer[1] = x
          <6> HIDE DEF c, full
          <6> QED BY <2>4, <3>4, <3>5, <4>1, <5>1
        <5> QED BY <5>2, <5>3
      <4>2. CASE u # <<>>
        <5> HIDE DEF c, full
        <5> QED BY <2>1, <2>4, <3>4, <3>5, <4>2 DEF KeepsSigns
      <4> QED BY <4>1, <4>2
    <3> HIDE DEF c, full
    <3>10. KeepsSigns(longer, firstLetter, full, FALSE)
      BY <3>5, <3>6, <3>7, <3>8, <3>9 DEF KeepsSigns
    <3> QED BY <3>1, <3>10
  <2> QED BY <2>7, <2>8, <2>9 DEF Ignored
<1> HIDE DEF S
<1>3. Seq(Symbols) \subseteq S
  BY <1>1, <1>2, SequenceInduction
<1> QED BY <1>3 DEF S

\* The result of AppendSymbols, and what one more symbol makes of it.
LEMMA Appended ==
  ASSUME NEW text \in Seq(Symbols), NEW firstLetter \in BOOLEAN
  PROVE  \E out \in Seq(Symbols), blank \in BOOLEAN :
           /\ AppendSymbols(text, firstLetter) = [out |-> out, blank |-> blank]
           /\ NormalizedPart(text, firstLetter) = out
           /\ KeepsSigns(text, firstLetter, out, blank)
           /\ \A s \in Symbols : Adds(out, blank, s, firstLetter, AppendSymbols(Append(text, s), firstLetter))
<1> DEFINE acc == AppendSymbols(text, firstLetter)
           out == acc.out
           blank == acc.blank
<1>1. acc = [out |-> out, blank |-> blank] /\ KeepsSigns(text, firstLetter, out, blank)
  <2>1. Appends(text, firstLetter, acc)
    BY NormalizingKeepsSigns
  <2> HIDE DEF acc
  <2> QED BY <2>1 DEF Appends
<1>2. NormalizedPart(text, firstLetter) = out
  BY DEF NormalizedPart
<1>3. ASSUME NEW s \in Symbols
      PROVE  AppendSymbols(Append(text, s), firstLetter) = AppendSymbol(acc, s, firstLetter)
  BY AppendSymbolsOneByOne
<1> HIDE DEF out, blank
<1>4. out \in Seq(Symbols) /\ blank \in BOOLEAN
  BY <1>1 DEF KeepsSigns
<1>5. ASSUME NEW s \in Symbols
      PROVE  Adds(out, blank, s, firstLetter, AppendSymbols(Append(text, s), firstLetter))
  BY <1>1, <1>3, <1>4, AppendSymbolCases
<1> HIDE DEF acc
<1> QED BY <1>1, <1>2, <1>4, <1>5 DEF acc

\* Normalizing changes nothing twice, whether the first letter is a capital or not.
LEMMA NormalizedTwice ==
  ASSUME NEW firstLetter \in BOOLEAN, NEW again \in BOOLEAN, again => firstLetter
  PROVE  \A text \in Seq(Symbols) :
           AppendSymbols(NormalizedPart(text, firstLetter), again) = [out |-> NormalizedPart(text, firstLetter), blank |-> FALSE]
<1> DEFINE N(text) == NormalizedPart(text, firstLetter)
           B(text) == AppendSymbols(text, again)
           S == {text \in Seq(Symbols) : B(N(text)) = [out |-> N(text), blank |-> FALSE]}
<1>1. <<>> \in S
  <2>1. N(<<>>) = <<>>
    BY AppendNoSymbol DEF NormalizedPart
  <2>2. B(<<>>) = [out |-> <<>>, blank |-> FALSE]
    BY AppendNoSymbol
  <2> HIDE DEF B, N
  <2> QED BY <2>1, <2>2
<1>2. ASSUME NEW u \in Seq(Symbols), NEW x \in Symbols, u \in S
      PROVE  Append(u, x) \in S
  <2> DEFINE longer == Append(u, x)
  <2>1. PICK out \in Seq(Symbols), blank \in BOOLEAN :
          /\ N(u) = out /\ KeepsSigns(u, firstLetter, out, blank)
          /\ Adds(out, blank, x, firstLetter, AppendSymbols(longer, firstLetter))
    BY Appended
  <2>2. longer \in Seq(Symbols)
    OBVIOUS
  <2>3. PICK out2 \in Seq(Symbols), blank2 \in BOOLEAN :
          AppendSymbols(longer, firstLetter) = [out |-> out2, blank |-> blank2] /\ N(longer) = out2
    BY <2>2, Appended
  <2>4. B(out) = [out |-> out, blank |-> FALSE]
    BY <1>2, <2>1
  <2>5. SUFFICES B(out2) = [out |-> out2, blank |-> FALSE]
    BY <2>2, <2>3
  <2> HIDE DEF B, N, longer
  <2>6. CASE x \in Ignored
    <3>1. out2 = out
      BY <2>1, <2>3, <2>6 DEF Adds, Ignored
    <3> QED BY <2>4, <3>1
  <2>7. CASE x \notin Ignored
    <3> DEFINE c == Capitalized(x, out = <<>> /\ firstLetter)
               middle == Spaced(out, blank)
               full == Append(middle, c)
    <3>1. out2 = full
      BY <2>1, <2>3, <2>7 DEF Adds
    <3>2. c \in Symbols /\ c \notin Ignored /\ (out = <<>> /\ again => TitleCase(c) = c)
      BY <2>7, CasesOfSymbols DEF Capitalized, Ignored, Blanks, Meaningful
    <3>3. middle \in Seq(Symbols) /\ B(middle) = [out |-> out, blank |-> blank]
      <4>1. CASE blank
        <5>1. " " \in Symbols /\ " " \in Blanks
          BY DEF Symbols, Meaningful, Blanks
        <5>2. B(Append(out, " ")) = AppendSymbol(B(out), " ", again)
          BY <5>1, AppendSymbolsOneByOne DEF B
        <5>3. Adds(out, FALSE, " ", again, AppendSymbol([out |-> out, blank |-> FALSE], " ", again))
          BY <5>1, AppendSymbolCases
        <5>4. B(Append(out, " ")) = [out |-> out, blank |-> out # <<>>]
          BY <2>4, <5>1, <5>2, <5>3 DEF Adds
        <5> QED BY <2>1, <4>1, <5>1, <5>4, SymbolsAppended DEF Spaced, KeepsSigns
      <4>2. CASE ~blank
        BY <2>4, <4>2 DEF Spaced
      <4> QED BY <4>1, <4>2
    <3> HIDE DEF c, middle
    <3>4. B(full) = AppendSymbol(B(middle), c, again)
      BY <3>2, <3>3, AppendSymbolsOneByOne DEF B
    <3>5. Adds(out, blank, c, again, B(full))
      BY <3>2, <3>3, <3>4, AppendSymbolCases
    <3>6. Capitalized(c, out = <<>> /\ again) = c
      BY <3>2 DEF Capitalized
    <3>7. B(full) = [out |-> full, blank |-> FALSE]
      BY <3>2, <3>5, <3>6 DEF Adds, middle
    <3> QED BY <3>1, <3>7
  <2> QED BY <2>6, <2>7
<1> HIDE DEF S
<1>3. Seq(Symbols) \subseteq S
  BY <1>1, <1>2, SequenceInduction
<1> QED BY <1>3 DEF S

\* Texts that differ by capitals only.
SameButCase(u, v) == Len(u) = Len(v) /\ \A k \in 1 .. Len(u) : ToLowerCase(u[k]) = ToLowerCase(v[k])

\* Texts that differ only by capitals are one text in lower case.
LEMMA SameInLowerCase ==
  \A u, v \in Seq(Symbols) :
    /\ SameButCase(u, v) => LowerCase(u) = LowerCase(v)
    /\ \A e, f \in Symbols : SameButCase(u, v) /\ ToLowerCase(e) = ToLowerCase(f) => SameButCase(Append(u, e), Append(v, f))
    /\ SameButCase(u, v) => (u = <<>> <=> v = <<>>)
<1> TAKE u, v \in Seq(Symbols)
<1>1. SameButCase(u, v) => LowerCase(u) = LowerCase(v)
  BY DEF SameButCase, LowerCase
<1>2. ASSUME NEW e \in Symbols, NEW f \in Symbols, SameButCase(u, v), ToLowerCase(e) = ToLowerCase(f)
      PROVE  SameButCase(Append(u, e), Append(v, f))
  <2> DEFINE n == Len(u)
             p == Append(u, e)
             q == Append(v, f)
  <2>1. n \in Nat /\ Len(v) = n /\ \A k \in 1 .. n : ToLowerCase(u[k]) = ToLowerCase(v[k])
    BY <1>2 DEF SameButCase
  <2>2. Len(p) = n + 1 /\ p[n + 1] = e /\ \A k \in 1 .. n : p[k] = u[k]
    OBVIOUS
  <2>3. Len(q) = n + 1 /\ q[n + 1] = f /\ \A k \in 1 .. n : q[k] = v[k]
    BY <2>1
  <2> HIDE DEF n, p, q
  <2>4. \A k \in 1 .. n + 1 : ToLowerCase(p[k]) = ToLowerCase(q[k])
    <3> TAKE k \in 1 .. n + 1
    <3>1. CASE k = n + 1
      BY <1>2, <2>2, <2>3, <3>1
    <3>2. CASE k \in 1 .. n
      BY <2>1, <2>2, <2>3, <3>2
    <3> QED BY <2>1, <3>1, <3>2
  <2>5. SameButCase(p, q)
    BY <2>2, <2>3, <2>4 DEF SameButCase
  <2> QED BY <2>5 DEF p, q
<1>3. SameButCase(u, v) => (u = <<>> <=> v = <<>>)
  <2>1. (u = <<>> <=> Len(u) = 0) /\ (v = <<>> <=> Len(v) = 0)
    OBVIOUS
  <2> QED BY <2>1 DEF SameButCase
<1> QED BY <1>1, <1>2, <1>3

AppendedAlike(acc, other) ==
  \E out, same \in Seq(Symbols), blank \in BOOLEAN :
    acc = [out |-> out, blank |-> blank] /\ other = [out |-> same, blank |-> blank] /\ SameButCase(out, same)

\* Capitals are all that the first letter changes.
LEMMA NormalizedButCase ==
  \A text \in Seq(Symbols) : AppendedAlike(AppendSymbols(text, TRUE), AppendSymbols(text, FALSE))
<1> DEFINE Same(text) == AppendedAlike(AppendSymbols(text, TRUE), AppendSymbols(text, FALSE))
           S == {text \in Seq(Symbols) : Same(text)}
<1>1. <<>> \in S
  <2>1. SameButCase(<<>>, <<>>) /\ <<>> \in Seq(Symbols)
    BY DEF SameButCase
  <2>2. Same(<<>>)
    <3>1. AppendSymbols(<<>>, TRUE) = [out |-> <<>>, blank |-> FALSE] /\ AppendSymbols(<<>>, FALSE) = [out |-> <<>>, blank |-> FALSE]
      BY AppendNoSymbol
    <3>2. AppendedAlike([out |-> <<>>, blank |-> FALSE], [out |-> <<>>, blank |-> FALSE])
      BY <2>1 DEF AppendedAlike
    <3> QED BY <3>1, <3>2
  <2> HIDE DEF Same
  <2> QED BY <2>1, <2>2
<1>2. ASSUME NEW u \in Seq(Symbols), NEW x \in Symbols, u \in S
      PROVE  Append(u, x) \in S
  <2> DEFINE longer == Append(u, x)
  <2>1. PICK o \in Seq(Symbols), b \in BOOLEAN :
          AppendSymbols(u, TRUE) = [out |-> o, blank |-> b] /\ Adds(o, b, x, TRUE, AppendSymbols(longer, TRUE))
    BY Appended
  <2>2. PICK p \in Seq(Symbols), c \in BOOLEAN :
          AppendSymbols(u, FALSE) = [out |-> p, blank |-> c] /\ Adds(p, c, x, FALSE, AppendSymbols(longer, FALSE))
    BY Appended
  <2>3. SameButCase(o, p) /\ b = c /\ (o = <<>> <=> p = <<>>)
    <3>1. AppendedAlike([out |-> o, blank |-> b], [out |-> p, blank |-> c])
      BY <1>2, <2>1, <2>2
    <3>2. SameButCase(o, p) /\ b = c
      BY <3>1 DEF AppendedAlike
    <3> QED BY <3>2, SameInLowerCase
  <2>4. longer \in Seq(Symbols)
    OBVIOUS
  <2> HIDE DEF longer
  <2>5. SUFFICES AppendedAlike(AppendSymbols(longer, TRUE), AppendSymbols(longer, FALSE))
    BY <2>4 DEF longer
  <2>6. CASE x = "LRM"
    BY <2>1, <2>2, <2>3, <2>6 DEF Adds, AppendedAlike
  <2>7. CASE x \in Blanks
    <3>1. AppendSymbols(longer, TRUE) = [out |-> o, blank |-> o # <<>>] /\ AppendSymbols(longer, FALSE) = [out |-> p, blank |-> p # <<>>]
      BY <2>1, <2>2, <2>7 DEF Adds
    <3>2. (o # <<>>) = (p # <<>>) /\ (o # <<>>) \in BOOLEAN
      BY <2>3
    <3> QED BY <2>3, <3>1, <3>2 DEF AppendedAlike
  <2>8. CASE x \notin Ignored
    <3> DEFINE e == Capitalized(x, o = <<>> /\ TRUE)
               f == Capitalized(x, p = <<>> /\ FALSE)
               m == Spaced(o, b)
               n == Spaced(p, c)
    <3>1. /\ AppendSymbols(longer, TRUE) = [out |-> Append(m, e), blank |-> FALSE]
          /\ AppendSymbols(longer, FALSE) = [out |-> Append(n, f), blank |-> FALSE]
      BY <2>1, <2>2, <2>8 DEF Adds
    <3>2. e \in Symbols /\ f \in Symbols /\ ToLowerCase(e) = ToLowerCase(f)
      BY CasesOfSymbols DEF Capitalized
    <3>3. m \in Seq(Symbols) /\ n \in Seq(Symbols) /\ SameButCase(m, n)
      <4>1. " " \in Symbols
        BY DEF Symbols, Meaningful
      <4>2. CASE b
        BY <2>3, <4>1, <4>2, SymbolsAppended, SameInLowerCase DEF Spaced
      <4>3. CASE ~b
        BY <2>3, <4>3 DEF Spaced
      <4> QED BY <4>2, <4>3
    <3> HIDE DEF e, f, m, n
    <3>4. SameButCase(Append(m, e), Append(n, f))
      BY <3>2, <3>3, SameInLowerCase
    <3>5. Append(m, e) \in Seq(Symbols) /\ Append(n, f) \in Seq(Symbols)
      BY <3>2, <3>3
    <3> QED BY <3>1, <3>4, <3>5 DEF AppendedAlike
  <2> QED BY <2>6, <2>7, <2>8 DEF Ignored
<1> HIDE DEF S
<1>3. Seq(Symbols) \subseteq S
  BY <1>1, <1>2, SequenceInduction
<1> QED BY <1>3 DEF S

\* Where a text is cut: at the first of some symbols.
LEMMA FirstIsLeast ==
  \A S, text : DOMAIN text \subseteq Nat =>
    LET found == {i \in DOMAIN text : text[i] \in S}
    IN  /\ found = {} => First(S, text) = 0
        /\ found # {} => First(S, text) \in found /\ \A i \in found : First(S, text) <= i
<1> TAKE S, text
<1> HAVE DOMAIN text \subseteq Nat
<1> DEFINE found == {i \in DOMAIN text : text[i] \in S}
<1>1. found = {} => First(S, text) = 0
  BY DEF First
<1>2. CASE found # {}
  <2>1. First(S, text) = CHOOSE x \in found : \A y \in found : x <= y
    BY <1>2 DEF First, Min
  <2>2. \E x \in found : \A y \in found : x <= y
    <3>1. found \subseteq Nat
      OBVIOUS
    <3> HIDE DEF found
    <3> QED BY <1>2, <3>1, LeastNatural
  <2> HIDE DEF found
  <2>3. First(S, text) \in found /\ \A i \in found : First(S, text) <= i
    BY <2>1, <2>2, Zenon
  <2> QED BY <1>2, <2>3 DEF found
<1> QED BY <1>1, <1>2

\* Upto, without its minimum.
LEMMA UptoIsSubSeq ==
  \A text \in Seq(Symbols), i \in Nat : i <= Len(text) => Upto(text, i) = SubSeq(text, 1, i)
<1> TAKE text \in Seq(Symbols), i \in Nat
<1> HAVE i <= Len(text)
<1>1. Min({i, Len(text)}) = i
  <2>1. Len(text) \in Nat
    OBVIOUS
  <2>2. \E x \in {i, Len(text)} : \A y \in {i, Len(text)} : x <= y
    BY <2>1
  <2>3. Min({i, Len(text)}) \in {i, Len(text)} /\ \A y \in {i, Len(text)} : Min({i, Len(text)}) <= y
    BY <2>2, Zenon DEF Min
  <2> QED BY <2>1, <2>3
<1> QED BY <1>1 DEF Upto

\* A text around a symbol.
IsCut(text, before, c, after, S) ==
  /\ text \in Seq(Symbols) /\ ToSet(text) = ToSet(before) \cup {c} \cup ToSet(after) /\ text # <<>>
  /\ First(S, text) = Len(before) + 1 /\ First(S, text) - 1 = Len(before) /\ First(S, text) # 0
  /\ Upto(text, Len(before)) = before
  /\ After(text, Len(before) + 1) = after
  /\ After(text, Len(before)) = <<c>> \o after
  /\ text = before \o (<<c>> \o after)

\* A text with one of S in it, and none before, is cut there.
LEMMA CutAround ==
  ASSUME NEW before \in Seq(Symbols), NEW c \in Symbols, NEW after \in Seq(Symbols), NEW S, c \in S, ToSet(before) \cap S = {}
  PROVE  IsCut(Append(before, c) \o after, before, c, after, S)
<1> DEFINE n == Len(before)
           m == Len(after)
           text == Append(before, c) \o after
           rest == <<c>> \o after
<1>1. /\ n \in Nat /\ m \in Nat /\ text \in Seq(Symbols) /\ Len(text) = n + 1 + m /\ DOMAIN text = 1 .. n + 1 + m
      /\ DOMAIN before = 1 .. n /\ DOMAIN after = 1 .. m
  OBVIOUS
<1>2. /\ \A k \in 1 .. n : text[k] = before[k]
      /\ text[n + 1] = c
      /\ \A k \in 1 .. m : text[n + 1 + k] = after[k]
  OBVIOUS
<1>3. rest \in Seq(Symbols) /\ Len(rest) = m + 1 /\ rest[1] = c /\ \A k \in 1 .. m : rest[1 + k] = after[k]
  OBVIOUS
<1>4. text = before \o rest
  <2>1. before \o rest \in Seq(Symbols) /\ Len(before \o rest) = n + (m + 1)
    BY <1>3
  <2>2. \A k \in 1 .. n : (before \o rest)[k] = before[k]
    BY <1>3
  <2>3. (before \o rest)[n + 1] = c
    BY <1>3
  <2>4. \A k \in 1 .. m : (before \o rest)[n + 1 + k] = after[k]
    <3> TAKE k \in 1 .. m
    <3>1. (before \o rest)[n + (1 + k)] = rest[1 + k]
      BY <1>3
    <3> QED BY <1>1, <1>3, <3>1
  <2> DEFINE other == before \o rest
  <2>5. \A k \in 1 .. n + 1 + m : text[k] = other[k]
    <3> HIDE DEF text, other, rest
    <3> TAKE k \in 1 .. n + 1 + m
    <3>1. k \in 1 .. n \/ k = n + 1 \/ (k - (n + 1)) \in 1 .. m
      BY <1>1
    <3>2. CASE (k - (n + 1)) \in 1 .. m
      <4>1. k = n + 1 + (k - (n + 1))
        BY <1>1
      <4>2. text[n + 1 + (k - (n + 1))] = after[k - (n + 1)] /\ other[n + 1 + (k - (n + 1))] = after[k - (n + 1)]
        BY <1>2, <2>4, <3>2 DEF other
      <4> QED BY <4>1, <4>2
    <3> QED BY <1>2, <2>2, <2>3, <3>1, <3>2 DEF other
  <2> QED BY <1>1, <2>1, <2>5
<1>5. ToSet(text) = ToSet(before) \cup {c} \cup ToSet(after)
  <2> HIDE DEF text, n, m
  <2>1. ToSet(text) \subseteq ToSet(before) \cup {c} \cup ToSet(after)
    <3> SUFFICES ASSUME NEW k \in 1 .. n + 1 + m  PROVE text[k] \in ToSet(before) \cup {c} \cup ToSet(after)
      BY <1>1 DEF ToSet
    <3>1. k \in 1 .. n \/ k = n + 1 \/ (k - (n + 1)) \in 1 .. m
      BY <1>1
    <3>2. CASE (k - (n + 1)) \in 1 .. m
      <4>1. k = n + 1 + (k - (n + 1))
        BY <1>1
      <4>2. text[n + 1 + (k - (n + 1))] = after[k - (n + 1)]
        BY <1>2, <3>2
      <4> QED BY <1>1, <3>2, <4>1, <4>2 DEF ToSet
    <3> QED BY <1>1, <1>2, <3>1, <3>2 DEF ToSet
  <2>2. ToSet(before) \subseteq ToSet(text)
    <3> SUFFICES ASSUME NEW k \in 1 .. n  PROVE before[k] \in ToSet(text)
      BY <1>1 DEF ToSet
    <3>1. k \in 1 .. n + 1 + m
      BY <1>1
    <3> QED BY <1>1, <1>2, <3>1 DEF ToSet
  <2>3. c \in ToSet(text)
    <3>1. n + 1 \in 1 .. n + 1 + m
      BY <1>1
    <3> QED BY <1>1, <1>2, <3>1 DEF ToSet
  <2>4. ToSet(after) \subseteq ToSet(text)
    <3> SUFFICES ASSUME NEW k \in 1 .. m  PROVE after[k] \in ToSet(text)
      BY <1>1 DEF ToSet
    <3>1. n + 1 + k \in 1 .. n + 1 + m
      BY <1>1
    <3> QED BY <1>1, <1>2, <3>1 DEF ToSet
  <2> QED BY <2>1, <2>2, <2>3, <2>4
<1>6. First(S, text) = n + 1
  <2> HIDE DEF text, n, m
  <2>1. DOMAIN text \subseteq Nat /\ n + 1 \in DOMAIN text /\ text[n + 1] \in S
    BY <1>1, <1>2
  <2>2. /\ First(S, text) \in DOMAIN text /\ text[First(S, text)] \in S /\ First(S, text) <= n + 1
    BY <2>1, FirstIsLeast
  <2>3. First(S, text) \notin 1 .. n
    <3>1. \A k \in 1 .. n : text[k] \in ToSet(before)
      BY <1>1, <1>2 DEF ToSet
    <3> QED BY <2>2, <3>1
  <2> QED BY <1>1, <2>2, <2>3
<1>7. Upto(text, n) = before
  <2>1. Upto(text, n) = SubSeq(text, 1, n)
    <3>1. n <= Len(text)
      BY <1>1
    <3> HIDE DEF text, n
    <3> QED BY <1>1, <3>1, UptoIsSubSeq
  <2> QED BY <2>1, <1>1, <1>2
<1>8. After(text, n + 1) = after
  BY <1>1, <1>2 DEF After
<1>9. After(text, n) = rest
  <2> DEFINE u == SubSeq(text, n + 1, Len(text))
  <2>1. u \in Seq(Symbols) /\ Len(u) = m + 1
    BY <1>1
  <2>2. \A k \in 1 .. m + 1 : u[k] = text[n + k]
    <3> HIDE DEF text
    <3> QED BY <1>1
  <2>3. u[1] = c
    BY <1>1, <1>2, <2>2
  <2>4. \A k \in 1 .. m : u[1 + k] = after[k]
    <3> HIDE DEF u, text, n, m
    <3> TAKE k \in 1 .. m
    <3>1. u[1 + k] = text[n + (1 + k)] /\ n + (1 + k) = n + 1 + k
      BY <1>1, <2>2
    <3> QED BY <1>2, <3>1
  <2>5. \A k \in 1 .. m + 1 : u[k] = rest[k]
    <3> HIDE DEF u, text, n, m, rest
    <3> TAKE k \in 1 .. m + 1
    <3>1. k = 1 \/ ((k - 1) \in 1 .. m /\ k = 1 + (k - 1))
      BY <1>1
    <3> QED BY <1>3, <2>3, <2>4, <3>1
  <2>6. u = rest
    <3> HIDE DEF u, text, rest
    <3> QED BY <1>3, <2>1, <2>5
  <2> QED BY <2>6 DEF After
<1>10. text # <<>>
  <2>1. Len(<<>>) = 0
    OBVIOUS
  <2> HIDE DEF text, n, m
  <2> QED BY <1>1, <2>1
<1> HIDE DEF text, n, m, rest
<1>11. First(S, text) - 1 = n /\ First(S, text) # 0
  BY <1>1, <1>6
<1> QED BY <1>1, <1>4, <1>5, <1>6, <1>7, <1>8, <1>9, <1>10, <1>11 DEF IsCut, text, n, rest

\* A text with none of S has no place to cut.
LEMMA NothingToCut ==
  \A S : \A text \in Seq(Symbols) : ToSet(text) \cap S = {} => First(S, text) = 0
<1> TAKE S
<1> TAKE text \in Seq(Symbols)
<1> HAVE ToSet(text) \cap S = {}
<1>1. DOMAIN text \subseteq Nat /\ {i \in DOMAIN text : text[i] \in S} = {}
  BY DEF ToSet
<1> QED BY <1>1, FirstIsLeast

\* Any other has one.
LEMMA Cut ==
  ASSUME NEW S, NEW text \in Seq(Symbols), ToSet(text) \cap S # {}
  PROVE  \E before, after \in Seq(Symbols) : \E c \in S \cap Symbols :
           text = Append(before, c) \o after /\ ToSet(before) \cap S = {}
<1> DEFINE n == First(S, text)
           before == SubSeq(text, 1, n - 1)
           after == SubSeq(text, n + 1, Len(text))
<1>1. DOMAIN text \subseteq Nat /\ {i \in DOMAIN text : text[i] \in S} # {} /\ DOMAIN text = 1 .. Len(text) /\ Len(text) \in Nat
  BY DEF ToSet
<1>2. n \in 1 .. Len(text) /\ text[n] \in S /\ \A i \in 1 .. Len(text) : text[i] \in S => n <= i
  BY <1>1, FirstIsLeast
<1> HIDE DEF n
<1>3. before \in Seq(Symbols) /\ after \in Seq(Symbols) /\ text[n] \in Symbols
  BY <1>2
<1>4. text = Append(before, text[n]) \o after
  <2> DEFINE whole == Append(before, text[n]) \o after
             l == Len(text)
  <2>1. n \in 1 .. l /\ l \in Nat
    BY <1>2
  <2>2. Len(before) = n - 1 /\ \A k \in 1 .. n - 1 : before[k] = text[k]
    BY <1>2
  <2>3. Len(after) = l - n /\ \A k \in 1 .. l - n : after[k] = text[n + k]
    BY <1>2
  <2> HIDE DEF before, after, l
  <2>4. whole \in Seq(Symbols) /\ Len(whole) = l
    <3>1. Append(before, text[n]) \in Seq(Symbols) /\ Len(Append(before, text[n])) = n
      BY <1>3, <2>1, <2>2
    <3>2. Len(whole) = n + (l - n) /\ whole \in Seq(Symbols)
      <4> HIDE DEF whole
      <4>1. \A u, v \in Seq(Symbols) : Len(u \o v) = Len(u) + Len(v) /\ u \o v \in Seq(Symbols)
        OBVIOUS
      <4> QED BY <1>3, <2>3, <3>1, <4>1 DEF whole
    <3> QED BY <2>1, <3>2
  <2>5. \A k \in 1 .. n - 1 : whole[k] = before[k]
    BY <1>3, <2>1, <2>2, <2>3
  <2>6. whole[n] = text[n]
    BY <1>3, <2>1, <2>2, <2>3
  <2>7. \A k \in 1 .. l - n : whole[n + k] = after[k]
    BY <1>3, <2>1, <2>2, <2>3
  <2>8. \A k \in 1 .. l : whole[k] = text[k]
    <3> HIDE DEF whole
    <3> TAKE k \in 1 .. l
    <3>1. CASE k \in 1 .. n - 1
      BY <2>2, <2>5, <3>1
    <3>2. CASE k = n
      BY <2>6, <3>2
    <3>3. CASE k - n \in 1 .. l - n
      <4>1. k = n + (k - n)
        BY <2>1
      <4> QED BY <2>3, <2>7, <3>3, <4>1
    <3> QED BY <2>1, <3>1, <3>2, <3>3
  <2> HIDE DEF whole
  <2>9. whole = text
    BY <2>4, <2>8 DEF l
  <2> QED BY <2>9 DEF whole
<1>5. ToSet(before) \cap S = {}
  <2>1. DOMAIN before = 1 .. n - 1 /\ \A k \in 1 .. n - 1 : before[k] = text[k]
    BY <1>2
  <2>2. \A k \in 1 .. n - 1 : text[k] \notin S
    BY <1>2
  <2> HIDE DEF before
  <2> QED BY <2>1, <2>2 DEF ToSet
<1> HIDE DEF before, after
<1> QED BY <1>2, <1>3, <1>4, <1>5

\* Append and \o commute.
LEMMA AppendedToConcat ==
  \A u, v \in Seq(Symbols), e \in Symbols : Append(u \o v, e) = u \o Append(v, e) /\ Append(v, e) \in Seq(Symbols)
BY AppendToConcat

\* Concatenations.
LEMMA Concatenations ==
  \A u, v \in Seq(Symbols) :
    /\ u \o v \in Seq(Symbols) /\ u \o <<>> = u /\ <<>> \o u = u /\ ToSet(u \o v) = ToSet(u) \cup ToSet(v)
    /\ u # <<>> => u \o v # <<>> /\ (u \o v)[1] = u[1]
    /\ \A w \in Seq(Symbols) : (u \o v) \o w = u \o (v \o w)
    /\ \A e \in Symbols : Append(u \o v, e) = u \o Append(v, e) /\ Append(v, e) \in Seq(Symbols)
    /\ \A e \in Symbols : <<e>> \o v \in Seq(Symbols)
<1> TAKE u, v \in Seq(Symbols)
<1>1. u \o v \in Seq(Symbols) /\ u \o <<>> = u /\ <<>> \o u = u
  OBVIOUS
<1>2. ToSet(u \o v) = ToSet(u) \cup ToSet(v)
  <2> DEFINE all == u \o v
             n == Len(u)
             m == Len(v)
  <2>1. /\ n \in Nat /\ m \in Nat /\ DOMAIN all = 1 .. n + m /\ DOMAIN u = 1 .. n /\ DOMAIN v = 1 .. m
        /\ \A k \in 1 .. n : all[k] = u[k]
        /\ \A k \in 1 .. m : all[n + k] = v[k]
    OBVIOUS
  <2> HIDE DEF all, n, m
  <2>2. ASSUME NEW k \in 1 .. n + m  PROVE all[k] \in ToSet(u) \cup ToSet(v)
    <3>1. CASE k \in 1 .. n
      BY <2>1, <3>1 DEF ToSet
    <3>2. CASE k - n \in 1 .. m
      <4>1. k = n + (k - n)
        BY <2>1
      <4>2. all[k] = v[k - n]
        BY <2>1, <3>2, <4>1
      <4> QED BY <2>1, <3>2, <4>2 DEF ToSet
    <3> QED BY <2>1, <3>1, <3>2
  <2>3. ASSUME NEW k \in 1 .. n  PROVE u[k] \in ToSet(all)
    BY <2>1 DEF ToSet
  <2>4. ASSUME NEW k \in 1 .. m  PROVE v[k] \in ToSet(all)
    <3>1. n + k \in 1 .. n + m
      BY <2>1
    <3> QED BY <2>1, <3>1 DEF ToSet
  <2>5. ToSet(all) \subseteq ToSet(u) \cup ToSet(v)
    BY <2>1, <2>2 DEF ToSet
  <2>6. ToSet(u) \subseteq ToSet(all) /\ ToSet(v) \subseteq ToSet(all)
    BY <2>1, <2>3, <2>4 DEF ToSet
  <2> QED BY <2>5, <2>6 DEF all
<1>3. u # <<>> => u \o v # <<>> /\ (u \o v)[1] = u[1]
  OBVIOUS
<1>4. ASSUME NEW w \in Seq(Symbols)  PROVE (u \o v) \o w = u \o (v \o w)
  BY ConcatAssociative
<1>5. ASSUME NEW e \in Symbols  PROVE Append(u \o v, e) = u \o Append(v, e) /\ Append(v, e) \in Seq(Symbols)
  BY AppendedToConcat
<1>6. ASSUME NEW e \in Symbols  PROVE <<e>> \o v \in Seq(Symbols)
  OBVIOUS
<1> QED BY <1>1, <1>2, <1>3, <1>4, <1>5, <1>6

\* What was normalized stays as more is.
LEMMA NormalizingExtends ==
  ASSUME NEW start \in Seq(Symbols), NEW firstLetter \in BOOLEAN
  PROVE  \A text \in Seq(Symbols) : \E more \in Seq(Symbols) :
           NormalizedPart(start \o text, firstLetter) = NormalizedPart(start, firstLetter) \o more
<1> DEFINE N(text) == NormalizedPart(text, firstLetter)
           S == {text \in Seq(Symbols) : \E more \in Seq(Symbols) : N(start \o text) = N(start) \o more}
<1>1. PICK first \in Seq(Symbols) : N(start) = first
  BY Appended
<1>2. <<>> \in S
  <2>1. start \o <<>> = start /\ first \o <<>> = first /\ <<>> \in Seq(Symbols)
    BY Concatenations
  <2> HIDE DEF N
  <2> QED BY <1>1, <2>1
<1>3. ASSUME NEW u \in Seq(Symbols), NEW x \in Symbols, u \in S
      PROVE  Append(u, x) \in S
  <2> DEFINE text == start \o u
             longer == Append(text, x)
  <2>1. /\ text \in Seq(Symbols) /\ longer = start \o Append(u, x) /\ longer \in Seq(Symbols)
        /\ Append(u, x) \in Seq(Symbols)
    <3>1. text \in Seq(Symbols)
      BY Concatenations
    <3>2. longer = start \o Append(u, x) /\ Append(u, x) \in Seq(Symbols)
      BY AppendedToConcat
    <3> HIDE DEF text
    <3> QED BY <3>1, <3>2, SymbolsAppended
  <2>2. PICK more \in Seq(Symbols) : N(text) = first \o more
    BY <1>1, <1>3
  <2> HIDE DEF text, longer
  <2>3. PICK out \in Seq(Symbols), blank \in BOOLEAN :
          N(text) = out /\ Adds(out, blank, x, firstLetter, AppendSymbols(Append(text, x), firstLetter))
    BY <2>1, Appended
  <2>4. PICK out2 \in Seq(Symbols), blank2 \in BOOLEAN :
          AppendSymbols(longer, firstLetter) = [out |-> out2, blank |-> blank2] /\ N(longer) = out2
    BY <2>1, Appended
  <2> HIDE DEF N
  <2>5. SUFFICES \E rest \in Seq(Symbols) : out2 = first \o rest
    BY <1>1, <2>1, <2>4
  <2>6. Adds(out, blank, x, firstLetter, [out |-> out2, blank |-> blank2])
    BY <2>3, <2>4 DEF longer
  <2>7. CASE x \in Ignored
    <3>1. out2 = out
      BY <2>6, <2>7 DEF Adds, Ignored
    <3> QED BY <2>2, <2>3, <3>1
  <2>8. CASE x \notin Ignored
    <3> DEFINE c == Capitalized(x, out = <<>> /\ firstLetter)
               middle == Spaced(out, blank)
               between == Spaced(more, blank)
    <3>1. out2 = Append(middle, c)
      BY <2>6, <2>8 DEF Adds
    <3>2. c \in Symbols /\ " " \in Symbols
      BY CasesOfSymbols DEF Capitalized, Symbols, Meaningful
    <3>3. middle = first \o between /\ between \in Seq(Symbols)
      <4>1. out = first \o more
        BY <1>1, <2>2, <2>3
      <4>2. Append(first \o more, " ") = first \o Append(more, " ") /\ Append(more, " ") \in Seq(Symbols)
        <5> DEFINE e == " "
        <5>1. e \in Symbols
          BY <3>2
        <5> HIDE DEF e
        <5>2. Append(first \o more, e) = first \o Append(more, e) /\ Append(more, e) \in Seq(Symbols)
          BY <5>1, AppendedToConcat, ZenonT(40)
        <5> QED BY <5>2 DEF e
      <4> QED BY <4>1, <4>2 DEF Spaced
    <3>5. c \in Symbols
      BY <3>2
    <3> HIDE DEF c, middle, between
    <3>4. Append(first \o between, c) = first \o Append(between, c) /\ Append(between, c) \in Seq(Symbols)
      <4>1. between \in Seq(Symbols) /\ first \in Seq(Symbols)
        BY <3>3
      <4> QED BY <3>5, <4>1, AppendedToConcat, ZenonT(40)
    <3> QED BY <3>1, <3>3, <3>4
  <2> QED BY <2>7, <2>8
<1> HIDE DEF S
<1>4. Seq(Symbols) \subseteq S
  BY <1>2, <1>3, SequenceInduction
<1> QED BY <1>4 DEF S

\* A text around its first colon.
Colon == ":"

\* What the colon is among the symbols.
LEMMA ColonIsASymbol ==
  Colon \in Symbols /\ Colon \notin Ignored /\ Colon \in Signs /\ Colon # " " /\ TitleCase(Colon) = Colon
BY SymbolFacts, CasesOfSymbols DEF Colon

\* Normalizing without a capital.
Plain == FALSE

\* No capital at the beginning.
LEMMA PlainIsBoolean == Plain \in BOOLEAN
BY DEF Plain

\* BeforeColon is the text before the first colon, normalized.
LEMMA BeforeFirstColon ==
  \A before, after \in Seq(Symbols) : Colon \notin ToSet(before) =>
    BeforeColon(Append(before, Colon) \o after) = NormalizedPart(before, Plain)
<1> TAKE before, after \in Seq(Symbols)
<1> HAVE Colon \notin ToSet(before)
<1> DEFINE text == Append(before, Colon) \o after
           S == {Colon}
<1>1. IsCut(text, before, Colon, after, S)
  <2>1. Colon \in Symbols /\ Colon \in S /\ ToSet(before) \cap S = {}
    BY ColonIsASymbol
  <2> HIDE DEF S
  <2> QED BY <2>1, CutAround
<1>2. S = {":"}
  BY DEF Colon
<1> HIDE DEF text, S
<1> QED BY <1>1, <1>2 DEF BeforeColon, Plain, IsCut, text

\* A text with a colon is cut at the first one.
LEMMA CutAtColon ==
  \A text \in Seq(Symbols) : Colon \in ToSet(text) =>
    \E before, after \in Seq(Symbols) : text = Append(before, Colon) \o after /\ Colon \notin ToSet(before)
<1> TAKE text \in Seq(Symbols)
<1> HAVE Colon \in ToSet(text)
<1> DEFINE S == {Colon}
<1>1. ToSet(text) \cap S # {}
  OBVIOUS
<1> HIDE DEF S
<1>2. PICK before \in Seq(Symbols), after \in Seq(Symbols) : \E c \in S \cap Symbols :
        text = Append(before, c) \o after /\ ToSet(before) \cap S = {}
  BY <1>1, Cut
<1> QED BY <1>2 DEF S

\* What a normalized text has before its first colon is what the text has, but for a capital.
SameBeforeColon(text, other) ==
  \E before, same \in Seq(Symbols) :
    /\ BeforeColon(text) = before /\ BeforeColon(other) = same /\ SameButCase(before, same)
    /\ ToSet(before) \cap Signs = ToSet(same) \cap Signs

\* Normalizing a text keeps what stands before its first colon, but for capitals.
LEMMA ColonIsKept ==
  ASSUME NEW before \in Seq(Symbols), NEW after \in Seq(Symbols), Colon \notin ToSet(before), NEW firstLetter \in BOOLEAN
  PROVE  SameBeforeColon(NormalizedPart(Append(before, Colon) \o after, firstLetter), Append(before, Colon) \o after)
<1> DEFINE start == Append(before, Colon)
           N(text) == NormalizedPart(text, firstLetter)
<1>1. Colon \in Symbols /\ Colon \notin Ignored /\ Colon \in Signs /\ Colon # " " /\ TitleCase(Colon) = Colon
  BY ColonIsASymbol
<1>2. start \in Seq(Symbols)
  BY <1>1, SymbolsAppended
<1>3. PICK out \in Seq(Symbols), blank \in BOOLEAN :
        /\ AppendSymbols(before, firstLetter) = [out |-> out, blank |-> blank]
        /\ N(before) = out
        /\ KeepsSigns(before, firstLetter, out, blank)
        /\ \A s \in Symbols : Adds(out, blank, s, firstLetter, AppendSymbols(Append(before, s), firstLetter))
  BY Appended
<1> DEFINE middle == Spaced(out, blank)
<1>4. N(start) = Append(middle, Colon)
  <2>1. Capitalized(Colon, out = <<>> /\ firstLetter) = Colon
    BY <1>1 DEF Capitalized
  <2>2. Adds(out, blank, Colon, firstLetter, AppendSymbols(start, firstLetter))
    BY <1>1, <1>3
  <2>3. AppendSymbols(start, firstLetter) = [out |-> Append(middle, Colon), blank |-> FALSE]
    BY <1>1, <2>1, <2>2 DEF Adds
  <2> HIDE DEF start, middle
  <2> QED BY <2>3 DEF NormalizedPart
<1>5. PICK more \in Seq(Symbols) : N(start \o after) = Append(middle, Colon) \o more
  <2> HIDE DEF start, middle
  <2>1. \E more \in Seq(Symbols) : N(start \o after) = N(start) \o more
    BY <1>2, NormalizingExtends
  <2> QED BY <1>4, <2>1
<1>6. middle \in Seq(Symbols) /\ Colon \notin ToSet(middle) /\ NormalizedPart(middle, Plain) = out
  <2>1. Colon \notin ToSet(out)
    BY <1>1, <1>3 DEF KeepsSigns
  <2>2. AppendSymbols(out, Plain) = [out |-> out, blank |-> FALSE]
    <3>1. Plain \in BOOLEAN /\ (Plain => firstLetter)
      BY DEF Plain
    <3> QED BY <1>3, <3>1, NormalizedTwice
  <2>3. NormalizedPart(out, Plain) = out
    BY <2>2 DEF NormalizedPart
  <2>4. CASE blank
    <3> DEFINE e == " "
    <3>1. middle = Append(out, e)
      BY <2>4 DEF Spaced
    <3>2. e \in Symbols /\ e \in Blanks /\ e # Colon
      BY <1>1, SymbolFacts
    <3> HIDE DEF middle, e
    <3>3. middle \in Seq(Symbols) /\ ToSet(middle) = ToSet(out) \cup {e}
      BY <3>1, <3>2, SymbolsAppended
    <3>4. PICK o \in Seq(Symbols), b \in BOOLEAN :
            /\ NormalizedPart(out, Plain) = o
            /\ \A s \in Symbols : Adds(o, b, s, Plain, AppendSymbols(Append(out, s), Plain))
      BY PlainIsBoolean, Appended
    <3>5. Adds(o, b, e, Plain, AppendSymbols(middle, Plain))
      BY <3>1, <3>2, <3>4
    <3>6. AppendSymbols(middle, Plain) = [out |-> out, blank |-> out # <<>>]
      BY <2>3, <3>2, <3>4, <3>5 DEF Adds
    <3>7. NormalizedPart(middle, Plain) = out
      BY <3>6 DEF NormalizedPart
    <3> QED BY <2>1, <3>2, <3>3, <3>7
  <2>5. CASE ~blank
    BY <2>1, <2>3, <2>5 DEF Spaced
  <2> QED BY <2>4, <2>5
<1>7. BeforeColon(N(start \o after)) = out
  <2> HIDE DEF middle, N
  <2> QED BY <1>5, <1>6, BeforeFirstColon
<1>8. BeforeColon(start \o after) = NormalizedPart(before, Plain)
  BY BeforeFirstColon
<1>9. PICK same \in Seq(Symbols) :
        NormalizedPart(before, Plain) = same /\ ToSet(same) \cap Signs = ToSet(before) \cap Signs /\ SameButCase(out, same)
  <2>1. PICK same \in Seq(Symbols), b \in BOOLEAN :
          /\ AppendSymbols(before, Plain) = [out |-> same, blank |-> b]
          /\ NormalizedPart(before, Plain) = same
          /\ KeepsSigns(before, Plain, same, b)
          /\ \A s \in Symbols : Adds(same, b, s, Plain, AppendSymbols(Append(before, s), Plain))
    BY PlainIsBoolean, Appended
  <2>2. SameButCase(out, same)
    <3>1. CASE firstLetter = TRUE
      <4>1. AppendedAlike(AppendSymbols(before, TRUE), AppendSymbols(before, Plain))
        BY NormalizedButCase DEF Plain
      <4>2. AppendedAlike([out |-> out, blank |-> blank], [out |-> same, blank |-> b])
        BY <1>3, <2>1, <3>1, <4>1
      <4> QED BY <4>2 DEF AppendedAlike
    <3>2. CASE firstLetter = Plain
      <4>1. out = same
        BY <1>3, <2>1, <3>2
      <4> QED BY <4>1 DEF SameButCase
    <3> QED BY <3>1, <3>2 DEF Plain
  <2> QED BY <2>1, <2>2 DEF KeepsSigns
<1>10. ToSet(out) \cap Signs = ToSet(before) \cap Signs
  BY <1>3 DEF KeepsSigns
<1> HIDE DEF start, N
<1> QED BY <1>7, <1>8, <1>9, <1>10 DEF SameBeforeColon, start, N

---------------------------------------------------------------------------
\* Texts in lower case.
LEMMA LowerCaseFacts ==
  \A text : /\ DOMAIN LowerCase(text) = DOMAIN text
            /\ \A i \in DOMAIN text : LowerCase(text)[i] = "#" <=> text[i] = "#"
            /\ LowerCase(<<>>) = <<>>
<1> TAKE text
<1>1. DOMAIN LowerCase(text) = DOMAIN text /\ \A i \in DOMAIN text : LowerCase(text)[i] = ToLowerCase(text[i])
  BY DEF LowerCase
<1>2. \A s : ToLowerCase(s) = "#" <=> s = "#"
  BY SymbolFacts, CasesOfSymbols
<1>3. LowerCase(<<>>) = <<>>
  BY DEF LowerCase
<1> QED BY <1>1, <1>2, <1>3

\* What the site is after it was written and read.
Ids == {n.id : n \in SiteAnswer.namespaces}

\* The namespaces are those that the API told.
LEMMA SiteNamespaces ==
  /\ DOMAIN Site.namespaces = Ids
  /\ \A n \in SiteAnswer.namespaces : Site.namespaces[n.id] = [name |-> n.name, firstLetter |-> n.firstLetter]
<1> DEFINE info == FromAPIResponse(SiteAnswer)
           value == ToJSONValue(info)
           Of(n) == [name |-> n.name, firstLetter |-> n.firstLetter]
           first == [id \in Ids |-> LET n == CHOOSE n \in SiteAnswer.namespaces : n.id = id IN Of(n)]
           Key(id) == [key |-> first[id].name, number |-> id, firstLetter |-> first[id].firstLetter]
           last == [id \in {n.number : n \in value.namespaces} |->
                      LET n == CHOOSE n \in value.namespaces : n.number = id IN [name |-> n.key, firstLetter |-> n.firstLetter]]
<1>1. info.namespaces = first
  BY DEF FromAPIResponse, Ids
<1>2. \A n \in SiteAnswer.namespaces : first[n.id] = Of(n)
  <2> TAKE n \in SiteAnswer.namespaces
  <2>1. (CHOOSE m \in SiteAnswer.namespaces : m.id = n.id) = n
    BY NamespacesAssumption, Zenon
  <2>2. n.id \in Ids
    BY DEF Ids
  <2> QED BY <2>1, <2>2
<1>3. value.namespaces = {Key(id) : id \in Ids}
  <2>1. DOMAIN first = Ids
    OBVIOUS
  <2> HIDE DEF first, info
  <2> QED BY <1>1, <2>1 DEF ToJSONValue
<1>4. Site.namespaces = last
  <2> HIDE DEF info
  <2>1. Site = FromJSONValue(value)
    BY DEF Site, info
  <2> HIDE DEF value
  <2> QED BY <2>1 DEF FromJSONValue
<1> HIDE DEF first, value, info
<1>5. {n.number : n \in value.namespaces} = Ids
  <2>1. \A id \in Ids : Key(id) \in value.namespaces /\ Key(id).number = id
    BY <1>3
  <2>2. \A n \in value.namespaces : \E id \in Ids : n = Key(id)
    BY <1>3
  <2> HIDE DEF Key
  <2> QED BY <2>1, <2>2
<1>6. ASSUME NEW id \in Ids  PROVE last[id] = [name |-> first[id].name, firstLetter |-> first[id].firstLetter]
  <2>1. Key(id) \in value.namespaces /\ Key(id).number = id
    BY <1>3
  <2>2. ASSUME NEW n \in value.namespaces, n.number = id  PROVE n = Key(id)
    BY <1>3, <2>2
  <2>3. (CHOOSE n \in value.namespaces : n.number = id) = Key(id)
    <3> HIDE DEF Key
    <3> QED BY <2>1, <2>2, Zenon
  <2>4. Key(id).key = first[id].name /\ Key(id).firstLetter = first[id].firstLetter
    OBVIOUS
  <2>5. last[id] = [name |-> Key(id).key, firstLetter |-> Key(id).firstLetter]
    <3> HIDE DEF Key
    <3> QED BY <1>5, <2>3
  <2> HIDE DEF last, Key
  <2> QED BY <2>4, <2>5
<1> HIDE DEF last
<1>7. DOMAIN last = Ids
  BY <1>5 DEF last
<1>8. ASSUME NEW n \in SiteAnswer.namespaces  PROVE Site.namespaces[n.id] = Of(n)
  <2>1. n.id \in Ids
    BY DEF Ids
  <2> QED BY <1>2, <1>4, <1>6, <2>1
<1> QED BY <1>4, <1>7, <1>8

\* Each namespace of the site is one of those the API told.
LEMMA NamespacesOfSite ==
  \A id \in DOMAIN Site.namespaces : \E n \in SiteAnswer.namespaces :
    /\ n.id = id /\ Site.namespaces[id].name = n.name /\ Site.namespaces[id].firstLetter = n.firstLetter
    /\ id \in Int /\ id # Interwiki /\ n.firstLetter \in BOOLEAN
<1> TAKE id \in DOMAIN Site.namespaces
<1>1. PICK n \in SiteAnswer.namespaces : n.id = id
  BY SiteNamespaces DEF Ids
<1>2. Site.namespaces[id].name = n.name /\ Site.namespaces[id].firstLetter = n.firstLetter
  <2>1. Site.namespaces[n.id] = [name |-> n.name, firstLetter |-> n.firstLetter]
    BY SiteNamespaces
  <2> DEFINE ns == Site.namespaces[id]
  <2>2. ns = [name |-> n.name, firstLetter |-> n.firstLetter]
    BY <1>1, <2>1
  <2> HIDE DEF ns
  <2>3. ns.name = n.name /\ ns.firstLetter = n.firstLetter
    BY <2>2
  <2> QED BY <2>3 DEF ns
<1>3. n.id \in Int \ {Interwiki} /\ n.firstLetter \in BOOLEAN
  BY NamespacesAssumption
<1> QED BY <1>1, <1>2, <1>3

\* A name in lower case leads to the number of its namespace, if not to that of an alias; no alias has an anchor.
LEMMA SiteAliases ==
  /\ \A key \in DOMAIN Site.aliases :
       /\ Site.aliases[key] \in Ids
       /\ key # <<>> => Site.aliases[key] # Main
       /\ \A i \in DOMAIN key : key[i] # "#"
  /\ \A n \in SiteAnswer.namespaces :
       n.id # Main => LowerCase(n.name) \in DOMAIN Site.aliases /\ Site.aliases[LowerCase(n.name)] = n.id
<1> DEFINE Named(n) == {LowerCase(n.name), LowerCase(n.canonical)}
           byAlias == {LowerCase(a.name) : a \in SiteAnswer.aliases}
           byName == (UNION {Named(n) : n \in SiteAnswer.namespaces}) \ byAlias
           Told(key) == (CHOOSE a \in SiteAnswer.aliases : LowerCase(a.name) = key).id
           Has(key) == (CHOOSE n \in SiteAnswer.namespaces : key \in Named(n)).id
           aliases == [key \in byName \cup byAlias |-> IF key \in byAlias THEN Told(key) ELSE Has(key)]
<1>1. Site.aliases = aliases
  <2>1. FromAPIResponse(SiteAnswer).aliases = aliases
    BY DEF FromAPIResponse
  <2>2. ToJSONValue(FromAPIResponse(SiteAnswer)).aliases = FromAPIResponse(SiteAnswer).aliases
    BY DEF ToJSONValue
  <2>3. Site.aliases = ToJSONValue(FromAPIResponse(SiteAnswer)).aliases
    BY DEF Site, FromJSONValue
  <2> QED BY <2>1, <2>2, <2>3
<1>2. ASSUME NEW key \in byAlias
      PROVE  \E a \in SiteAnswer.aliases : LowerCase(a.name) = key /\ Told(key) = a.id
  <2>1. \E a \in SiteAnswer.aliases : LowerCase(a.name) = key
    OBVIOUS
  <2> QED BY <2>1, Zenon
<1>3. ASSUME NEW key \in byName
      PROVE  \E n \in SiteAnswer.namespaces : key \in Named(n) /\ Has(key) = n.id
  <2>1. \E n \in SiteAnswer.namespaces : key \in Named(n)
    OBVIOUS
  <2> HIDE DEF Named
  <2> QED BY <2>1, Zenon
<1>4. ASSUME NEW key \in byAlias
      PROVE  Told(key) \in Ids /\ Told(key) # Main /\ \A i \in DOMAIN key : key[i] # "#"
  <2>1. PICK a \in SiteAnswer.aliases : LowerCase(a.name) = key /\ Told(key) = a.id
    BY <1>2
  <2>2. a.id # Main /\ a.id \in Ids /\ "#" \notin ToSet(a.name)
    BY AliasesAssumption DEF Ids
  <2>3. \A i \in DOMAIN a.name : a.name[i] # "#"
    BY <2>2 DEF ToSet
  <2> HIDE DEF Told
  <2> QED BY <2>1, <2>2, <2>3, LowerCaseFacts
<1>5. ASSUME NEW key \in byName
      PROVE  Has(key) \in Ids /\ (key # <<>> => Has(key) # Main) /\ \A i \in DOMAIN key : key[i] # "#"
  <2>1. PICK n \in SiteAnswer.namespaces : key \in Named(n) /\ Has(key) = n.id
    BY <1>3
  <2>2. n.id \in Ids
    BY DEF Ids
  <2> HIDE DEF Has
  <2>3. CASE n.id = Main
    <3>1. n.name = <<>> /\ n.canonical = <<>>
      BY <2>3, NamespacesAssumption
    <3>2. key = <<>>
      BY <2>1, <3>1, LowerCaseFacts
    <3> QED BY <2>1, <2>2, <3>2
  <2>4. CASE n.id # Main
    <3>1. "#" \notin ToSet(n.name) /\ "#" \notin ToSet(n.canonical)
      BY <2>4, NamespacesAssumption DEF ProperName
    <3>2. (\A i \in DOMAIN n.name : n.name[i] # "#") /\ \A i \in DOMAIN n.canonical : n.canonical[i] # "#"
      BY <3>1 DEF ToSet
    <3> QED BY <2>1, <2>2, <2>4, <3>2, LowerCaseFacts
  <2> QED BY <2>3, <2>4
<1>6. ASSUME NEW n \in SiteAnswer.namespaces, n.id # Main
      PROVE  LowerCase(n.name) \in DOMAIN aliases /\ aliases[LowerCase(n.name)] = n.id
  <2> DEFINE key == LowerCase(n.name)
  <2>1. key \in byName \cup byAlias
    <3>1. key \in Named(n)
      OBVIOUS
    <3> DEFINE all == {Named(m) : m \in SiteAnswer.namespaces}
    <3>2. Named(n) \in all
      OBVIOUS
    <3>3. byName = (UNION all) \ byAlias
      OBVIOUS
    <3> HIDE DEF Named, byAlias, key, all, byName
    <3>4. key \in UNION all
      BY <3>1, <3>2, Zenon
    <3> QED BY <3>3, <3>4
  <2>2. CASE key \in byAlias
    <3>1. PICK a \in SiteAnswer.aliases : LowerCase(a.name) = key /\ Told(key) = a.id
      BY <1>2, <2>2
    <3>2. a.id = n.id
      BY <1>6, <3>1, AliasesAssumption
    <3> HIDE DEF Told
    <3> QED BY <2>2, <3>1, <3>2
  <2>3. CASE key \notin byAlias
    <3>1. PICK m \in SiteAnswer.namespaces : key \in Named(m) /\ Has(key) = m.id
      BY <1>3, <2>1, <2>3
    <3>2. m = n
      BY <1>6, <3>1, NamespacesAssumption
    <3> HIDE DEF Has, byAlias, byName
    <3> QED BY <2>1, <2>3, <3>1, <3>2
  <2> QED BY <2>2, <2>3
<1>7. ASSUME NEW key \in DOMAIN aliases
      PROVE  /\ aliases[key] \in Ids
             /\ key # <<>> => aliases[key] # Main
             /\ \A i \in DOMAIN key : key[i] # "#"
  <2>1. CASE key \in byAlias
    <3>1. aliases[key] = Told(key)
      BY <2>1
    <3> HIDE DEF Told, aliases, byAlias
    <3> QED BY <1>4, <2>1, <3>1
  <2>2. CASE key \in byName
    <3>1. aliases[key] = Has(key)
      <4>1. key \notin byAlias
        <5> DEFINE all == {Named(m) : m \in SiteAnswer.namespaces}
        <5>1. byName = (UNION all) \ byAlias
          OBVIOUS
        <5> HIDE DEF Named, byAlias, all, byName
        <5> QED BY <2>2, <5>1
      <4> HIDE DEF Has, Told, byAlias, byName
      <4> QED BY <2>2, <4>1
    <3> HIDE DEF Has, aliases, byName
    <3> QED BY <1>5, <2>2, <3>1
  <2> QED BY <2>1, <2>2
<1> HIDE DEF aliases
<1> QED BY <1>1, <1>6, <1>7

\* The prefixes of other wikis are those that the API told.
LEMMA SiteInterwikis ==
  \A key \in DOMAIN Site.interwikis : Site.interwikis[key] \in SiteAnswer.interwikis /\ LowerCase(Site.interwikis[key]) = key
<1> DEFINE info == FromAPIResponse(SiteAnswer)
           value == ToJSONValue(info)
           first == [key \in {LowerCase(p) : p \in SiteAnswer.interwikis} |-> CHOOSE p \in SiteAnswer.interwikis : LowerCase(p) = key]
           last == [key \in {LowerCase(p) : p \in value.interwikis} |-> CHOOSE p \in value.interwikis : LowerCase(p) = key]
<1>1. info.interwikis = first
  BY DEF FromAPIResponse
<1>2. value.interwikis = {first[k] : k \in DOMAIN first}
  <2> HIDE DEF first, info
  <2> QED BY <1>1 DEF ToJSONValue
<1>3. Site.interwikis = last
  <2> HIDE DEF info
  <2>1. Site = FromJSONValue(value)
    BY DEF Site, info
  <2> HIDE DEF value
  <2> QED BY <2>1 DEF FromJSONValue
<1>4. \A k \in DOMAIN first : first[k] \in SiteAnswer.interwikis
  <2> TAKE k \in DOMAIN first
  <2>1. \E p \in SiteAnswer.interwikis : LowerCase(p) = k
    OBVIOUS
  <2>2. (CHOOSE p \in SiteAnswer.interwikis : LowerCase(p) = k) \in SiteAnswer.interwikis
    BY <2>1, Zenon
  <2> QED BY <2>2
<1> HIDE DEF first, value, info
<1>5. \A k \in DOMAIN last : last[k] \in value.interwikis /\ LowerCase(last[k]) = k
  <2> TAKE k \in DOMAIN last
  <2>1. \E p \in value.interwikis : LowerCase(p) = k
    OBVIOUS
  <2>2. (CHOOSE p \in value.interwikis : LowerCase(p) = k) \in value.interwikis /\ LowerCase(CHOOSE p \in value.interwikis : LowerCase(p) = k) = k
    BY <2>1, Zenon
  <2> QED BY <2>2
<1>6. value.interwikis \subseteq SiteAnswer.interwikis
  BY <1>2, <1>4
<1> HIDE DEF last
<1> QED BY <1>3, <1>5, <1>6

\* So are the words of redirects.
LEMMA SiteRedirects == LowerCase(<<"#", "Redirect">>) \in Site.redirects
<1>1. FromAPIResponse(SiteAnswer).redirects = {LowerCase(w) : w \in SiteAnswer.redirects}
  BY DEF FromAPIResponse
<1>2. Site.redirects = FromAPIResponse(SiteAnswer).redirects
  BY DEF Site, FromJSONValue, ToJSONValue
<1> QED BY <1>1, <1>2, RedirectsAssumption

\* The prefixes that the site knows: the names of its namespaces and of its interwikis.
PrefixOf(number, name, firstLetter) == [number |-> number, name |-> name, firstLetter |-> firstLetter, found |-> TRUE]
CannotBeInNames == {":", "#", "]", "|"}
ProperText(name) ==
  /\ name \in Seq(Symbols) /\ name # <<>> /\ NormalizedPart(name, Plain) = name /\ ToSet(name) \cap CannotBeInNames = {}
SitePrefix(number, name, firstLetter) ==
  /\ ProperText(name)
  /\ number # Main /\ number \in DOMAIN Site.namespaces \cup {Interwiki} /\ firstLetter \in BOOLEAN
  /\ number \in DOMAIN Site.namespaces => Site.namespaces[number].name = name /\ Site.namespaces[number].firstLetter = firstLetter
  /\ \A default : Prefix(Site, name, default) = PrefixOf(number, name, firstLetter)
IsUnknown(text) == \A default : Prefix(Site, text, default) = NoPrefix(default)
IsKnown(text, number, name, firstLetter) ==
  /\ SitePrefix(number, name, firstLetter) /\ "#" \notin ToSet(text) /\ text # <<>>
  /\ \A default : Prefix(Site, text, default) = PrefixOf(number, name, firstLetter)

\* The names that the API promises are proper.
LEMMA ProperNames ==
  \A name \in Names : ProperName(name) => ProperText(name)
<1> TAKE name \in Names
<1> HAVE ProperName(name)
<1>1. ToSet(name) \subseteq Symbols
  <2>1. ToSet(name) \in {ToSet(n) : n \in Names}
    OBVIOUS
  <2> DEFINE all == {ToSet(n) : n \in Names}
  <2>2. ToSet(name) \subseteq UNION all
    <3> HIDE DEF all
    <3>1. ToSet(name) \in all
      BY <2>1 DEF all
    <3> QED BY <3>1, Zenon
  <2> QED BY <2>2 DEF Symbols
<1>2. name \in Seq(ToSet(name)) /\ name # <<>> /\ NormalizedPart(name, Plain) = name /\ ToSet(name) \cap CannotBeInNames = {}
  BY DEF ProperName, Plain, CannotBeInNames
<1>3. name \in Seq(Symbols)
  BY <1>1, <1>2, SeqMonotonic
<1> QED BY <1>2, <1>3 DEF ProperText

\* The name of a namespace is a prefix that leads to it.
LEMMA KnownNamespace ==
  \A id \in DOMAIN Site.namespaces : id # Main =>
    SitePrefix(id, Site.namespaces[id].name, Site.namespaces[id].firstLetter)
<1> TAKE id \in DOMAIN Site.namespaces
<1> HAVE id # Main
<1>1. PICK n \in SiteAnswer.namespaces :
        /\ n.id = id /\ Site.namespaces[id].name = n.name /\ Site.namespaces[id].firstLetter = n.firstLetter
        /\ n.firstLetter \in BOOLEAN
  BY NamespacesOfSite
<1> DEFINE name == n.name
           key == LowerCase(name)
<1>2. ProperText(name)
  <2>1. ProperName(name) /\ name \in Names
    BY <1>1, NamespacesAssumption DEF Names
  <2> QED BY <2>1, ProperNames
<1>3. key \in DOMAIN Site.aliases /\ Site.aliases[key] = id
  BY <1>1, SiteAliases
<1> HIDE DEF name, key
<1>4. name # <<>>
  BY <1>2 DEF ProperText
<1>5. ASSUME NEW default  PROVE Prefix(Site, name, default) = PrefixOf(id, name, n.firstLetter)
  BY <1>1, <1>3, <1>4 DEF Prefix, PrefixOf, name, key
<1> QED BY <1>1, <1>2, <1>5 DEF SitePrefix, name

\* A text is a prefix the site knows, or nothing.
LEMMA KnownOrUnknown ==
  \A text \in Seq(Symbols) : IsUnknown(text) \/ \E number, name, firstLetter : IsKnown(text, number, name, firstLetter)
<1> TAKE text \in Seq(Symbols)
<1> DEFINE key == LowerCase(text)
<1>1. CASE text = <<>>
  BY <1>1 DEF IsUnknown, Prefix
<1>2. CASE text # <<>> /\ key \in DOMAIN Site.aliases
  <2> DEFINE id == Site.aliases[key]
             ns == Site.namespaces[id]
  <2>1. id \in DOMAIN Site.namespaces /\ (\A i \in DOMAIN key : key[i] # "#") /\ (key # <<>> => id # Main)
    BY <1>2, SiteAliases, SiteNamespaces
  <2>2. "#" \notin ToSet(text)
    BY <2>1, LowerCaseFacts DEF ToSet
  <2>3. CASE id # Main
    <3>1. SitePrefix(id, ns.name, ns.firstLetter)
      BY <2>1, <2>3, KnownNamespace
    <3>2. ASSUME NEW default  PROVE Prefix(Site, text, default) = PrefixOf(id, ns.name, ns.firstLetter)
      BY <1>2 DEF Prefix, PrefixOf
    <3> HIDE DEF id, ns
    <3> QED BY <1>2, <2>2, <3>1, <3>2 DEF IsKnown
  <2>4. CASE id = Main
    <3>1. key = <<>>
      BY <2>1, <2>4
    <3>2. DOMAIN text = {}
      <4>1. DOMAIN key = DOMAIN text
        BY LowerCaseFacts
      <4>2. DOMAIN <<>> = {}
        OBVIOUS
      <4> QED BY <3>1, <4>1, <4>2
    <3> QED BY <3>2, <1>2
  <2> QED BY <2>3, <2>4
<1>3. CASE text # <<>> /\ key \notin DOMAIN Site.aliases /\ key \in DOMAIN Site.interwikis
  <2> DEFINE p == Site.interwikis[key]
  <2>1. p \in SiteAnswer.interwikis /\ LowerCase(p) = key
    BY <1>3, SiteInterwikis
  <2>2. ProperName(p) /\ p \in Names
    BY <2>1, InterwikisAssumption DEF Names
  <2>3. ProperText(p)
    BY <2>2, ProperNames
  <2>4. p # <<>> /\ "#" \notin ToSet(p)
    BY <2>3 DEF ProperText, CannotBeInNames
  <2>5. \A i \in DOMAIN p : p[i] # "#"
    BY <2>4 DEF ToSet
  <2>6. "#" \notin ToSet(text)
    <3> HIDE DEF p
    <3>1. \A i \in DOMAIN key : key[i] # "#"
      BY <2>1, <2>5, LowerCaseFacts
    <3> QED BY <3>1, LowerCaseFacts DEF ToSet
  <2>7. ASSUME NEW default  PROVE Prefix(Site, text, default) = PrefixOf(Interwiki, p, FALSE)
    BY <1>3 DEF Prefix, PrefixOf
  <2>8. ASSUME NEW default  PROVE Prefix(Site, p, default) = PrefixOf(Interwiki, p, FALSE)
    BY <1>3, <2>1, <2>4 DEF Prefix, PrefixOf
  <2>9. Interwiki # Main /\ Interwiki \notin DOMAIN Site.namespaces
    BY NamespacesOfSite DEF Interwiki, Main
  <2> HIDE DEF p
  <2>10. SitePrefix(Interwiki, p, FALSE)
    BY <2>3, <2>8, <2>9 DEF SitePrefix
  <2> QED BY <1>3, <2>6, <2>7, <2>10 DEF IsKnown
<1>4. CASE text # <<>> /\ key \notin DOMAIN Site.aliases /\ key \notin DOMAIN Site.interwikis
  BY <1>4 DEF IsUnknown, Prefix
<1> QED BY <1>1, <1>2, <1>3, <1>4

\* What a prefix is does not depend on capitals.
LEMMA UnknownButCase ==
  \A text, other \in Seq(Symbols) : SameButCase(text, other) /\ IsUnknown(text) => IsUnknown(other)
<1> TAKE text, other \in Seq(Symbols)
<1> HAVE SameButCase(text, other) /\ IsUnknown(text)
<1>1. LowerCase(text) = LowerCase(other) /\ (text = <<>> <=> other = <<>>)
  BY SameInLowerCase
<1>2. ASSUME NEW default  PROVE Prefix(Site, other, default) = Prefix(Site, text, default)
  BY <1>1 DEF Prefix
<1> QED BY <1>2 DEF IsUnknown

---------------------------------------------------------------------------
\* A text is a body and an anchor.
Hash == "#"

\* What # is among the symbols.
LEMMA HashIsASymbol == Hash \in Symbols /\ Hash \in Signs /\ Hash \notin Ignored /\ TitleCase(Hash) = Hash /\ Hash # Colon
BY SymbolFacts, CasesOfSymbols DEF Hash, Colon

BodyOf(text) == IF First({"#"}, text) = 0 THEN text ELSE Upto(text, First({"#"}, text) - 1)
AnchorOf(text) == IF First({"#"}, text) = 0 THEN <<>> ELSE After(text, First({"#"}, text) - 1)
IsAnchor(anchor) == anchor \in Seq(Symbols) /\ (anchor = <<>> \/ \E rest \in Seq(Symbols) : anchor = <<Hash>> \o rest)

\* A body without # is found again before an anchor.
LEMMA BodyOfTitle ==
  \A body \in Seq(Symbols) : \A anchor :
    IsAnchor(anchor) /\ Hash \notin ToSet(body) => BodyOf(body \o anchor) = body /\ AnchorOf(body \o anchor) = anchor
<1> TAKE body \in Seq(Symbols)
<1> TAKE anchor
<1> HAVE IsAnchor(anchor) /\ Hash \notin ToSet(body)
<1> DEFINE S == {Hash}
<1>1. S = {"#"} /\ ToSet(body) \cap S = {} /\ Hash \in S
  BY DEF Hash
<1> HIDE DEF S
<1>2. CASE anchor = <<>>
  <2>1. body \o anchor = body
    BY <1>2, Concatenations
  <2>2. First(S, body) = 0
    BY <1>1, NothingToCut
  <2> QED BY <1>1, <1>2, <2>1, <2>2 DEF BodyOf, AnchorOf
<1>3. CASE anchor # <<>>
  <2>1. PICK rest \in Seq(Symbols) : anchor = <<Hash>> \o rest
    BY <1>3 DEF IsAnchor
  <2> DEFINE text == Append(body, Hash) \o rest
  <2>2. IsCut(text, body, Hash, rest, S)
    BY <1>1, HashIsASymbol, CutAround
  <2> HIDE DEF text
  <2>3. text = body \o anchor /\ Upto(text, First(S, text) - 1) = body /\ After(text, First(S, text) - 1) = anchor /\ First(S, text) # 0
    BY <2>1, <2>2 DEF IsCut
  <2> QED BY <1>1, <2>3 DEF BodyOf, AnchorOf
<1> QED BY <1>2, <1>3

\* Every text is one.
LEMMA BodyAndAnchor ==
  \A text \in Seq(Symbols) :
    /\ BodyOf(text) \in Seq(Symbols) /\ IsAnchor(AnchorOf(text)) /\ text = BodyOf(text) \o AnchorOf(text)
    /\ Hash \notin ToSet(BodyOf(text)) /\ ToSet(BodyOf(text)) \subseteq ToSet(text)
<1> TAKE text \in Seq(Symbols)
<1> DEFINE S == {Hash}
<1>1. S = {"#"} /\ Hash \in S
  BY DEF Hash
<1> HIDE DEF S
<1>2. CASE ToSet(text) \cap S = {}
  <2>1. First(S, text) = 0
    BY <1>2, NothingToCut
  <2>2. BodyOf(text) = text /\ AnchorOf(text) = <<>>
    BY <1>1, <2>1 DEF BodyOf, AnchorOf
  <2>3. IsAnchor(<<>>) /\ text \o <<>> = text
    BY Concatenations DEF IsAnchor
  <2> QED BY <1>1, <1>2, <2>2, <2>3
<1>3. CASE ToSet(text) \cap S # {}
  <2>1. PICK before \in Seq(Symbols), after \in Seq(Symbols) : \E c \in S \cap Symbols :
          text = Append(before, c) \o after /\ ToSet(before) \cap S = {}
    BY <1>3, Cut
  <2>2. text = Append(before, Hash) \o after /\ ToSet(before) \cap S = {}
    BY <2>1 DEF S
  <2>3. IsCut(text, before, Hash, after, S)
    BY <1>1, <2>2, HashIsASymbol, CutAround
  <2> DEFINE anchor == <<Hash>> \o after
  <2>4. anchor \in Seq(Symbols)
    BY HashIsASymbol, Concatenations
  <2>5. IsAnchor(anchor)
    BY <2>4 DEF IsAnchor
  <2>6. text = before \o anchor /\ ToSet(before) \subseteq ToSet(text)
    BY <2>3 DEF IsCut
  <2>7. Hash \notin ToSet(before)
    BY <1>1, <2>2
  <2> HIDE DEF anchor
  <2>8. BodyOf(text) = before /\ AnchorOf(text) = anchor
    BY <2>5, <2>6, <2>7, BodyOfTitle
  <2> QED BY <2>5, <2>6, <2>7, <2>8
<1> QED BY <1>2, <1>3

\* The parts of a title.
Parts(number, prefix, name, anchor) == [number |-> number, prefix |-> prefix, name |-> name, anchor |-> anchor]
NotInTitles == {"#", "]", "|"}
NormalName(name, firstLetter) ==
  name \in Seq(Symbols) /\ NormalizedPart(name, firstLetter) = name /\ ToSet(name) \cap NotInTitles = {}
NormalAnchor(anchor) == IsAnchor(anchor) /\ NormalizedPart(anchor, Plain) = anchor
InMain(name, anchor) ==
  /\ NormalAnchor(anchor) /\ NormalName(name, Site.namespaces[Main].firstLetter)
  /\ Colon \in ToSet(name) => IsUnknown(BeforeColon(name))
InNamespace(number, base, firstLetter, name, anchor) ==
  SitePrefix(number, base, firstLetter) /\ NormalAnchor(anchor) /\ NormalName(name, firstLetter)
AreSound(parts) ==
  \/ \E name, anchor : InMain(name, anchor) /\ parts = Parts(Main, <<>>, name, anchor)
  \/ \E number, base, firstLetter, name, anchor :
       InNamespace(number, base, firstLetter, name, anchor) /\ parts = Parts(number, base \o <<Colon>>, name, anchor)

\* The normal form of a name is normal.
LEMMA NormalizedNames ==
  ASSUME NEW firstLetter \in BOOLEAN
  PROVE  \A text \in Seq(Symbols) :
           /\ ToSet(text) \cap NotInTitles = {} => NormalName(NormalizedPart(text, firstLetter), firstLetter)
           /\ NormalizedPart(NormalizedPart(text, firstLetter), firstLetter) = NormalizedPart(text, firstLetter)
           /\ NormalizedPart(text, firstLetter) \in Seq(Symbols)
<1> TAKE text \in Seq(Symbols)
<1>1. PICK out \in Seq(Symbols), blank \in BOOLEAN :
        /\ AppendSymbols(text, firstLetter) = [out |-> out, blank |-> blank]
        /\ NormalizedPart(text, firstLetter) = out
        /\ KeepsSigns(text, firstLetter, out, blank)
        /\ \A s \in Symbols : Adds(out, blank, s, firstLetter, AppendSymbols(Append(text, s), firstLetter))
  BY Appended
<1>2. AppendSymbols(out, firstLetter) = [out |-> out, blank |-> FALSE]
  BY <1>1, NormalizedTwice
<1>3. NormalizedPart(out, firstLetter) = out
  BY <1>2 DEF NormalizedPart
<1>4. NotInTitles \subseteq Signs
  BY DEF NotInTitles, Signs
<1>5. ToSet(text) \cap NotInTitles = {} => ToSet(out) \cap NotInTitles = {}
  BY <1>1, <1>4 DEF KeepsSigns
<1> QED BY <1>1, <1>3, <1>5 DEF NormalName

\* So is that of an anchor, which still starts with #.
LEMMA NormalizedAnchors ==
  \A anchor : IsAnchor(anchor) => NormalAnchor(NormalizedPart(anchor, Plain))
<1> TAKE anchor
<1> HAVE IsAnchor(anchor)
<1>1. anchor \in Seq(Symbols)
  BY DEF IsAnchor
<1>2. NormalizedPart(anchor, Plain) \in Seq(Symbols) /\ NormalizedPart(NormalizedPart(anchor, Plain), Plain) = NormalizedPart(anchor, Plain)
  BY <1>1, PlainIsBoolean, NormalizedNames
<1>3. CASE anchor = <<>>
  <2>1. NormalizedPart(<<>>, Plain) = <<>>
    BY AppendNoSymbol DEF NormalizedPart
  <2> QED BY <1>2, <1>3, <2>1 DEF NormalAnchor, IsAnchor
<1>4. CASE anchor # <<>>
  <2>1. PICK rest \in Seq(Symbols) : anchor = <<Hash>> \o rest
    BY <1>4 DEF IsAnchor
  <2> DEFINE start == <<Hash>>
  <2>2. start \in Seq(Symbols) /\ start = Append(<<>>, Hash) /\ <<>> \in Seq(Symbols)
    BY HashIsASymbol
  <2>3. NormalizedPart(start, Plain) = start
    <3>1. AppendSymbols(start, Plain) = AppendSymbol([out |-> <<>>, blank |-> Plain], Hash, Plain)
      <4>1. AppendSymbols(<<>>, Plain) = [out |-> <<>>, blank |-> Plain]
        BY AppendNoSymbol DEF Plain
      <4>2. AppendSymbols(Append(<<>>, Hash), Plain) = AppendSymbol(AppendSymbols(<<>>, Plain), Hash, Plain)
        BY <2>2, HashIsASymbol, AppendSymbolsOneByOne
      <4> HIDE DEF start
      <4> QED BY <2>2, <4>1, <4>2
    <3>2. AppendSymbol([out |-> <<>>, blank |-> Plain], Hash, Plain)
            = [out |-> Append(Spaced(<<>>, Plain), Capitalized(Hash, <<>> = <<>> /\ Plain)), blank |-> FALSE]
      <4>1. Adds(<<>>, Plain, Hash, Plain, AppendSymbol([out |-> <<>>, blank |-> Plain], Hash, Plain))
        BY <2>2, HashIsASymbol, PlainIsBoolean, AppendSymbolCases
      <4> QED BY <4>1, HashIsASymbol, Zenon DEF Adds
    <3>3. Spaced(<<>>, Plain) = <<>> /\ Capitalized(Hash, <<>> = <<>> /\ Plain) = Hash
      BY HashIsASymbol DEF Spaced, Capitalized, Plain
    <3> HIDE DEF start
    <3>4. AppendSymbols(start, Plain) = [out |-> start, blank |-> FALSE]
      BY <2>2, <3>1, <3>2, <3>3
    <3> QED BY <3>4 DEF NormalizedPart
  <2> HIDE DEF start
  <2>4. PICK more \in Seq(Symbols) : NormalizedPart(start \o rest, Plain) = NormalizedPart(start, Plain) \o more
    <3>1. start \in Seq(Symbols)
      BY <2>2
    <3> QED BY <3>1, PlainIsBoolean, NormalizingExtends
  <2>5. NormalizedPart(anchor, Plain) = <<Hash>> \o more
    BY <2>1, <2>3, <2>4 DEF start
  <2> QED BY <1>2, <2>5 DEF NormalAnchor, IsAnchor
<1> QED BY <1>3, <1>4

\* The parts of any title are sound.
LEMMA PartsAreSound ==
  ASSUME NEW rest \in Seq(Symbols), ToSet(rest) \cap {"]", "|"} = {}, NEW fallback \in DOMAIN Site.namespaces
  PROVE  AreSound(PartsOf(Site, rest, fallback))
<1> DEFINE body == BodyOf(rest)
           anchor == AnchorOf(rest)
           colon == First({":"}, rest)
           before == BeforeColon(rest)
           prefix == IF colon = 0 THEN NoPrefix(fallback) ELSE Prefix(Site, before, fallback)
           parts == PartsAfter(Site, prefix, colon, body, anchor)
           last == NormalizedPart(anchor, Plain)
<1>1. PartsOf(Site, rest, fallback) = parts
  BY DEF PartsOf, BodyOf, AnchorOf
<1>2. /\ body \in Seq(Symbols) /\ IsAnchor(anchor) /\ rest = body \o anchor /\ Hash \notin ToSet(body)
      /\ ToSet(body) \cap NotInTitles = {}
  <2>1. /\ body \in Seq(Symbols) /\ IsAnchor(anchor) /\ rest = body \o anchor /\ Hash \notin ToSet(body)
        /\ ToSet(body) \subseteq ToSet(rest)
    BY BodyAndAnchor
  <2> HIDE DEF body, anchor
  <2> QED BY <2>1 DEF NotInTitles, Hash
<1>3. NormalAnchor(last)
  BY <1>2, NormalizedAnchors
<1>4. (colon = 0 /\ Colon \notin ToSet(rest)) \/ (colon # 0 /\ colon \in Nat /\ Colon \in ToSet(rest))
  <2> DEFINE S == {Colon}
  <2>1. S = {":"} /\ Colon \in S
    BY DEF Colon
  <2> HIDE DEF S
  <2>2. CASE ToSet(rest) \cap S = {}
    BY <2>1, <2>2, NothingToCut
  <2>3. CASE ToSet(rest) \cap S # {}
    <3>1. DOMAIN rest \subseteq Nat /\ {i \in DOMAIN rest : rest[i] \in S} # {}
      BY <2>3 DEF ToSet
    <3>2. First(S, rest) \in DOMAIN rest
      BY <3>1, FirstIsLeast
    <3>3. First(S, rest) \in 1 .. Len(rest)
      BY <3>2
    <3>4. Colon \in ToSet(rest)
      BY <2>3 DEF S
    <3> HIDE DEF prefix, parts, before, body, anchor
    <3>5. colon = First(S, rest)
      BY <2>1
    <3> HIDE DEF colon
    <3> QED BY <3>3, <3>4, <3>5
  <2> QED BY <2>2, <2>3
<1> HIDE DEF body, anchor, colon, last
<1>5. CASE colon # 0 /\ \E number, name, firstLetter : IsKnown(before, number, name, firstLetter)
  <2>1. PICK number, base, firstLetter : IsKnown(before, number, base, firstLetter)
    BY <1>5
  <2>2. prefix = PrefixOf(number, base, firstLetter)
    BY <1>5, <2>1 DEF IsKnown
  <2> HIDE DEF prefix, before
  <2> DEFINE text == After(body, colon)
             name == NormalizedPart(text, firstLetter)
  <2>3. parts = Parts(number, base \o <<Colon>>, name, last)
    BY <2>2 DEF PartsAfter, PrefixOf, Parts, Colon, last, Plain
  <2>4. text \in Seq(Symbols) /\ ToSet(text) \subseteq ToSet(body)
    <3>1. colon \in Nat /\ body \in Seq(Symbols)
      BY <1>2, <1>4, <1>5
    <3>2. \A i \in DOMAIN text : i + colon \in DOMAIN body /\ text[i] = body[i + colon]
      BY <3>1 DEF After
    <3> QED BY <3>1, <3>2 DEF After, ToSet
  <2>5. SitePrefix(number, base, firstLetter) /\ firstLetter \in BOOLEAN
    BY <2>1 DEF IsKnown, SitePrefix
  <2> HIDE DEF text, parts
  <2>6. NormalName(name, firstLetter)
    BY <1>2, <2>4, <2>5, NormalizedNames
  <2> HIDE DEF name
  <2>7. InNamespace(number, base, firstLetter, name, last)
    BY <1>3, <2>5, <2>6 DEF InNamespace
  <2> QED BY <1>1, <2>3, <2>7 DEF AreSound
<1>6. CASE colon = 0 \/ IsUnknown(before)
  <2>1. prefix = NoPrefix(fallback)
    BY <1>6 DEF IsUnknown
  <2> DEFINE firstLetter == Site.namespaces[fallback].firstLetter
             name == NormalizedPart(body, firstLetter)
  <2>2. firstLetter \in BOOLEAN
    BY NamespacesOfSite
  <2>3. parts = Parts(fallback, IF fallback # Main THEN Site.namespaces[fallback].name \o <<Colon>> ELSE <<>>, name, last)
    <3> HIDE DEF prefix
    <3> QED BY <2>1 DEF PartsAfter, NoPrefix, Parts, Colon, last, Plain
  <2> HIDE DEF parts, prefix
  <2>4. NormalName(name, firstLetter)
    <3> HIDE DEF firstLetter
    <3> QED BY <1>2, <2>2, NormalizedNames
  <2>5. CASE fallback # Main
    <3>1. SitePrefix(fallback, Site.namespaces[fallback].name, firstLetter)
      BY <2>5, KnownNamespace
    <3> HIDE DEF firstLetter, name
    <3>2. InNamespace(fallback, Site.namespaces[fallback].name, firstLetter, name, last)
      BY <1>3, <2>4, <3>1 DEF InNamespace
    <3> QED BY <1>1, <2>3, <2>5, <3>2 DEF AreSound
  <2>6. CASE fallback = Main
    <3>1. Colon \in ToSet(name) => IsUnknown(BeforeColon(name))
      <4> SUFFICES ASSUME Colon \in ToSet(name)  PROVE IsUnknown(BeforeColon(name))
        OBVIOUS
      <4>1. Colon \in ToSet(body)
        <5> HIDE DEF firstLetter
        <5>1. PICK out \in Seq(Symbols), blank \in BOOLEAN :
                /\ AppendSymbols(body, firstLetter) = [out |-> out, blank |-> blank]
                /\ NormalizedPart(body, firstLetter) = out
                /\ KeepsSigns(body, firstLetter, out, blank)
                /\ \A s \in Symbols : Adds(out, blank, s, firstLetter, AppendSymbols(Append(body, s), firstLetter))
          BY <1>2, <2>2, Appended
        <5>2. Colon \in ToSet(out) /\ Colon \in Signs
          BY <5>1, ColonIsASymbol
        <5> QED BY <5>1, <5>2 DEF KeepsSigns
      <4>2. PICK a \in Seq(Symbols), b \in Seq(Symbols) : body = Append(a, Colon) \o b /\ Colon \notin ToSet(a)
        BY <1>2, <4>1, CutAtColon
      <4>3. rest = Append(a, Colon) \o (b \o anchor) /\ b \o anchor \in Seq(Symbols)
        <5>1. Append(a, Colon) \in Seq(Symbols)
          BY ColonIsASymbol, SymbolsAppended
        <5>2. anchor \in Seq(Symbols)
          BY <1>2 DEF IsAnchor
        <5> QED BY <1>2, <4>2, <5>1, <5>2, Concatenations
      <4>4. BeforeColon(rest) = NormalizedPart(a, Plain) /\ BeforeColon(body) = NormalizedPart(a, Plain)
        BY <4>2, <4>3, BeforeFirstColon
      <4>5. Colon \in ToSet(rest)
        BY <1>2, <4>1, Concatenations DEF IsAnchor
      <4>6. IsUnknown(BeforeColon(body))
        BY <1>4, <1>6, <4>4, <4>5
      <4>7. SameBeforeColon(NormalizedPart(body, firstLetter), body)
        <5> HIDE DEF firstLetter, name, before
        <5> QED BY <2>2, <4>2, ColonIsKept
      <4>8. PICK u \in Seq(Symbols), v \in Seq(Symbols) :
              BeforeColon(name) = u /\ BeforeColon(body) = v /\ SameButCase(u, v)
        BY <4>7 DEF SameBeforeColon
      <4>9. SameButCase(v, u)
        BY <4>8 DEF SameButCase
      <4> QED BY <4>6, <4>8, <4>9, UnknownButCase
    <3>2. InMain(name, last)
      BY <1>3, <2>4, <2>6, <3>1 DEF InMain
    <3> HIDE DEF firstLetter, name
    <3> QED BY <1>1, <2>3, <2>6, <3>2 DEF AreSound
  <2> QED BY <2>5, <2>6
<1>7. colon # 0 => before \in Seq(Symbols)
  <2> HAVE colon # 0
  <2>1. PICK a \in Seq(Symbols), b \in Seq(Symbols) : rest = Append(a, Colon) \o b /\ Colon \notin ToSet(a)
    BY <1>4, CutAtColon
  <2>2. BeforeColon(rest) = NormalizedPart(a, Plain)
    BY <2>1, BeforeFirstColon
  <2> QED BY <2>2, PlainIsBoolean, NormalizedNames
<1>8. before \in Seq(Symbols) => IsUnknown(before) \/ \E number, name, firstLetter : IsKnown(before, number, name, firstLetter)
  BY KnownOrUnknown
<1> QED BY <1>5, <1>6, <1>7, <1>8

\* Concatenations again, a fact at a time.
LEMMA Joined == \A u, v \in Seq(Symbols) : u \o v \in Seq(Symbols)
BY Concatenations

LEMMA JoinedSymbols == \A u, v \in Seq(Symbols) : ToSet(u \o v) = ToSet(u) \cup ToSet(v)
BY Concatenations

LEMMA Regrouped == \A u, v, w \in Seq(Symbols) : (u \o v) \o w = u \o (v \o w)
BY Concatenations

LEMMA JoinedFirst == \A u, v \in Seq(Symbols) : u # <<>> => u \o v # <<>> /\ (u \o v)[1] = u[1]
BY Concatenations

LEMMA JoinedColon ==
  \A u, v, w \in Seq(Symbols) : u \o (Append(v, Colon) \o w) = Append(u \o v, Colon) \o w
<1> TAKE u, v, w \in Seq(Symbols)
<1>1. Append(u \o v, Colon) = u \o Append(v, Colon) /\ Append(v, Colon) \in Seq(Symbols)
  BY AppendedToConcat, ColonIsASymbol
<1>2. (u \o Append(v, Colon)) \o w = u \o (Append(v, Colon) \o w)
  BY <1>1, Regrouped
<1> QED BY <1>1, <1>2

\* The first colon cuts a text in one way.
LEMMA OneFirstColon ==
  \A u, v, a, b \in Seq(Symbols) :
    Append(u, Colon) \o v = Append(a, Colon) \o b /\ Colon \notin ToSet(u) /\ Colon \notin ToSet(a) => u = a
<1> TAKE u, v, a, b \in Seq(Symbols)
<1> HAVE Append(u, Colon) \o v = Append(a, Colon) \o b /\ Colon \notin ToSet(u) /\ Colon \notin ToSet(a)
<1> DEFINE S == {Colon}
<1>1. Colon \in S /\ ToSet(u) \cap S = {} /\ ToSet(a) \cap S = {}
  OBVIOUS
<1> HIDE DEF S
<1>2. IsCut(Append(u, Colon) \o v, u, Colon, v, S)
  BY <1>1, ColonIsASymbol, CutAround
<1>3. IsCut(Append(a, Colon) \o b, a, Colon, b, S)
  BY <1>1, ColonIsASymbol, CutAround
<1> DEFINE text == Append(u, Colon) \o v
<1>4. First(S, text) - 1 = Len(u) /\ Upto(text, Len(u)) = u
  BY <1>2 DEF IsCut
<1>5. First(S, text) - 1 = Len(a) /\ Upto(text, Len(a)) = a
  BY <1>3 DEF IsCut
<1> HIDE DEF text
<1> QED BY <1>4, <1>5

\* A title of a namespace is read back: its prefix comes first.
Written(prefix, name, anchor) == (prefix \o name) \o anchor
LEMMA InNamespaceIsRead ==
  \A number, base, firstLetter, name, anchor : InNamespace(number, base, firstLetter, name, anchor) =>
    LET whole == Written(base \o <<Colon>>, name, anchor)
    IN  /\ whole \in Seq(Symbols) /\ BeforeColon(whole) = base /\ base # <<>>
        /\ \A default : PartsOf(Site, whole, default) = Parts(number, base \o <<Colon>>, name, anchor)
<1> TAKE number, base, firstLetter, name, anchor
<1> HAVE InNamespace(number, base, firstLetter, name, anchor)
<1> DEFINE start == Append(base, Colon)
           body == start \o name
           after == name \o anchor
           whole == Written(base \o <<Colon>>, name, anchor)
           S == {Colon}
<1>1. /\ base \in Seq(Symbols) /\ base # <<>> /\ NormalizedPart(base, Plain) = base /\ Colon \notin ToSet(base) /\ Hash \notin ToSet(base)
      /\ name \in Seq(Symbols) /\ Hash \notin ToSet(name) /\ NormalizedPart(name, firstLetter) = name
      /\ anchor \in Seq(Symbols) /\ IsAnchor(anchor) /\ NormalizedPart(anchor, Plain) = anchor
      /\ \A default : Prefix(Site, base, default) = PrefixOf(number, base, firstLetter)
  BY DEF InNamespace, SitePrefix, ProperText, CannotBeInNames, NormalName, NormalAnchor, IsAnchor, NotInTitles, Colon, Hash
<1>2. /\ start \in Seq(Symbols) /\ base \o <<Colon>> = start /\ ToSet(start) = ToSet(base) \cup {Colon}
  BY <1>1, ColonIsASymbol, SymbolsAppended
<1> HIDE DEF start
<1>3. /\ body \in Seq(Symbols) /\ after \in Seq(Symbols) /\ body \o anchor = start \o after /\ ToSet(body) = ToSet(start) \cup ToSet(name)
  <2>1. name \in Seq(Symbols) /\ anchor \in Seq(Symbols)
    BY <1>1
  <2>2. start \in Seq(Symbols)
    BY <1>2
  <2>3. body \in Seq(Symbols)
    BY <2>1, <2>2, Joined
  <2>4. after \in Seq(Symbols)
    BY <2>1, Joined
  <2>5. body \o anchor = start \o after
    BY <2>1, <2>2, Regrouped
  <2>6. ToSet(body) = ToSet(start) \cup ToSet(name)
    BY <2>1, <2>2, JoinedSymbols
  <2> QED BY <2>3, <2>4, <2>5, <2>6
<1>4. whole = body \o anchor
  BY <1>2 DEF Written
<1>5. Colon \in S /\ ToSet(base) \cap S = {} /\ S = {":"}
  BY <1>1 DEF Colon
<1> HIDE DEF S
<1>6. IsCut(start \o after, base, Colon, after, S) /\ IsCut(start \o name, base, Colon, name, S)
  BY <1>1, <1>3, <1>5, ColonIsASymbol, CutAround DEF start
<1> HIDE DEF body, after, whole
<1>7. Hash \notin ToSet(body)
  BY <1>1, <1>2, <1>3, HashIsASymbol
<1>8. BodyOf(whole) = body /\ AnchorOf(whole) = anchor
  BY <1>1, <1>3, <1>4, <1>7, BodyOfTitle
<1>9. BeforeColon(whole) = base
  <2>1. BeforeColon(start \o after) = NormalizedPart(base, Plain)
    BY <1>1, <1>3, BeforeFirstColon DEF start
  <2> QED BY <1>1, <1>3, <1>4, <2>1
<1>10. First({":"}, whole) = Len(base) + 1 /\ First({":"}, whole) # 0 /\ whole \in Seq(Symbols)
  BY <1>3, <1>4, <1>5, <1>6 DEF IsCut
<1>11. After(body, First({":"}, whole)) = name
  BY <1>6, <1>10 DEF IsCut, body
<1>12. ASSUME NEW default  PROVE PartsOf(Site, whole, default) = Parts(number, base \o <<Colon>>, name, anchor)
  <2> DEFINE colon == First({":"}, whole)
             prefix == PrefixOf(number, base, firstLetter)
  <2>1. PartsOf(Site, whole, default) = PartsAfter(Site, IF colon = 0 THEN NoPrefix(default) ELSE Prefix(Site, BeforeColon(whole), default),
                                                   colon, BodyOf(whole), AnchorOf(whole))
    BY DEF PartsOf, BodyOf, AnchorOf
  <2>2. PartsOf(Site, whole, default) = PartsAfter(Site, prefix, colon, body, anchor)
    BY <1>1, <1>8, <1>9, <1>10, <2>1
  <2>3. PartsAfter(Site, prefix, colon, body, anchor)
          = Parts(number, base \o <<Colon>>, NormalizedPart(After(body, colon), firstLetter), NormalizedPart(anchor, Plain))
    BY DEF PartsAfter, PrefixOf, Parts, Colon, Plain
  <2> QED BY <1>1, <1>11, <2>2, <2>3
<1> QED BY <1>1, <1>9, <1>10, <1>12 DEF whole

\* A title of the main namespace is read back: nothing is taken for a prefix.
Readable(name) == name # <<>> /\ name[1] # Colon

\* A normal name starts with a symbol that is kept, and has no invisible one.
LEMMA NormalNamesBegin ==
  \A name, firstLetter : NormalName(name, firstLetter) /\ firstLetter \in BOOLEAN /\ name # <<>> =>
    /\ name[1] \notin Ignored
    /\ ToSet(name) \cap (Ignored \ {" "}) = {}
<1> TAKE name, firstLetter
<1> HAVE NormalName(name, firstLetter) /\ firstLetter \in BOOLEAN /\ name # <<>>
<1>1. name \in Seq(Symbols) /\ NormalizedPart(name, firstLetter) = name
  BY DEF NormalName
<1>2. PICK out \in Seq(Symbols), blank \in BOOLEAN :
        /\ AppendSymbols(name, firstLetter) = [out |-> out, blank |-> blank]
        /\ NormalizedPart(name, firstLetter) = out
        /\ KeepsSigns(name, firstLetter, out, blank)
        /\ \A s \in Symbols : Adds(out, blank, s, firstLetter, AppendSymbols(Append(name, s), firstLetter))
  BY <1>1, Appended
<1> QED BY <1>1, <1>2 DEF KeepsSigns

\* A title of the main namespace is read back.
LEMMA InMainIsRead ==
  \A name, anchor : InMain(name, anchor) /\ Readable(name) =>
    LET whole == Written(<<>>, name, anchor)
    IN  /\ whole \in Seq(Symbols) /\ (Colon \in ToSet(whole) => BeforeColon(whole) # <<>>)
        /\ PartsOf(Site, whole, Main) = Parts(Main, <<>>, name, anchor)
<1> TAKE name, anchor
<1> HAVE InMain(name, anchor) /\ Readable(name)
<1> DEFINE whole == Written(<<>>, name, anchor)
           firstLetter == Site.namespaces[Main].firstLetter
<1>1. /\ name \in Seq(Symbols) /\ Hash \notin ToSet(name) /\ NormalizedPart(name, firstLetter) = name /\ NormalName(name, firstLetter)
      /\ anchor \in Seq(Symbols) /\ IsAnchor(anchor) /\ NormalizedPart(anchor, Plain) = anchor
      /\ (Colon \in ToSet(name) => IsUnknown(BeforeColon(name)))
  BY DEF InMain, NormalName, NormalAnchor, IsAnchor, NotInTitles, Hash
<1>2. firstLetter \in BOOLEAN
  <2>1. Main \in DOMAIN Site.namespaces
    BY NamespacesAssumption, SiteNamespaces DEF Ids
  <2> QED BY <2>1, NamespacesOfSite
<1>3. whole = name \o anchor /\ whole \in Seq(Symbols) /\ whole # <<>> /\ whole[1] = name[1] /\ ToSet(whole) = ToSet(name) \cup ToSet(anchor)
  BY <1>1, Concatenations DEF Written, Readable
<1> HIDE DEF whole, firstLetter
<1>4. name[1] \notin Ignored /\ name[1] # Colon
  BY <1>1, <1>2, NormalNamesBegin DEF Readable
<1>5. BodyOf(whole) = name /\ AnchorOf(whole) = anchor
  BY <1>1, <1>3, BodyOfTitle
<1>6. ASSUME Colon \in ToSet(whole)
      PROVE  BeforeColon(whole) # <<>> /\ IsUnknown(BeforeColon(whole))
  <2>1. PICK a \in Seq(Symbols), b \in Seq(Symbols) : whole = Append(a, Colon) \o b /\ Colon \notin ToSet(a)
    BY <1>3, <1>6, CutAtColon
  <2>2. BeforeColon(whole) = NormalizedPart(a, Plain)
    BY <2>1, BeforeFirstColon
  <2>3. PICK out \in Seq(Symbols), blank \in BOOLEAN :
          /\ AppendSymbols(a, Plain) = [out |-> out, blank |-> blank]
          /\ NormalizedPart(a, Plain) = out
          /\ KeepsSigns(a, Plain, out, blank)
          /\ \A s \in Symbols : Adds(out, blank, s, Plain, AppendSymbols(Append(a, s), Plain))
    BY PlainIsBoolean, Appended
  <2>4. a # <<>> /\ a[1] = whole[1]
    <3>1. /\ Append(a, Colon) \in Seq(Symbols) /\ Append(a, Colon) # <<>>
          /\ Append(a, Colon)[1] = IF a = <<>> THEN Colon ELSE a[1]
      BY ColonIsASymbol, SymbolsAppended
    <3>2. whole[1] = Append(a, Colon)[1]
      BY <2>1, <3>1, Concatenations
    <3> QED BY <1>3, <1>4, <3>1, <3>2
  <2>5. out # <<>>
    BY <1>3, <1>4, <2>3, <2>4 DEF KeepsSigns
  <2>6. CASE Colon \in ToSet(name)
    <3>1. PICK u \in Seq(Symbols), v \in Seq(Symbols) : name = Append(u, Colon) \o v /\ Colon \notin ToSet(u)
      BY <1>1, <2>6, CutAtColon
    <3>2. whole = Append(u, Colon) \o (v \o anchor) /\ v \o anchor \in Seq(Symbols)
      <4>1. Append(u, Colon) \in Seq(Symbols)
        BY ColonIsASymbol, SymbolsAppended
      <4>2. anchor \in Seq(Symbols)
        BY <1>1
      <4>3. (Append(u, Colon) \o v) \o anchor = Append(u, Colon) \o (v \o anchor)
        BY <4>1, <4>2, Regrouped, ZenonT(40)
      <4>4. v \o anchor \in Seq(Symbols)
        BY <4>2, Joined
      <4> QED BY <1>3, <3>1, <4>3, <4>4
    <3>3. BeforeColon(whole) = NormalizedPart(u, Plain) /\ BeforeColon(name) = NormalizedPart(u, Plain)
      BY <3>1, <3>2, BeforeFirstColon
    <3> QED BY <1>1, <2>2, <2>3, <2>5, <2>6, <3>3
  <2>7. CASE Colon \notin ToSet(name)
    <3>1. Hash \in ToSet(a)
      <4>1. PICK rest \in Seq(Symbols) : anchor = <<Hash>> \o rest
        <5>1. Colon \in ToSet(anchor) /\ ToSet(<<>>) = {}
          BY <1>3, <1>6, <2>7 DEF ToSet
        <5> QED BY <1>1, <5>1 DEF IsAnchor
      <4>2. name \in Seq(Symbols)
        BY <1>1
      <4> DEFINE start == Append(name, Hash)
      <4>3. start \in Seq(Symbols) /\ ToSet(start) = ToSet(name) \cup {Hash} /\ start = name \o <<Hash>>
        BY <4>2, HashIsASymbol, SymbolsAppended
      <4>4. whole = start \o rest
        <5> DEFINE h == <<Hash>>
        <5>1. h \in Seq(Symbols)
          BY HashIsASymbol
        <5> HIDE DEF h, start
        <5>2. (name \o h) \o rest = name \o (h \o rest)
          BY <4>2, <5>1, Regrouped, ZenonT(40)
        <5>3. start = name \o h /\ anchor = h \o rest
          BY <4>1, <4>3 DEF h
        <5> QED BY <1>3, <5>2, <5>3
      <4> HIDE DEF start
      <4>5. Colon \in ToSet(rest)
        <5>1. ToSet(whole) = ToSet(start) \cup ToSet(rest)
          BY <4>3, <4>4, JoinedSymbols
        <5> QED BY <1>6, <2>7, <4>3, <5>1, HashIsASymbol
      <4>6. PICK u \in Seq(Symbols), v \in Seq(Symbols) : rest = Append(u, Colon) \o v /\ Colon \notin ToSet(u)
        BY <4>5, CutAtColon
      <4> DEFINE w == start \o u
      <4>7. w \in Seq(Symbols)
        BY <4>3, Joined
      <4>8. ToSet(w) = ToSet(start) \cup ToSet(u)
        BY <4>3, JoinedSymbols
      <4>9. whole = Append(w, Colon) \o v
        <5>1. start \in Seq(Symbols)
          BY <4>3
        <5>2. start \o (Append(u, Colon) \o v) = Append(start \o u, Colon) \o v
          BY <5>1, JoinedColon, ZenonT(40)
        <5> QED BY <4>4, <4>6, <5>2
      <4> HIDE DEF w
      <4>10. Colon \notin ToSet(w) /\ Hash \in ToSet(w)
        BY <2>7, <4>3, <4>6, <4>8, HashIsASymbol
      <4>11. w = a
        BY <2>1, <4>7, <4>9, <4>10, OneFirstColon
      <4> QED BY <4>10, <4>11
    <3>2. Hash \in ToSet(out)
      BY <2>3, <3>1, HashIsASymbol DEF KeepsSigns
    <3>3. IsUnknown(out) \/ \E number, base, fl : IsKnown(out, number, base, fl)
      BY KnownOrUnknown
    <3>4. ~ \E number, base, fl : IsKnown(out, number, base, fl)
      BY <3>2 DEF IsKnown, Hash
    <3> QED BY <2>2, <2>3, <2>5, <3>3, <3>4
  <2> QED BY <2>6, <2>7
<1>7. PartsOf(Site, whole, Main) = Parts(Main, <<>>, name, anchor)
  <2> DEFINE colon == First({":"}, whole)
             prefix == IF colon = 0 THEN NoPrefix(Main) ELSE Prefix(Site, BeforeColon(whole), Main)
  <2>1. PartsOf(Site, whole, Main) = PartsAfter(Site, prefix, colon, name, anchor)
    <3>1. PartsOf(Site, whole, Main) = PartsAfter(Site, prefix, colon, BodyOf(whole), AnchorOf(whole))
      BY DEF PartsOf, BodyOf, AnchorOf
    <3> HIDE DEF prefix, colon
    <3> QED BY <1>5, <3>1
  <2>2. colon # 0 => Colon \in ToSet(whole)
    <3> DEFINE S == {Colon}
    <3>1. S = {":"}
      BY DEF Colon
    <3>2. Colon \notin ToSet(whole) => ToSet(whole) \cap S = {}
      OBVIOUS
    <3> HIDE DEF S
    <3>3. Colon \notin ToSet(whole) => First(S, whole) = 0
      BY <1>3, <3>2, NothingToCut
    <3> QED BY <3>1, <3>3
  <2>3. prefix = NoPrefix(Main)
    <3> HIDE DEF colon
    <3> QED BY <1>6, <2>2 DEF IsUnknown
  <2> HIDE DEF prefix, colon
  <2>4. PartsAfter(Site, NoPrefix(Main), colon, name, anchor)
          = Parts(Main, <<>>, NormalizedPart(name, firstLetter), NormalizedPart(anchor, Plain))
    BY DEF PartsAfter, NoPrefix, Parts, Plain, firstLetter
  <2> QED BY <1>1, <2>1, <2>3, <2>4
<1> QED BY <1>3, <1>6, <1>7 DEF whole

---------------------------------------------------------------------------
\* What is parsed: all of a text, unless it starts with a colon.
LEMMA ParsedWhole ==
  \A text, default : (First({":"}, text) # 0 => BeforeColon(text) # <<>>) =>
    ParseTitle(text, default, FALSE) = PartsOf(Site, text, default)
BY DEF ParseTitle, TitleParts

\* A colon is found when there is one.
LEMMA FirstColonIsThere == \A text \in Seq(Symbols) : First({":"}, text) # 0 <=> Colon \in ToSet(text)
<1> TAKE text \in Seq(Symbols)
<1> DEFINE S == {Colon}
<1>1. S = {":"} /\ Colon \in S
  BY DEF Colon
<1>2. ToSet(text) \cap S = {} <=> Colon \notin ToSet(text)
  OBVIOUS
<1> HIDE DEF S
<1>3. CASE ToSet(text) \cap S = {}
  <2>1. First(S, text) = 0
    BY <1>3, NothingToCut
  <2> QED BY <1>1, <1>2, <1>3, <2>1
<1>4. CASE ToSet(text) \cap S # {}
  <2>1. DOMAIN text \subseteq Nat /\ {i \in DOMAIN text : text[i] \in S} # {}
    BY <1>4 DEF ToSet
  <2>2. First(S, text) \in DOMAIN text
    BY <2>1, FirstIsLeast
  <2>3. First(S, text) \in 1 .. Len(text)
    BY <2>2
  <2>4. First(S, text) # 0
    BY <2>3
  <2> QED BY <1>1, <1>2, <1>4, <2>4
<1> QED BY <1>3, <1>4

\* An initial colon is skipped, and the default with it.
LEMMA ParsedAfterColon ==
  \A text \in Seq(Symbols) : \A default :
    ParseTitle(<<":">> \o text, default, FALSE) = PartsOf(Site, text, Main)
<1> TAKE text \in Seq(Symbols)
<1> TAKE default
<1> DEFINE none == <<>>
           whole == Append(none, Colon) \o text
           S == {Colon}
<1>1. none \in Seq(Symbols) /\ ToSet(none) = {} /\ Len(none) = 0 /\ <<":">> = Append(none, Colon)
  BY DEF ToSet, Colon
<1>2. Colon \in S /\ ToSet(none) \cap S = {} /\ Colon \notin ToSet(none) /\ S = {":"}
  BY <1>1 DEF Colon
<1>3. NormalizedPart(none, Plain) = <<>>
  BY AppendNoSymbol DEF NormalizedPart
<1> HIDE DEF none, S
<1>4. IsCut(whole, none, Colon, text, S)
  BY <1>1, <1>2, ColonIsASymbol, CutAround
<1>5. BeforeColon(whole) = NormalizedPart(none, Plain)
  BY <1>1, <1>2, BeforeFirstColon
<1>6. whole = <<":">> \o text
  BY <1>1
<1> HIDE DEF whole
<1>7. First({":"}, whole) = 1 /\ After(whole, 1) = text
  BY <1>1, <1>2, <1>4 DEF IsCut
<1>8. ParseTitle(whole, default, FALSE) = PartsOf(Site, After(whole, 1), Main)
  BY <1>3, <1>5, <1>7 DEF ParseTitle, TitleParts, WithoutNamespace
<1> QED BY <1>6, <1>7, <1>8

\* Whatever is parsed, in any namespace, its parts are sound.
LEMMA TitlesAreSound ==
  \A text \in Seq(Symbols) : \A default \in DOMAIN Site.namespaces : ToSet(text) \cap {"]", "|"} = {} =>
    AreSound(ParseTitle(text, default, FALSE))
<1> TAKE text \in Seq(Symbols)
<1> TAKE default \in DOMAIN Site.namespaces
<1> HAVE ToSet(text) \cap {"]", "|"} = {}
<1>1. Main \in DOMAIN Site.namespaces
  BY NamespacesAssumption, SiteNamespaces DEF Ids
<1>2. CASE First({":"}, text) # 0 => BeforeColon(text) # <<>>
  BY <1>2, ParsedWhole, PartsAreSound
<1>3. CASE First({":"}, text) # 0 /\ BeforeColon(text) = <<>>
  <2> DEFINE colon == First({":"}, text)
             rest == After(text, colon)
  <2>1. ParseTitle(text, default, FALSE) = PartsOf(Site, rest, Main)
    BY <1>3 DEF ParseTitle, TitleParts, WithoutNamespace
  <2>2. rest \in Seq(Symbols) /\ ToSet(rest) \subseteq ToSet(text)
    <3> DEFINE S == {":"}
    <3>1. DOMAIN text \subseteq Nat
      OBVIOUS
    <3>2. First(S, text) \in DOMAIN text
      BY <1>3, <3>1, FirstIsLeast
    <3>3. colon \in Nat
      BY <3>1, <3>2
    <3> HIDE DEF colon
    <3>4. \A i \in DOMAIN rest : i + colon \in DOMAIN text /\ rest[i] = text[i + colon]
      BY <3>3 DEF After
    <3> QED BY <3>3, <3>4 DEF After, ToSet
  <2>3. ToSet(rest) \cap {"]", "|"} = {}
    BY <2>2
  <2> HIDE DEF rest
  <2> QED BY <1>1, <2>1, <2>2, <2>3, PartsAreSound
<1> QED BY <1>2, <1>3

\* Sound parts are read back from the title that they make.
ReadBack(text, parts) ==
  /\ text \in Seq(Symbols)
  /\ ParseTitle(text, Main, FALSE) = parts
  /\ \A other : ParseTitle(<<":">> \o text, other, FALSE) = parts
LEMMA SoundPartsAreRead ==
  \A parts : AreSound(parts) /\ Readable(parts.name) => ReadBack(WholeTitle(parts), parts)
<1> TAKE parts
<1> HAVE AreSound(parts) /\ Readable(parts.name)
<1>1. ASSUME NEW whole \in Seq(Symbols), Colon \in ToSet(whole) => BeforeColon(whole) # <<>>,
             PartsOf(Site, whole, Main) = parts
      PROVE  ReadBack(whole, parts)
  <2>1. ParseTitle(whole, Main, FALSE) = parts
    BY <1>1, FirstColonIsThere, ParsedWhole
  <2>2. \A other : ParseTitle(<<":">> \o whole, other, FALSE) = parts
    BY <1>1, ParsedAfterColon
  <2> QED BY <2>1, <2>2 DEF ReadBack
<1>2. CASE \E name, anchor : InMain(name, anchor) /\ parts = Parts(Main, <<>>, name, anchor)
  <2>1. PICK name, anchor : InMain(name, anchor) /\ parts = Parts(Main, <<>>, name, anchor)
    BY <1>2
  <2>2. parts.name = name /\ WholeTitle(parts) = Written(<<>>, name, anchor)
    BY <2>1 DEF Parts, WholeTitle, WithoutAnchor, Written
  <2> DEFINE whole == Written(<<>>, name, anchor)
  <2>3. /\ whole \in Seq(Symbols) /\ (Colon \in ToSet(whole) => BeforeColon(whole) # <<>>)
        /\ PartsOf(Site, whole, Main) = parts
    BY <2>1, <2>2, InMainIsRead
  <2> HIDE DEF whole
  <2>4. ReadBack(whole, parts)
    BY <1>1, <2>3
  <2> QED BY <2>2, <2>4 DEF whole
<1>3. CASE \E number, base, firstLetter, name, anchor :
             InNamespace(number, base, firstLetter, name, anchor) /\ parts = Parts(number, base \o <<Colon>>, name, anchor)
  <2>1. PICK number, base, firstLetter, name, anchor :
          InNamespace(number, base, firstLetter, name, anchor) /\ parts = Parts(number, base \o <<Colon>>, name, anchor)
    BY <1>3
  <2> DEFINE whole == Written(base \o <<Colon>>, name, anchor)
  <2>2. WholeTitle(parts) = whole
    BY <2>1 DEF Parts, WholeTitle, WithoutAnchor, Written
  <2>3. /\ whole \in Seq(Symbols) /\ BeforeColon(whole) = base /\ base # <<>>
        /\ \A default : PartsOf(Site, whole, default) = Parts(number, base \o <<Colon>>, name, anchor)
    BY <2>1, InNamespaceIsRead
  <2> HIDE DEF whole
  <2>4. ReadBack(whole, parts)
    BY <1>1, <2>1, <2>3
  <2> QED BY <2>2, <2>4
<1> QED BY <1>2, <1>3 DEF AreSound

\* So are those without the anchor.
Bare(parts) == Parts(parts.number, parts.prefix, parts.name, <<>>)
LEMMA BareIsSound ==
  \A parts : AreSound(parts) =>
    /\ AreSound(Bare(parts)) /\ WholeTitle(Bare(parts)) = WithoutAnchor(parts)
    /\ parts.prefix \in Seq(Symbols) /\ parts.name \in Seq(Symbols)
    /\ Bare(parts).name = parts.name /\ Bare(parts).number = parts.number
<1> TAKE parts
<1> HAVE AreSound(parts)
<1> DEFINE bare == Bare(parts)
<1>1. NormalAnchor(<<>>)
  <2>1. NormalizedPart(<<>>, Plain) = <<>>
    BY AppendNoSymbol DEF NormalizedPart
  <2> QED BY <2>1 DEF NormalAnchor, IsAnchor
<1>2. bare.name = parts.name /\ bare.number = parts.number /\ bare.prefix = parts.prefix /\ bare.anchor = <<>>
  BY DEF Bare, Parts
<1>3. AreSound(bare) /\ parts.prefix \in Seq(Symbols) /\ parts.name \in Seq(Symbols)
  <2>1. CASE \E name, anchor : InMain(name, anchor) /\ parts = Parts(Main, <<>>, name, anchor)
    <3>1. PICK name, anchor : InMain(name, anchor) /\ parts = Parts(Main, <<>>, name, anchor)
      BY <2>1
    <3>2. InMain(name, <<>>) /\ name \in Seq(Symbols)
      BY <1>1, <3>1 DEF InMain, NormalName
    <3>3. bare = Parts(Main, <<>>, name, <<>>) /\ parts.prefix = <<>> /\ parts.name = name
      BY <3>1 DEF Bare, Parts
    <3> HIDE DEF bare
    <3> QED BY <3>2, <3>3 DEF AreSound
  <2>2. CASE \E number, base, firstLetter, name, anchor :
               InNamespace(number, base, firstLetter, name, anchor) /\ parts = Parts(number, base \o <<Colon>>, name, anchor)
    <3>1. PICK number, base, firstLetter, name, anchor :
            InNamespace(number, base, firstLetter, name, anchor) /\ parts = Parts(number, base \o <<Colon>>, name, anchor)
      BY <2>2
    <3>2. InNamespace(number, base, firstLetter, name, <<>>) /\ name \in Seq(Symbols) /\ base \in Seq(Symbols)
      BY <1>1, <3>1 DEF InNamespace, NormalName, SitePrefix, ProperText
    <3>3. bare = Parts(number, base \o <<Colon>>, name, <<>>) /\ parts.prefix = base \o <<Colon>> /\ parts.name = name
      BY <3>1 DEF Bare, Parts
    <3>4. base \o <<Colon>> \in Seq(Symbols)
      BY <3>2, ColonIsASymbol, SymbolsAppended
    <3> HIDE DEF bare
    <3> QED BY <3>2, <3>3, <3>4 DEF AreSound
  <2> QED BY <2>1, <2>2 DEF AreSound
<1>4. WholeTitle(bare) = WithoutAnchor(parts)
  <2>1. parts.prefix \o parts.name \in Seq(Symbols)
    BY <1>3, Joined
  <2>2. (parts.prefix \o parts.name) \o <<>> = parts.prefix \o parts.name
    BY <2>1, Concatenations
  <2> HIDE DEF bare
  <2> QED BY <1>2, <2>2 DEF WholeTitle, WithoutAnchor
<1> QED BY <1>2, <1>3, <1>4

\* The page of sound parts is read as the same page.
LEMMA PagesAreReadBack ==
  \A parts : AreSound(parts) /\ Readable(parts.name) => ReadBack(WithoutAnchor(parts), Bare(parts))
<1> TAKE parts
<1> HAVE AreSound(parts) /\ Readable(parts.name)
<1>1. AreSound(Bare(parts)) /\ Readable(Bare(parts).name) /\ WholeTitle(Bare(parts)) = WithoutAnchor(parts)
  BY BareIsSound DEF Readable
<1> QED BY <1>1, SoundPartsAreRead

---------------------------------------------------------------------------
\* Redirects: what stands between the brackets is the title.
LinkEnds == {"]", "|", "\n"}
LEMMA SymbolsOfPages ==
  \A parts : AreSound(parts) /\ Readable(parts.name) =>
    WithoutAnchor(parts) \in Seq(Symbols) /\ ToSet(WithoutAnchor(parts)) \cap LinkEnds = {}
<1> TAKE parts
<1> HAVE AreSound(parts) /\ Readable(parts.name)
<1>1. LinkEnds \subseteq NotInTitles \cup (Ignored \ {" "}) /\ LinkEnds \subseteq CannotBeInNames \cup (Ignored \ {" "})
  BY DEF LinkEnds, NotInTitles, Ignored, Blanks, CannotBeInNames
<1>2. \A name, firstLetter : NormalName(name, firstLetter) /\ firstLetter \in BOOLEAN /\ name # <<>> =>
        name \in Seq(Symbols) /\ ToSet(name) \cap LinkEnds = {}
  <2> TAKE name, firstLetter
  <2> HAVE NormalName(name, firstLetter) /\ firstLetter \in BOOLEAN /\ name # <<>>
  <2>1. ToSet(name) \cap (Ignored \ {" "}) = {}
    BY NormalNamesBegin
  <2>2. name \in Seq(Symbols) /\ ToSet(name) \cap NotInTitles = {}
    BY DEF NormalName
  <2> QED BY <1>1, <2>1, <2>2
<1>3. parts.name # <<>>
  BY DEF Readable
<1>4. CASE \E name, anchor : InMain(name, anchor) /\ parts = Parts(Main, <<>>, name, anchor)
  <2>1. PICK name, anchor : InMain(name, anchor) /\ parts = Parts(Main, <<>>, name, anchor)
    BY <1>4
  <2>2. parts.name = name /\ parts.prefix = <<>>
    BY <2>1 DEF Parts
  <2>3. Site.namespaces[Main].firstLetter \in BOOLEAN
    <3>1. Main \in DOMAIN Site.namespaces
      BY NamespacesAssumption, SiteNamespaces DEF Ids
    <3> QED BY <3>1, NamespacesOfSite
  <2>4. name \in Seq(Symbols) /\ ToSet(name) \cap LinkEnds = {}
    BY <1>2, <1>3, <2>1, <2>2, <2>3 DEF InMain
  <2>5. <<>> \o name = name
    BY <2>4, Concatenations
  <2> QED BY <2>2, <2>4, <2>5 DEF WithoutAnchor
<1>5. CASE \E number, base, firstLetter, name, anchor :
             InNamespace(number, base, firstLetter, name, anchor) /\ parts = Parts(number, base \o <<Colon>>, name, anchor)
  <2>1. PICK number, base, firstLetter, name, anchor :
          InNamespace(number, base, firstLetter, name, anchor) /\ parts = Parts(number, base \o <<Colon>>, name, anchor)
    BY <1>5
  <2>2. parts.name = name /\ parts.prefix = base \o <<Colon>>
    BY <2>1 DEF Parts
  <2>3. NormalName(name, firstLetter) /\ firstLetter \in BOOLEAN /\ ProperText(base)
    BY <2>1 DEF InNamespace, SitePrefix
  <2>4. name \in Seq(Symbols) /\ ToSet(name) \cap LinkEnds = {}
    BY <1>2, <1>3, <2>2, <2>3
  <2>5. base \in Seq(Symbols) /\ ToSet(base) \cap CannotBeInNames = {} /\ NormalizedPart(base, Plain) = base
    BY <2>3 DEF ProperText
  <2>6. ToSet(base) \cap (Ignored \ {" "}) = {}
    <3>1. PICK out \in Seq(Symbols), blank \in BOOLEAN :
            /\ AppendSymbols(base, Plain) = [out |-> out, blank |-> blank]
            /\ NormalizedPart(base, Plain) = out
            /\ KeepsSigns(base, Plain, out, blank)
            /\ \A s \in Symbols : Adds(out, blank, s, Plain, AppendSymbols(Append(base, s), Plain))
      BY <2>5, PlainIsBoolean, Appended
    <3> QED BY <2>5, <3>1 DEF KeepsSigns
  <2> DEFINE start == Append(base, Colon)
  <2>7. start \in Seq(Symbols) /\ ToSet(start) = ToSet(base) \cup {Colon} /\ base \o <<Colon>> = start
    BY <2>5, ColonIsASymbol, SymbolsAppended
  <2> HIDE DEF start
  <2>8. start \o name \in Seq(Symbols)
    BY <2>4, <2>7, Joined
  <2>9. ToSet(start \o name) = ToSet(start) \cup ToSet(name)
    BY <2>4, <2>7, JoinedSymbols
  <2>10. Colon \notin LinkEnds
    BY DEF LinkEnds, Colon
  <2>11. ToSet(start \o name) \cap LinkEnds = {}
    BY <1>1, <2>4, <2>5, <2>6, <2>7, <2>9, <2>10
  <2> QED BY <2>2, <2>7, <2>8, <2>11 DEF WithoutAnchor
<1> QED BY <1>4, <1>5 DEF AreSound

\* Blanks before a text.
Spaces == {" ", "\n"}

\* SkipSpace starts at the first symbol that is not one.
LEMMA SpaceSkipped ==
  \A text : \A n \in Nat : \A k \in 1 .. n :
    /\ DOMAIN text = 1 .. n /\ Len(text) = n /\ text[k] \notin Spaces
    /\ \A i \in 1 .. n : i < k => text[i] \in Spaces
    => SkipSpace(text) = SubSeq(text, k, n)
<1> TAKE text
<1> TAKE n \in Nat
<1> TAKE k \in 1 .. n
<1> HAVE /\ DOMAIN text = 1 .. n /\ Len(text) = n /\ text[k] \notin Spaces
         /\ \A i \in 1 .. n : i < k => text[i] \in Spaces
<1> DEFINE ink == {i \in DOMAIN text : text[i] \notin {" ", "\n"}}
<1>1. ink = {i \in 1 .. n : text[i] \notin Spaces}
  BY DEF Spaces
<1>2. SkipSpace(text) = IF ink = {} THEN <<>> ELSE SubSeq(text, Min(ink), Len(text))
  BY DEF SkipSpace
<1> HIDE DEF ink
<1>3. k \in ink /\ \A i \in ink : k <= i /\ i \in Nat
  <2>1. k \in ink
    BY <1>1
  <2>2. ASSUME NEW i \in ink  PROVE k <= i /\ i \in Nat
    BY <1>1, <2>2
  <2> QED BY <2>1, <2>2
<1>4. Min(ink) = CHOOSE x \in ink : \A y \in ink : x <= y
  BY DEF Min
<1>5. Min(ink) = k
  <2>1. Min(ink) \in ink /\ \A y \in ink : Min(ink) <= y
    BY <1>3, <1>4
  <2>2. Min(ink) <= k /\ k <= Min(ink) /\ Min(ink) \in Nat
    BY <1>3, <2>1
  <2> QED BY <2>2
<1> QED BY <1>2, <1>3, <1>5

\* A text that does not start with a blank is all there.
LEMMA NoSpaceToSkip ==
  \A text \in Seq(Symbols) : text # <<>> /\ text[1] \notin Spaces => SkipSpace(text) = text
<1> TAKE text \in Seq(Symbols)
<1> HAVE text # <<>> /\ text[1] \notin Spaces
<1> DEFINE n == Len(text)
<1>1. n \in Nat /\ n >= 1 /\ DOMAIN text = 1 .. n /\ Len(text) = n
  OBVIOUS
<1>2. SubSeq(text, 1, n) = text
  OBVIOUS
<1> HIDE DEF n
<1>3. 1 \in 1 .. n /\ \A i \in 1 .. n : i < 1 => text[i] \in Spaces
  BY <1>1
<1>4. SkipSpace(text) = SubSeq(text, 1, n)
  BY <1>1, <1>3, SpaceSkipped
<1> QED BY <1>2, <1>4

\* One blank is skipped.
LEMMA OneSpaceToSkip ==
  \A text \in Seq(Symbols), e \in Symbols : text # <<>> /\ text[1] \notin Spaces /\ e \in Spaces =>
    SkipSpace(<<e>> \o text) = text
<1> TAKE text \in Seq(Symbols), e \in Symbols
<1> HAVE text # <<>> /\ text[1] \notin Spaces /\ e \in Spaces
<1> DEFINE n == Len(text)
           all == <<e>> \o text
           rest == SubSeq(all, 2, n + 1)
<1>1. /\ n \in Nat /\ n >= 1 /\ DOMAIN text = 1 .. n
      /\ all \in Seq(Symbols) /\ Len(all) = n + 1 /\ DOMAIN all = 1 .. n + 1 /\ all[1] = e
      /\ \A i \in 1 .. n : all[i + 1] = text[i]
  OBVIOUS
<1> HIDE DEF all
<1>2. rest = text
  <2>1. rest \in Seq(Symbols) /\ Len(rest) = n
    BY <1>1
  <2>2. \A i \in 1 .. n : rest[i] = text[i]
    BY <1>1
  <2> HIDE DEF rest
  <2> QED BY <2>1, <2>2
<1>3. all[2] = text[1]
  BY <1>1
<1> HIDE DEF n
<1>4. 2 \in 1 .. n + 1 /\ n + 1 \in Nat /\ \A i \in 1 .. n + 1 : i < 2 => all[i] \in Spaces
  BY <1>1
<1>5. SkipSpace(all) = rest
  <2> DEFINE m == n + 1
  <2>1. m \in Nat /\ 2 \in 1 .. m /\ DOMAIN all = 1 .. m /\ Len(all) = m /\ all[2] \notin Spaces
        /\ \A i \in 1 .. m : i < 2 => all[i] \in Spaces
    BY <1>1, <1>3, <1>4
  <2>2. rest = SubSeq(all, 2, m)
    OBVIOUS
  <2> HIDE DEF m, rest
  <2> QED BY <2>1, <2>2, SpaceSkipped
<1> QED BY <1>2, <1>5 DEF all

\* Short texts.
LEMMA OneMoreSymbol ==
  \A s \in Seq(Symbols), e \in Symbols :
    /\ Append(s, e) \in Seq(Symbols) /\ Len(Append(s, e)) = Len(s) + 1 /\ Append(s, e)[Len(s) + 1] = e
    /\ \A i \in 1 .. Len(s) : Append(s, e)[i] = s[i]
OBVIOUS

LEMMA ShortTexts ==
  \A a, b, c \in Symbols :
    /\ <<a>> \in Seq(Symbols) /\ <<a, b>> \in Seq(Symbols) /\ <<a, b, c>> \in Seq(Symbols)
    /\ Append(<<a, b>>, c) = <<a, b, c>> /\ <<a, b>> \o <<c>> = <<a, b, c>> /\ <<a, b>> \o <<>> = <<a, b>>
    /\ Len(<<a, b>>) = 2 /\ <<a, b>> # <<>> /\ <<a, b>>[1] = a
    /\ ToSet(<<a>>) = {a} /\ ToSet(<<a, b>>) = {a, b}
<1> TAKE a, b, c \in Symbols
<1>1. /\ <<a>> \in Seq(Symbols) /\ <<a, b>> \in Seq(Symbols) /\ <<a, b, c>> \in Seq(Symbols)
      /\ Append(<<a, b>>, c) = <<a, b, c>> /\ <<a, b>> \o <<c>> = <<a, b, c>> /\ <<a, b>> \o <<>> = <<a, b>>
  <2>1. <<a>> \in Seq(Symbols) /\ <<a, b>> \in Seq(Symbols) /\ <<a, b, c>> \in Seq(Symbols)
    OBVIOUS
  <2> DEFINE pair == <<a, b>>
             three == <<a, b, c>>
             longer == Append(pair, c)
  <2>2. longer = three
    <3>1. Len(pair) = 2 /\ pair[1] = a /\ pair[2] = b /\ pair \in Seq(Symbols)
      OBVIOUS
    <3>2. Len(three) = 3 /\ three[1] = a /\ three[2] = b /\ three[3] = c /\ three \in Seq(Symbols)
      OBVIOUS
    <3> HIDE DEF pair, three
    <3>3. longer \in Seq(Symbols) /\ Len(longer) = 3 /\ longer[1] = a /\ longer[2] = b /\ longer[3] = c
      <4>1. pair \in Seq(Symbols)
        BY <3>1
      <4>2. longer \in Seq(Symbols) /\ Len(longer) = Len(pair) + 1 /\ longer[Len(pair) + 1] = c /\ \A i \in 1 .. Len(pair) : longer[i] = pair[i]
        BY <4>1, OneMoreSymbol
      <4> HIDE DEF longer
      <4> QED BY <3>1, <4>2
    <3> HIDE DEF longer
    <3>4. \A i \in 1 .. 3 : longer[i] = three[i]
      <4> TAKE i \in 1 .. 3
      <4>1. i = 1 \/ i = 2 \/ i = 3
        OBVIOUS
      <4> QED BY <3>2, <3>3, <4>1
    <3> QED BY <3>2, <3>3, <3>4, SeqEqual
  <2>3. <<a, b>> \o <<c>> = <<a, b, c>>
    <3>1. pair \in Seq(Symbols)
      BY <2>1
    <3> HIDE DEF pair, three
    <3>2. pair \o <<c>> = longer
      BY <3>1, SymbolsAppended
    <3> QED BY <2>2, <3>2 DEF pair, three
  <2>4. <<a, b>> \o <<>> = <<a, b>>
    BY <2>1, Concatenations
  <2> QED BY <2>1, <2>2, <2>3, <2>4
<1>2. Len(<<a, b>>) = 2 /\ <<a, b>> # <<>> /\ <<a, b>>[1] = a /\ <<a, b>>[2] = b /\ DOMAIN <<a, b>> = 1 .. 2
  OBVIOUS
<1>3. ToSet(<<a>>) = {a}
  BY DEF ToSet
<1>4. ToSet(<<a, b>>) = {a, b}
  <2> DEFINE pair == <<a, b>>
  <2>1. pair[1] = a /\ pair[2] = b /\ DOMAIN pair = 1 .. 2
    BY <1>2
  <2> HIDE DEF pair
  <2>2. ToSet(pair) = {a, b}
    BY <2>1 DEF ToSet
  <2> QED BY <2>2 DEF pair
<1> QED BY <1>1, <1>2, <1>3, <1>4

\* The symbols of a redirect.
Open == "["
Close == "]"
Space == " "
Line == "\n"
Redirect == "Redirect"
WordEnds == {" ", ":", "[", "\n"}
LEMMA RedirectSymbols ==
  /\ Open \in Symbols /\ Close \in Symbols /\ Space \in Symbols /\ Line \in Symbols /\ Redirect \in Symbols
  /\ Space \in WordEnds /\ Space \in Spaces /\ Hash \notin WordEnds /\ Redirect \notin WordEnds
  /\ Open \notin Spaces /\ Hash \notin Spaces
  /\ Close \in LinkEnds /\ Close # Line /\ Colon \notin LinkEnds
<1>1. Open \in Symbols /\ Close \in Symbols /\ Space \in Symbols /\ Line \in Symbols /\ Redirect \in Symbols
  BY SymbolFacts DEF Open, Close, Space, Line, Redirect
<1>2. Space \in WordEnds /\ Space \in Spaces /\ Hash \notin WordEnds /\ Redirect \notin WordEnds /\ Open \notin Spaces /\ Hash \notin Spaces
  BY DEF Open, Space, Hash, Redirect, WordEnds, Spaces
<1>3. Close \in LinkEnds /\ Close # Line /\ Colon \notin LinkEnds
  BY DEF Close, Line, Colon, LinkEnds
<1> QED BY <1>1, <1>2, <1>3

Tag == <<Open, Open>>
Closed == <<Close, Close, Line>>
Closing == <<Close, Close>>
WordText == <<Hash, Redirect>>
ColonText == <<Colon>>
LineText == <<Line>>
HeadText == <<Hash, Redirect, Space>>

\* The texts of a redirect are made of them.
LEMMA RedirectTexts ==
  /\ Tag \in Seq(Symbols) /\ Closed \in Seq(Symbols) /\ Closing \in Seq(Symbols) /\ WordText \in Seq(Symbols)
  /\ ColonText \in Seq(Symbols) /\ LineText \in Seq(Symbols) /\ HeadText \in Seq(Symbols)
  /\ HeadText = Append(WordText, Space) /\ Closing \o LineText = Closed /\ Tag \o <<>> = Tag
  /\ Len(Tag) = 2 /\ Tag # <<>> /\ Tag[1] = Open /\ WordText # <<>> /\ WordText[1] = Hash
  /\ ToSet(ColonText) = {Colon} /\ ToSet(WordText) = {Hash, Redirect}
  /\ Tag = <<"[", "[">> /\ Closed = <<"]", "]", "\n">> /\ Closing = <<"]", "]">> /\ WordText = <<"#", "Redirect">>
  /\ ColonText = <<":">> /\ LineText = <<"\n">> /\ HeadText = <<"#", "Redirect", " ">>
<1>1. /\ Tag \in Seq(Symbols) /\ Len(Tag) = 2 /\ Tag # <<>> /\ Tag[1] = Open /\ Tag \o <<>> = Tag
  BY RedirectSymbols, ShortTexts DEF Tag
<1>2. Closed \in Seq(Symbols) /\ Closing \in Seq(Symbols) /\ LineText \in Seq(Symbols) /\ Closing \o LineText = Closed
  <2>1. Close \in Symbols /\ Line \in Symbols
    BY RedirectSymbols
  <2>2. \A b \in Symbols : /\ <<Close, Close, b>> \in Seq(Symbols) /\ <<Close, Close>> \in Seq(Symbols) /\ <<b>> \in Seq(Symbols)
                          /\ <<Close, Close>> \o <<b>> = <<Close, Close, b>>
    BY <2>1, ShortTexts
  <2> QED BY <2>1, <2>2 DEF Closed, Closing, LineText
<1>3. /\ WordText \in Seq(Symbols) /\ WordText # <<>> /\ WordText[1] = Hash /\ ToSet(WordText) = {Hash, Redirect}
      /\ HeadText \in Seq(Symbols) /\ HeadText = Append(WordText, Space)
  <2>1. Hash \in Symbols /\ Redirect \in Symbols /\ Space \in Symbols
    BY RedirectSymbols, HashIsASymbol
  <2>2. \A b, c \in Symbols :
          /\ <<Hash, b>> \in Seq(Symbols) /\ <<Hash, b>> # <<>> /\ <<Hash, b>>[1] = Hash /\ ToSet(<<Hash, b>>) = {Hash, b}
          /\ <<Hash, b, c>> \in Seq(Symbols) /\ Append(<<Hash, b>>, c) = <<Hash, b, c>>
    BY <2>1, ShortTexts
  <2> QED BY <2>1, <2>2 DEF WordText, HeadText
<1>4. ColonText \in Seq(Symbols) /\ ToSet(ColonText) = {Colon}
  BY ColonIsASymbol, ShortTexts DEF ColonText
<1>5. /\ Tag = <<"[", "[">> /\ Closed = <<"]", "]", "\n">> /\ Closing = <<"]", "]">> /\ WordText = <<"#", "Redirect">>
      /\ ColonText = <<":">> /\ LineText = <<"\n">> /\ HeadText = <<"#", "Redirect", " ">>
  BY DEF Tag, Closed, Closing, WordText, ColonText, LineText, HeadText, Open, Close, Space, Line, Redirect, Hash, Colon
<1> QED BY <1>1, <1>2, <1>3, <1>4, <1>5

\* The target of a redirect.
LEMMA TargetIsRead ==
  \A text \in Seq(Symbols) : \A pageTitle :
    ToSet(text) \cap LinkEnds = {} /\ WithoutAnchor(ParseTitle(text, Main, FALSE)) = pageTitle =>
      RedirectTarget(text \o Closed) = pageTitle
<1> TAKE text \in Seq(Symbols)
<1> TAKE pageTitle
<1> HAVE ToSet(text) \cap LinkEnds = {} /\ WithoutAnchor(ParseTitle(text, Main, FALSE)) = pageTitle
<1> DEFINE rest == <<Close, Line>>
           target == Append(text, Close) \o rest
<1>1. rest \in Seq(Symbols) /\ Close \in Symbols /\ Close \in LinkEnds
  BY RedirectSymbols, ShortTexts
<1>2. Closed = <<Close>> \o rest
  BY RedirectSymbols DEF Closed
<1> HIDE DEF rest
<1>3. IsCut(target, text, Close, rest, LinkEnds)
  BY <1>1, CutAround
<1>4. target[Len(text) + 1] = Close
  BY <1>1
<1> HIDE DEF target
<1> DEFINE n == First(LinkEnds, target)
<1>5. /\ n # 0 /\ n = Len(text) + 1 /\ n - 1 = Len(text) /\ Upto(target, n - 1) = text
      /\ target = text \o Closed
  BY <1>2, <1>3 DEF IsCut
<1>6. n # 0 /\ target[n] # "\n"
  BY <1>4, <1>5, RedirectSymbols DEF Line
<1>7. RedirectTarget(target) = WithoutAnchor(ParseTitle(Upto(target, n - 1), Main, FALSE))
  BY <1>6 DEF RedirectTarget, LinkEnds
<1> HIDE DEF n
<1> QED BY <1>5, <1>7

\* The link of a redirect.
Min2(m) == Min({2, m})
LEMMA MinOfTwo == \A n \in Nat : Min2(2 + n) = 2
<1> TAKE n \in Nat
<1> DEFINE T == {2, 2 + n}
<1>1. 2 \in T /\ \A y \in T : 2 <= y /\ y \in Nat
  OBVIOUS
<1> HIDE DEF T
<1>2. Min(T) = CHOOSE x \in T : \A y \in T : x <= y
  BY DEF Min
<1>3. Min(T) = 2
  BY <1>1, <1>2
<1> QED BY <1>3 DEF T, Min2

\* A text after two symbols.
LEMMA TwoThenRest ==
  \A u, v \in Seq(Symbols) : Len(u) = 2 => Upto(u \o v, 2) = u /\ After(u \o v, 2) = v
<1> TAKE u, v \in Seq(Symbols)
<1> HAVE Len(u) = 2
<1> DEFINE n == Len(v)
           all == u \o v
<1>1. /\ n \in Nat /\ all \in Seq(Symbols) /\ Len(all) = 2 + n /\ DOMAIN v = 1 .. n /\ DOMAIN u = 1 .. 2
      /\ \A i \in 1 .. 2 : all[i] = u[i]
      /\ \A i \in 1 .. n : all[i + 2] = v[i]
  <2>1. /\ all \in Seq(Symbols) /\ Len(all) = Len(u) + Len(v)
        /\ \A i \in 1 .. Len(u) + Len(v) : all[i] = IF i <= Len(u) THEN u[i] ELSE v[i - Len(u)]
    BY ConcatProperties
  <2>2. n \in Nat /\ DOMAIN v = 1 .. n /\ DOMAIN u = 1 .. 2
    OBVIOUS
  <2> HIDE DEF all, n
  <2>3. Len(all) = 2 + n /\ \A i \in 1 .. 2 + n : all[i] = IF i <= 2 THEN u[i] ELSE v[i - 2]
    BY <2>1 DEF n
  <2>4. \A i \in 1 .. 2 : all[i] = u[i]
    BY <2>2, <2>3
  <2>5. \A i \in 1 .. n : all[i + 2] = v[i]
    BY <2>2, <2>3
  <2> QED BY <2>1, <2>2, <2>3, <2>4, <2>5
<1> HIDE DEF all
<1>2. SubSeq(all, 1, 2) = u
  <2> DEFINE s == SubSeq(all, 1, 2)
  <2>1. s \in Seq(Symbols) /\ Len(s) = 2
    BY <1>1
  <2>2. \A i \in 1 .. 2 : s[i] = u[i]
    BY <1>1
  <2> HIDE DEF s
  <2>3. s = u
    BY <2>1, <2>2
  <2> QED BY <2>3 DEF s
<1>3. SubSeq(all, 3, 2 + n) = v
  <2> DEFINE s == SubSeq(all, 3, 2 + n)
  <2>1. s \in Seq(Symbols) /\ Len(s) = n
    BY <1>1
  <2>2. \A i \in 1 .. n : s[i] = v[i]
    BY <1>1
  <2> HIDE DEF s
  <2>3. s = v
    BY <2>1, <2>2
  <2> QED BY <2>3 DEF s
<1> HIDE DEF n
<1>4. Min2(Len(all)) = 2
  BY <1>1, MinOfTwo
<1>5. Upto(all, 2) = u
  BY <1>2, <1>4 DEF Upto, Min2
<1>6. After(all, 2) = v
  BY <1>1, <1>3 DEF After
<1> QED BY <1>5, <1>6 DEF all

LEMMA LinkIsRead ==
  \A text \in Seq(Symbols) :
    LET link == (Tag \o text) \o Closed
    IN  RedirectLink(link) = RedirectTarget(text \o Closed) /\ link \in Seq(Symbols) /\ link # <<>> /\ link[1] = Open
<1> TAKE text \in Seq(Symbols)
<1> DEFINE rest == text \o Closed
           link == (Tag \o text) \o Closed
<1>1. Tag \in Seq(Symbols) /\ Closed \in Seq(Symbols) /\ Len(Tag) = 2 /\ Tag # <<>> /\ Tag[1] = Open /\ Tag = <<"[", "[">>
  BY RedirectTexts
<1>2. rest \in Seq(Symbols)
  BY <1>1, Joined
<1>3. link = Tag \o rest
  BY <1>1, Regrouped
<1> HIDE DEF rest, link
<1>4. link \in Seq(Symbols)
  BY <1>1, <1>2, <1>3, Joined
<1>5. link # <<>> /\ link[1] = Open
  BY <1>1, <1>2, <1>3, JoinedFirst
<1>6. Upto(link, 2) = Tag /\ After(link, 2) = rest
  BY <1>1, <1>2, <1>3, TwoThenRest
<1>7. RedirectLink(link) = RedirectTarget(rest)
  BY <1>1, <1>6 DEF RedirectLink
<1> QED BY <1>4, <1>5, <1>7 DEF rest, link

\* What the link of a redirect says.
LEMMA LinkToPage ==
  \A pageTitle \in Seq(Symbols) : \A parts : ReadBack(pageTitle, parts) /\ ToSet(pageTitle) \cap LinkEnds = {} /\ WithoutAnchor(parts) = pageTitle =>
    \E text \in Seq(Symbols) :
      /\ MakeLink(pageTitle) = (Tag \o text) \o Closing
      /\ ToSet(text) \cap LinkEnds = {}
      /\ WithoutAnchor(ParseTitle(text, Main, FALSE)) = pageTitle
<1> TAKE pageTitle \in Seq(Symbols)
<1> TAKE parts
<1> HAVE ReadBack(pageTitle, parts) /\ ToSet(pageTitle) \cap LinkEnds = {} /\ WithoutAnchor(parts) = pageTitle
<1> DEFINE P == NeedsColon(pageTitle)
<1>1. Tag \in Seq(Symbols) /\ ColonText \in Seq(Symbols) /\ Tag \o <<>> = Tag /\ ToSet(ColonText) = {Colon}
  BY RedirectTexts
<1>2. MakeLink(pageTitle) = ((Tag \o (IF P THEN ColonText ELSE <<>>)) \o pageTitle) \o Closing
  BY RedirectTexts DEF MakeLink
<1> HIDE DEF P
<1>3. CASE P
  <2> DEFINE text == ColonText \o pageTitle
  <2>1. text \in Seq(Symbols)
    BY <1>1, Joined
  <2>2. ToSet(text) = {Colon} \cup ToSet(pageTitle)
    BY <1>1, JoinedSymbols
  <2>3. (Tag \o ColonText) \o pageTitle = Tag \o text
    BY <1>1, Regrouped
  <2>4. ParseTitle(text, Main, FALSE) = parts
    BY RedirectTexts DEF ReadBack
  <2> HIDE DEF text
  <2>5. ToSet(text) \cap LinkEnds = {}
    BY <2>2, RedirectSymbols
  <2>6. MakeLink(pageTitle) = (Tag \o text) \o Closing
    BY <1>2, <1>3, <2>3
  <2> QED BY <2>1, <2>4, <2>5, <2>6
<1>4. CASE ~P
  <2>1. MakeLink(pageTitle) = (Tag \o pageTitle) \o Closing
    BY <1>1, <1>2, <1>4
  <2>2. ParseTitle(pageTitle, Main, FALSE) = parts
    BY DEF ReadBack
  <2> QED BY <2>1, <2>2
<1> QED BY <1>3, <1>4

\* The redirect made from the page of sound parts leads to it.
LEMMA RedirectsAreRead ==
  \A parts : AreSound(parts) /\ Readable(parts.name) =>
    ReadRedirect(<<"#", "Redirect", " ">> \o MakeLink(WithoutAnchor(parts)) \o <<"\n">>) = WithoutAnchor(parts)
<1> TAKE parts
<1> HAVE AreSound(parts) /\ Readable(parts.name)
<1> DEFINE pageTitle == WithoutAnchor(parts)
<1>1. pageTitle \in Seq(Symbols) /\ ToSet(pageTitle) \cap LinkEnds = {}
  BY SymbolsOfPages
<1>2. ReadBack(pageTitle, Bare(parts))
  BY PagesAreReadBack
<1>3. WithoutAnchor(Bare(parts)) = pageTitle
  BY DEF WithoutAnchor, Bare, Parts
<1> HIDE DEF pageTitle
<1>4. PICK text \in Seq(Symbols) :
        /\ MakeLink(pageTitle) = (Tag \o text) \o Closing
        /\ ToSet(text) \cap LinkEnds = {}
        /\ WithoutAnchor(ParseTitle(text, Main, FALSE)) = pageTitle
  BY <1>1, <1>2, <1>3, LinkToPage
<1> DEFINE link == (Tag \o text) \o Closed
           code == Append(WordText, Space) \o link
<1>5. (HeadText \o MakeLink(pageTitle)) \o LineText = code
  <2> DEFINE begin == Tag \o text
  <2>1. /\ Tag \in Seq(Symbols) /\ HeadText \in Seq(Symbols) /\ Closing \in Seq(Symbols) /\ LineText \in Seq(Symbols)
        /\ HeadText = Append(WordText, Space) /\ Closing \o LineText = Closed
    BY RedirectTexts
  <2>2. begin \in Seq(Symbols)
    BY <2>1, Joined
  <2> HIDE DEF begin
  <2>3. (begin \o Closing) \o LineText = begin \o (Closing \o LineText)
    BY <2>1, <2>2, Regrouped, ZenonT(40)
  <2> DEFINE linkText == begin \o Closing
  <2>4. linkText \in Seq(Symbols)
    BY <2>1, <2>2, Joined
  <2> HIDE DEF linkText
  <2>5. (HeadText \o linkText) \o LineText = HeadText \o (linkText \o LineText)
    <3>1. HeadText \in Seq(Symbols) /\ LineText \in Seq(Symbols)
      BY <2>1
    <3> QED BY <2>4, <3>1, Regrouped
  <2>6. MakeLink(pageTitle) = linkText /\ linkText \o LineText = link
    BY <1>4, <2>1, <2>3 DEF linkText, begin
  <2> HIDE DEF link
  <2> QED BY <2>1, <2>5, <2>6
<1>6. link \in Seq(Symbols) /\ link # <<>> /\ link[1] = Open /\ RedirectLink(link) = RedirectTarget(text \o Closed)
  BY LinkIsRead
<1>7. RedirectLink(link) = pageTitle
  BY <1>4, <1>6, TargetIsRead
<1> HIDE DEF link
<1>8. SkipSpace(<<Space>> \o link) = link
  BY <1>6, RedirectSymbols, OneSpaceToSkip
<1>9. /\ WordText \in Seq(Symbols) /\ Space \in Symbols /\ Space \in WordEnds /\ ToSet(WordText) \cap WordEnds = {}
      /\ WordText # <<>> /\ WordText[1] = Hash
  BY RedirectTexts, RedirectSymbols
<1>10. IsCut(code, WordText, Space, link, WordEnds)
  BY <1>6, <1>9, CutAround
<1>11. code \in Seq(Symbols) /\ code # <<>> /\ code[1] = Hash
  <2> DEFINE head == Append(WordText, Space)
  <2>1. head \in Seq(Symbols) /\ head # <<>> /\ head[1] = Hash
    BY <1>9, SymbolsAppended
  <2> HIDE DEF head
  <2>2. head \o link \in Seq(Symbols)
    BY <1>6, <2>1, Joined
  <2>3. head \o link # <<>> /\ (head \o link)[1] = Hash
    BY <1>6, <2>1, JoinedFirst
  <2> QED BY <2>2, <2>3 DEF head
<1> HIDE DEF code
<1>12. SkipSpace(code) = code
  BY <1>11, RedirectSymbols, NoSpaceToSkip
<1> DEFINE n == First(WordEnds, code)
<1>13. n # 0 /\ Upto(code, n - 1) = WordText /\ After(code, n - 1) = <<Space>> \o link
  BY <1>10 DEF IsCut
<1>14. RedirectFrom(code) = RedirectLink(WithoutColon(SkipSpace(After(code, n - 1))))
  <2>1. StartsWith(code, "#")
    BY <1>11 DEF StartsWith, Hash
  <2>2. LowerCase(Upto(code, n - 1)) \in Site.redirects
    BY <1>13, SiteRedirects, RedirectTexts
  <2> QED BY <1>13, <2>1, <2>2 DEF RedirectFrom, WordEnds
<1>15. WithoutColon(link) = link
  <2>1. ~StartsWith(link, ":")
    BY <1>6 DEF StartsWith, Open
  <2> QED BY <2>1 DEF WithoutColon
<1> HIDE DEF n
<1>16. ReadRedirect(code) = pageTitle
  BY <1>7, <1>8, <1>12, <1>13, <1>14, <1>15 DEF ReadRedirect
<1>17. ReadRedirect((HeadText \o MakeLink(pageTitle)) \o LineText) = pageTitle
  BY <1>5, <1>16
<1> QED BY <1>17, RedirectTexts DEF pageTitle

---------------------------------------------------------------------------
\* The page and its talk page: the numbers of their namespaces.
LEMMA Numbers ==
  \A n \in Int :
    /\ n \div 2 \in Int /\ (n = 2 * (n \div 2) \/ n = 2 * (n \div 2) + 1)
    /\ \A h \in Int : (2 * h) \div 2 = h /\ (2 * h + 1) \div 2 = h /\ (2 * h + 1) % 2 = 1 /\ 2 * h + 1 # Main
BY DEF Main

\* The two names of a pair agree about capitals.
LEMMA SameFirstLetter ==
  \A m, n \in DOMAIN Site.namespaces : m \div 2 = n \div 2 => Site.namespaces[m].firstLetter = Site.namespaces[n].firstLetter
<1> TAKE m, n \in DOMAIN Site.namespaces
<1> HAVE m \div 2 = n \div 2
<1>1. PICK mm \in SiteAnswer.namespaces : mm.id = m /\ Site.namespaces[m].firstLetter = mm.firstLetter
  BY NamespacesOfSite
<1>2. PICK nn \in SiteAnswer.namespaces : nn.id = n /\ Site.namespaces[n].firstLetter = nn.firstLetter
  BY NamespacesOfSite
<1>3. mm.id \div 2 = nn.id \div 2 => mm.firstLetter = nn.firstLetter
  BY NamespacesAssumption
<1> QED BY <1>1, <1>2, <1>3

\* A name that is read in the main namespace has no prefix.
LEMMA NameInMain ==
  \A name, firstLetter :
    /\ NormalName(name, firstLetter) /\ firstLetter = Site.namespaces[Main].firstLetter /\ Readable(name)
    /\ TitleNamespace(name) = Main
    => InMain(name, <<>>)
<1> TAKE name, firstLetter
<1> HAVE /\ NormalName(name, firstLetter) /\ firstLetter = Site.namespaces[Main].firstLetter /\ Readable(name)
         /\ TitleNamespace(name) = Main
<1>1. Main \in DOMAIN Site.namespaces
  BY NamespacesAssumption, SiteNamespaces DEF Ids
<1>2. firstLetter \in BOOLEAN
  BY <1>1, NamespacesOfSite
<1>3. NormalAnchor(<<>>)
  <2>1. NormalizedPart(<<>>, Plain) = <<>>
    BY AppendNoSymbol DEF NormalizedPart
  <2> QED BY <2>1 DEF NormalAnchor, IsAnchor
<1>4. name \in Seq(Symbols) /\ name # <<>> /\ name[1] \notin Ignored /\ name[1] # Colon
  BY <1>2, NormalNamesBegin DEF NormalName, Readable
<1>5. ASSUME Colon \in ToSet(name)  PROVE IsUnknown(BeforeColon(name))
  <2>1. PICK u \in Seq(Symbols), v \in Seq(Symbols) : name = Append(u, Colon) \o v /\ Colon \notin ToSet(u)
    BY <1>4, <1>5, CutAtColon
  <2>2. BeforeColon(name) = NormalizedPart(u, Plain)
    BY <2>1, BeforeFirstColon
  <2>3. PICK out \in Seq(Symbols), blank \in BOOLEAN :
          /\ AppendSymbols(u, Plain) = [out |-> out, blank |-> blank]
          /\ NormalizedPart(u, Plain) = out
          /\ KeepsSigns(u, Plain, out, blank)
          /\ \A s \in Symbols : Adds(out, blank, s, Plain, AppendSymbols(Append(u, s), Plain))
    BY PlainIsBoolean, Appended
  <2>4. u # <<>> /\ u[1] = name[1]
    <3> DEFINE start == Append(u, Colon)
    <3>1. start \in Seq(Symbols) /\ start # <<>> /\ start[1] = IF u = <<>> THEN Colon ELSE u[1]
      BY ColonIsASymbol, SymbolsAppended
    <3> HIDE DEF start
    <3>2. (start \o v)[1] = start[1]
      BY <3>1, JoinedFirst
    <3>3. name[1] = start[1]
      BY <2>1, <3>2 DEF start
    <3> QED BY <1>4, <3>1, <3>3
  <2>5. out # <<>>
    BY <1>4, <2>3, <2>4 DEF KeepsSigns
  <2>6. BeforeColon(name) = out
    BY <2>2, <2>3
  <2>7. First({":"}, name) # 0
    BY <1>4, <1>5, FirstColonIsThere
  <2>8. ParseTitle(name, Main, FALSE) = PartsOf(Site, name, Main)
    BY <2>5, <2>6, ParsedWhole
  <2>9. PartsOf(Site, name, Main).number = Prefix(Site, out, Main).number
    <3>1. PartsOf(Site, name, Main) = PartsAfter(Site, Prefix(Site, out, Main), First({":"}, name), BodyOf(name), AnchorOf(name))
      BY <2>6, <2>7 DEF PartsOf, BodyOf, AnchorOf
    <3> QED BY <3>1 DEF PartsAfter
  <2>10. Prefix(Site, out, Main).number = Main
    BY <2>8, <2>9 DEF TitleNamespace
  <2>11. ~ \E number, base, fl : IsKnown(out, number, base, fl)
    <3> SUFFICES ASSUME NEW number, NEW base, NEW fl, IsKnown(out, number, base, fl)  PROVE FALSE
      OBVIOUS
    <3>1. number # Main /\ Prefix(Site, out, Main) = PrefixOf(number, base, fl)
      BY DEF IsKnown, SitePrefix
    <3> QED BY <2>10, <3>1 DEF PrefixOf
  <2> QED BY <2>6, <2>11, KnownOrUnknown
<1> QED BY <1>3, <1>5 DEF InMain

\* What a title is read as.
ParsesAs(text, number, name) == \E prefix : ParseTitle(text, Main, FALSE) = Parts(number, prefix, name, <<>>)

\* A page in a namespace that has a name.
PageIn(number, name) == Site.namespaces[number].name \o <<":">> \o name
LEMMA PageOfNamespace ==
  \A number \in DOMAIN Site.namespaces : \A name :
    number # Main /\ NormalName(name, Site.namespaces[number].firstLetter) /\ Readable(name) =>
      ParsesAs(PageIn(number, name), number, name)
<1> TAKE number \in DOMAIN Site.namespaces
<1> TAKE name
<1> HAVE number # Main /\ NormalName(name, Site.namespaces[number].firstLetter) /\ Readable(name)
<1> DEFINE base == Site.namespaces[number].name
           firstLetter == Site.namespaces[number].firstLetter
           parts == Parts(number, base \o <<Colon>>, name, <<>>)
<1>1. SitePrefix(number, base, firstLetter)
  BY KnownNamespace
<1>2. NormalAnchor(<<>>)
  <2>1. NormalizedPart(<<>>, Plain) = <<>>
    BY AppendNoSymbol DEF NormalizedPart
  <2> QED BY <2>1 DEF NormalAnchor, IsAnchor
<1>3. InNamespace(number, base, firstLetter, name, <<>>)
  BY <1>1, <1>2 DEF InNamespace
<1>4. parts.name = name /\ WithoutAnchor(parts) = PageIn(number, name) /\ Bare(parts) = parts
  BY DEF Parts, Bare, WithoutAnchor, PageIn, Colon
<1>5. AreSound(parts)
  <2> HIDE DEF base, firstLetter
  <2> QED BY <1>3 DEF AreSound
<1> HIDE DEF parts
<1>6. ReadBack(PageIn(number, name), parts)
  BY <1>4, <1>5, PagesAreReadBack
<1>7. ParseTitle(PageIn(number, name), Main, FALSE) = parts
  BY <1>6 DEF ReadBack
<1> QED BY <1>7 DEF parts, ParsesAs

\* A page of the main namespace.
LEMMA PageOfMain ==
  \A name : InMain(name, <<>>) /\ Readable(name) => ParsesAs(name, Main, name)
<1> TAKE name
<1> HAVE InMain(name, <<>>) /\ Readable(name)
<1> DEFINE parts == Parts(Main, <<>>, name, <<>>)
<1>1. parts.name = name /\ AreSound(parts) /\ Bare(parts) = parts
  <2>1. AreSound(parts)
    BY DEF AreSound
  <2> QED BY <2>1 DEF Parts, Bare
<1>2. WithoutAnchor(parts) = name
  <2>1. name \in Seq(Symbols)
    BY DEF InMain, NormalName
  <2>2. <<>> \o name = name
    BY <2>1, Concatenations
  <2> QED BY <2>2 DEF WithoutAnchor, Parts
<1> HIDE DEF parts
<1>3. ReadBack(name, parts)
  BY <1>1, <1>2, PagesAreReadBack
<1> QED BY <1>3 DEF ReadBack, parts, ParsesAs

\* The other page of a pair.
Other(number, name, bit) ==
  IF 2 * (number \div 2) + bit \notin DOMAIN Site.namespaces THEN <<>>
  ELSE IF 2 * (number \div 2) + bit = Main THEN name ELSE PageIn(2 * (number \div 2) + bit, name)

\* It is what CounterpartPage finds.
LEMMA OtherPage ==
  \A text, number, name :
    ParsesAs(text, number, name) /\ number # Interwiki /\ name # <<>> =>
      TitleNamespace(text) = number /\ \A bit : CounterpartPage(text, bit) = Other(number, name, bit)
<1> TAKE text, number, name
<1> HAVE ParsesAs(text, number, name) /\ number # Interwiki /\ name # <<>>
<1> PICK prefix : ParseTitle(text, Main, FALSE) = Parts(number, prefix, name, <<>>)
  BY DEF ParsesAs
<1> SUFFICES ASSUME NEW bit
             PROVE  TitleNamespace(text) = number /\ CounterpartPage(text, bit) = Other(number, name, bit)
  OBVIOUS
<1> DEFINE parts == Parts(number, prefix, name, <<>>)
           other == 2 * (number \div 2) + bit
<1>1. parts.number = number /\ parts.name = name
  BY DEF Parts
<1>2. CounterpartPage(text, bit) = Counterpart(parts, bit) /\ TitleNamespace(text) = parts.number
  BY DEF CounterpartPage, TitleNamespace
<1> HIDE DEF parts
<1>3. Counterpart(parts, bit) = IF other \notin DOMAIN Site.namespaces THEN <<>>
                                ELSE IF other = Main THEN name ELSE PageIn(other, name)
  BY <1>1 DEF Counterpart, PageIn
<1> QED BY <1>1, <1>2, <1>3 DEF Other

\* A page of another wiki has no counterpart.
LEMMA NoOtherPage ==
  \A text, parts : ParseTitle(text, Main, FALSE) = parts /\ parts.number = Interwiki => \A bit : CounterpartPage(text, bit) = <<>>
BY DEF CounterpartPage, Counterpart

\* The talk page of a page and the page of that talk page.
LEMMA TalkAndSubject ==
  \A parts : AreSound(parts) /\ Readable(parts.name) /\ (parts.number % 2 = 1 => TitleNamespace(parts.name) = Main) =>
    SameSubject(TalkPage(WithoutAnchor(parts)), SubjectPage(WithoutAnchor(parts)))
<1> TAKE parts
<1> HAVE AreSound(parts) /\ Readable(parts.name) /\ (parts.number % 2 = 1 => TitleNamespace(parts.name) = Main)
<1> DEFINE pageTitle == WithoutAnchor(parts)
           n == parts.number
           name == parts.name
           talk == TalkPage(pageTitle)
           subject == SubjectPage(pageTitle)
           h == n \div 2
           k == 2 * h + 1
           j == 2 * h
           Spaces_ == DOMAIN Site.namespaces
<1>1. ParseTitle(pageTitle, Main, FALSE) = Bare(parts)
  BY PagesAreReadBack DEF ReadBack
<1>2. SUFFICES ASSUME talk # <<>>
               PROVE  TitleNamespace(talk) % 2 = 1 /\ TalkPage(subject) = talk /\ SubjectPage(talk) = subject
  BY DEF SameSubject
<1>3. n # Interwiki
  <2>1. Bare(parts).number = n
    BY DEF Bare, Parts
  <2> SUFFICES ASSUME n = Interwiki  PROVE FALSE
    OBVIOUS
  <2>2. CounterpartPage(pageTitle, 1) = <<>>
    BY <1>1, <2>1, NoOtherPage
  <2> QED BY <1>2, <2>2 DEF TalkPage
<1>4. name # <<>> /\ Readable(name)
  BY DEF Readable
<1>5. \/ n = Main /\ InMain(name, <<>>)
      \/ n # Main /\ n \in Spaces_ /\ NormalName(name, Site.namespaces[n].firstLetter) /\ pageTitle = PageIn(n, name)
  <2>1. CASE \E nm, anchor : InMain(nm, anchor) /\ parts = Parts(Main, <<>>, nm, anchor)
    <3>1. PICK nm, anchor : InMain(nm, anchor) /\ parts = Parts(Main, <<>>, nm, anchor)
      BY <2>1
    <3>2. n = Main /\ name = nm
      BY <3>1 DEF Parts
    <3>3. NormalAnchor(<<>>)
      <4>1. NormalizedPart(<<>>, Plain) = <<>>
        BY AppendNoSymbol DEF NormalizedPart
      <4> QED BY <4>1 DEF NormalAnchor, IsAnchor
    <3> HIDE DEF n, name
    <3> QED BY <3>1, <3>2, <3>3 DEF InMain
  <2>2. CASE \E number, base, firstLetter, nm, anchor :
               InNamespace(number, base, firstLetter, nm, anchor) /\ parts = Parts(number, base \o <<Colon>>, nm, anchor)
    <3>1. PICK number, base, firstLetter, nm, anchor :
            InNamespace(number, base, firstLetter, nm, anchor) /\ parts = Parts(number, base \o <<Colon>>, nm, anchor)
      BY <2>2
    <3>2. n = number /\ name = nm /\ pageTitle = (base \o <<Colon>>) \o nm
      BY <3>1 DEF Parts, WithoutAnchor
    <3>3. SitePrefix(number, base, firstLetter) /\ NormalName(nm, firstLetter)
      BY <3>1 DEF InNamespace
    <3>4. number # Main /\ number \in Spaces_ /\ Site.namespaces[number].name = base /\ Site.namespaces[number].firstLetter = firstLetter
      BY <1>3, <3>2, <3>3 DEF SitePrefix
    <3>5. pageTitle = PageIn(number, name)
      BY <3>2, <3>4 DEF PageIn, Colon
    <3> HIDE DEF n, name, pageTitle
    <3> QED BY <3>2, <3>3, <3>4, <3>5
  <2> QED BY <2>1, <2>2 DEF AreSound
<1>6. n \in Spaces_ /\ n \in Int /\ NormalName(name, Site.namespaces[n].firstLetter)
  <2>1. Main \in Spaces_
    BY NamespacesAssumption, SiteNamespaces DEF Ids
  <2>2. n \in Spaces_ /\ NormalName(name, Site.namespaces[n].firstLetter)
    BY <1>5, <2>1 DEF InMain
  <2>3. n \in Int
    BY <2>2, NamespacesOfSite
  <2> QED BY <2>2, <2>3
<1>7. /\ talk = Other(n, name, 1) /\ CounterpartPage(pageTitle, 0) = Other(n, name, 0)
  <2>1. ParsesAs(pageTitle, n, name)
    BY <1>1 DEF Bare, ParsesAs
  <2> HIDE DEF n, name, pageTitle
  <2>2. \A bit : CounterpartPage(pageTitle, bit) = Other(n, name, bit)
    BY <1>3, <1>4, <2>1, OtherPage
  <2> QED BY <2>2 DEF TalkPage
<1> HIDE DEF n, name, pageTitle
<1>8. /\ h \in Int /\ (n = j \/ n = k) /\ j \div 2 = h /\ k \div 2 = h /\ k % 2 = 1 /\ k # Main
  BY <1>6, Numbers
<1>9. ASSUME NEW i, i \div 2 = h  PROVE \A nm, bit : Other(i, nm, bit) = Other(n, nm, bit)
  BY <1>9 DEF Other
<1>10. k \in Spaces_ /\ talk = PageIn(k, name)
  BY <1>2, <1>7, <1>8 DEF Other
<1> HIDE DEF h
<1>11. ASSUME NEW i \in Spaces_, i \div 2 = h, i # Main
       PROVE  ParsesAs(PageIn(i, name), i, name)
  <2>1. Site.namespaces[i].firstLetter = Site.namespaces[n].firstLetter
    BY <1>6, <1>11, SameFirstLetter DEF h
  <2> QED BY <1>4, <1>6, <1>11, <2>1, PageOfNamespace
<1>12. ParsesAs(talk, k, name)
  BY <1>8, <1>10, <1>11
<1>13. k # Interwiki
  BY <1>10, NamespacesOfSite
<1> DEFINE subj == Other(n, name, 0)
<1>14. TitleNamespace(talk) % 2 = 1 /\ \A bit : CounterpartPage(talk, bit) = Other(n, name, bit)
  <2> HIDE DEF k, talk
  <2>1. TitleNamespace(talk) = k /\ \A bit : CounterpartPage(talk, bit) = Other(k, name, bit)
    BY <1>4, <1>12, <1>13, OtherPage
  <2> QED BY <1>8, <1>9, <2>1
<1>16. subject = OrElse(subj, pageTitle) /\ SubjectPage(talk) = OrElse(subj, talk)
  BY <1>7, <1>14 DEF SubjectPage
<1>17. CASE j \notin Spaces_
  <2>1. n = k /\ pageTitle = talk
    BY <1>5, <1>6, <1>8, <1>10, <1>17
  <2>2. subject = pageTitle
    BY <1>8, <1>16, <1>17 DEF Other, OrElse, h
  <2> QED BY <1>14, <1>16, <2>1, <2>2
<1>18. CASE j \in Spaces_ /\ j = Main
  <2>1. subj = name
    BY <1>8, <1>18 DEF Other, h
  <2>2. subject = name /\ SubjectPage(talk) = subject
    BY <1>4, <1>16, <2>1 DEF OrElse
  <2>3. InMain(name, <<>>)
    <3>1. CASE n = Main
      BY <1>5, <3>1
    <3>2. CASE n # Main
      <4>1. n % 2 = 1
        BY <1>8, <1>18, <3>2
      <4>2. TitleNamespace(name) = Main
        BY <4>1 DEF n, name
      <4>3. Site.namespaces[n].firstLetter = Site.namespaces[Main].firstLetter
        BY <1>6, <1>8, <1>18, SameFirstLetter DEF h
      <4> QED BY <1>4, <1>6, <4>2, <4>3, NameInMain
    <3> QED BY <3>1, <3>2
  <2>4. ParsesAs(name, Main, name)
    BY <1>4, <2>3, PageOfMain
  <2>5. CounterpartPage(name, 1) = Other(Main, name, 1)
    <3>1. Main # Interwiki
      BY DEF Main, Interwiki
    <3> QED BY <1>4, <2>4, <3>1, OtherPage
  <2>6. Other(Main, name, 1) = talk
    BY <1>7, <1>8, <1>9, <1>18
  <2> QED BY <1>14, <2>2, <2>5, <2>6 DEF TalkPage
<1>19. CASE j \in Spaces_ /\ j # Main
  <2>1. subj = PageIn(j, name)
    BY <1>8, <1>19 DEF Other, h
  <2>2. ParsesAs(subj, j, name)
    BY <1>8, <1>11, <1>19, <2>1
  <2>3. j # Interwiki
    BY <1>19, NamespacesOfSite
  <2>4. subj # <<>>
    <3> DEFINE base == Site.namespaces[j].name
               start == Append(base, Colon)
    <3>1. base \in Seq(Symbols)
      BY <1>19, KnownNamespace DEF SitePrefix, ProperText
    <3>2. name \in Seq(Symbols)
      BY <1>6 DEF NormalName
    <3>3. start \in Seq(Symbols) /\ start # <<>> /\ base \o <<Colon>> = start
      BY <3>1, ColonIsASymbol, SymbolsAppended
    <3> HIDE DEF base, start
    <3>4. start \o name # <<>>
      BY <3>2, <3>3, JoinedFirst
    <3>5. PageIn(j, name) = (base \o <<Colon>>) \o name
      BY DEF PageIn, Colon, base
    <3> QED BY <2>1, <3>3, <3>4, <3>5
  <2> HIDE DEF subj, j
  <2>5. subject = subj /\ SubjectPage(talk) = subj
    BY <1>16, <2>4 DEF OrElse
  <2>6. \A bit : CounterpartPage(subj, bit) = Other(j, name, bit)
    BY <1>4, <2>2, <2>3, OtherPage
  <2>7. Other(j, name, 1) = talk
    BY <1>7, <1>8, <1>9
  <2>8. TalkPage(subj) = talk
    BY <2>6, <2>7 DEF TalkPage
  <2> QED BY <1>14, <2>5, <2>8
<1> QED BY <1>17, <1>18, <1>19

---------------------------------------------------------------------------
\* What is written are titles.
TitleInv == writtenTitle \in Seq(TitleSymbols)
LEMMA TitlesAreTyped == TitleSpec => []TitleInv
<1>1. TitleInit => TitleInv
  BY DEF TitleInit, TitleInv
<1>2. TitleInv /\ [TypeTitle]_writtenTitle => TitleInv'
  BY DEF TitleInv, TypeTitle
<1> QED BY <1>1, <1>2, PTL DEF TitleSpec

\* Sound parts normalize once, for all that is asked of them.
LEMMA SoundPartsNormalizeOnce ==
  \A parts : AreSound(parts) => PartsNormalizeOnce(parts)
<1> TAKE parts
<1> HAVE AreSound(parts)
<1> DEFINE pageTitle == WithoutAnchor(parts)
           whole == WholeTitle(parts)
<1>1. SUFFICES ASSUME Acceptable(parts)  PROVE NormalizesOnce(parts, pageTitle)
  BY DEF PartsNormalizeOnce, NormalizesOnce
<1>2. Readable(parts.name) /\ (parts.number % 2 = 1 => TitleNamespace(parts.name) = Main)
  BY <1>1 DEF Acceptable, Readable, Colon
<1>3. ReadBack(whole, parts)
  BY <1>2, SoundPartsAreRead
<1>4. ReadRedirect(<<"#", "Redirect", " ">> \o MakeLink(pageTitle) \o <<"\n">>) = pageTitle
  BY <1>2, RedirectsAreRead
<1>5. SameSubject(TalkPage(pageTitle), SubjectPage(pageTitle))
  BY <1>2, TalkAndSubject
<1> HIDE DEF pageTitle, whole
<1>6. ASSUME NEW other, NEW text \in {<<":">> \o whole} \cup (IF other = Main THEN {whole} ELSE {})
      PROVE  ParseTitle(text, other, FALSE) = parts
  BY <1>3, <1>6 DEF ReadBack
<1> QED BY <1>4, <1>5, <1>6 DEF NormalizesOnce, whole

\* A title that was normalized means the same page for ever: where another namespace is the default,
\* in a link, in a redirect, and as the page of its talk page.  It holds for titles of any length.
THEOREM TitlesAreNormalizedOnce == TitleSpec => []TitlesNormalizeOnce
<1>1. TitleInv => TitlesNormalizeOnce
  <2> HAVE TitleInv
  <2>1. writtenTitle \in Seq(Symbols) /\ ToSet(writtenTitle) \cap {"]", "|"} = {}
    <3>1. writtenTitle \in Seq(TitleSymbols) /\ TitleSymbols \subseteq Symbols
      BY DEF TitleInv, Symbols
    <3>2. writtenTitle \in Seq(Symbols)
      BY <3>1, SeqMonotonic
    <3>3. ToSet(writtenTitle) \subseteq TitleSymbols
      BY <3>1 DEF ToSet
    <3> QED BY <3>2, <3>3, TitleSymbolsAssumption
  <2>2. ASSUME NEW default \in DOMAIN Site.namespaces
        PROVE  PartsNormalizeOnce(ParseTitle(writtenTitle, default, FALSE))
    BY <2>1, TitlesAreSound, SoundPartsNormalizeOnce
  <2> QED BY <2>2 DEF TitlesNormalizeOnce
<1> QED BY <1>1, TitlesAreTyped, PTL

---------------------------------------------------------------------------
(* Dates.                                                                  *)

\* A moment that exists, and its day counted from 1970 on.
IsMoment(d) ==
  /\ d[1] \in Int /\ 1970 <= d[1] /\ d[1] <= MaxYear /\ d[2] \in 1 .. 12 /\ d[3] \in 1 .. GetNumDaysInMonth(d[2], d[1])
  /\ d[4] \in 0 .. 23 /\ d[5] \in 0 .. 59 /\ d[6] \in 0 .. 59
DayNumber(year, month, day) == DaysBeforeYear(year) + DaysBeforeMonth(month, year) + day - 1
LeapDays(year) == IF IsLeapYear(year) THEN 1 ELSE 0

LEMMA YearsFollow ==
  ASSUME NEW y \in Int
  PROVE  /\ DaysBeforeYear(y) \in Int
         /\ DaysBeforeYear(y + 1) = DaysBeforeYear(y) + 365 + LeapDays(y)
<1> DEFINE fours == (y - 1969) \div 4  hundreds == (y - 1901) \div 100  ages == (y - 1601) \div 400
<1>1. (y - 1968) \div 4 = fours + (IF y % 4 = 0 THEN 1 ELSE 0)
  OBVIOUS
<1>2. (y - 1900) \div 100 = hundreds + (IF y % 100 = 0 THEN 1 ELSE 0)
  OBVIOUS
<1>3. (y - 1600) \div 400 = ages + (IF y % 400 = 0 THEN 1 ELSE 0)
  OBVIOUS
<1>4. (y % 400 = 0 => y % 100 = 0) /\ (y % 100 = 0 => y % 4 = 0)
  OBVIOUS
<1>5. fours \in Int /\ hundreds \in Int /\ ages \in Int
  OBVIOUS
<1>6. DaysBeforeYear(y) = 365 * (y - 1970) + fours - hundreds + ages
  BY DEF DaysBeforeYear
<1>7. DaysBeforeYear(y + 1) = 365 * (y - 1969) + (y - 1968) \div 4 - (y - 1900) \div 100 + (y - 1600) \div 400
  BY DEF DaysBeforeYear
<1> HIDE DEF fours, hundreds, ages
<1>8. CASE y % 4 # 0
  BY <1>1, <1>2, <1>3, <1>4, <1>5, <1>6, <1>7, <1>8 DEF LeapDays, IsLeapYear
<1>9. CASE y % 4 = 0
  BY <1>1, <1>2, <1>3, <1>4, <1>5, <1>6, <1>7, <1>9 DEF LeapDays, IsLeapYear
<1> QED BY <1>8, <1>9

\* Later years start later, each at least 365 days after the one before.
LEMMA YearsAreOrdered ==
  ASSUME NEW y \in Int, NEW z \in Int, y <= z
  PROVE  DaysBeforeYear(y) + 365 * (z - y) <= DaysBeforeYear(z)
<1> DEFINE v == (y - 1) \div 4  w == (z - 1) \div 4
<1>1. v \in Int /\ w \in Int /\ v <= w
  OBVIOUS
<1>2. (y - 1969) \div 4 = v - 492 /\ (z - 1969) \div 4 = w - 492
  OBVIOUS
<1>3. (y - 1901) \div 100 = v \div 25 - 19 /\ (z - 1901) \div 100 = w \div 25 - 19
  OBVIOUS
<1>4. (y - 1601) \div 400 \in Int /\ (z - 1601) \div 400 \in Int /\ (y - 1601) \div 400 <= (z - 1601) \div 400
  OBVIOUS
<1> HIDE DEF v, w
<1>5. v - v \div 25 <= w - w \div 25 /\ v \div 25 \in Int /\ w \div 25 \in Int
  BY <1>1
<1>6. DaysBeforeYear(y) = 365 * (y - 1970) + (v - 492) - (v \div 25 - 19) + (y - 1601) \div 400
  BY <1>2, <1>3 DEF DaysBeforeYear
<1>7. DaysBeforeYear(z) = 365 * (z - 1970) + (w - 492) - (w \div 25 - 19) + (z - 1601) \div 400
  BY <1>2, <1>3 DEF DaysBeforeYear
<1> QED BY <1>1, <1>4, <1>5, <1>6, <1>7

LEMMA FirstYear == DaysBeforeYear(1970) = 0
BY DEF DaysBeforeYear

\* A year of a day is not far from the number of days divided by the length of a year.
LEMMA YearsAreNear ==
  ASSUME NEW days \in Nat
  PROVE  DaysBeforeYear(1970 + days \div 366) <= days
<1> DEFINE a == days \div 366
<1>1. a \in Nat /\ 366 * a <= days
  OBVIOUS
<1> HIDE DEF a
<1>2. (a + 1) \div 4 - (a + 69) \div 100 + (a + 369) \div 400 <= a
  BY <1>1
<1>3. DaysBeforeYear(1970 + a) = 365 * a + (a + 1) \div 4 - (a + 69) \div 100 + (a + 369) \div 400
  BY <1>1 DEF DaysBeforeYear
<1>4. (a + 1) \div 4 \in Int /\ (a + 69) \div 100 \in Int /\ (a + 369) \div 400 \in Int
  BY <1>1
<1> QED BY <1>1, <1>2, <1>3, <1>4 DEF a

LEMMA MonthsFollow ==
  ASSUME NEW y \in Int, NEW m \in Int, 1 <= m, m <= 12
  PROVE  /\ DaysBeforeMonth(m, y) \in Nat /\ GetNumDaysInMonth(m, y) \in 28 .. 31
         /\ DaysBeforeMonth(1, y) = 0
         /\ m < 12 => DaysBeforeMonth(m + 1, y) = DaysBeforeMonth(m, y) + GetNumDaysInMonth(m, y)
         /\ DaysBeforeMonth(12, y) + GetNumDaysInMonth(12, y) = 365 + LeapDays(y)
<1> USE DEF DaysBeforeMonth, GetNumDaysInMonth, LeapDays
<1>1. CASE IsLeapYear(y)
  BY <1>1
<1>2. CASE ~IsLeapYear(y)
  BY <1>2
<1> QED BY <1>1, <1>2

LEMMA MonthsAreOrdered ==
  ASSUME NEW y \in Int, NEW m \in Int, 1 <= m, m <= 12, NEW n \in Int, 1 <= n, n <= 12, m < n
  PROVE  DaysBeforeMonth(m, y) + GetNumDaysInMonth(m, y) <= DaysBeforeMonth(n, y)
<1> USE DEF DaysBeforeMonth, GetNumDaysInMonth
<1>1. CASE IsLeapYear(y)
  BY <1>1
<1>2. CASE ~IsLeapYear(y)
  BY <1>2
<1> QED BY <1>1, <1>2

\* The months of two years have the same length, but for the leap day.
LEMMA MonthsRecur ==
  ASSUME NEW y \in Int, NEW z \in Int, NEW m \in Int, 1 <= m, m <= 12
  PROVE  DaysBeforeMonth(m, y) <= DaysBeforeMonth(m, z) + LeapDays(y)
BY DEF DaysBeforeMonth, LeapDays

\* Max, for sets of integers with a bound.
LEMMA GreatestIsMax ==
  ASSUME NEW S, S \subseteq Int, NEW top \in S, \A x \in S : x <= top
  PROVE  Max(S) = top
<1>1. \A y \in S : top >= y
  OBVIOUS
<1>2. Max(S) \in S /\ \A y \in S : Max(S) >= y
  BY <1>1 DEF Max
<1>3. Max(S) \in Int /\ top \in Int /\ Max(S) >= top /\ Max(S) <= top
  BY <1>2
<1> QED BY <1>3

\* What FromTimeT finds in a number of days: the year and the month the day is in.
IsDayIn(days, y, m) ==
  /\ y \in Int /\ y >= 1970 /\ m \in 1 .. 12
  /\ DayNumber(y, m, 1) <= days /\ days <= DayNumber(y, m, GetNumDaysInMonth(m, y))

LEMMA DayNumbers ==
  ASSUME NEW y \in Int, NEW m \in Int, 1 <= m, m <= 12, NEW day \in Int
  PROVE  DayNumber(y, m, day) \in Int /\ DayNumber(y, m, day) = DayNumber(y, m, 1) + day - 1
<1>1. DaysBeforeYear(y) \in Int
  BY YearsFollow
<1>2. DaysBeforeMonth(m, y) \in Nat
  BY MonthsFollow
<1> QED BY <1>1, <1>2 DEF DayNumber

\* Days of a later month come later.
LEMMA LaterMonths ==
  ASSUME NEW y \in Int, NEW z \in Int, NEW m \in Int, 1 <= m, m <= 12, NEW n \in Int, 1 <= n, n <= 12, y < z \/ (y = z /\ m < n)
  PROVE  DayNumber(y, m, GetNumDaysInMonth(m, y)) < DayNumber(z, n, 1)
<1>1. DaysBeforeYear(y) \in Int /\ DaysBeforeYear(z) \in Int /\ LeapDays(y) \in 0 .. 1
  BY YearsFollow DEF LeapDays
<1>2. /\ DaysBeforeMonth(m, y) \in Nat /\ DaysBeforeMonth(n, z) \in Nat
      /\ GetNumDaysInMonth(m, y) \in 28 .. 31
  BY MonthsFollow
<1>3. CASE y < z
  <2>1. DaysBeforeYear(y + 1) + 365 * (z - (y + 1)) <= DaysBeforeYear(z)
    BY <1>3, YearsAreOrdered
  <2>2. DaysBeforeYear(y + 1) = DaysBeforeYear(y) + 365 + LeapDays(y)
    BY YearsFollow
  <2>3. DaysBeforeYear(y) + 365 + LeapDays(y) <= DaysBeforeYear(z)
    BY <1>1, <1>3, <2>1, <2>2
  <2>4. DaysBeforeMonth(m, y) + GetNumDaysInMonth(m, y) <= 365 + LeapDays(y)
    <3>1. CASE m = 12
      <4>1. DaysBeforeMonth(12, y) + GetNumDaysInMonth(12, y) = 365 + LeapDays(y)
        BY MonthsFollow
      <4> QED BY <1>1, <3>1, <4>1
    <3>2. CASE m < 12
      <4>1. DaysBeforeMonth(m, y) + GetNumDaysInMonth(m, y) <= DaysBeforeMonth(12, y)
        BY <3>2, MonthsAreOrdered
      <4>2. DaysBeforeMonth(12, y) \in Nat /\ GetNumDaysInMonth(12, y) \in 28 .. 31
        BY MonthsFollow
      <4>3. DaysBeforeMonth(12, y) + GetNumDaysInMonth(12, y) = 365 + LeapDays(y)
        BY MonthsFollow
      <4> QED BY <1>1, <1>2, <4>1, <4>2, <4>3
    <3> QED BY <3>1, <3>2
  <2> QED BY <1>1, <1>2, <2>3, <2>4 DEF DayNumber
<1>4. CASE y = z /\ m < n
  <2>1. DaysBeforeMonth(m, y) + GetNumDaysInMonth(m, y) <= DaysBeforeMonth(n, z)
    BY <1>4, MonthsAreOrdered
  <2> QED BY <1>1, <1>2, <1>4, <2>1 DEF DayNumber
<1> QED BY <1>3, <1>4

LEMMA OneMonth ==
  ASSUME NEW days \in Int, NEW y, NEW m, NEW z, NEW n, IsDayIn(days, y, m), IsDayIn(days, z, n)
  PROVE  y = z /\ m = n
<1>1. y \in Int /\ z \in Int /\ m \in 1 .. 12 /\ n \in 1 .. 12
  BY DEF IsDayIn
<1>2. \A v \in Int, k \in 1 .. 12 : DayNumber(v, k, 1) \in Int /\ DayNumber(v, k, GetNumDaysInMonth(k, v)) \in Int
  <2> TAKE v \in Int, k \in 1 .. 12
  <2>1. GetNumDaysInMonth(k, v) \in 28 .. 31
    BY MonthsFollow
  <2>2. GetNumDaysInMonth(k, v) \in Int
    BY <2>1
  <2>3. \A day \in Int : DayNumber(v, k, day) \in Int
    BY DayNumbers
  <2> QED BY <2>2, <2>3
<1>3. /\ DayNumber(y, m, 1) <= days /\ days <= DayNumber(y, m, GetNumDaysInMonth(m, y))
      /\ DayNumber(z, n, 1) <= days /\ days <= DayNumber(z, n, GetNumDaysInMonth(n, z))
  BY DEF IsDayIn
<1>4. /\ DayNumber(y, m, 1) \in Int /\ DayNumber(y, m, GetNumDaysInMonth(m, y)) \in Int
      /\ DayNumber(z, n, 1) \in Int /\ DayNumber(z, n, GetNumDaysInMonth(n, z)) \in Int
  BY <1>1, <1>2
<1>5. y < z \/ (y = z /\ m < n) => DayNumber(y, m, GetNumDaysInMonth(m, y)) < DayNumber(z, n, 1)
  BY <1>1, LaterMonths
<1>6. z < y \/ (z = y /\ n < m) => DayNumber(z, n, GetNumDaysInMonth(n, z)) < DayNumber(y, m, 1)
  BY <1>1, LaterMonths
<1>7. ~(y < z \/ (y = z /\ m < n)) /\ ~(z < y \/ (z = y /\ n < m))
  BY <1>3, <1>4, <1>5, <1>6
<1> QED BY <1>1, <1>7

\* The year and the month of a day exist, and FromTimeT finds them.
LEMMA DaysHaveAYear ==
  ASSUME NEW days \in Nat
  PROVE  LET year == Max({y \in 1970 + days \div 366 .. 1970 + days \div 365 : DaysBeforeYear(y) <= days})
         IN  /\ year \in Int /\ year >= 1970
             /\ DaysBeforeYear(year) <= days /\ days < DaysBeforeYear(year) + 365 + LeapDays(year)
<1> DEFINE first == 1970 + days \div 366
           last == 1970 + days \div 365
           years == {y \in first .. last : DaysBeforeYear(y) <= days}
<1>1. first \in Int /\ last \in Int /\ 1970 <= first /\ first <= last /\ days < 365 * (last + 1 - 1970)
  OBVIOUS
<1>2. DaysBeforeYear(first) <= days
  BY YearsAreNear
<1> HIDE DEF first, last
<1> DEFINE fromLast == {last - y : y \in years}
<1>3. fromLast \subseteq Nat /\ fromLast # {}
  BY <1>1, <1>2
<1>4. PICK least \in fromLast : \A k \in fromLast : least <= k
  BY <1>3, LeastNatural
<1>5. PICK year \in years : least = last - year
  BY <1>4
<1>6. year \in first .. last /\ DaysBeforeYear(year) <= days
  BY <1>5
<1>7. \A y \in years : y <= year
  <2> TAKE y \in years
  <2>1. last - year <= last - y
    BY <1>4, <1>5
  <2> QED BY <1>1, <1>6, <2>1
<1>8. Max(years) = year
  <2>1. years \subseteq Int
    BY <1>1
  <2>2. year \in years
    BY <1>5
  <2> HIDE DEF years
  <2> QED BY <1>7, <2>1, <2>2, GreatestIsMax
<1>9. days < DaysBeforeYear(year + 1)
  <2>1. CASE year < last
    <3>1. year + 1 \in first .. last /\ year + 1 \notin years
      BY <1>1, <1>6, <1>7, <2>1
    <3>2. DaysBeforeYear(year + 1) \in Int
      BY <3>1, <1>1, YearsFollow
    <3> QED BY <3>1, <3>2
  <2>2. CASE year = last
    <3>1. DaysBeforeYear(1970) + 365 * (last + 1 - 1970) <= DaysBeforeYear(last + 1)
      BY <1>1, YearsAreOrdered
    <3>2. DaysBeforeYear(last + 1) \in Int
      BY <1>1, YearsFollow
    <3> QED BY <1>1, <2>2, <3>1, <3>2, FirstYear
  <2> QED BY <1>1, <1>6, <2>1, <2>2
<1>10. DaysBeforeYear(year + 1) = DaysBeforeYear(year) + 365 + LeapDays(year)
  BY <1>1, <1>6, YearsFollow
<1> QED BY <1>1, <1>6, <1>8, <1>9, <1>10 DEF first, last

LEMMA DaysHaveAMonth ==
  ASSUME NEW y \in Int, NEW dayOfYear \in 0 .. 364 + LeapDays(y)
  PROVE  LET month == Max({m \in 1 .. 12 : DaysBeforeMonth(m, y) <= dayOfYear})
         IN  /\ month \in 1 .. 12
             /\ DaysBeforeMonth(month, y) <= dayOfYear
             /\ dayOfYear < DaysBeforeMonth(month, y) + GetNumDaysInMonth(month, y)
<1> DEFINE months == {m \in 1 .. 12 : DaysBeforeMonth(m, y) <= dayOfYear}
           fromLast == {12 - m : m \in months}
<1>1. LeapDays(y) \in 0 .. 1
  BY DEF LeapDays
<1>2. dayOfYear \in Nat
  BY <1>1
<1>3. 1 \in months
  BY <1>2, MonthsFollow
<1>4. fromLast \subseteq Nat /\ fromLast # {}
  BY <1>3
<1>5. PICK least \in fromLast : \A k \in fromLast : least <= k
  BY <1>4, LeastNatural
<1>6. PICK month \in months : least = 12 - month
  BY <1>5
<1>7. \A m \in months : m <= month
  <2> TAKE m \in months
  <2>1. 12 - month <= 12 - m
    BY <1>5, <1>6
  <2>2. month \in 1 .. 12 /\ m \in 1 .. 12
    BY <1>6
  <2> QED BY <2>1, <2>2
<1>8. Max(months) = month
  <2>1. months \subseteq Int
    OBVIOUS
  <2> HIDE DEF months
  <2> QED BY <1>6, <1>7, <2>1, GreatestIsMax
<1>9. month \in 1 .. 12 /\ DaysBeforeMonth(month, y) <= dayOfYear
  BY <1>6
<1>10. dayOfYear < DaysBeforeMonth(month, y) + GetNumDaysInMonth(month, y)
  <2>1. CASE month = 12
    <3>1. DaysBeforeMonth(12, y) + GetNumDaysInMonth(12, y) = 365 + LeapDays(y)
      BY MonthsFollow
    <3> QED BY <1>1, <1>2, <2>1, <3>1
  <2>2. CASE month < 12
    <3>1. month + 1 \in 1 .. 12
      BY <1>9, <2>2
    <3>2. month + 1 \notin months
      BY <1>7, <1>9
    <3>3. ~(DaysBeforeMonth(month + 1, y) <= dayOfYear)
      BY <3>1, <3>2
    <3>4. DaysBeforeMonth(month + 1, y) = DaysBeforeMonth(month, y) + GetNumDaysInMonth(month, y)
      BY <1>9, <2>2, MonthsFollow
    <3>5. DaysBeforeMonth(month + 1, y) \in Nat
      BY <3>1, MonthsFollow
    <3> QED BY <1>2, <3>3, <3>4, <3>5
  <2> QED BY <1>9, <2>1, <2>2
<1> HIDE DEF months
<1>11. /\ Max(months) \in 1 .. 12 /\ DaysBeforeMonth(Max(months), y) <= dayOfYear
       /\ dayOfYear < DaysBeforeMonth(Max(months), y) + GetNumDaysInMonth(Max(months), y)
  BY <1>8, <1>9, <1>10
<1> QED BY <1>11 DEF months

\* The date of a number of seconds.
LEMMA DatesOfSeconds ==
  ASSUME NEW t \in Nat
  PROVE  \E y, m : /\ IsDayIn(t \div 86400, y, m)
                   /\ FromTimeT(t) = <<y, m, t \div 86400 - DayNumber(y, m, 1) + 1,
                                       (t % 86400) \div 3600, ((t % 86400) % 3600) \div 60, (t % 86400) % 60>>
<1> DEFINE days == t \div 86400
           year == Max({y \in 1970 + days \div 366 .. 1970 + days \div 365 : DaysBeforeYear(y) <= days})
           dayOfYear == days - DaysBeforeYear(year)
           month == Max({m \in 1 .. 12 : DaysBeforeMonth(m, year) <= dayOfYear})
<1>1. days \in Nat
  OBVIOUS
<1>2. /\ year \in Int /\ year >= 1970
      /\ DaysBeforeYear(year) <= days /\ days < DaysBeforeYear(year) + 365 + LeapDays(year)
  BY <1>1, DaysHaveAYear
<1>3. FromTimeT(t) = <<year, month, dayOfYear - DaysBeforeMonth(month, year) + 1,
                       (t % 86400) \div 3600, ((t % 86400) % 3600) \div 60, (t % 86400) % 60>>
  BY DEF FromTimeT, SecondsPerDay
<1> HIDE DEF days, year
<1>4. DaysBeforeYear(year) \in Int /\ LeapDays(year) \in 0 .. 1
  BY <1>2, YearsFollow DEF LeapDays
<1>5. dayOfYear \in 0 .. 364 + LeapDays(year)
  BY <1>1, <1>2, <1>4
<1> HIDE DEF dayOfYear
<1>6. /\ month \in 1 .. 12 /\ DaysBeforeMonth(month, year) <= dayOfYear
      /\ dayOfYear < DaysBeforeMonth(month, year) + GetNumDaysInMonth(month, year)
  BY <1>2, <1>5, DaysHaveAMonth
<1> HIDE DEF month
<1>7. DaysBeforeMonth(month, year) \in Nat /\ GetNumDaysInMonth(month, year) \in 28 .. 31
  <2>1. month \in Int /\ 1 <= month /\ month <= 12
    BY <1>6
  <2> QED BY <1>2, <2>1, MonthsFollow
<1>8. IsDayIn(days, year, month)
  BY <1>1, <1>2, <1>4, <1>6, <1>7 DEF IsDayIn, DayNumber, dayOfYear
<1>9. dayOfYear - DaysBeforeMonth(month, year) + 1 = days - DayNumber(year, month, 1) + 1
  BY <1>1, <1>4, <1>7 DEF DayNumber, dayOfYear
<1> QED BY <1>3, <1>8, <1>9 DEF days

\* toTimeT and the constructor from a time_t undo each other.
LEMMA DatesAreSeconds ==
  ASSUME NEW t \in Nat
  PROVE  ToTimeT(FromTimeT(t)) = t
<1> DEFINE days == t \div 86400  rest == t % 86400  hour == rest \div 3600
           minute == (rest % 3600) \div 60  second == rest % 60
<1>1. PICK y, m : /\ IsDayIn(days, y, m)
                  /\ FromTimeT(t) = <<y, m, days - DayNumber(y, m, 1) + 1, hour, minute, second>>
  BY DatesOfSeconds
<1>2. days \in Nat /\ rest \in Nat /\ t = days * 86400 + rest
  <2>1. t \div 86400 \in Nat /\ t % 86400 \in Nat
    BY SMT
  <2>2. t = (t \div 86400) * 86400 + (t % 86400)
    BY SMT
  <2> QED BY <2>1, <2>2
<1>3. hour \in Nat /\ minute \in Nat /\ second \in Nat /\ rest = hour * 3600 + minute * 60 + second
  <2> HIDE DEF rest
  <2> QED BY <1>2, SMT
<1> HIDE DEF days, rest, hour, minute, second
<1> DEFINE day == days - DayNumber(y, m, 1) + 1
<1>4. DaysBeforeYear(y) \in Int /\ DaysBeforeMonth(m, y) \in Nat
  <2>1. y \in Int /\ m \in Int /\ 1 <= m /\ m <= 12
    BY <1>1 DEF IsDayIn
  <2>2. DaysBeforeYear(y) \in Int
    BY <2>1, YearsFollow
  <2>3. DaysBeforeMonth(m, y) \in Nat
    BY <2>1, MonthsFollow
  <2> QED BY <2>2, <2>3
<1>5. DaysBeforeYear(y) + DaysBeforeMonth(m, y) + day - 1 = days
  BY <1>2, <1>4 DEF DayNumber
<1> HIDE DEF day
<1>6. FromTimeT(t) = <<y, m, day, hour, minute, second>>
  BY <1>1 DEF day
<1>7. ToTimeT(FromTimeT(t)) = days * 86400 + hour * 3600 + minute * 60 + second
  BY <1>5, <1>6 DEF ToTimeT, SecondsPerDay
<1>8. days * 86400 \in Nat /\ hour * 3600 \in Nat /\ minute * 60 \in Nat
  BY <1>2, <1>3, SMT
<1> QED BY <1>2, <1>3, <1>7, <1>8, SMT

\* The seconds of a moment, whose day they give back.
LEMMA SecondsOfMoments ==
  ASSUME NEW d, IsMoment(d)
  PROVE  /\ ToTimeT(d) \in Nat
         /\ ToTimeT(d) \div 86400 = DayNumber(d[1], d[2], d[3])
         /\ IsDayIn(ToTimeT(d) \div 86400, d[1], d[2])
<1> DEFINE y == d[1]  m == d[2]  day == d[3]  hour == d[4]  minute == d[5]  second == d[6]
           number == DayNumber(y, m, day)
           rest == hour * 3600 + minute * 60 + second
<1>1. /\ y \in Int /\ y >= 1970 /\ m \in 1 .. 12 /\ day \in 1 .. GetNumDaysInMonth(m, y)
      /\ hour \in 0 .. 23 /\ minute \in 0 .. 59 /\ second \in 0 .. 59
  BY DEF IsMoment
<1>2. ToTimeT(d) = number * 86400 + hour * 3600 + minute * 60 + second
  BY DEF ToTimeT, SecondsPerDay, DayNumber
<1> HIDE DEF y, m, day, hour, minute, second
<1>3. GetNumDaysInMonth(m, y) \in 28 .. 31 /\ DaysBeforeMonth(m, y) \in Nat
  <2>1. y \in Int /\ m \in 1 .. 12
    BY <1>1
  <2> QED BY <2>1, MonthsFollow
<1>4. DaysBeforeYear(y) \in Nat
  <2>1. DaysBeforeYear(1970) + 365 * (y - 1970) <= DaysBeforeYear(y)
    BY <1>1, YearsAreOrdered
  <2>2. DaysBeforeYear(y) \in Int
    BY <1>1, YearsFollow
  <2> QED BY <1>1, <2>1, <2>2, FirstYear
<1>5. number \in Nat
  BY <1>1, <1>3, <1>4 DEF DayNumber
<1> HIDE DEF number
<1>6. rest \in Nat /\ rest < 86400
  <2>1. hour \in Nat /\ hour <= 23 /\ minute \in Nat /\ minute <= 59 /\ second \in Nat /\ second <= 59
    BY <1>1
  <2> QED BY <2>1, SMT
<1>7. ToTimeT(d) = number * 86400 + rest
  <2>1. number * 86400 \in Nat /\ hour * 3600 \in Nat /\ minute * 60 \in Nat /\ second \in Nat
    BY <1>1, <1>5, SMT
  <2> QED BY <1>2, <2>1, SMT
<1> HIDE DEF rest
<1>8. ToTimeT(d) \in Nat /\ ToTimeT(d) \div 86400 = number
  BY <1>5, <1>6, <1>7, SMT
<1>9. IsDayIn(number, y, m)
  <2>1. \A k \in Int : DayNumber(y, m, k) \in Int /\ DayNumber(y, m, k) = DayNumber(y, m, 1) + k - 1
    <3>1. y \in Int /\ m \in Int /\ 1 <= m /\ m <= 12
      BY <1>1
    <3> QED BY <3>1, DayNumbers
  <2>2. number = DayNumber(y, m, 1) + day - 1
    BY <1>1, <1>3, <2>1 DEF number
  <2>3. DayNumber(y, m, GetNumDaysInMonth(m, y)) = DayNumber(y, m, 1) + GetNumDaysInMonth(m, y) - 1
    BY <1>3, <2>1
  <2> QED BY <1>1, <1>3, <2>1, <2>2, <2>3, SMTT(30) DEF IsDayIn
<1> QED BY <1>8, <1>9 DEF number, y, m, day

\* Days of a month are at most 31 apart, and those of the same month of two years at least 335 days.
LEMMA DaysApart ==
  ASSUME NEW a \in Nat, NEW k \in Int, 31 <= k, k <= 360, NEW y, NEW m, NEW z, NEW n, IsDayIn(a, y, m), IsDayIn(a + k, z, n)
  PROVE  z = IF n <= m THEN y + 1 ELSE y
<1>1. y \in Int /\ z \in Int /\ m \in 1 .. 12 /\ n \in 1 .. 12
  BY DEF IsDayIn
<1>2. /\ GetNumDaysInMonth(m, y) \in 28 .. 31 /\ GetNumDaysInMonth(n, z) \in 28 .. 31
      /\ DaysBeforeMonth(m, y) \in Nat /\ DaysBeforeMonth(n, z) \in Nat
  <2>1. \A v \in Int, j \in 1 .. 12 : GetNumDaysInMonth(j, v) \in 28 .. 31 /\ DaysBeforeMonth(j, v) \in Nat
    BY MonthsFollow
  <2> QED BY <1>1, <2>1
<1>3. DaysBeforeYear(y) \in Int /\ DaysBeforeYear(z) \in Int /\ LeapDays(y) \in 0 .. 1 /\ LeapDays(z) \in 0 .. 1
  BY <1>1, YearsFollow DEF LeapDays
<1>4. /\ DaysBeforeYear(y) + DaysBeforeMonth(m, y) <= a
      /\ a < DaysBeforeYear(y) + DaysBeforeMonth(m, y) + GetNumDaysInMonth(m, y)
      /\ DaysBeforeYear(z) + DaysBeforeMonth(n, z) <= a + k
      /\ a + k < DaysBeforeYear(z) + DaysBeforeMonth(n, z) + GetNumDaysInMonth(n, z)
  BY <1>2, <1>3 DEF IsDayIn, DayNumber
<1>5. ~(y = z /\ m = n)
  BY <1>2, <1>3, <1>4
<1>6. ~(z < y \/ (z = y /\ n < m))
  <2>1. z < y \/ (z = y /\ n < m) => DayNumber(z, n, GetNumDaysInMonth(n, z)) < DayNumber(y, m, 1)
    BY <1>1, LaterMonths
  <2>2. DayNumber(z, n, GetNumDaysInMonth(n, z)) >= a + k /\ DayNumber(y, m, 1) <= a
    BY DEF IsDayIn
  <2>3. DayNumber(z, n, GetNumDaysInMonth(n, z)) \in Int /\ DayNumber(y, m, 1) \in Int
    BY <1>2, <1>3 DEF DayNumber
  <2> QED BY <2>1, <2>2, <2>3
<1>7. CASE z = y
  BY <1>1, <1>5, <1>6, <1>7
<1>8. CASE z > y
  <2>1. DaysBeforeYear(y + 1) + 365 * (z - (y + 1)) <= DaysBeforeYear(z)
    BY <1>1, <1>8, YearsAreOrdered
  <2>2. DaysBeforeYear(y + 1) = DaysBeforeYear(y) + 365 + LeapDays(y)
    BY <1>1, YearsFollow
  <2>3. DaysBeforeMonth(m, y) + GetNumDaysInMonth(m, y) <= 365 + LeapDays(y)
    <3>1. CASE m = 12
      <4>1. DaysBeforeMonth(12, y) + GetNumDaysInMonth(12, y) = 365 + LeapDays(y)
        BY <1>1, MonthsFollow
      <4> QED BY <1>3, <3>1, <4>1
    <3>2. CASE m < 12
      <4>1. DaysBeforeMonth(m, y) + GetNumDaysInMonth(m, y) <= DaysBeforeMonth(12, y)
        BY <1>1, <3>2, MonthsAreOrdered
      <4>2. DaysBeforeMonth(12, y) + GetNumDaysInMonth(12, y) = 365 + LeapDays(y)
        BY <1>1, MonthsFollow
      <4>3. DaysBeforeMonth(12, y) \in Nat /\ GetNumDaysInMonth(12, y) \in 28 .. 31
        BY <1>1, MonthsFollow
      <4> QED BY <1>2, <1>3, <4>1, <4>2, <4>3
    <3> QED BY <1>1, <3>1, <3>2
  <2>4. z = y + 1
    BY <1>1, <1>2, <1>3, <1>4, <1>8, <2>1, <2>2, <2>3
  <2>5. n <= m
    <3> SUFFICES ASSUME m < n  PROVE FALSE
      BY <1>1
    <3>1. DaysBeforeMonth(m, z) + GetNumDaysInMonth(m, z) <= DaysBeforeMonth(n, z)
      BY <1>1, MonthsAreOrdered
    <3>2. DaysBeforeMonth(m, y) + GetNumDaysInMonth(m, y) <= DaysBeforeMonth(n, y)
      BY <1>1, MonthsAreOrdered
    <3>3. DaysBeforeMonth(n, y) <= DaysBeforeMonth(n, z) + LeapDays(y) /\ DaysBeforeMonth(n, y) \in Nat
      BY <1>1, MonthsRecur, MonthsFollow
    <3> QED BY <1>1, <1>2, <1>3, <1>4, <2>2, <2>4, <3>2, <3>3
  <2> QED BY <1>1, <2>4, <2>5
<1> QED BY <1>1, <1>6, <1>7, <1>8

\* Such days, counted from a day on.
LEMMA MonthsApart ==
  ASSUME NEW t \in Nat, NEW u \in Nat, NEW k \in Int, 31 <= k, k <= 360, u \div 86400 = t \div 86400 + k
  PROVE  Year(FromTimeT(u)) = YearAfter(FromTimeT(t), Month(FromTimeT(u)))
<1> DEFINE a == t \div 86400
<1>1. PICK y, m : IsDayIn(a, y, m) /\ Year(FromTimeT(t)) = y /\ Month(FromTimeT(t)) = m
  BY DatesOfSeconds DEF Year, Month
<1>2. PICK z, n : IsDayIn(a + k, z, n) /\ Year(FromTimeT(u)) = z /\ Month(FromTimeT(u)) = n
  <2>1. PICK z, n : IsDayIn(u \div 86400, z, n) /\ Year(FromTimeT(u)) = z /\ Month(FromTimeT(u)) = n
    BY DatesOfSeconds DEF Year, Month
  <2> QED BY <2>1
<1>3. a \in Nat
  BY SMT
<1> HIDE DEF a
<1>4. z = IF n <= m THEN y + 1 ELSE y
  BY <1>1, <1>2, <1>3, DaysApart
<1>5. y \in Int
  BY <1>1 DEF IsDayIn
<1> QED BY <1>1, <1>2, <1>4, <1>5 DEF YearAfter

LEMMA LaterDays ==
  ASSUME NEW y \in Int, y >= 1971, NEW m \in Int, 1 <= m, m <= 12, NEW day \in Int, day >= 1
  PROVE  DayNumber(y, m, day) >= 365
<1>1. DaysBeforeYear(1970) + 365 * (y - 1970) <= DaysBeforeYear(y)
  BY YearsAreOrdered
<1>2. DaysBeforeYear(y) \in Int
  BY YearsFollow
<1>3. DaysBeforeMonth(m, y) \in Nat
  BY MonthsFollow
<1> QED BY <1>1, <1>2, <1>3, FirstYear DEF DayNumber

LEMMA LaterYears ==
  ASSUME NEW d, IsMoment(d), d[1] > 1970
  PROVE  ToTimeT(d) \div 86400 >= 365
<1>1. ToTimeT(d) \div 86400 = DayNumber(d[1], d[2], d[3])
  BY SecondsOfMoments
<1>2. d[1] \in Int /\ d[1] >= 1971 /\ d[2] \in 1 .. 12 /\ d[3] \in Int /\ d[3] >= 1
  BY DEF IsMoment
<1> QED BY <1>1, <1>2, LaterDays

\* FrenchDateParser::consumeDate: a day of which only the month is told gets back its year, whatever the day it
\* is told, as long as it is at most 239 days old and 90 days ahead.
THEOREM YearsLeftOutAreFound ==
  ASSUME NEW now, IsMoment(now), now[1] > 1970, NEW n \in -239 .. 90
  PROVE  LET d == Plus(now, Days(n)) IN ImplicitYear(Month(d), now) = Year(d)
<1> DEFINE present == ToTimeT(now)  early == present - 270 * 86400  told == present + n * 86400  k == 270 + n
<1>1. n \in Int /\ k \in Int /\ 31 <= k /\ k <= 360
  OBVIOUS
<1>2. present \in Nat /\ present \div 86400 >= 365
  BY SecondsOfMoments, LaterYears
<1>3. Plus(now, Days(n)) = FromTimeT(told) /\ Minus(now, Days(270)) = FromTimeT(early)
  BY DEF Plus, Minus, Days, SecondsPerDay
<1> HIDE DEF present, k
<1>4. early \in Nat /\ told \in Nat
  BY <1>1, <1>2, SMT DEF k
<1>5. told = early + k * 86400
  BY <1>1, <1>2, SMT DEF k
<1> HIDE DEF early, told
<1>6. told \div 86400 = early \div 86400 + k
  BY <1>1, <1>4, <1>5, SMT
<1>7. Year(FromTimeT(told)) = YearAfter(FromTimeT(early), Month(FromTimeT(told)))
  BY <1>1, <1>4, <1>6, MonthsApart
<1> QED BY <1>3, <1>7 DEF ImplicitYear

\* FrenchDateParser::consumeDate: so does a day whose year has two digits, as long as the year is at most 80 years
\* old and 19 years ahead.
THEOREM ShortYearsAreFound ==
  ASSUME NEW now, IsMoment(now), NEW n \in -80 .. 19
  PROVE  ShortYear((Year(now) + n) % 100, now) = Year(now) + n
<1> DEFINE y == Year(now)  written == (y + n) % 100  century == ((y - 80) \div 100) * 100
<1>1. y \in Int /\ n \in Int /\ -80 <= n /\ n <= 19
  BY DEF IsMoment, Year
<1>2. ShortYear(written, now)
        = IF written + century < y - 80 THEN written + century + 100 ELSE written + century
  BY DEF ShortYear
<1> HIDE DEF y
<1>3. written \in Int /\ century \in Int
  BY <1>1, SMT
<1>4. IF written + century < y - 80 THEN written + century + 100 = y + n ELSE written + century = y + n
  BY <1>1, SMT
<1> HIDE DEF written, century
<1>5. ShortYear(written, now) = y + n
  BY <1>2, <1>4
<1> QED BY <1>5 DEF written, y

---------------------------------------------------------------------------
(* Local time.                                                             *)

LEMMA DatesInRange ==
  ASSUME NEW d, d[1] \in 0 .. MaxYear, d[2] \in 0 .. 12, \A k \in 3 .. 6 : d[k] \in 0 .. 99
  PROVE  InitDate(d) = d
BY DEF InitDate

LEMMA Weekdays ==
  ASSUME NEW y \in Int, 0 <= y, y <= MaxYear, NEW m \in Int, 1 <= m, m <= 12, NEW day \in Int, 1 <= day, day <= 31
  PROVE  DayOfWeek(Midnight(y, m, day)) = (DayNumber(y, m, 1) + day + 2) % 7
<1> DEFINE d == <<y, m, day, 0, 0, 0>>  number == DayNumber(y, m, day)
<1>1. Midnight(y, m, day) = d
  <2>1. d[1] \in 0 .. MaxYear /\ d[2] \in 0 .. 12
    <3>1. d[1] = y /\ d[2] = m
      OBVIOUS
    <3>2. MaxYear \in Int
      BY DEF MaxYear
    <3>3. y \in 0 .. MaxYear /\ m \in 0 .. 12
      BY <3>2
    <3> HIDE DEF d
    <3> QED BY <3>1, <3>3
  <2>2. \A k \in 3 .. 6 : d[k] \in 0 .. 99
    <3> TAKE k \in 3 .. 6
    <3>1. d[3] \in 0 .. 99 /\ d[4] \in 0 .. 99 /\ d[5] \in 0 .. 99 /\ d[6] \in 0 .. 99
      BY SMT
    <3>2. k = 3 \/ k = 4 \/ k = 5 \/ k = 6
      OBVIOUS
    <3> HIDE DEF d
    <3> QED BY <3>1, <3>2
  <2> HIDE DEF d
  <2>3. InitDate(d) = d
    BY <2>1, <2>2, DatesInRange
  <2> QED BY <2>3 DEF Midnight, d
<1>2. ToTimeT(d) = number * 86400 + 0 * 3600 + 0 * 60 + 0
  BY DEF ToTimeT, SecondsPerDay, DayNumber
<1>3. number \in Int /\ number = DayNumber(y, m, 1) + day - 1 /\ DayNumber(y, m, 1) \in Int
  <2>1. \A k \in Int : DayNumber(y, m, k) \in Int /\ DayNumber(y, m, k) = DayNumber(y, m, 1) + k - 1
    BY DayNumbers
  <2> QED BY <2>1
<1> HIDE DEF d, number
<1>4. ToTimeT(d) \div 86400 = number
  BY <1>2, <1>3, SMT
<1>5. DayOfWeek(d) = (number + 3) % 7
  BY <1>4 DEF DayOfWeek, SecondsPerDay
<1>6. number + 3 = DayNumber(y, m, 1) + day + 2
  BY <1>3
<1> QED BY <1>1, <1>5, <1>6

LEMMA LastSundays ==
  ASSUME NEW y \in Int, 0 <= y, y <= MaxYear, NEW m \in Int, 1 <= m, m <= 12
  PROVE  LastSunday(y, m) \in 25 .. 31 /\ Max(Sundays(y, m)) = LastSunday(y, m)
<1> DEFINE c == DayNumber(y, m, 1) + 2  last == LastSunday(y, m)
<1>1. c \in Int
  <2>1. DayNumber(y, m, 1) \in Int
    BY DayNumbers
  <2> QED BY <2>1
<1>2. \A day \in Int : 1 <= day /\ day <= 31 => DayOfWeek(Midnight(y, m, day)) = (c + day) % 7
  <2> SUFFICES ASSUME NEW day \in Int, 1 <= day, day <= 31  PROVE DayOfWeek(Midnight(y, m, day)) = (c + day) % 7
    OBVIOUS
  <2>1. DayOfWeek(Midnight(y, m, day)) = (DayNumber(y, m, 1) + day + 2) % 7
    BY Weekdays
  <2>2. DayNumber(y, m, 1) \in Int
    BY DayNumbers
  <2>3. DayNumber(y, m, 1) + day + 2 = c + day
    BY <2>2
  <2> QED BY <2>1, <2>3
<1>3. last = 31 - ((((c + 31) % 7) + 1) % 7)
  BY <1>2 DEF LastSunday
<1> HIDE DEF c, last
<1>4. last \in Int /\ 25 <= last /\ last <= 31 /\ (c + last) % 7 = 6
  BY <1>1, <1>3, SMT
<1>5. \A day \in Int : last < day /\ day <= 31 => (c + day) % 7 # 6
  BY <1>1, <1>3, SMT
<1>6. Sundays(y, m) = {day \in 1 .. 31 : (c + day) % 7 = 6}
  BY <1>2 DEF Sundays
<1>7. Sundays(y, m) \subseteq Int /\ last \in Sundays(y, m) /\ \A day \in Sundays(y, m) : day <= last
  BY <1>4, <1>5, <1>6
<1>8. Max(Sundays(y, m)) = last
  BY <1>7, GreatestIsMax
<1>9. last \in 25 .. 31
  BY <1>4
<1> QED BY <1>8, <1>9 DEF last

\* The order of dates, field by field.
LEMMA EarlierByFields ==
  ASSUME NEW d, NEW e, \A k \in 1 .. 6 : d[k] \in Int /\ e[k] \in Int, d[1] = e[1]
  PROVE  Earlier(d, e)
           <=> \/ d[2] < e[2]
               \/ d[2] = e[2] /\ d[3] < e[3]
               \/ d[2] = e[2] /\ d[3] = e[3] /\ d[4] < e[4]
               \/ d[2] = e[2] /\ d[3] = e[3] /\ d[4] = e[4] /\ d[5] < e[5]
               \/ d[2] = e[2] /\ d[3] = e[3] /\ d[4] = e[4] /\ d[5] = e[5] /\ d[6] < e[6]
<1> DEFINE At(k) == d[k] < e[k] /\ \A j \in 1 .. k - 1 : d[j] = e[j]
<1>1. Earlier(d, e) <=> \E k \in 1 .. 6 : At(k)
  BY DEF Earlier
<1>2. At(1) <=> FALSE
  OBVIOUS
<1>3. At(2) <=> d[2] < e[2]
  <2>1. (\A j \in 1 .. 2 - 1 : d[j] = e[j]) <=> d[1] = e[1]
    OBVIOUS
  <2> QED BY <2>1
<1>4. At(3) <=> d[2] = e[2] /\ d[3] < e[3]
  <2>1. (\A j \in 1 .. 3 - 1 : d[j] = e[j]) <=> d[1] = e[1] /\ d[2] = e[2]
    OBVIOUS
  <2> QED BY <2>1
<1>5. At(4) <=> d[2] = e[2] /\ d[3] = e[3] /\ d[4] < e[4]
  <2>1. (\A j \in 1 .. 4 - 1 : d[j] = e[j]) <=> d[1] = e[1] /\ d[2] = e[2] /\ d[3] = e[3]
    OBVIOUS
  <2> QED BY <2>1
<1>6. At(5) <=> d[2] = e[2] /\ d[3] = e[3] /\ d[4] = e[4] /\ d[5] < e[5]
  <2>1. (\A j \in 1 .. 5 - 1 : d[j] = e[j]) <=> d[1] = e[1] /\ d[2] = e[2] /\ d[3] = e[3] /\ d[4] = e[4]
    OBVIOUS
  <2> QED BY <2>1
<1>7. At(6) <=> d[2] = e[2] /\ d[3] = e[3] /\ d[4] = e[4] /\ d[5] = e[5] /\ d[6] < e[6]
  <2>1. (\A j \in 1 .. 6 - 1 : d[j] = e[j])
          <=> d[1] = e[1] /\ d[2] = e[2] /\ d[3] = e[3] /\ d[4] = e[4] /\ d[5] = e[5]
    OBVIOUS
  <2> QED BY <2>1
<1> HIDE DEF At
<1>8. (\E k \in 1 .. 6 : At(k)) <=> At(1) \/ At(2) \/ At(3) \/ At(4) \/ At(5) \/ At(6)
  OBVIOUS
<1> QED BY <1>1, <1>2, <1>3, <1>4, <1>5, <1>6, <1>7, <1>8

\* getFrWikiLocalTime: summer time begins and ends when it does on the wiki, at any date of any year.
THEOREM LocalTimeIsThatOfTheWiki ==
  ASSUME NEW y, NEW m, NEW day, NEW hour, NEW minute, NEW second, IsMoment(<<y, m, day, hour, minute, second>>)
  PROVE  LET utc == <<y, m, day, hour, minute, second>> IN GetFrWikiLocalTime(utc) = LocalTime(utc)
<1> DEFINE utc == <<y, m, day, hour, minute, second>>
           sunday(n) == LastSunday(y, n)
           summerTime == \/ m = 3 /\ (day > sunday(m) \/ (day = sunday(m) /\ hour >= 1))
                         \/ m = 10 /\ (day < sunday(m) \/ (day = sunday(m) /\ hour = 0))
                         \/ m \in 4 .. 9
           start == <<y, 3, sunday(3), 1, 0, 0>>  end == <<y, 10, sunday(10), 1, 0, 0>>
<1>1. /\ y \in Int /\ 0 <= y /\ y <= MaxYear /\ m \in Int /\ 1 <= m /\ m <= 12 /\ day \in Int
      /\ hour \in Int /\ 0 <= hour /\ minute \in Int /\ 0 <= minute /\ second \in Int /\ 0 <= second
  BY DEF IsMoment
<1>2. GetFrWikiLocalTime(utc) = Plus(utc, Hours(IF summerTime THEN 2 ELSE 1))
  BY DEF GetFrWikiLocalTime, Year, Month, Day
<1>3. LocalTime(utc) = Plus(utc, Hours(IF IsSummer(utc) THEN 2 ELSE 1))
  BY DEF LocalTime
<1>4. sunday(3) \in Int /\ sunday(10) \in Int /\ Max(Sundays(y, 3)) = sunday(3) /\ Max(Sundays(y, 10)) = sunday(10)
  BY <1>1, LastSundays
<1>5. IsSummer(utc) <=> (start = utc \/ Earlier(start, utc)) /\ Earlier(utc, end)
  BY <1>4 DEF IsSummer, NotLater, Year
<1>6. start = utc <=> 3 = m /\ sunday(3) = day /\ 1 = hour /\ 0 = minute /\ 0 = second
  OBVIOUS
<1>7. /\ utc[1] = y /\ utc[2] = m /\ utc[3] = day /\ utc[4] = hour /\ utc[5] = minute /\ utc[6] = second
      /\ start[1] = y /\ start[2] = 3 /\ start[3] = sunday(3) /\ start[4] = 1 /\ start[5] = 0 /\ start[6] = 0
      /\ end[1] = y /\ end[2] = 10 /\ end[3] = sunday(10) /\ end[4] = 1 /\ end[5] = 0 /\ end[6] = 0
  OBVIOUS
<1> HIDE DEF utc, sunday, start, end
<1>8. \A k \in 1 .. 6 : utc[k] \in Int /\ start[k] \in Int /\ end[k] \in Int
  <2>1. \A k \in 1 .. 6 : k = 1 \/ k = 2 \/ k = 3 \/ k = 4 \/ k = 5 \/ k = 6
    OBVIOUS
  <2> QED BY <1>1, <1>4, <1>7, <2>1
<1>9. Earlier(start, utc)
        <=> 3 < m \/ (3 = m /\ (sunday(3) < day \/ (sunday(3) = day
              /\ (1 < hour \/ (1 = hour /\ (0 < minute \/ (0 = minute /\ 0 < second)))))))
  <2>1. \A k \in 1 .. 6 : start[k] \in Int /\ utc[k] \in Int
    BY <1>8
  <2> QED BY <1>1, <1>4, <1>7, <2>1, EarlierByFields
<1>10. Earlier(utc, end)
        <=> m < 10 \/ (m = 10 /\ (day < sunday(10) \/ (day = sunday(10)
              /\ (hour < 1 \/ (hour = 1 /\ (minute < 0 \/ (minute = 0 /\ second < 0)))))))
  <2>1. \A k \in 1 .. 6 : utc[k] \in Int /\ end[k] \in Int
    BY <1>8
  <2> QED BY <1>1, <1>4, <1>7, <2>1, EarlierByFields
<1>11. IsSummer(utc) <=> summerTime
  <2>1. CASE m = 3
    BY <1>1, <1>4, <1>5, <1>6, <1>9, <1>10, <2>1
  <2>2. CASE m = 10
    BY <1>1, <1>4, <1>5, <1>6, <1>9, <1>10, <2>2
  <2>3. CASE m # 3 /\ m # 10
    BY <1>1, <1>5, <1>6, <1>9, <1>10, <2>3
  <2> QED BY <2>1, <2>2, <2>3
<1> QED BY <1>2, <1>3, <1>11 DEF utc

===============================================================================

------------------------ MODULE LiveReplicationProofs ------------------------
(***************************************************************************)
(* Proofs about LiveReplication, for every value of its constants.         *)
(***************************************************************************)
EXTENDS LiveReplication, Lemmas, FiniteSetTheorems

------------------------------------------------------------------------------
(* The operators on sets of changes. *)

LogType == log \in Seq(Changes) /\ Len(log) <= MaxChanges

LEMMA LogFacts ==
  ASSUME LogType
  PROVE  /\ Len(log) \in Nat
         /\ \A c \in Rcids : /\ c \in Int /\ 1 <= c /\ c <= Len(log)
                             /\ Stamp(c) \in Int /\ Stamp(c) \in -StampLag..MaxClock
                             /\ log[c].born \in 0..MaxClock /\ log[c].kind \in Kinds
<1>1. Len(log) \in Nat /\ \A c \in 1..Len(log) : log[c] \in Changes
  BY DEF LogType
<1>2. \A x \in Changes : /\ x.stamp \in -StampLag..MaxClock
                         /\ x.born \in 0..MaxClock /\ x.kind \in Kinds
  BY DEF Changes
<1>3. -StampLag..MaxClock \subseteq Int
  BY ParametersAreNumbers
<1>. QED  BY <1>1, <1>2, <1>3 DEF Rcids, Stamp

LEMMA HighestIsMaximum ==
  ASSUME NEW S, S \subseteq Int, S # {}, NEW high \in Int, \A x \in S : x <= high
  PROVE  Highest(S) \in S /\ \A y \in S : y <= Highest(S)
BY GreatestInteger, Zenon DEF Highest

LEMMA LowestIsMinimum ==
  ASSUME NEW S, S \subseteq Int, S # {}, NEW low \in Int, \A x \in S : low <= x
  PROVE  Lowest(S) \in S /\ \A y \in S : Lowest(S) <= y
BY LeastInteger, Zenon DEF Lowest

\* A non-empty set of changes has a newest one.
LEMMA NewestExists ==
  ASSUME LogType, NEW S, S \subseteq Rcids, S # {}
  PROVE  NewestFirst(S) \in S /\ \A d \in S : Stamp(d) <= NewestStamp(S)
<1>. DEFINE T == {Stamp(c) : c \in S}
<1>1. T \subseteq Int /\ T # {} /\ \A t \in T : t <= MaxClock
  BY LogFacts, ParametersAreNumbers
<1>2. PICK t \in T : \A u \in T : u <= t
  <2>1. MaxClock \in Int
    BY ParametersAreNumbers
  <2>. HIDE DEF T
  <2>. QED  BY <1>1, <2>1, GreatestInteger
<1>. DEFINE U == {c \in S : Stamp(c) = t}
<1>3. U \subseteq Int /\ U # {} /\ \A c \in U : c <= Len(log)
  BY <1>2, LogFacts
<1>4. PICK c \in U : \A d \in U : d <= c
  <2>1. Len(log) \in Int
    BY LogFacts
  <2>. HIDE DEF U
  <2>. QED  BY <1>3, <2>1, GreatestInteger
<1>5. ASSUME NEW d \in S
      PROVE  \/ Stamp(d) < Stamp(c)
             \/ Stamp(d) = Stamp(c) /\ d <= c
  <2>1. Stamp(d) <= t /\ Stamp(d) \in Int /\ t \in Int /\ Stamp(c) = t
    BY <1>1, <1>2
  <2>2. Stamp(d) = t => d <= c
    BY <1>4
  <2>. QED  BY <2>1, <2>2
<1>6. c \in S
  OBVIOUS
<1>7. /\ NewestFirst(S) \in S
      /\ \A d \in S : \/ Stamp(d) < Stamp(NewestFirst(S))
                      \/ Stamp(d) = Stamp(NewestFirst(S)) /\ d <= NewestFirst(S)
  BY <1>5, <1>6, Zenon DEF NewestFirst
<1>8. \A d \in S : Stamp(d) \in Int
  BY LogFacts
<1>9. \A d \in S : Stamp(d) <= Stamp(NewestFirst(S))
  BY <1>7, <1>8
<1>. QED  BY <1>7, <1>9 DEF NewestStamp

LEMMA ClockType == TypeOK => clock \in Int /\ LogType /\ db \subseteq Rcids /\ published \subseteq Rcids
BY ParametersAreNumbers DEF TypeOK, LogType, Changes

\* StartId finds a row when there is one after the start.
LEMMA StartIdFacts ==
  ASSUME TypeOK, NEW age
  PROVE  /\ StartId(age) \in db \cup {0, -1}
         /\ age = NoAge => StartId(age) = -1
<1>. DEFINE after == {c \in db : Stamp(c) >= clock - age}
            First(c) == \A d \in after : \/ Stamp(c) < Stamp(d)
                                         \/ Stamp(c) = Stamp(d) /\ c <= d
<1>1. ASSUME after # {}
      PROVE  \E c \in after : First(c)
  <2>1. LogType /\ db \subseteq Rcids
    BY ClockType
  <2>. DEFINE T == {Stamp(c) : c \in after}
  <2>2. T \subseteq Int /\ T # {} /\ \A t \in T : -StampLag <= t
    BY <1>1, <2>1, LogFacts, ParametersAreNumbers
  <2>3. PICK t \in T : \A u \in T : t <= u
    <3>1. -StampLag \in Int
      BY ParametersAreNumbers
    <3>. HIDE DEF T
    <3>. QED  BY <2>2, <3>1, LeastInteger
  <2>. DEFINE U == {c \in after : Stamp(c) = t}
  <2>4. U \subseteq Nat /\ U # {}
    BY <2>1, <2>3, LogFacts
  <2>5. PICK c \in U : \A d \in U : c <= d
    <3>. HIDE DEF U
    <3>. QED  BY <2>4, LeastNatural
  <2>6. ASSUME NEW d \in after
        PROVE  \/ Stamp(c) < Stamp(d)
               \/ Stamp(c) = Stamp(d) /\ c <= d
    <3>1. t <= Stamp(d) /\ Stamp(d) \in Int /\ t \in Int /\ Stamp(c) = t
      BY <2>2, <2>3
    <3>2. Stamp(d) = t => c <= d
      BY <2>5
    <3>. QED  BY <3>1, <3>2
  <2>. QED  BY <2>6
<1>2. after # {} => (CHOOSE c \in after : First(c)) \in after
  <2>. HIDE DEF after, First
  <2>. QED  BY <1>1
<1>. QED  BY <1>2 DEF StartId, NoAge

\* Where an enumeration starts: never before the token, and at most one past the rows.
LEMMA FirstIdFacts ==
  ASSUME TypeOK, NEW r \in Readers, NEW o \in Options
  PROVE  /\ FirstId(token[r], o) \in 0..MaxChanges + 1
         /\ token[r] <= FirstId(token[r], o)
         /\ \/ FirstId(token[r], o) \in {0, token[r]}
            \/ \E p \in db : FirstId(token[r], o) <= p + 1
         /\ \/ FirstId(token[r], o) = token[r] \/ token[r] = NoToken
            \/ FirstId(token[r], o) \in db /\ o.startAge # NoAge
<1>. DEFINE start == StartId(o.startAge)
            first == FirstId(token[r], o)
<1>1. /\ db \subseteq Rcids /\ Rcids \subseteq 1..MaxChanges
      /\ \A c \in db : c \in Int /\ 1 <= c /\ c <= MaxChanges
  BY ClockType, LogFacts, ParametersAreNumbers DEF LogType
<1>2. token[r] \in NoToken..MaxChanges + 1 /\ MaxChanges \in Nat
  BY ParametersAreNumbers DEF TypeOK
<1>3. start \in db \cup {0, -1} /\ (o.startAge = NoAge => start = -1)
  BY StartIdFacts
<1>4. /\ start \in Int /\ -1 <= start /\ start <= MaxChanges
      /\ token[r] \in Int /\ -1 <= token[r] /\ token[r] <= MaxChanges + 1
  <2>. HIDE DEF start
  <2>. QED  BY <1>1, <1>2, <1>3 DEF NoToken
<1>5. Larger(start, token[r]) = IF start > token[r] THEN start ELSE token[r]
  BY DEF Larger
<1>6. first = IF Larger(start, token[r]) # -1 THEN Larger(start, token[r])
              ELSE IF db = {} THEN 0 ELSE Highest(db) + 1
  BY DEF FirstId
<1>. HIDE DEF start, first
<1>7. CASE Larger(start, token[r]) # -1
  BY <1>2, <1>3, <1>4, <1>5, <1>6, <1>7 DEF NoToken, first
<1>8. CASE Larger(start, token[r]) = -1 /\ db = {}
  <2>1. first = 0 /\ token[r] = -1
    BY <1>4, <1>5, <1>6, <1>8
  <2>. QED  BY <1>2, <2>1 DEF NoToken, first
<1>9. CASE Larger(start, token[r]) = -1 /\ db # {}
  <2>1. first = Highest(db) + 1 /\ token[r] = -1
    BY <1>4, <1>5, <1>6, <1>9
  <2>2. Highest(db) \in db
    <3>1. db \subseteq Int /\ MaxChanges \in Int /\ \A x \in db : x <= MaxChanges
      BY <1>1, <1>2
    <3>. QED  BY <3>1, <1>9, HighestIsMaximum
  <2>3. Highest(db) \in Int /\ 1 <= Highest(db) /\ Highest(db) <= MaxChanges
    BY <1>1, <2>2
  <2>4. first <= Highest(db) + 1 /\ first \in 0..MaxChanges + 1 /\ token[r] <= first
    BY <1>2, <2>1, <2>3
  <2>. QED  BY <2>1, <2>2, <2>4 DEF NoToken, first
<1>. QED  BY <1>7, <1>8, <1>9 DEF first

\* The batch is a prefix of the matching rows, and nextId passes none that is not in it.
LEMMA NextIdFacts ==
  ASSUME TypeOK, NEW first \in Nat, NEW types, NEW o \in Options
  PROVE  LET next == NextId(first, types, o)
         IN  /\ Batch(first, types, o) \subseteq MatchingRows(first, types)
             /\ next \in Int /\ first <= next
             /\ next = first \/ \E p \in db : next <= p + 1
             /\ \A c \in MatchingRows(first, types) : c < next => c \in Batch(first, types, o)
<1>. DEFINE rows == MatchingRows(first, types)
            UpTo(c) == {d \in rows : d <= c}
            batch == Batch(first, types, o)
            left == rows \ batch
            next == NextId(first, types, o)
<1>1. /\ rows \subseteq db /\ rows \subseteq Rcids /\ batch \subseteq rows
      /\ \A c \in rows : c \in Int /\ first <= c /\ 1 <= c /\ c <= MaxChanges
      /\ MaxChanges \in Int
  BY ClockType, LogFacts, ParametersAreNumbers DEF MatchingRows, Batch, LogType
<1>2. ASSUME NEW c \in batch, NEW d \in rows, d <= c
      PROVE  d \in batch
  <2>1. UpTo(d) \subseteq UpTo(c)
    BY <1>1, <1>2
  <2>2. IsFiniteSet(UpTo(c))
    <3>1. IsFiniteSet(1..MaxChanges) /\ UpTo(c) \in SUBSET (1..MaxChanges)
      BY <1>1, FS_Interval
    <3>. QED  BY <3>1, FS_Subset
  <2>3. /\ Cardinality(UpTo(d)) <= Cardinality(UpTo(c))
        /\ Cardinality(UpTo(d)) \in Nat /\ Cardinality(UpTo(c)) \in Nat
    BY <2>1, <2>2, FS_Subset, FS_CardinalityType
  <2>4. o.limit \in Nat
    BY ReadersAreTyped
  <2>5. Cardinality(UpTo(c)) <= o.limit /\ \A e \in UpTo(c) : ~PastEnd(e, o)
    BY DEF Batch
  <2>. HIDE DEF UpTo
  <2>6. Cardinality(UpTo(d)) <= o.limit
    BY <2>3, <2>4, <2>5
  <2>. QED  BY <2>1, <2>5, <2>6 DEF Batch, UpTo
<1>3. next = IF left # {} /\ Cardinality(batch) < o.limit THEN Lowest(left)
             ELSE IF batch = {} THEN first ELSE Highest(batch) + 1
  BY DEF NextId
<1>4. left # {} => Lowest(left) \in left /\ \A y \in left : Lowest(left) <= y
  <2>1. left \subseteq Int /\ \A x \in left : first <= x
    BY <1>1
  <2>2. first \in Int
    OBVIOUS
  <2>. HIDE DEF left
  <2>. QED  BY <2>1, <2>2, LowestIsMinimum
<1>5. batch # {} => Highest(batch) \in batch /\ \A y \in batch : y <= Highest(batch)
  <2>1. batch \subseteq Int /\ \A x \in batch : x <= MaxChanges
    BY <1>1
  <2>. HIDE DEF batch
  <2>. QED  BY <1>1, <2>1, HighestIsMaximum
<1>. HIDE DEF rows, batch, next
<1>6. /\ next \in Int /\ first <= next
      /\ next = first \/ \E p \in db : next <= p + 1
      /\ \A c \in rows : c < next => c \in batch
  <2>1. CASE left # {} /\ Cardinality(batch) < o.limit
    <3>1. next = Lowest(left) /\ Lowest(left) \in rows /\ \A y \in left : Lowest(left) <= y
      BY <1>3, <1>4, <2>1
    <3>. HIDE DEF left
    <3>2. next \in Int /\ first <= next /\ next <= next + 1 /\ next \in db
      BY <1>1, <3>1
    <3>3. \A c \in rows : c < next => c \in batch
      BY <1>1, <3>1, <3>2 DEF left
    <3>. QED  BY <3>2, <3>3
  <2>2. CASE ~(left # {} /\ Cardinality(batch) < o.limit) /\ batch = {}
    <3>1. next = first
      BY <1>3, <2>2
    <3>. QED  BY <1>1, <3>1
  <2>3. CASE ~(left # {} /\ Cardinality(batch) < o.limit) /\ batch # {}
    <3>1. next = Highest(batch) + 1 /\ Highest(batch) \in batch
      BY <1>3, <1>5, <2>3
    <3>2. Highest(batch) \in rows /\ Highest(batch) \in Int /\ first <= Highest(batch)
      BY <1>1, <3>1
    <3>3. \A c \in rows : c < next => c <= Highest(batch)
      BY <1>1, <3>1, <3>2
    <3>4. next \in Int /\ first <= next /\ next <= Highest(batch) + 1 /\ Highest(batch) \in db
      BY <1>1, <3>1, <3>2
    <3>. QED  BY <1>2, <3>1, <3>3, <3>4
  <2>. QED  BY <2>1, <2>2, <2>3
<1>. QED  BY <1>1, <1>6 DEF rows, batch, next

------------------------------------------------------------------------------
(* Type correctness. *)

\* The log only grows: what was said of its changes remains true.
LEMMA LogGrows ==
  ASSUME TypeOK, NEW kind \in Kinds, NEW lag \in 0..StampLag, MakeChange(kind, lag)
  PROVE  /\ LogType' /\ Len(log') = Len(log) + 1 /\ Rcids' = Rcids \cup {Len(log) + 1}
         /\ \A c \in Rcids : log'[c] = log[c]
         /\ log'[Len(log) + 1] = [stamp |-> clock - lag, born |-> clock, kind |-> kind]
<1>. DEFINE new == [stamp |-> clock - lag, born |-> clock, kind |-> kind]
<1>1. new \in Changes /\ LogType
  BY ClockType, ParametersAreNumbers DEF Changes, TypeOK
<1>2. log' = Append(log, new) /\ Len(log) < MaxChanges /\ Len(log) \in Nat /\ MaxChanges \in Nat
  BY <1>1, LogFacts, ParametersAreNumbers DEF MakeChange
<1>. HIDE DEF new
<1>3. /\ log' \in Seq(Changes) /\ Len(log') = Len(log) + 1
      /\ \A c \in 1..Len(log) : log'[c] = log[c]
      /\ log'[Len(log) + 1] = new
  BY <1>1, <1>2 DEF LogType
<1>. QED  BY <1>2, <1>3 DEF LogType, Rcids, new

LEMMA NewestInWindow ==
  ASSUME TypeOK
  PROVE  /\ EnumStart \in Dates
         /\ \A s \in Syncers : ApiResponse(s) \subseteq visible
<1>1. LogType /\ db \subseteq Rcids /\ visible \subseteq Rcids
  BY ClockType DEF TypeOK
<1>2. EnumStart \in Dates
  <2>1. CASE db = {}
    BY <2>1, ParametersAreNumbers DEF EnumStart, Dates
  <2>2. CASE db # {}
    <3>1. NewestFirst(db) \in db
      BY <1>1, <2>2, NewestExists
    <3>2. NewestStamp(db) \in -StampLag..MaxClock
      BY <1>1, <3>1, LogFacts DEF NewestStamp
    <3>. QED  BY <2>2, <3>2, ParametersAreNumbers DEF EnumStart, Dates
  <2>. QED  BY <2>1, <2>2
<1>3. visible # {} => NewestFirst(visible) \in visible
  BY <1>1, NewestExists
<1>. QED  BY <1>2, <1>3 DEF ApiResponse

LEMMA IdleRecords == NoSync \in SyncRecords({}) /\ NoWork \in WorkRecords
<1>1. 0 \in Dates /\ 0 \in 0..MaxClock /\ 0 \in 0..MaxChanges + 1
  BY ParametersAreNumbers DEF Dates
<1>. QED  BY <1>1 DEF NoSync, NoWork, SyncRecords, WorkRecords

LEMMA TypeInitial == Init => TypeOK
<1>. SUFFICES ASSUME Init  PROVE TypeOK
  OBVIOUS
<1>1. log \in Seq(Changes) /\ Len(log) = 0 /\ Rcids = {}
  BY DEF Init, Rcids
<1>2. sync \in [Syncers -> SyncRecords(visible)] /\ work \in [Readers -> WorkRecords]
  BY IdleRecords DEF Init
<1>3. token \in [Readers -> NoToken..MaxChanges + 1] /\ origin \in [Readers -> 0..MaxChanges + 1]
  BY ParametersAreNumbers DEF Init, NoToken
<1>. QED  BY <1>1, <1>2, <1>3, ParametersAreNumbers
          DEF Init, TypeOK

LEMMA TypeStep == TypeOK /\ [Next]_vars => TypeOK'
<1>. SUFFICES ASSUME TypeOK, [Next]_vars  PROVE TypeOK'
  OBVIOUS
<1>. USE DEF wikiVars, dbVars, readerVars, LogType
<1>0. /\ clock \in 0..MaxClock /\ LogType /\ visible \subseteq Rcids
      /\ db \subseteq published /\ published \subseteq visible
      /\ sync \in [Syncers -> SyncRecords(visible)]
      /\ token \in [Readers -> NoToken..MaxChanges + 1]
      /\ work \in [Readers -> WorkRecords]
      /\ baseline \in 0..MaxChanges
      /\ delivered \in [Readers -> SUBSET published]
      /\ origin \in [Readers -> 0..MaxChanges + 1]
  BY DEF TypeOK
<1>1. ASSUME NEW kind \in Kinds, NEW lag \in 0..StampLag, MakeChange(kind, lag)  PROVE TypeOK'
  <2>1. LogType' /\ Rcids \subseteq Rcids'
    BY <1>1, LogGrows
  <2>. QED  BY <1>0, <1>1, <2>1 DEF TypeOK, MakeChange
<1>2. ASSUME NEW c \in Rcids, CommitChange(c)  PROVE TypeOK'
  <2>1. SyncRecords(visible) \subseteq SyncRecords(visible')
    BY <1>2 DEF CommitChange, SyncRecords
  <2>2. Rcids' = Rcids /\ LogType'
    BY <1>0, <1>2 DEF CommitChange, Rcids, LogType
  <2>. QED  BY <1>0, <1>2, <2>1, <2>2 DEF TypeOK, CommitChange
<1>3. CASE Tick
  <2>1. clock' \in 0..MaxClock
    BY <1>0, <1>3, ParametersAreNumbers DEF Tick
  <2>2. Rcids' = Rcids /\ LogType'
    BY <1>0, <1>3 DEF Tick, Rcids, LogType
  <2>. QED  BY <1>0, <1>3, <2>1, <2>2 DEF TypeOK, Tick
<1>4. ASSUME NEW s \in Syncers, SyncStep(s)  PROVE TypeOK'
  <2>1. Rcids' = Rcids /\ LogType' /\ clock' = clock /\ visible' = visible
    BY <1>0, <1>4 DEF SyncStep, BeginSync, ReadFromWiki, WriteToDatabase, AbortSync, Rcids, LogType
  <2>2. sync' \in [Syncers -> SyncRecords(visible)]
    <3>1. NoSync \in SyncRecords(visible)
      BY IdleRecords DEF SyncRecords
    <3>2. CASE BeginSync(s)
      BY <1>0, <3>2, NewestInWindow DEF BeginSync, SyncRecords
    <3>3. CASE ReadFromWiki(s)
      <4>1. [sync[s] EXCEPT !.pc = "fetched", !.response = ApiResponse(s)] \in SyncRecords(visible)
        BY <1>0, NewestInWindow DEF SyncRecords
      <4>. QED  BY <1>0, <3>1, <3>3, <4>1 DEF ReadFromWiki
    <3>4. CASE WriteToDatabase(s) \/ AbortSync(s)
      BY <1>0, <3>1, <3>4 DEF WriteToDatabase, AbortSync
    <3>. QED  BY <1>4, <3>2, <3>3, <3>4 DEF SyncStep
  <2>3. CASE WriteToDatabase(s)
    <3>1. Inserted(s) \subseteq visible /\ Inserted(s) \subseteq Rcids
      BY <1>0 DEF Inserted, SyncRecords
    <3>2. Inserted(s) # {} => Lowest(Inserted(s)) \in 0..MaxChanges
      <4>1. Inserted(s) \subseteq Nat /\ \A c \in Inserted(s) : 0 <= c /\ c <= MaxChanges
        BY <1>0, <3>1, LogFacts, ParametersAreNumbers DEF LogType
      <4>2. ASSUME Inserted(s) # {}  PROVE Lowest(Inserted(s)) \in Inserted(s)
        BY <4>1, <4>2, LeastNatural, Zenon DEF Lowest
      <4>. QED  BY <4>1, <4>2, ParametersAreNumbers
    <3>3. baseline' \in 0..MaxChanges /\ published' = published \cup Inserted(s)
      BY <1>0, <2>3, <3>2 DEF WriteToDatabase
    <3>4. db' \subseteq published' /\ published' \subseteq visible
      BY <1>0, <2>3, <3>1 DEF WriteToDatabase
    <3>. QED  BY <1>0, <2>1, <2>2, <2>3, <3>3, <3>4 DEF TypeOK, WriteToDatabase
  <2>4. CASE BeginSync(s) \/ ReadFromWiki(s) \/ AbortSync(s)
    BY <1>0, <2>1, <2>2, <2>4 DEF TypeOK, BeginSync, ReadFromWiki, AbortSync
  <2>. QED  BY <1>4, <2>3, <2>4 DEF SyncStep
<1>5. ASSUME NEW r \in Readers, ReaderStep(r)  PROVE TypeOK'
  <2>1. Rcids' = Rcids /\ LogType' /\ clock' = clock /\ visible' = visible
    BY <1>0, <1>5 DEF ReaderStep, Enumerate, SaveToken, LoseToken, Rcids, LogType
  <2>2. ASSUME NEW o \in Options, Enumerate(r, o)  PROVE TypeOK'
    <3>. DEFINE first == FirstId(token[r], o)
                next == NextId(first, ReaderTypes[r], o)
                batch == Batch(first, ReaderTypes[r], o)
    <3>1. first \in 0..MaxChanges + 1 /\ first \in Nat
      BY FirstIdFacts, ParametersAreNumbers
    <3>2. next \in 0..MaxChanges + 1 /\ batch \subseteq published
      <4>1. /\ next \in Int /\ first <= next /\ batch \subseteq MatchingRows(first, ReaderTypes[r])
            /\ next = first \/ \E p \in db : next <= p + 1
        <5>. HIDE DEF first
        <5>. QED  BY <3>1, NextIdFacts
      <4>2. \A p \in db : p \in Int /\ p <= MaxChanges
        BY <1>0, LogFacts, ParametersAreNumbers DEF LogType
      <4>. HIDE DEF first, next, batch
      <4>. QED  BY <1>0, <3>1, <4>1, <4>2, ParametersAreNumbers DEF MatchingRows
    <3>3. delivered' = [delivered EXCEPT ![r] = @ \cup batch]
      BY <2>2 DEF Enumerate
    <3>4. work' = [work EXCEPT ![r] = [pc |-> "enumerated", first |-> first, next |-> next]]
      BY <2>2 DEF Enumerate
    <3>. HIDE DEF first, next, batch
    <3>5. delivered' \in [Readers -> SUBSET published] /\ work' \in [Readers -> WorkRecords]
      BY <1>0, <3>1, <3>2, <3>3, <3>4 DEF WorkRecords
    <3>. QED  BY <1>0, <2>1, <2>2, <3>5 DEF TypeOK, Enumerate
  <2>3. CASE SaveToken(r)
    <3>1. work[r] \in WorkRecords /\ work[r].next \in NoToken..MaxChanges + 1
      BY <1>0, ParametersAreNumbers DEF WorkRecords, NoToken
    <3>2. /\ token' \in [Readers -> NoToken..MaxChanges + 1]
          /\ origin' \in [Readers -> 0..MaxChanges + 1]
          /\ work' \in [Readers -> WorkRecords]
      BY <1>0, <2>3, <3>1, IdleRecords DEF SaveToken, WorkRecords
    <3>. QED  BY <1>0, <2>1, <2>3, <3>2 DEF TypeOK, SaveToken
  <2>4. CASE LoseToken(r)
    BY <1>0, <2>1, <2>4, IdleRecords DEF TypeOK, LoseToken
  <2>. QED  BY <1>5, <2>2, <2>3, <2>4 DEF ReaderStep
<1>6. CASE UNCHANGED vars
  BY <1>6 DEF vars, TypeOK, Rcids
<1>. QED  BY <1>1, <1>2, <1>3, <1>4, <1>5, <1>6 DEF Next, WikiStep

\* The types of the variables hold throughout every execution.
THEOREM TypeCorrect == Spec => []TypeOK
<1>. QED  BY TypeInitial, TypeStep, PTL DEF Spec

------------------------------------------------------------------------------
(* The safety of replication and of reading, when runs of updateDatabaseFromWiki do not overlap. *)

OneSyncer == \A s, t \in Syncers : s = t
Margins ==
  /\ SecondsToIgnore > StampLag + CommitLag
  /\ Overlap >= StampLag
  /\ KeepTime >= StampLag

\* The numbers the invariant compares.
LEMMA Numbers ==
  ASSUME TypeOK
  PROVE  /\ clock \in Int
         /\ \A c \in Rcids : c \in Int /\ 1 <= c /\ Stamp(c) \in Int /\ log[c].born \in Int
         /\ \A s \in Syncers : /\ sync[s].requested \in Int /\ sync[s].since \in Int
                               /\ sync[s].response \subseteq visible
         /\ db \subseteq Rcids /\ published \subseteq Rcids /\ visible \subseteq Rcids
         /\ \A r \in Readers : /\ token[r] \in Int /\ -1 <= token[r] /\ origin[r] \in Int
                               /\ work[r].first \in Int /\ work[r].next \in Int
                               /\ 0 <= work[r].first
         /\ baseline \in Int
         /\ SecondsToIgnore \in Int /\ Overlap \in Int /\ KeepTime \in Int
         /\ StampLag \in Int /\ CommitLag \in Int /\ MaxChanges \in Int
<1>1. /\ \A c \in Rcids : /\ c \in Int /\ 1 <= c /\ Stamp(c) \in Int
                          /\ log[c].born \in 0..MaxClock
      /\ db \subseteq Rcids /\ published \subseteq Rcids
  BY ClockType, LogFacts
<1>2. \A s \in Syncers : /\ sync[s].requested \in 0..MaxClock /\ sync[s].since \in Dates
                         /\ sync[s].response \subseteq visible
  BY DEF TypeOK, SyncRecords
<1>3. /\ Dates \subseteq Int /\ 0..MaxClock \subseteq Int /\ 0..MaxChanges + 1 \subseteq Nat
      /\ \A n \in NoToken..MaxChanges + 1 : n \in Int /\ -1 <= n
  BY ParametersAreNumbers DEF Dates, NoToken
<1>4. \A r \in Readers : /\ token[r] \in NoToken..MaxChanges + 1 /\ origin[r] \in 0..MaxChanges + 1
                         /\ work[r].first \in 0..MaxChanges + 1 /\ work[r].next \in 0..MaxChanges + 1
  BY DEF TypeOK, WorkRecords
<1>5. baseline \in 0..MaxChanges /\ visible \subseteq Rcids /\ clock \in 0..MaxClock
  BY DEF TypeOK
<1>6. /\ SecondsToIgnore \in Int /\ Overlap \in Int /\ KeepTime \in Int
      /\ StampLag \in Int /\ CommitLag \in Int /\ MaxChanges \in Int
  BY ParametersAreNumbers
<1>7. \A s \in Syncers : /\ sync[s].requested \in Int /\ sync[s].since \in Int
                         /\ sync[s].response \subseteq visible
  BY <1>2, <1>3
<1>8. \A r \in Readers : /\ token[r] \in Int /\ -1 <= token[r] /\ origin[r] \in Int
                         /\ work[r].first \in Int /\ work[r].next \in Int
                         /\ 0 <= work[r].first
  BY <1>3, <1>4
<1>9. /\ \A c \in Rcids : c \in Int /\ 1 <= c /\ Stamp(c) \in Int /\ log[c].born \in Int
      /\ baseline \in Int /\ clock \in Int
  BY <1>1, <1>3, <1>5, ParametersAreNumbers
<1>. QED  BY <1>1, <1>5, <1>6, <1>7, <1>8, <1>9

LEMMA InvariantInitial == Init => Inductive
<1>. SUFFICES ASSUME Init  PROVE Inductive
  OBVIOUS
<1>1. TypeOK /\ Rcids = {}
  BY TypeInitial DEF Init, Rcids
<1>. QED  BY <1>1 DEF Init, Inductive, LogOrder, TableOrder, NoGap, Supported, SyncWindow, NoSync,
                      ReaderCovers, Reached, Given, NoToken, NoWork

\* A new change has the latest time of assignment; nothing else looks at it yet.
LEMMA MakeChangeKeeps ==
  ASSUME Inductive, NEW kind \in Kinds, NEW lag \in 0..StampLag, MakeChange(kind, lag), TypeOK'
  PROVE  Inductive'
<1>. DEFINE n == Len(log) + 1
<1>1. /\ TypeOK /\ LogOrder /\ TableOrder /\ NoGap
      /\ \A s \in Syncers : SyncWindow(s)
      /\ \A r \in Readers : ReaderCovers(r)
  BY DEF Inductive
<1>2. /\ Rcids' = Rcids \cup {n} /\ n \in Int
      /\ \A c \in Rcids : log'[c] = log[c] /\ c \in Int /\ c < n
      /\ log'[n] = [stamp |-> clock - lag, born |-> clock, kind |-> kind]
  BY <1>1, LogGrows, LogFacts, ClockType
<1>3. UNCHANGED <<clock, visible, db, published, baseline, sync, token, work, delivered, origin>>
  BY DEF MakeChange, dbVars, readerVars
<1>4. db \subseteq Rcids /\ published \subseteq Rcids /\ visible \subseteq Rcids
  BY <1>1, Numbers
<1>. HIDE DEF n
<1>5. LogOrder'
  <2>1. lag \in Int /\ 0 <= lag /\ lag <= StampLag /\ CommitLag \in Nat
    BY ParametersAreNumbers
  <2>2. log'[n].stamp = clock - lag /\ log'[n].born = clock
    BY <1>2
  <2>3. \A c \in Rcids : Stamp(c)' = Stamp(c) /\ log'[c].born = log[c].born
    BY <1>2 DEF Stamp
  <2>4. ASSUME NEW c \in Rcids'
        PROVE  /\ Stamp(c)' <= log'[c].born /\ log'[c].born <= Stamp(c)' + StampLag
               /\ log'[c].born <= clock
               /\ c \notin visible => clock <= log'[c].born + CommitLag
    <3>1. CASE c \in Rcids
      BY <1>1, <2>3, <3>1 DEF LogOrder
    <3>2. CASE c = n
      <4>1. Stamp(c)' = clock - lag /\ log'[c].born = clock
        BY <2>2, <3>2 DEF Stamp
      <4>. QED  BY <1>1, <2>1, <4>1, Numbers
    <3>. QED  BY <1>2, <3>1, <3>2
  <2>5. ASSUME NEW c \in Rcids', NEW d \in Rcids', c <= d  PROVE log'[c].born <= log'[d].born
    <3>1. CASE d = n
      BY <1>1, <1>2, <2>2, <2>4, <3>1, Numbers
    <3>2. CASE d # n
      <4>1. d \in Rcids /\ c \in Rcids
        BY <1>2, <2>5, <3>2
      <4>. QED  BY <1>1, <2>3, <2>5, <4>1 DEF LogOrder
    <3>. QED  BY <3>1, <3>2
  <2>. QED  BY <1>3, <2>4, <2>5 DEF LogOrder
<1>6. TableOrder'
  BY <1>1, <1>2, <1>3, <1>4 DEF TableOrder, Supported, Stamp
<1>7. NoGap'
  <2>1. ASSUME NEW p \in published, NEW c \in Supported', c \in baseline..p  PROVE c \in published
    <3>1. c \in Rcids
      BY <1>1, <1>2, <1>4, <2>1, Numbers DEF Supported
    <3>2. c \in Supported
      BY <1>2, <2>1, <3>1 DEF Supported
    <3>. QED  BY <1>1, <2>1, <3>2 DEF NoGap
  <2>. QED  BY <1>3, <2>1 DEF NoGap
<1>8. ASSUME NEW s \in Syncers  PROVE SyncWindow(s)'
  <2>1. sync[s].response \subseteq Rcids
    BY <1>1, Numbers
  <2>2. sync[s].pc # "idle" => sync[s].requested <= clock /\ CommitLag \in Nat
    BY <1>1, ParametersAreNumbers DEF SyncWindow
  <2>3. sync[s].pc # "idle" => sync[s].requested <= clock + CommitLag
    BY <1>1, <2>2, Numbers
  <2>4. SyncWindow(s)
    BY <1>1
  <2>. QED  BY <1>2, <1>3, <1>4, <2>1, <2>3, <2>4 DEF SyncWindow, Stamp
<1>9. ASSUME NEW r \in Readers  PROVE ReaderCovers(r)'
  <2>1. \A c \in published : log'[c] = log[c]
    BY <1>2, <1>4
  <2>. QED  BY <1>1, <1>3, <2>1 DEF ReaderCovers, Reached, Given
<1>. QED  BY <1>5, <1>6, <1>7, <1>8, <1>9 DEF Inductive

\* Committing a change and the passing of time: no change gets invisible for longer than CommitLag.
LEMMA WikiKeeps ==
  ASSUME Inductive, (\E c \in Rcids : CommitChange(c)) \/ Tick, TypeOK'
  PROVE  Inductive'
<1>1. /\ TypeOK /\ LogOrder /\ TableOrder /\ NoGap
      /\ \A s \in Syncers : SyncWindow(s)
      /\ \A r \in Readers : ReaderCovers(r)
  BY DEF Inductive
<1>2. /\ UNCHANGED <<log, db, published, baseline, sync, token, work, delivered, origin>>
      /\ visible \subseteq visible' /\ clock <= clock' /\ clock' \in Int
      /\ \A c \in Rcids \ visible' : clock' <= log[c].born + CommitLag
  <2>1. CASE \E c \in Rcids : CommitChange(c)
    BY <1>1, <2>1, Numbers DEF CommitChange, LogOrder, dbVars, readerVars
  <2>2. CASE Tick
    BY <1>1, <2>2, Numbers DEF Tick, wikiVars, dbVars, readerVars
  <2>. QED  BY <2>1, <2>2
<1>3. Rcids' = Rcids /\ \A c \in Rcids : Stamp(c)' = Stamp(c)
  BY <1>2 DEF Rcids, Stamp
<1>4. LogOrder'
  BY <1>1, <1>2, <1>3, Numbers DEF LogOrder
<1>5. TableOrder' /\ NoGap'
  BY <1>1, <1>2, <1>3, Numbers DEF TableOrder, NoGap, Supported
<1>6. ASSUME NEW s \in Syncers  PROVE SyncWindow(s)'
  <2>1. SyncWindow(s) /\ sync[s].requested \in Int
    BY <1>1, Numbers
  <2>2. sync[s].requested <= clock => sync[s].requested <= clock'
    BY <1>1, <1>2, <2>1, Numbers
  <2>. QED  BY <1>1, <1>2, <1>3, <2>1, <2>2, Numbers DEF SyncWindow
<1>7. \A r \in Readers : ReaderCovers(r)'
  BY <1>1, <1>2 DEF ReaderCovers, Reached, Given
<1>. QED  BY <1>4, <1>5, <1>6, <1>7 DEF Inductive

\* What a run of updateDatabaseFromWiki holds before it writes.
LEMMA SyncKeeps ==
  ASSUME Inductive, OneSyncer, NEW s \in Syncers,
         BeginSync(s) \/ ReadFromWiki(s) \/ AbortSync(s), TypeOK'
  PROVE  Inductive'
<1>1. /\ TypeOK /\ LogOrder /\ TableOrder /\ NoGap /\ SyncWindow(s)
      /\ \A r \in Readers : ReaderCovers(r)
  BY DEF Inductive
<1>2. /\ UNCHANGED <<clock, log, visible, db, published, baseline, token, work, delivered, origin>>
  BY DEF BeginSync, ReadFromWiki, AbortSync, wikiVars, dbVars, readerVars
<1>3. LogOrder' /\ TableOrder' /\ NoGap' /\ \A r \in Readers : ReaderCovers(r)'
  BY <1>1, <1>2 DEF LogOrder, TableOrder, NoGap, Supported, Rcids, Stamp, ReaderCovers, Reached, Given
<1>4. Rcids' = Rcids /\ \A c \in Rcids : Stamp(c)' = Stamp(c)
  BY <1>2 DEF Rcids, Stamp
<1>5. /\ db \subseteq Rcids /\ visible \subseteq Rcids /\ sync[s].response \subseteq visible
      /\ LogType /\ clock \in Int /\ sync \in [Syncers -> SyncRecords(visible)]
  BY <1>1, Numbers, ClockType DEF TypeOK
<1>6. SyncWindow(s)'
  <2>1. CASE BeginSync(s)
    <3>1. db # {} => \E x \in db : EnumStart = Stamp(x) - Overlap
      BY <1>5, NewestExists DEF EnumStart, NewestStamp
    <3>2. sync'[s] = [pc |-> "reading", cold |-> db = {}, since |-> EnumStart,
                      requested |-> clock, response |-> {}]
      BY <1>5, <2>1 DEF BeginSync
    <3>3. /\ sync'[s].pc = "reading" /\ sync'[s].cold = (db = {})
          /\ sync'[s].since = EnumStart /\ sync'[s].requested = clock
      BY <3>2
    <3>4. db # {} => \E x \in db : sync'[s].since = Stamp(x)' - Overlap
      BY <1>4, <1>5, <3>1, <3>3
    <3>5. sync'[s].requested <= clock' /\ sync'[s].cold = (db' = {})
      BY <1>2, <1>5, <3>3
    <3>6. ~sync'[s].cold => \E x \in db' : sync'[s].since = Stamp(x)' - Overlap
      BY <1>2, <3>3, <3>4
    <3>. QED  BY <3>3, <3>5, <3>6 DEF SyncWindow
  <2>2. CASE ReadFromWiki(s) /\ ApiResponse(s) # {}
    <3>. DEFINE response == ApiResponse(s)
    <3>1. sync'[s] = [sync[s] EXCEPT !.pc = "fetched", !.response = response]
      BY <1>5, <2>2 DEF ReadFromWiki
    <3>2. /\ sync'[s].pc = "fetched" /\ sync'[s].response = response
          /\ sync'[s].cold = sync[s].cold /\ sync'[s].since = sync[s].since
          /\ sync'[s].requested = sync[s].requested /\ sync[s].pc = "reading"
      BY <1>5, <2>2, <3>1 DEF ReadFromWiki, SyncRecords
    <3>3. /\ sync[s].requested <= clock /\ sync[s].cold = (db = {})
          /\ ~sync[s].cold => \E x \in db : sync[s].since = Stamp(x) - Overlap
      BY <1>1, <3>2 DEF SyncWindow
    <3>4. ASSUME NEW c \in published \ db
          PROVE  \E z \in response : Stamp(c) + KeepTime < Stamp(z)
      <4>1. PICK z \in visible : Stamp(c) + KeepTime < Stamp(z)
        BY <1>1 DEF TableOrder
      <4>2. CASE sync[s].cold
        <5>1. response = {NewestFirst(visible)}
          BY <4>1, <4>2 DEF ApiResponse
        <5>2. NewestFirst(visible) \in visible /\ Stamp(z) <= Stamp(NewestFirst(visible))
          BY <1>5, <4>1, NewestExists DEF NewestStamp
        <5>3. Stamp(c) + KeepTime < Stamp(NewestFirst(visible))
          BY <1>1, <1>5, <4>1, <5>2, Numbers
        <5>. QED  BY <5>1, <5>3
      <4>3. CASE ~sync[s].cold
        <5>1. response = {x \in visible : Stamp(x) >= sync[s].since}
          BY <4>3 DEF ApiResponse
        <5>2. PICK x \in db : sync[s].since = Stamp(x) - Overlap
          BY <3>3, <4>3
        <5>3. x \in visible /\ x \in Rcids /\ z \in Rcids /\ c \in Rcids /\ Overlap \in Nat
          BY <1>1, <1>5, Numbers, ParametersAreNumbers DEF TypeOK
        <5>4. x \in response /\ (Stamp(z) >= Stamp(x) => z \in response)
          BY <1>1, <5>1, <5>2, <5>3, Numbers
        <5>5. Stamp(z) < Stamp(x) => Stamp(c) + KeepTime < Stamp(x)
          BY <1>1, <4>1, <5>3, Numbers
        <5>6. Stamp(z) \in Int /\ Stamp(x) \in Int
          BY <1>1, <5>3, Numbers
        <5>. QED  BY <4>1, <5>4, <5>5, <5>6
      <4>. QED  BY <4>2, <4>3
    <3>5. sync[s].cold => \A c, d \in response : c = d
      BY DEF ApiResponse
    <3>6. ASSUME ~sync[s].cold, NEW c \in Rcids \ response
          PROVE  Stamp(c) < sync[s].since \/ sync[s].requested <= log[c].born + CommitLag
      <4>1. c \notin visible \/ ~(Stamp(c) >= sync[s].since)
        BY <3>6 DEF ApiResponse
      <4>2. c \notin visible => clock <= log[c].born + CommitLag
        BY <1>1 DEF LogOrder
      <4>. QED  BY <1>1, <3>3, <4>1, <4>2, Numbers
    <3>. HIDE DEF response
    <3>7. response \subseteq Rcids /\ published \subseteq Rcids
      BY <1>1, <1>5, Numbers, NewestInWindow DEF response
    <3>. QED  BY <1>2, <1>4, <1>5, <2>2, <3>2, <3>3, <3>4, <3>5, <3>6, <3>7 DEF SyncWindow, response
  <2>3. CASE sync'[s] = NoSync
    BY <2>3 DEF SyncWindow, NoSync
  <2>. QED  BY <1>5, <2>1, <2>2, <2>3 DEF ReadFromWiki, AbortSync
<1>. QED  BY <1>3, <1>6 DEF Inductive, OneSyncer

\* What a write does to the table: nothing comes back, and what is new comes after everything else.
LEMMA WriteFacts ==
  ASSUME Inductive, Margins, NEW s \in Syncers, WriteToDatabase(s)
  PROVE  /\ published \subseteq published' /\ db' \subseteq published'
         /\ published' \subseteq Rcids /\ published' = published \cup Inserted(s)
         /\ \A c \in published \ db : c \notin db'
         /\ \A c \in published' \ published : \A p \in published : p < c
<1>1. /\ TypeOK /\ LogOrder /\ TableOrder /\ NoGap /\ SyncWindow(s)
      /\ LogType /\ db \subseteq Rcids /\ visible \subseteq Rcids /\ published \subseteq Rcids
      /\ db \subseteq published /\ sync[s].response \subseteq visible
  BY Numbers, ClockType DEF Inductive, TypeOK
<1>2. /\ sync[s].pc = "fetched"
      /\ db' = (db \cup Inserted(s)) \ Expired(s)
      /\ published' = published \cup Inserted(s)
  BY DEF WriteToDatabase
<1>3. /\ Inserted(s) \subseteq sync[s].response /\ Inserted(s) \subseteq Supported
      /\ \A c \in Inserted(s), d \in db : c > d
  BY <1>1 DEF Inserted, Supported
<1>4. ASSUME NEW c \in published \ db  PROVE c \notin db'
  <2>1. PICK z \in sync[s].response : Stamp(c) + KeepTime < Stamp(z)
    BY <1>1, <1>2 DEF SyncWindow
  <2>2. /\ NewestFirst(sync[s].response) \in sync[s].response
        /\ Stamp(z) <= NewestStamp(sync[s].response)
    BY <1>1, <2>1, NewestExists
  <2>3. NewestStamp(sync[s].response) \in Int /\ Stamp(c) \in Int /\ Stamp(z) \in Int /\ KeepTime \in Int
    BY <1>1, <2>2, Numbers DEF NewestStamp
  <2>4. Stamp(c) < DropBefore(s)
    BY <2>1, <2>2, <2>3 DEF DropBefore
  <2>. QED  BY <1>2, <2>4 DEF Expired
<1>5. ASSUME NEW c \in published' \ published, NEW p \in published  PROVE p < c
  <2>1. c \in Inserted(s) /\ c \in Supported /\ c \in sync[s].response /\ c \in Rcids /\ p \in Rcids
    BY <1>1, <1>2, <1>3
  <2>2. CASE db # {}
    <3>1. PICK d \in db : TRUE
      BY <2>2
    <3>2. baseline <= d /\ d < c /\ d \in Int /\ baseline \in Int /\ c \in Int /\ p \in Int
      BY <1>1, <1>3, <2>1, Numbers DEF TableOrder
    <3>3. c <= p => c \in baseline..p
      BY <3>2
    <3>. QED  BY <1>1, <2>1, <3>2, <3>3 DEF NoGap
  <2>3. CASE db = {}
    <3>1. PICK z \in sync[s].response : Stamp(p) + KeepTime < Stamp(z)
      BY <1>1, <1>2, <2>3 DEF SyncWindow
    <3>2. z = c
      BY <1>1, <1>2, <2>1, <2>3, <3>1 DEF SyncWindow
    <3>3. /\ log[p].born <= Stamp(p) + StampLag /\ Stamp(c) <= log[c].born
          /\ c <= p => log[c].born <= log[p].born
      BY <1>1, <2>1 DEF LogOrder
    <3>4. /\ log[p].born \in Int /\ log[c].born \in Int /\ Stamp(p) \in Int /\ Stamp(c) \in Int
          /\ StampLag \in Int /\ KeepTime \in Int /\ StampLag <= KeepTime /\ c \in Int /\ p \in Int
      BY <1>1, <2>1, Numbers DEF Margins
    <3>. QED  BY <3>1, <3>2, <3>3, <3>4
  <2>. QED  BY <2>2, <2>3
<1>6. published' \subseteq Rcids /\ db' \subseteq published'
  BY <1>1, <1>2, <1>3
<1>. QED  BY <1>2, <1>4, <1>5, <1>6

\* A reader stays covered when rows come at the end of the table and others expire.
LEMMA CoverageSurvivesWrite ==
  ASSUME Inductive, Margins, NEW s \in Syncers, WriteToDatabase(s), NEW r \in Readers
  PROVE  ReaderCovers(r)'
<1>1. TypeOK /\ ReaderCovers(r)
  BY DEF Inductive
<1>2. UNCHANGED <<log, token, work, delivered, origin>>
  BY DEF WriteToDatabase, wikiVars, readerVars
<1>3. ASSUME NEW n \in Int, Reached(n)  PROVE n = 0 \/ \E p \in published' : n <= p + 1
  BY <1>3, WriteFacts DEF Reached
<1>4. ASSUME NEW n \in Int, Reached(n) \/ n = -1, NEW c \in published' \ published
      PROVE  n <= c
  <2>1. c \in Int /\ 1 <= c
    BY <1>1, WriteFacts, Numbers
  <2>2. ASSUME NEW p \in published, n <= p + 1  PROVE n <= c
    <3>1. p < c /\ p \in Int
      BY <1>1, WriteFacts, Numbers
    <3>. QED  BY <2>1, <2>2, <3>1
  <2>. QED  BY <1>4, <2>1, <2>2 DEF Reached
<1>5. ASSUME NEW from \in Int, NEW to \in Int, Reached(to) \/ to = -1, Given(r, from, to)
      PROVE  \A c \in published' : /\ log[c].kind \in ReaderTypes[r]
                                   /\ from <= c /\ c < to
                                   => c \in delivered[r] \/ c \notin db'
  <2>1. ASSUME NEW c \in published', log[c].kind \in ReaderTypes[r], from <= c, c < to
        PROVE  c \in delivered[r] \/ c \notin db'
    <3>1. CASE c \in published
      BY <1>5, <2>1, <3>1, WriteFacts DEF Given
    <3>2. CASE c \notin published
      <4>1. to <= c /\ c \in Int
        BY <1>1, <1>4, <1>5, <3>2, WriteFacts, Numbers
      <4>. QED  BY <2>1, <4>1
    <3>. QED  BY <3>1, <3>2
  <2>. QED  BY <2>1
<1>6. /\ token[r] \in Int /\ origin[r] \in Int /\ work[r].first \in Int /\ work[r].next \in Int
  BY <1>1, Numbers
<1>7. token[r] = NoToken \/ Reached(token[r])'
  BY <1>1, <1>2, <1>3, <1>6 DEF ReaderCovers, Reached
<1>8. Reached(work[r].next)'
  BY <1>1, <1>2, <1>3, <1>6 DEF ReaderCovers, Reached
<1>9. Given(r, origin[r], token[r])'
  <2>1. (Reached(token[r]) \/ token[r] = -1) /\ Given(r, origin[r], token[r])
    BY <1>1 DEF ReaderCovers, NoToken
  <2>2. \A c \in published' : /\ log[c].kind \in ReaderTypes[r]
                              /\ origin[r] <= c /\ c < token[r]
                              => c \in delivered[r] \/ c \notin db'
    BY <1>5, <1>6, <2>1
  <2>. QED  BY <1>2, <2>2 DEF Given
<1>10. work[r].pc = "enumerated" => Given(r, work[r].first, work[r].next)'
  <2>1. ASSUME work[r].pc = "enumerated"
        PROVE  \A c \in published' : /\ log[c].kind \in ReaderTypes[r]
                                     /\ work[r].first <= c /\ c < work[r].next
                                     => c \in delivered[r] \/ c \notin db'
    <3>1. Reached(work[r].next) /\ Given(r, work[r].first, work[r].next)
      BY <1>1, <2>1 DEF ReaderCovers
    <3>. QED  BY <1>5, <1>6, <3>1
  <2>. QED  BY <1>2, <2>1 DEF Given
<1>11. work[r].pc = "enumerated" =>
          /\ token[r] <= work[r].first /\ work[r].first <= work[r].next
          /\ \/ work[r].first = token[r] \/ token[r] = NoToken
             \/ work[r].first \in published' /\ \E o \in Options : o.startAge # NoAge
  BY <1>1, WriteFacts DEF ReaderCovers
<1>. QED  BY <1>1, <1>2, <1>7, <1>8, <1>9, <1>10, <1>11 DEF ReaderCovers

\* A write leaves no hole: a change it cannot see makes it ignore every change that could follow.
LEMMA WriteLeavesNoGap ==
  ASSUME Inductive, Margins, NEW s \in Syncers, WriteToDatabase(s), TypeOK'
  PROVE  NoGap'
<1>1. /\ TypeOK /\ LogOrder /\ TableOrder /\ NoGap /\ SyncWindow(s)
      /\ LogType /\ db \subseteq Rcids /\ published \subseteq Rcids
      /\ db \subseteq published /\ sync[s].response \subseteq Rcids
  BY Numbers, ClockType DEF Inductive, TypeOK
<1>2. /\ sync[s].pc = "fetched" /\ published' = published \cup Inserted(s)
      /\ baseline' = IF db = {} /\ Inserted(s) # {} THEN Lowest(Inserted(s)) ELSE baseline
      /\ UNCHANGED <<log>>
  BY DEF WriteToDatabase, wikiVars
<1>3. Inserted(s) \subseteq sync[s].response
  BY DEF Inserted
<1>4. SUFFICES ASSUME NEW p \in published', NEW c \in Supported, c \in baseline'..p
               PROVE  c \in published'
  BY <1>2 DEF NoGap, Supported, Rcids
<1>5. c \in Rcids /\ p \in Rcids /\ c \in Int /\ p \in Int /\ baseline' \in Int
  <2>1. c \in Rcids
    BY DEF Supported
  <2>2. p \in Rcids
    BY <1>1, <1>2, <1>3
  <2>3. baseline' \in Int
    BY ParametersAreNumbers DEF TypeOK
  <2>. QED  BY <2>1, <2>2, <2>3, <1>1, Numbers
<1>6. baseline' <= c /\ c <= p
  BY <1>4, <1>5
<1>7. CASE db = {} /\ Inserted(s) # {}
  <2>1. \A x, y \in Inserted(s) : x = y
    BY <1>1, <1>2, <1>3, <1>7 DEF SyncWindow
  <2>2. PICK y \in Inserted(s) : Inserted(s) = {y}
    BY <1>7, <2>1
  <2>3. baseline' = y
    BY <1>1, <1>2, <1>3, <1>7, <2>2, Numbers DEF Lowest
  <2>4. y \in Int /\ y \in published'
    BY <1>1, <1>2, <1>3, <2>2, Numbers
  <2>5. CASE p \in published /\ y \in published
    <3>1. baseline' = y /\ \A z \in sync[s].response : z = y
      BY <1>1, <1>2, <1>3, <1>7, <2>2, <2>3 DEF SyncWindow
    <3>2. PICK z \in sync[s].response : Stamp(y) + KeepTime < Stamp(z)
      BY <1>1, <1>2, <1>7, <2>5 DEF SyncWindow
    <3>. QED  BY <1>1, <2>4, <2>5, <3>1, <3>2, Numbers, ParametersAreNumbers
  <2>6. CASE p \in published /\ y \notin published
    <3>1. p < y
      BY <2>4, <2>6, WriteFacts
    <3>. QED  BY <1>5, <1>6, <2>3, <2>4, <3>1
  <2>7. CASE p = y
    BY <1>5, <1>6, <2>3, <2>4, <2>7
  <2>. QED  BY <1>2, <2>2, <2>5, <2>6, <2>7
<1>8. CASE db # {} \/ Inserted(s) = {}
  <2>1. baseline' = baseline
    BY <1>2, <1>8
  <2>2. ASSUME NEW q \in published, c <= q  PROVE c \in published'
    <3>1. c \in baseline..q
      BY <1>1, <1>5, <1>6, <2>1, <2>2, Numbers
    <3>. QED  BY <1>1, <1>2, <3>1 DEF NoGap
  <2>3. SUFFICES ASSUME p \in Inserted(s), \A q \in published : q < c, c \notin published
                 PROVE  c \in Inserted(s)
    BY <1>1, <1>2, <1>5, <1>6, <2>2, Numbers
  <2>4. db # {} /\ ~sync[s].cold /\ p \in sync[s].response /\ CommitLag \in Nat /\ StampLag \in Nat
    BY <1>1, <1>2, <1>3, <1>8, <2>3, ParametersAreNumbers DEF SyncWindow
  <2>5. SecondsToIgnore > 0
    BY <2>4, ParametersAreNumbers DEF Margins
  <2>6. TooYoung(s) = {x \in sync[s].response : Stamp(x) > sync[s].requested - SecondsToIgnore}
    BY <2>4, <2>5 DEF TooYoung
  <2>7. \A y \in TooYoung(s) : p < y /\ c < y /\ y \in Int
    <3>1. \A y \in TooYoung(s) : p < y /\ y \in Int
      BY <1>1, <2>3, <2>6, Numbers DEF Inserted
    <3>. QED  BY <1>5, <1>6, <3>1
  <2>8. CASE c \in sync[s].response
    BY <1>1, <1>4, <2>3, <2>7, <2>8, Numbers DEF Inserted, Supported
  <2>9. CASE c \notin sync[s].response
    <3>1. /\ Stamp(c) \in Int /\ log[c].born \in Int /\ Stamp(p) \in Int /\ log[p].born \in Int
          /\ sync[s].requested \in Int /\ sync[s].since \in Int
      BY <1>1, <1>5, Numbers
    <3>2. /\ Stamp(c) <= log[c].born /\ log[c].born <= Stamp(c) + StampLag
          /\ log[p].born <= Stamp(p) + StampLag
          /\ log[c].born <= log[p].born
      BY <1>1, <1>5, <1>6 DEF LogOrder
    <3>3. CASE Stamp(c) < sync[s].since
      <4>1. PICK x \in db : sync[s].since = Stamp(x) - Overlap
        BY <1>1, <1>2, <2>4 DEF SyncWindow
      <4>2. x \in Rcids /\ x < c /\ x \in Int
        BY <1>1, <2>3, Numbers
      <4>3. /\ Stamp(x) <= log[x].born /\ log[x].born <= log[c].born
            /\ Stamp(x) \in Int /\ log[x].born \in Int /\ Overlap \in Int /\ Overlap >= StampLag
        BY <1>1, <1>5, <4>2, Numbers DEF LogOrder, Margins
      <4>. QED  BY <2>4, <3>1, <3>2, <3>3, <4>1, <4>3
    <3>4. CASE sync[s].requested <= log[c].born + CommitLag
      <4>1. SecondsToIgnore > StampLag + CommitLag /\ SecondsToIgnore \in Int
        BY <1>1, Numbers DEF Margins
      <4>2. Stamp(p) > sync[s].requested - SecondsToIgnore
        BY <2>4, <3>1, <3>2, <3>4, <4>1
      <4>3. p \in TooYoung(s)
        BY <2>4, <2>6, <4>2
      <4>. QED  BY <1>5, <2>7, <4>3
    <3>. QED  BY <1>1, <1>2, <1>5, <2>4, <2>9, <3>3, <3>4 DEF SyncWindow
  <2>. QED  BY <2>8, <2>9
<1>. QED  BY <1>7, <1>8

LEMMA WriteKeeps ==
  ASSUME Inductive, Margins, OneSyncer, NEW s \in Syncers, WriteToDatabase(s), TypeOK'
  PROVE  Inductive'
<1>1. /\ TypeOK /\ LogOrder /\ TableOrder /\ SyncWindow(s)
      /\ LogType /\ db \subseteq Rcids /\ visible \subseteq Rcids /\ published \subseteq Rcids
      /\ sync[s].response \subseteq visible
      /\ sync \in [Syncers -> SyncRecords(visible)]
  BY Numbers, ClockType DEF Inductive, TypeOK
<1>2. /\ sync[s].pc = "fetched" /\ sync' = [sync EXCEPT ![s] = NoSync]
      /\ db' = (db \cup Inserted(s)) \ Expired(s)
      /\ published' = published \cup Inserted(s)
      /\ baseline' = IF db = {} /\ Inserted(s) # {} THEN Lowest(Inserted(s)) ELSE baseline
      /\ UNCHANGED <<clock, log, visible>>
  BY DEF WriteToDatabase, wikiVars
<1>3. Rcids' = Rcids /\ \A c \in Rcids : Stamp(c)' = Stamp(c)
  BY <1>2 DEF Rcids, Stamp
<1>4. LogOrder'
  BY <1>1, <1>2, <1>3 DEF LogOrder
<1>5. /\ Inserted(s) \subseteq sync[s].response /\ Inserted(s) \subseteq Supported
      /\ \A c \in Inserted(s), d \in db : c > d
  BY <1>1 DEF Inserted, Supported
<1>6. TableOrder'
  <2>1. published' \subseteq Supported'
    BY <1>1, <1>2, <1>5 DEF TableOrder, Supported, Rcids
  <2>2. ASSUME NEW d \in db'  PROVE baseline' <= d
    <3>1. d \in db \cup Inserted(s) /\ \A x \in db \cup Inserted(s) : x \in Int /\ 1 <= x
      BY <1>1, <1>2, <1>5, Numbers
    <3>2. CASE db = {}
      <4>1. d \in Inserted(s) /\ baseline' = Lowest(Inserted(s))
        BY <1>2, <3>1, <3>2
      <4>2. Inserted(s) \subseteq Nat
        BY <3>1
      <4>3. \E x \in Inserted(s) : \A y \in Inserted(s) : x <= y
        BY <4>1, <4>2, LeastNatural
      <4>. QED  BY <4>1, <4>3, Zenon DEF Lowest
    <3>3. CASE db # {}
      <4>1. PICK x \in db : TRUE
        BY <3>3
      <4>2. baseline' = baseline /\ baseline <= x /\ baseline \in Int /\ (d \in db => baseline <= d)
        BY <1>1, <1>2, <3>3, Numbers DEF TableOrder
      <4>3. d \in Inserted(s) => x < d
        BY <1>5, <4>1, <3>1
      <4>. QED  BY <3>1, <4>2, <4>3
    <3>. QED  BY <3>2, <3>3
  <2>3. ASSUME NEW c \in published' \ db'
        PROVE  \E z \in visible : Stamp(c) + KeepTime < Stamp(z)
    <3>1. CASE c \in published \ db
      BY <1>1, <3>1 DEF TableOrder
    <3>2. CASE c \notin published \ db
      <4>1. c \in Expired(s) /\ c \in Rcids
        BY <1>1, <1>2, <1>5, <2>3, <3>2
      <4>2. Stamp(c) < NewestStamp(sync[s].response) - KeepTime
        BY <4>1 DEF Expired, DropBefore
      <4>3. sync[s].response # {} /\ sync[s].response \subseteq Rcids
        BY <1>1, <1>2 DEF SyncWindow
      <4>4. NewestFirst(sync[s].response) \in sync[s].response
        BY <1>1, <4>3, NewestExists
      <4>5. Stamp(c) + KeepTime < Stamp(NewestFirst(sync[s].response))
        BY <1>1, <4>1, <4>2, <4>3, <4>4, Numbers DEF NewestStamp
      <4>. QED  BY <1>1, <4>4, <4>5
    <3>. QED  BY <3>1, <3>2
  <2>4. published' \subseteq Rcids
    BY <1>1, <1>2, <1>5
  <2>. QED  BY <1>1, <1>2, <1>3, <2>1, <2>2, <2>3, <2>4 DEF TableOrder
<1>7. SyncWindow(s)'
  <2>1. sync'[s].pc = "idle"
    BY <1>1, <1>2 DEF NoSync
  <2>. QED  BY <2>1 DEF SyncWindow
<1>. QED  BY <1>4, <1>6, <1>7, WriteLeavesNoGap, CoverageSurvivesWrite DEF Inductive, OneSyncer

\* A reader goes over every matching row between the start of its enumeration and the new token.
LEMMA ReaderKeeps ==
  ASSUME Inductive, NEW r \in Readers, ReaderStep(r), TypeOK'
  PROVE  Inductive'
<1>1. /\ TypeOK /\ LogOrder /\ TableOrder /\ NoGap
      /\ \A s \in Syncers : SyncWindow(s)
      /\ \A q \in Readers : ReaderCovers(q)
      /\ db \subseteq published /\ published \subseteq Rcids
      /\ delivered \in [Readers -> SUBSET published] /\ token \in [Readers -> NoToken..MaxChanges + 1]
      /\ work \in [Readers -> WorkRecords] /\ origin \in [Readers -> 0..MaxChanges + 1]
  BY Numbers DEF Inductive, TypeOK
<1>2. /\ UNCHANGED <<clock, log, visible, db, published, baseline, sync>>
      /\ \A q \in Readers \ {r} : /\ token'[q] = token[q] /\ work'[q] = work[q]
                                  /\ delivered'[q] = delivered[q] /\ origin'[q] = origin[q]
  BY <1>1 DEF ReaderStep, Enumerate, SaveToken, LoseToken, wikiVars, dbVars
<1>3. LogOrder' /\ TableOrder' /\ NoGap' /\ \A s \in Syncers : SyncWindow(s)'
  <2>1. LogOrder'
    BY <1>1, <1>2 DEF LogOrder, Rcids, Stamp
  <2>2. TableOrder'
    BY <1>1, <1>2 DEF TableOrder, Supported, Rcids, Stamp
  <2>3. NoGap'
    BY <1>1, <1>2 DEF NoGap, Supported, Rcids
  <2>4. ASSUME NEW s \in Syncers  PROVE SyncWindow(s)'
    <3>1. SyncWindow(s)
      BY <1>1
    <3>. QED  BY <1>2, <3>1 DEF SyncWindow, Supported, Rcids, Stamp
  <2>. QED  BY <2>1, <2>2, <2>3, <2>4
<1>4. \A q \in Readers \ {r} : ReaderCovers(q)'
  BY <1>1, <1>2 DEF ReaderCovers, Reached, Given
<1>5. /\ token[r] = NoToken \/ Reached(token[r])
      /\ Reached(work[r].next)
      /\ Given(r, origin[r], token[r])
      /\ token[r] \in Int /\ origin[r] \in Int /\ work[r].first \in Int /\ work[r].next \in Int
      /\ -1 <= token[r]
  BY <1>1, Numbers DEF ReaderCovers
<1>6. ASSUME NEW o \in Options, Enumerate(r, o)  PROVE ReaderCovers(r)'
  <2>. DEFINE first == FirstId(token[r], o)
              next == NextId(first, ReaderTypes[r], o)
              batch == Batch(first, ReaderTypes[r], o)
  <2>1. /\ first \in 0..MaxChanges + 1 /\ token[r] <= first
        /\ first \in {0, token[r]} \/ \E p \in db : first <= p + 1
        /\ first = token[r] \/ token[r] = NoToken \/ (first \in db /\ o.startAge # NoAge)
    BY <1>1, FirstIdFacts
  <2>2. first \in Nat
    BY <2>1, ParametersAreNumbers
  <2>3. /\ batch \subseteq db /\ next \in Int /\ first <= next
        /\ next = first \/ \E p \in db : next <= p + 1
        /\ \A c \in MatchingRows(first, ReaderTypes[r]) : c < next => c \in batch
    <3>. HIDE DEF first
    <3>. QED  BY <1>1, <2>2, NextIdFacts DEF MatchingRows
  <2>4. /\ delivered'[r] = delivered[r] \cup batch /\ token'[r] = token[r] /\ origin'[r] = origin[r]
        /\ work'[r] = [pc |-> "enumerated", first |-> first, next |-> next]
    BY <1>1, <1>6 DEF Enumerate
  <2>. HIDE DEF first, next, batch
  <2>5. work'[r].first = first /\ work'[r].next = next
    BY <2>4
  <2>6. first = 0 \/ \E p \in published : first <= p + 1
    BY <1>1, <1>5, <2>1, <2>2 DEF Reached, NoToken
  <2>7. next = 0 \/ \E p \in published : next <= p + 1
    BY <1>1, <2>3, <2>6
  <2>8. ASSUME NEW c \in published, log[c].kind \in ReaderTypes[r], first <= c, c < next
        PROVE  c \in delivered[r] \cup batch \/ c \notin db
    BY <2>3, <2>8 DEF MatchingRows
  <2>9. Given(r, work[r].first, work[r].next)'
    BY <1>2, <2>4, <2>5, <2>8 DEF Given
  <2>10. Given(r, origin[r], token[r])'
    BY <1>2, <1>5, <2>4 DEF Given
  <2>11. \/ first = token[r] \/ token[r] = NoToken
         \/ first \in published /\ \E q \in Options : q.startAge # NoAge
    BY <1>1, <2>1
  <2>. QED  BY <1>2, <1>5, <2>1, <2>3, <2>4, <2>5, <2>7, <2>9, <2>10, <2>11
            DEF ReaderCovers, Reached
<1>7. ASSUME SaveToken(r)  PROVE ReaderCovers(r)'
  <2>1. /\ work[r].pc = "enumerated" /\ token'[r] = work[r].next /\ work'[r] = NoWork
        /\ delivered'[r] = delivered[r]
        /\ origin'[r] = IF token[r] = NoToken \/ work[r].first > token[r] THEN work[r].first
                        ELSE origin[r]
    BY <1>1, <1>7 DEF SaveToken
  <2>2. /\ token[r] <= work[r].first /\ work[r].first <= work[r].next
        /\ Given(r, work[r].first, work[r].next)
    BY <1>1, <2>1 DEF ReaderCovers
  <2>3. ASSUME NEW c \in published, log[c].kind \in ReaderTypes[r],
               origin'[r] <= c, c < work[r].next
        PROVE  c \in delivered[r] \/ c \notin db
    <3>1. c \in Int
      BY <1>1, Numbers
    <3>2. CASE work[r].first <= c
      BY <2>2, <2>3, <3>2 DEF Given
    <3>3. CASE ~(work[r].first <= c)
      <4>1. origin'[r] = origin[r] /\ work[r].first = token[r]
        BY <1>5, <2>1, <2>2, <2>3, <3>1, <3>3
      <4>. QED  BY <1>5, <2>3, <3>1, <3>3, <4>1 DEF Given
    <3>. QED  BY <3>2, <3>3
  <2>4. Given(r, origin[r], token[r])'
    BY <1>2, <2>1, <2>3 DEF Given
  <2>. QED  BY <1>2, <1>5, <2>1, <2>4 DEF ReaderCovers, Reached, NoWork
<1>8. ASSUME LoseToken(r)  PROVE ReaderCovers(r)'
  <2>1. /\ work'[r] = NoWork /\ token'[r] = token[r] /\ delivered'[r] = delivered[r]
        /\ origin'[r] = origin[r]
    BY <1>1, <1>8 DEF LoseToken
  <2>. QED  BY <1>2, <1>5, <2>1 DEF ReaderCovers, Reached, Given, NoWork
<1>9. ReaderCovers(r)'
  BY <1>6, <1>7, <1>8 DEF ReaderStep
<1>. QED  BY <1>3, <1>4, <1>9 DEF Inductive

LEMMA InvariantStep ==
  ASSUME Margins, OneSyncer
  PROVE  Inductive /\ [Next]_vars => Inductive'
<1>. SUFFICES ASSUME Inductive, [Next]_vars  PROVE Inductive'
  OBVIOUS
<1>1. TypeOK'
  BY TypeStep DEF Inductive
<1>2. ASSUME NEW kind \in Kinds, NEW lag \in 0..StampLag, MakeChange(kind, lag)  PROVE Inductive'
  BY <1>1, <1>2, MakeChangeKeeps
<1>3. CASE (\E c \in Rcids : CommitChange(c)) \/ Tick
  BY <1>1, <1>3, WikiKeeps
<1>4. ASSUME NEW s \in Syncers, SyncStep(s)  PROVE Inductive'
  BY <1>1, <1>4, SyncKeeps, WriteKeeps DEF SyncStep
<1>5. ASSUME NEW r \in Readers, ReaderStep(r)  PROVE Inductive'
  BY <1>1, <1>5, ReaderKeeps
<1>6. CASE UNCHANGED vars
  BY <1>6 DEF vars, wikiVars, dbVars, readerVars, Inductive, TypeOK, LogOrder, TableOrder, NoGap,
              Supported, Rcids, Stamp, SyncWindow, ReaderCovers, Reached, Given
<1>. QED  BY <1>2, <1>3, <1>4, <1>5, <1>6 DEF Next, WikiStep

\* The invariant holds throughout every execution where runs do not overlap.
THEOREM InvariantHolds ==
  ASSUME Margins, OneSyncer
  PROVE  Spec => []Inductive
<1>. QED  BY InvariantInitial, InvariantStep, PTL DEF Spec

\* The table has no hole, whatever the delays of the wiki within the margins the code counts on.
THEOREM TableHasNoGap ==
  ASSUME Margins, OneSyncer
  PROVE  Spec => []NoGap
<1>1. Inductive => NoGap
  BY DEF Inductive
<1>. QED  BY <1>1, InvariantHolds, PTL

\* A reader is given every supported change of its types behind its token.
THEOREM ReadersAreComplete ==
  ASSUME Margins, OneSyncer
  PROVE  Spec => []ReaderComplete
<1>1. Inductive => ReaderComplete
  <2>. SUFFICES ASSUME Inductive, NEW r \in Readers, NEW c \in Supported,
                       log[c].kind \in ReaderTypes[r], origin[r] <= c, baseline <= c, c < token[r]
                PROVE  c \in delivered[r] \/ c \in published \ db
    BY DEF ReaderComplete
  <2>1. TypeOK /\ NoGap /\ ReaderCovers(r) /\ c \in Rcids
    BY DEF Inductive, Supported
  <2>2. c \in Int /\ 1 <= c /\ token[r] \in Int /\ baseline \in Int /\ token[r] # NoToken
    BY <2>1, Numbers DEF NoToken
  <2>3. PICK p \in published : token[r] <= p + 1
    BY <2>1, <2>2 DEF ReaderCovers, Reached
  <2>4. p \in Int
    BY <2>1, <2>3, Numbers
  <2>5. c \in baseline..p
    BY <2>2, <2>3, <2>4
  <2>6. c \in published
    BY <2>1, <2>5 DEF NoGap
  <2>. QED  BY <2>1, <2>6 DEF ReaderCovers, Given
<1>. QED  BY <1>1, InvariantHolds, PTL

\* A row is only published by a write, above the published rows and not below a token.
LEMMA NewRowsComeLast ==
  ASSUME Inductive, Margins, [Next]_vars, NEW c \in published' \ published
  PROVE  /\ \A p \in published : p < c
         /\ \A r \in Readers : token[r] <= c /\ work[r].next <= c
<1>1. PICK s \in Syncers : WriteToDatabase(s)
  BY DEF Next, WikiStep, SyncStep, ReaderStep, MakeChange, CommitChange, Tick, BeginSync,
         ReadFromWiki, AbortSync, Enumerate, SaveToken, LoseToken, vars, dbVars
<1>2. /\ \A p \in published : p < c
      /\ published' \subseteq Rcids /\ TypeOK
  BY <1>1, WriteFacts DEF Inductive
<1>3. c \in Int /\ 1 <= c /\ \A p \in published : p \in Int /\ p < c
  BY <1>2, Numbers
<1>4. ASSUME NEW n \in Int, Reached(n)  PROVE n <= c
  BY <1>3, <1>4 DEF Reached
<1>5. ASSUME NEW r \in Readers  PROVE token[r] <= c /\ work[r].next <= c
  <2>1. /\ token[r] = NoToken \/ Reached(token[r])
        /\ Reached(work[r].next) /\ token[r] \in Int /\ work[r].next \in Int
    BY <1>2, Numbers DEF Inductive, ReaderCovers
  <2>. QED  BY <1>3, <1>4, <2>1 DEF NoToken
<1>. QED  BY <1>3, <1>5

\* A row never appears before a published row, nor behind a saved or pending token.
THEOREM NoRowComesLate ==
  ASSUME Margins, OneSyncer
  PROVE  Spec => NoLateRow
<1>1. Inductive /\ [Next]_vars =>
        [\A c \in published' \ published :
            /\ \A p \in published : p < c
            /\ \A r \in Readers : token[r] <= c /\ work[r].next <= c]_<<published>>
  BY NewRowsComeLast
<1>. QED  BY <1>1, InvariantHolds, PTL DEF Spec, NoLateRow

------------------------------------------------------------------------------
(* Live replication implements the feed that bots rely on. *)

LEMMA RowFacts ==
  /\ \A c, d : Row(c) = Row(d) => c = d
  /\ \A S, T : S \subseteq T => Rows(S) \subseteq Rows(T)
  /\ \A S : \A x \in Rows(S) : \E c \in S : x = Row(c) /\ x.id = c /\ x.kind = log[c].kind
  /\ \A S : \A c \in S : Row(c) \in Rows(S)
BY DEF Row, Rows

\* The feed does not change with steps that leave the table and the readers alone.
LEMMA FeedStutters ==
  ASSUME TypeOK, UNCHANGED <<published, db, token, delivered>>, \A c \in Rcids : log'[c] = log[c]
  PROVE  UNCHANGED Feed!vars
<1>1. /\ published \subseteq Rcids /\ published \ db \subseteq Rcids
      /\ \A r \in Readers : delivered[r] \subseteq Rcids
  BY Numbers DEF TypeOK
<1>2. ASSUME NEW S, S \subseteq Rcids
      PROVE  {[id |-> c, kind |-> log'[c].kind] : c \in S} = {[id |-> c, kind |-> log[c].kind] : c \in S}
  BY <1>2
<1>. QED  BY <1>1, <1>2 DEF Feed!vars, Rows, Row

LEMMA WriteIsUpdate ==
  ASSUME Inductive, Margins, NEW s \in Syncers, WriteToDatabase(s), [Next]_vars
  PROVE  Feed!Update
<1>1. UNCHANGED <<log, token, delivered>>
  BY DEF WriteToDatabase, wikiVars, readerVars
<1>2. /\ published \subseteq published' /\ published \ db \subseteq published' \ db'
      /\ db \subseteq published /\ db' \subseteq published'
  BY WriteFacts DEF Inductive, TypeOK
<1>3. /\ Rows(published)' = Rows(published') /\ Rows(published \ db)' = Rows(published' \ db')
      /\ UNCHANGED [r \in Readers |-> Rows(delivered[r])]
  BY <1>1 DEF Rows, Row
<1>4. /\ Rows(published) \subseteq Rows(published)'
      /\ Rows(published \ db) \subseteq Rows(published \ db)'
      /\ Rows(published \ db)' \subseteq Rows(published)'
  BY <1>2, <1>3, RowFacts
<1>5. ASSUME NEW x \in Rows(published)' \ Rows(published)
      PROVE  /\ \A y \in Rows(published) : y.id < x.id
             /\ \A r \in Readers : token[r] <= x.id
  <2>1. PICK c \in published' : x = Row(c) /\ x.id = c
    BY <1>3, RowFacts
  <2>2. c \notin published
    BY <2>1, RowFacts
  <2>3. (\A p \in published : p < c) /\ \A r \in Readers : token[r] <= c
    BY <2>2, NewRowsComeLast
  <2>4. \A y \in Rows(published) : \E p \in published : y.id = p
    BY RowFacts
  <2>. QED  BY <2>1, <2>3, <2>4
<1>. QED  BY <1>1, <1>3, <1>4, <1>5 DEF Feed!Update

LEMMA EnumerateIsDeliver ==
  ASSUME Inductive, NEW r \in Readers, NEW o \in Options, Enumerate(r, o)
  PROVE  Feed!Deliver(r)
<1>. DEFINE batch == Batch(FirstId(token[r], o), ReaderTypes[r], o)
<1>1. /\ UNCHANGED <<log, token, published, db>>
      /\ delivered' = [delivered EXCEPT ![r] = @ \cup batch]
      /\ delivered \in [Readers -> SUBSET published] /\ db \subseteq published
  BY DEF Enumerate, wikiVars, dbVars, Inductive, TypeOK
<1>2. /\ batch \subseteq db
      /\ \A c \in batch : log[c].kind \in ReaderTypes[r]
  BY DEF Batch, MatchingRows
<1>. HIDE DEF batch
<1>3. Rows(published)' = Rows(published) /\ Rows(published \ db)' = Rows(published \ db)
  BY <1>1 DEF Rows, Row
<1>4. [q \in Readers |-> Rows(delivered[q])]' =
        [[q \in Readers |-> Rows(delivered[q])] EXCEPT ![r] = Rows(delivered[r] \cup batch)]
  BY <1>1 DEF Rows, Row
<1>5. Rows(delivered[r]) \subseteq Rows(delivered[r] \cup batch)
  BY RowFacts
<1>6. ASSUME NEW x \in Rows(delivered[r] \cup batch), x \notin Rows(delivered[r])
      PROVE  x \in Feed!Wanted(r) \ Rows(published \ db)
  <2>1. PICK c \in delivered[r] \cup batch : x = Row(c) /\ x.kind = log[c].kind
    BY RowFacts
  <2>2. c \in batch /\ c \in published /\ c \in db
    BY <1>1, <1>2, <1>6, <2>1, RowFacts
  <2>3. x \notin Rows(published \ db)
    BY <2>1, <2>2, RowFacts
  <2>4. x \in Rows(published) /\ x.kind \in ReaderTypes[r]
    BY <1>2, <2>1, <2>2, RowFacts
  <2>. QED  BY <2>3, <2>4 DEF Feed!Wanted
<1>. QED  BY <1>1, <1>3, <1>4, <1>5, <1>6 DEF Feed!Deliver

LEMMA SaveIsAdvance ==
  ASSUME Inductive, NEW r \in Readers, SaveToken(r)
  PROVE  Feed!Advance(r, token'[r])
<1>1. /\ UNCHANGED <<log, published, db, delivered>> /\ work[r].pc = "enumerated"
      /\ token' = [token EXCEPT ![r] = work[r].next] /\ token'[r] = work[r].next
  BY DEF SaveToken, wikiVars, dbVars, Inductive, TypeOK
<1>2. /\ token[r] <= work[r].first /\ work[r].first <= work[r].next
      /\ \/ work[r].first = token[r] \/ token[r] = NoToken
         \/ work[r].first \in published /\ \E o \in Options : o.startAge # NoAge
      /\ Given(r, work[r].first, work[r].next)
      /\ Reached(work[r].next)
  BY <1>1 DEF Inductive, ReaderCovers
<1>3. /\ token[r] \in Int /\ work[r].first \in Int /\ work[r].next \in Int /\ 0 <= work[r].first
      /\ delivered \in [Readers -> SUBSET published]
  BY Numbers DEF Inductive, TypeOK
<1>4. /\ Rows(published)' = Rows(published) /\ Rows(published \ db)' = Rows(published \ db)
      /\ UNCHANGED [q \in Readers |-> Rows(delivered[q])]
  BY <1>1 DEF Rows, Row
<1>5. work[r].first \in 0..work[r].next
  BY <1>2, <1>3
<1>6. \/ work[r].first = token[r] \/ token[r] = -1
      \/ /\ \E o \in Options : o.startAge # NoAge
         /\ work[r].first > token[r]
         /\ \E x \in Rows(published) : x.id = work[r].first
  <2>1. work[r].first \in published =>
          Row(work[r].first) \in Rows(published) /\ Row(work[r].first).id = work[r].first
    BY RowFacts DEF Row
  <2>. QED  BY <1>2, <1>3, <2>1 DEF NoToken
<1>7. ASSUME NEW x \in Feed!Wanted(r), x.id >= work[r].first, x.id < work[r].next
      PROVE  x \in [q \in Readers |-> Rows(delivered[q])][r] \cup Rows(published \ db)
  <2>1. PICK c \in published : x = Row(c) /\ x.id = c /\ x.kind = log[c].kind
    BY RowFacts DEF Feed!Wanted
  <2>2. x.kind \in ReaderTypes[r] /\ c \in Int
    BY Numbers DEF Feed!Wanted, Inductive
  <2>3. c \in delivered[r] \/ c \in published \ db
    BY <1>2, <1>3, <1>7, <2>1, <2>2 DEF Given
  <2>. QED  BY <2>1, <2>3, RowFacts
<1>8. Feed!EndOfFeed(work[r].next)
  <2>1. ASSUME NEW p \in published, work[r].next <= p + 1
        PROVE  \E x \in Rows(published) : work[r].next <= x.id + 1
    <3>1. Row(p) \in Rows(published) /\ Row(p).id = p
      BY RowFacts DEF Row
    <3>. QED  BY <2>1, <3>1
  <2>. QED  BY <1>2, <2>1 DEF Reached, Feed!EndOfFeed
<1>. QED  BY <1>1, <1>4, <1>5, <1>6, <1>7, <1>8 DEF Feed!Advance, Feed!NoCursor

LEMMA FeedStep ==
  ASSUME Inductive, Margins, [Next]_vars
  PROVE  [Feed!Next]_Feed!vars
<1>1. TypeOK /\ db \subseteq published
  BY DEF Inductive, TypeOK
<1>2. ASSUME NEW kind \in Kinds, NEW lag \in 0..StampLag, MakeChange(kind, lag)
      PROVE  UNCHANGED Feed!vars
  BY <1>1, <1>2, LogGrows, FeedStutters DEF MakeChange, dbVars, readerVars
<1>3. ASSUME \/ \E c \in Rcids : CommitChange(c)
             \/ Tick
             \/ \E s \in Syncers : BeginSync(s) \/ ReadFromWiki(s) \/ AbortSync(s)
             \/ \E r \in Readers : LoseToken(r)
             \/ UNCHANGED vars
      PROVE  UNCHANGED Feed!vars
  <2>1. UNCHANGED <<log, published, db, token, delivered>>
    BY <1>3 DEF CommitChange, Tick, BeginSync, ReadFromWiki, AbortSync, LoseToken,
                wikiVars, dbVars, readerVars, vars
  <2>. QED  BY <1>1, <2>1, FeedStutters
<1>4. ASSUME NEW s \in Syncers, WriteToDatabase(s)  PROVE Feed!Next
  BY <1>4, WriteIsUpdate DEF Feed!Next
<1>5. ASSUME NEW r \in Readers, NEW o \in Options, Enumerate(r, o)  PROVE Feed!Next
  BY <1>5, EnumerateIsDeliver DEF Feed!Next
<1>6. ASSUME NEW r \in Readers, SaveToken(r)  PROVE Feed!Next
  BY <1>6, SaveIsAdvance DEF Feed!Next
<1>. QED  BY <1>2, <1>3, <1>4, <1>5, <1>6 DEF Next, WikiStep, SyncStep, ReaderStep

\* What a bot sees of live replication is a feed that grows at its end, never behind a token, and
\* whose tokens pass no row that was not handed over.
THEOREM ImplementsChangeFeed ==
  ASSUME Margins, OneSyncer
  PROVE  Spec => FeedSpec
<1>1. Init => Feed!Init
  BY DEF Init, Feed!Init, Rows, Feed!NoCursor, NoToken
<1>2. Inductive /\ [Next]_vars => [Feed!Next]_Feed!vars
  BY FeedStep
<1>. QED  BY <1>1, <1>2, InvariantHolds, PTL DEF Spec, FeedSpec, Feed!Spec
==============================================================================

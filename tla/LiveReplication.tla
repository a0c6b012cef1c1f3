--------------------------- MODULE LiveReplication ---------------------------
(***************************************************************************)
(* The local copy of a wiki's recent changes: RecentChangesSync, run over  *)
(* and over (possibly overlapping), copies changes from the MediaWiki API  *)
(* to the table recentchanges; RecentChangesReader lets bots enumerate     *)
(* that table and go on later from a continue token.                       *)
(*                                                                         *)
(* A change is identified by its rcid, its place in the wiki's log.  A     *)
(* row of the table is a copy of a change that never changes afterwards,   *)
(* so the table is the set of the rcids of its rows.                       *)
(***************************************************************************)
EXTENDS Integers, Sequences, FiniteSets

CONSTANTS
  SecondsToIgnore,   \* setSecondsToIgnore: the last seconds of an API response are not trusted
  Overlap,           \* OVERLAP_BETWEEN_RC_REQUESTS
  KeepTime,          \* MAX_DAYS_TO_KEEP, in clock units
  StampLag,          \* the wiki: a timestamp is at most this old when the rcid is assigned
  CommitLag,         \* the wiki: a change is readable at most this long after that
  Syncers,           \* processes that run updateDatabaseFromWiki
  Readers,           \* bots that follow the table with a saved continue token
  ReaderTypes,       \* RecentChangesOptions::type of each reader
  Options,           \* what a reader may pass to enumRecentChanges
  MaxChanges,        \* bound: changes made on the wiki
  MaxEditClock,      \* bound: no change is made on the wiki after that time
  MaxClock           \* bound: the clock stops there

Kinds == {"edit", "log", "other"}  \* "other": a log type that convertLogEventTypeToStr drops
StoredKinds == {"edit", "log"}

NoAge == -1     \* a null start or end date
NoToken == -1   \* an empty continue token

ASSUME ParametersAreNumbers ==
  /\ SecondsToIgnore \in Nat /\ Overlap \in Nat /\ KeepTime \in Nat
  /\ StampLag \in Nat /\ CommitLag \in Nat
  /\ MaxChanges \in Nat /\ MaxEditClock \in Nat /\ MaxClock \in Nat
ASSUME ReadersAreTyped ==
  /\ ReaderTypes \in [Readers -> SUBSET StoredKinds]
  /\ Options \subseteq [startAge : Nat \cup {NoAge}, endAge : Nat \cup {NoAge},
                       limit : Nat,
                       dated : BOOLEAN]  \* RP_TIMESTAMP is among the requested properties

VARIABLES
  clock,      \* Date::now(), the same on the wiki and on the bot's machine
  log,        \* the wiki: the change of each rcid
  visible,    \* the wiki: rcids that the API returns
  db,         \* rcids of the rows of recentchanges
  sync,       \* what each run of updateDatabaseFromWiki holds in memory
  token,      \* the continue token each reader has saved
  work,       \* what each reader holds in memory
  \* History
  published,  \* rcids that were ever committed to recentchanges
  baseline,   \* rcid of the last change inserted into an empty table
  delivered,  \* rcids passed to the callback of each reader
  origin      \* rcid from which each reader's enumeration is continuous

wikiVars == <<log, visible>>
dbVars == <<db, published, baseline>>
readerVars == <<token, work, delivered, origin>>
vars == <<clock, wikiVars, dbVars, sync, readerVars>>

Rcids == 1..Len(log)
Stamp(c) == log[c].stamp

Highest(S) == CHOOSE x \in S : \A y \in S : y <= x
Lowest(S) == CHOOSE x \in S : \A y \in S : x <= y
Larger(a, b) == IF a > b THEN a ELSE b

(***************************************************************************)
(* The wiki.                                                               *)
(***************************************************************************)
\* A change gets the next rcid, with the timestamp of the start of its request.
MakeChange(kind, lag) ==
  /\ Len(log) < MaxChanges
  /\ clock <= MaxEditClock
  /\ log' = Append(log, [stamp |-> clock - lag, born |-> clock, kind |-> kind])
  /\ UNCHANGED <<clock, visible, dbVars, sync, readerVars>>

\* Its transaction commits: from now on the API returns it.
CommitChange(c) ==
  /\ c \in Rcids \ visible
  /\ visible' = visible \cup {c}
  /\ UNCHANGED <<clock, log, dbVars, sync, readerVars>>

Tick ==
  /\ clock < MaxClock
  /\ \A c \in Rcids \ visible : clock < log[c].born + CommitLag
  /\ clock' = clock + 1
  /\ UNCHANGED <<wikiVars, dbVars, sync, readerVars>>

(***************************************************************************)
(* RecentChangesSync.                                                      *)
(***************************************************************************)
NoSync == [pc |-> "idle", cold |-> FALSE, since |-> 0, requested |-> 0, response |-> {}]

NewestFirst(S) ==  \* the change that comes first when S is sorted from new to old
  CHOOSE c \in S : \A d \in S : \/ Stamp(d) < Stamp(c)
                                \/ Stamp(d) = Stamp(c) /\ d <= c
NewestStamp(S) == Stamp(NewestFirst(S))

EnumStartWithoutOverlap == IF db = {} THEN 0 ELSE NewestStamp(db)  \* mutant
EnumStart == IF db = {} THEN 0 ELSE NewestStamp(db) - Overlap

\* updateDatabaseFromWiki: the read transaction, then requestDate.
BeginSync(s) ==
  /\ sync[s].pc = "idle"
  /\ sync' = [sync EXCEPT ![s] =
        [pc |-> "reading", cold |-> db = {}, since |-> EnumStart,
         requested |-> clock, response |-> {}]]
  /\ UNCHANGED <<clock, wikiVars, dbVars, readerVars>>

\* readRecentChanges: the newest change only when the table was empty.
ApiResponse(s) ==
  IF sync[s].cold
    THEN IF visible = {} THEN {} ELSE {NewestFirst(visible)}
    ELSE {c \in visible : Stamp(c) >= sync[s].since}

ReadFromWiki(s) ==
  /\ sync[s].pc = "reading"
  /\ sync' = [sync EXCEPT ![s] =
        IF ApiResponse(s) = {} THEN NoSync
        ELSE [@ EXCEPT !.pc = "fetched", !.response = ApiResponse(s)]]
  /\ UNCHANGED <<clock, wikiVars, dbVars, readerVars>>

TooYoungWhenWritten(s) ==  \* mutant: the age is taken at the time of the write
  {c \in sync[s].response : db # {} /\ Stamp(c) > clock - SecondsToIgnore}

\* The response is not trusted from its first change younger than SecondsToIgnore on.
TooYoung(s) ==
  IF SecondsToIgnore > 0 /\ db # {}
    THEN {c \in sync[s].response : Stamp(c) > sync[s].requested - SecondsToIgnore}
    ELSE {}

InsertedUnlessKnown(s) ==  \* mutant: no check against the highest rcid of the table
  {c \in sync[s].response \ db : log[c].kind \in StoredKinds /\ \A y \in TooYoung(s) : c < y}

Inserted(s) ==
  {c \in sync[s].response :
     /\ log[c].kind \in StoredKinds
     /\ \A y \in TooYoung(s) : c < y
     /\ \A d \in db : c > d}

DropBefore(s) == NewestStamp(sync[s].response) - KeepTime

Expired(s) == {c \in db \cup Inserted(s) : Stamp(c) < DropBefore(s)}

\* writeRecentChanges, in one write transaction.
WriteToDatabase(s) ==
  /\ sync[s].pc = "fetched"
  /\ db' = (db \cup Inserted(s)) \ Expired(s)
  /\ published' = published \cup Inserted(s)
  /\ baseline' = IF db = {} /\ Inserted(s) # {} THEN Lowest(Inserted(s)) ELSE baseline
  /\ sync' = [sync EXCEPT ![s] = NoSync]
  /\ UNCHANGED <<clock, wikiVars, readerVars>>

\* An API error or a crash: nothing is written, an open transaction is rolled back.
AbortSync(s) ==
  /\ sync[s].pc # "idle"
  /\ sync' = [sync EXCEPT ![s] = NoSync]
  /\ UNCHANGED <<clock, wikiVars, dbVars, readerVars>>

(***************************************************************************)
(* RecentChangesReader::enumRecentChanges, in one read transaction.        *)
(***************************************************************************)
\* The row a start date leads to, 0 when there is none, -1 without a start date.
StartId(age) ==
  LET after == {c \in db : Stamp(c) >= clock - age}
  IN  IF age = NoAge THEN -1
      ELSE IF after = {} THEN 0
      ELSE CHOOSE c \in after : \A d \in after : \/ Stamp(c) < Stamp(d)
                                                 \/ Stamp(c) = Stamp(d) /\ c <= d

FirstIdAfterToken(tok, o) ==  \* mutant: the token taken for the last row that was read
  IF tok # NoToken THEN tok + 1 ELSE IF db = {} THEN 0 ELSE Highest(db) + 1

FirstId(tok, o) ==
  LET id == Larger(StartId(o.startAge), tok)
  IN  IF id # -1 THEN id ELSE IF db = {} THEN 0 ELSE Highest(db) + 1

MatchingRows(first, types) == {c \in db : c >= first /\ log[c].kind \in types}
\* A row read without its timestamp has a null date, which is above no date.
PastEnd(c, o) == o.endAge # NoAge /\ o.dated /\ Stamp(c) > clock - o.endAge

\* The rows passed to the callback: a prefix, cut at the first row past the end and at the limit.
Batch(first, types, o) ==
  LET rows == MatchingRows(first, types)
      UpTo(c) == {d \in rows : d <= c}
  IN  {c \in rows : /\ \A d \in UpTo(c) : ~PastEnd(d, o)
                    /\ Cardinality(UpTo(c)) <= o.limit}

NextIdAfterBreak(first, types, o) ==  \* mutant: the row the loop broke at counts as read
  LET rows == MatchingRows(first, types)
      batch == Batch(first, types, o)
  IN  IF rows # batch THEN Lowest(rows \ batch) + 1
      ELSE IF batch = {} THEN first ELSE Highest(batch) + 1
NextIdTwice(first, types, o) ==  \* mutant: nextId incremented twice
  IF Batch(first, types, o) = {} THEN first ELSE Highest(Batch(first, types, o)) + 2

\* nextId when the loop ends: the row past the end it stopped at, or one more than the last row.
NextId(first, types, o) ==
  LET batch == Batch(first, types, o)
      left == MatchingRows(first, types) \ batch
  IN  IF left # {} /\ Cardinality(batch) < o.limit THEN Lowest(left)
      ELSE IF batch = {} THEN first
      ELSE Highest(batch) + 1

NoWork == [pc |-> "idle", first |-> 0, next |-> 0]

Enumerate(r, o) ==
  LET first == FirstId(token[r], o)
  IN  /\ work[r].pc = "idle"
      /\ delivered' = [delivered EXCEPT ![r] = @ \cup Batch(first, ReaderTypes[r], o)]
      /\ work' = [work EXCEPT ![r] = [pc |-> "enumerated", first |-> first,
                                      next |-> NextId(first, ReaderTypes[r], o)]]
      /\ UNCHANGED <<clock, wikiVars, dbVars, sync, token, origin>>

\* The bot saves the token it got back.
SaveToken(r) ==
  /\ work[r].pc = "enumerated"
  /\ token' = [token EXCEPT ![r] = work[r].next]
  /\ origin' = [origin EXCEPT ![r] =
        IF token[r] = NoToken \/ work[r].first > token[r] THEN work[r].first ELSE @]
  /\ work' = [work EXCEPT ![r] = NoWork]
  /\ UNCHANGED <<clock, wikiVars, dbVars, sync, delivered>>

\* The bot dies before it saves the token.
LoseToken(r) ==
  /\ work[r].pc = "enumerated"
  /\ work' = [work EXCEPT ![r] = NoWork]
  /\ UNCHANGED <<clock, wikiVars, dbVars, sync, token, delivered, origin>>

Init ==
  /\ clock = 0
  /\ log = <<>>
  /\ visible = {}
  /\ db = {}
  /\ sync = [s \in Syncers |-> NoSync]
  /\ token = [r \in Readers |-> NoToken]
  /\ work = [r \in Readers |-> NoWork]
  /\ published = {}
  /\ baseline = 0
  /\ delivered = [r \in Readers |-> {}]
  /\ origin = [r \in Readers |-> 0]

WikiStep == \/ \E kind \in Kinds, lag \in 0..StampLag : MakeChange(kind, lag)
            \/ \E c \in Rcids : CommitChange(c)
            \/ Tick

SyncStep(s) == BeginSync(s) \/ ReadFromWiki(s) \/ WriteToDatabase(s) \/ AbortSync(s)

ReaderStep(r) == (\E o \in Options : Enumerate(r, o)) \/ SaveToken(r) \/ LoseToken(r)

Next == \/ WikiStep
        \/ \E s \in Syncers : SyncStep(s)
        \/ \E r \in Readers : ReaderStep(r)

Spec == Init /\ [][Next]_vars

(***************************************************************************)
(* Scheduling: the jobs are started again and again and their processes    *)
(* run; a download, a write and a save succeed sooner or later.            *)
(***************************************************************************)
Fairness ==
  /\ WF_vars(Tick)
  /\ \A c \in 1..MaxChanges : WF_vars(CommitChange(c))
  /\ \A s \in Syncers : /\ WF_vars(BeginSync(s))
                        /\ SF_vars(ReadFromWiki(s))
                        /\ SF_vars(WriteToDatabase(s))
  /\ \A r \in Readers : /\ WF_vars(\E o \in Options : Enumerate(r, o))
                        /\ SF_vars(SaveToken(r))

FairSpec == Spec /\ Fairness

(***************************************************************************)
(* Properties.                                                             *)
(***************************************************************************)
Dates == -(StampLag + Overlap)..MaxClock
Changes == [stamp : -StampLag..MaxClock, born : 0..MaxClock, kind : Kinds]
SyncRecords(changes) ==
  [pc : {"idle", "reading", "fetched"}, cold : BOOLEAN, since : Dates,
   requested : 0..MaxClock, response : SUBSET changes]
WorkRecords ==
  [pc : {"idle", "enumerated"}, first : 0..MaxChanges + 1, next : 0..MaxChanges + 1]

TypeOK ==
  /\ clock \in 0..MaxClock
  /\ log \in Seq(Changes) /\ Len(log) <= MaxChanges
  /\ visible \subseteq Rcids
  /\ db \subseteq published /\ published \subseteq visible
  /\ sync \in [Syncers -> SyncRecords(visible)]
  /\ token \in [Readers -> NoToken..MaxChanges + 1]
  /\ work \in [Readers -> WorkRecords]
  /\ baseline \in 0..MaxChanges
  /\ delivered \in [Readers -> SUBSET published]
  /\ origin \in [Readers -> 0..MaxChanges + 1]

Supported == {c \in Rcids : log[c].kind \in StoredKinds}

\* The table has no hole: from the first row of its current history to the highest rcid ever
\* published, every change of a supported kind was published, the late ones included.
NoGap ==
  \A p \in published : \A c \in Supported : c \in baseline..p => c \in published

\* A row is never inserted behind a reader: when it appears, every row published before and every
\* saved or pending continue token is at or below it.
NoLateRow ==
  [][\A c \in published' \ published :
        /\ \A p \in published : p < c
        /\ \A r \in Readers : token[r] <= c /\ work[r].next <= c]_<<published>>

\* A reader that saved a token was given every change of its types between the start of its
\* enumeration and the token, unless the change had expired before it could be read.
ReaderComplete ==
  \A r \in Readers : \A c \in Supported :
     /\ log[c].kind \in ReaderTypes[r]
     /\ origin[r] <= c /\ baseline <= c /\ c < token[r]
     => c \in delivered[r] \/ c \in published \ db

(***************************************************************************)
(* The inductive invariant behind NoGap, NoLateRow, ReaderComplete and     *)
(* FeedSpec when runs of updateDatabaseFromWiki do not overlap.            *)
(***************************************************************************)
\* A change can only be young or late by so much, and rcids follow the times of assignment.
LogOrder ==
  /\ \A c \in Rcids : /\ Stamp(c) <= log[c].born /\ log[c].born <= Stamp(c) + StampLag
                      /\ log[c].born <= clock
                      /\ c \notin visible => clock <= log[c].born + CommitLag
  /\ \A c, d \in Rcids : c <= d => log[c].born <= log[d].born

\* Rows are supported changes of the current history; a row goes when a change KeepTime younger is seen.
TableOrder ==
  /\ published \subseteq Supported
  /\ \A d \in db : baseline <= d
  /\ \A c \in published \ db : \E z \in visible : Stamp(c) + KeepTime < Stamp(z)

\* A change that a warm response lacks is older than its start or too recent to be trusted.
SyncWindow(s) ==
  /\ sync[s].pc # "idle" =>
       /\ sync[s].requested <= clock
       /\ sync[s].cold = (db = {})
       /\ ~sync[s].cold => \E x \in db : sync[s].since = Stamp(x) - Overlap
  /\ sync[s].pc = "fetched" =>
       /\ sync[s].response # {}
       /\ \A c \in published \ db : \E z \in sync[s].response : Stamp(c) + KeepTime < Stamp(z)
       /\ sync[s].cold => \A c, d \in sync[s].response : c = d
       /\ ~sync[s].cold => \A c \in Rcids \ sync[s].response :
                              \/ Stamp(c) < sync[s].since
                              \/ sync[s].requested <= log[c].born + CommitLag

Reached(n) == n = 0 \/ \E p \in published : n <= p + 1
Given(r, from, to) ==
  \A c \in published : /\ log[c].kind \in ReaderTypes[r]
                       /\ from <= c /\ c < to
                       => c \in delivered[r] \/ c \notin db

\* What a reader holds, saved or not, covers the rows it stands for.
ReaderCovers(r) ==
  /\ token[r] = NoToken \/ Reached(token[r])
  /\ Reached(work[r].next)
  /\ Given(r, origin[r], token[r])
  /\ work[r].pc = "enumerated" =>
       /\ token[r] <= work[r].first /\ work[r].first <= work[r].next
       /\ \/ work[r].first = token[r] \/ token[r] = NoToken
          \/ work[r].first \in published /\ \E o \in Options : o.startAge # NoAge
       /\ Given(r, work[r].first, work[r].next)

Inductive ==
  /\ TypeOK /\ LogOrder /\ TableOrder /\ NoGap
  /\ \A s \in Syncers : SyncWindow(s)
  /\ \A r \in Readers : ReaderCovers(r)

\* What a bot sees of all this is a ChangeFeed: rows are added at the end only, never behind a saved
\* token, and a token never passes a row that was not handed over.
Row(c) == [id |-> c, kind |-> log[c].kind]
Rows(S) == {Row(c) : c \in S}
Feed == INSTANCE ChangeFeed WITH
  Types <- ReaderTypes, MayJump <- \E o \in Options : o.startAge # NoAge,
  feed <- Rows(published), gone <- Rows(published \ db), cursor <- token,
  seen <- [r \in Readers |-> Rows(delivered[r])]
FeedSpec == Feed!Spec

\* Every supported change that readers of the current history are owed is delivered in the end,
\* or expires, or falls before a new start of the table.
EventuallyDelivered ==
  \A c \in 1..MaxChanges, r \in Readers :
     (/\ c \in Supported /\ log[c].kind \in ReaderTypes[r]
      /\ published # {} /\ baseline <= c
      /\ token[r] # NoToken /\ origin[r] <= c)
     ~> (c \in delivered[r] \/ c \in published \ db \/ c < baseline \/ c < origin[r])

\* recent_changes_reader.h on start: nothing older is enumerated (but for the disorder of stamps).
StartIsALowerBound ==
  [][\A r \in Readers : \A o \in Options :
        Enumerate(r, o) /\ o.startAge # NoAge =>
          \A c \in Batch(FirstId(token[r], o), ReaderTypes[r], o) :
             Stamp(c) >= clock - o.startAge - StampLag]_vars
=============================================================================

------------------------------- MODULE ApiReads -------------------------------
(***************************************************************************)
(* Questions about many titles, users or revision ids                      *)
(* (src/mwclient/request.cpp, wiki_read_api_query_list.cpp and             *)
(* wiki_read_api_query_prop.cpp), in ranges of titles, each range in as    *)
(* many answers as the wiki wants.                                         *)
(***************************************************************************)
EXTENDS Integers, SequencesExt, Selections

CONSTANTS
  Asked,                  \* the sequences of titles, users or revision ids to ask about
  NormalForm,             \* what the wiki normalizes
  RedirectMaps,           \* what redirects may be
  BadTitles, InterwikiTitles, SpecialTitles,
  PropsOf,                \* the properties of each page that exists
  UnknownProtections,     \* those that are protections of a type or level that is not supported
  TitlesLimit             \* WikiBase::apiTitlesLimit

AllProps == UNION {ToSet(PropsOf[page]) : page \in DOMAIN PropsOf}
Elsewhere == BadTitles \cup InterwikiTitles

ASSUME TitlesLimitAssumption == TitlesLimit \in Nat \ {0}
ASSUME AskedAreSequences == \A titles \in Asked : titles \in Seq(ToSet(titles))
ASSUME PropsAreSequences == \A page \in DOMAIN PropsOf : PropsOf[page] \in Seq(AllProps)
\* The wiki normalizes and redirects titles of its own to titles of its own, that are in normal form.
ASSUME PagesAreApart == DOMAIN PropsOf \cap (Elsewhere \cup SpecialTitles) = {}
ASSUME TitlesAreLocal ==
  \A map \in {NormalForm} \cup RedirectMaps : \A title \in DOMAIN map :
    title \notin Elsewhere /\ map[title] \notin Elsewhere \cup DOMAIN NormalForm

VARIABLE
  reader          \* what readPagesProperties and its callers have done

---------------------------------------------------------------------------
\* What readPages leaves in revid, or the exceptions of readPage.
Invalid == -2
NotFound == -1
NoRevision == 0

Follow(map, title) == IF title \in DOMAIN map THEN map[title] ELSE title
Normal(title) == Follow(NormalForm, title)
Exists(page) == page \in DOMAIN PropsOf

\* readPage and getSinglePageFromAnswer.
GetSinglePage(title) ==
  CASE Normal(title) \in Elsewhere \cup SpecialTitles -> Invalid
    [] Exists(Normal(title)) -> IF PropsOf[Normal(title)] = <<>> THEN NoRevision ELSE PropsOf[Normal(title)][1]
    [] OTHER -> NotFound

\* readRevision: nothing stands for the exception about a revision that is not there.
ReadRevision(revid) == IF Exists(revid) THEN <<revid>> ELSE <<>>

\* The wiki follows all redirects.
Final(redirects, page) ==
  LET Hop[n \in 0 .. Cardinality(DOMAIN redirects)] == IF n = 0 THEN page ELSE Follow(redirects, Hop[n - 1])
  IN  Hop[Cardinality(DOMAIN redirects)]

\* followTitleMapping: the client follows two.
FollowOnce(map, title) == Follow(map, title)  \* mutant: double redirects are forgotten
FollowTwice(map, title) == Follow(map, Follow(map, title))
Resolved(title) == FollowTwice(reader.redirects, Normal(title))

\* splitVectorIntoRanges: the range that is asked about, and what is left for the next ones.
RangeSize == IF Len(reader.todo) < TitlesLimit THEN Len(reader.todo) ELSE TitlesLimit
TitlesRange == SubSeq(reader.todo, 1, RangeSize)
OtherRanges == SubSeq(reader.todo, RangeSize + 1, Len(reader.todo))

\* The functions that read something about titles differ in what their callback makes of a page that
\* has, in this answer, these properties: add them, keep the first one, or store what there is.
ReadPagesStringProperties(old, page, props) == old \o props
GetPagesLinks(old, page, props) == ReadPagesStringProperties(old, page, props)  \* and categories, templates...
Supported(props) == Selected(props, AllProps \ UnknownProtections)
GetPagesProtections(old, page, props) == old \o Supported(props)
GetPagesPageProps(old, page, props) == IF props = <<>> THEN old ELSE props
GetImagesSize(old, page, props) == GetPagesPageProps(old, page, props)  \* and getCategoriesCount
GetPagesDisambigStatus(old, page, props) == <<props # <<>>>>
ReadPages(old, page, props) ==
  IF ~Exists(page) /\ page \notin SpecialTitles THEN <<NotFound>> ELSE IF props = <<>> THEN <<NoRevision>> ELSE props
Callback(kind, old, page, props) ==
  CASE kind = "links" -> GetPagesLinks(old, page, props)
    [] kind = "protections" -> GetPagesProtections(old, page, props)
    [] kind = "item" -> GetPagesPageProps(old, page, props)
    [] kind = "size" -> GetImagesSize(old, page, props)
    [] kind = "status" -> GetPagesDisambigStatus(old, page, props)
    [] kind = "revision" -> ReadPages(old, page, props)
Nothing(kind) == IF kind = "revision" THEN <<Invalid>> ELSE <<>>

\* The pages of an answer, the properties of each that the wiki has to give, and how many of them it may
\* have given when it stops: a few more of each page, or all.
PagesOf(range) == {Final(reader.redirects, Normal(t)) : t \in ToSet(range) \ InterwikiTitles}
FirstProp(page) == IF PropsOf[page] = <<>> THEN <<>> ELSE <<PropsOf[page][1]>>
Wanted(page) == IF reader.kind \in {"links", "protections"} THEN PropsOf[page] ELSE FirstProp(page)
NothingGiven == [page \in DOMAIN PropsOf |-> 0]
AllGiven == [page \in DOMAIN PropsOf |-> IF page \in PagesOf(TitlesRange) THEN Len(Wanted(page)) ELSE 0]
Gifts ==
  {given \in [DOMAIN PropsOf -> UNION {0 .. Len(Wanted(page)) : page \in DOMAIN PropsOf}] :
     \A page \in DOMAIN PropsOf : given[page] \in reader.given[page] .. AllGiven[page]}

\* Only some functions remove the titles that are there twice, and only readPages follows redirects.
Distinct(titles) ==
  LET firsts == Selected([k \in DOMAIN titles |-> k], {k \in DOMAIN titles : \A j \in 1 .. k - 1 : titles[j] # titles[k]})
  IN  [k \in DOMAIN firsts |-> titles[firsts[k]]]
ToRead(kind, titles) == IF kind \in {"revision", "users", "revids"} THEN Distinct(titles) ELSE titles

StartReading ==
  /\ reader.status = "idle"
  /\ \E titles \in Asked, redirects \in RedirectMaps,
        kind \in {"links", "protections", "item", "size", "status", "revision", "users", "revids"} :
       /\ kind # "revision" => DOMAIN redirects = {}
       /\ kind = "users" => ToSet(titles) \cap (Elsewhere \cup SpecialTitles) = {}
       /\ reader' = [status |-> "reading", kind |-> kind, redirects |-> redirects, asked |-> titles,
                     todo |-> ToRead(kind, titles), given |-> NothingGiven, split |-> FALSE,
                     result |-> [t \in ToSet(titles) |-> Nothing(kind)]]

\* readPagesPropertiesOneRequest: an answer about a range has all its pages, with the next properties; the
\* callback is called for each title of the range that led to a page.
Update(title, page, props) ==
  LET Upto[n \in 0 .. Len(TitlesRange)] ==
        IF n = 0 THEN reader.result[title]
        ELSE IF TitlesRange[n] = title THEN Callback(reader.kind, Upto[n - 1], page, props) ELSE Upto[n - 1]
  IN  Upto[Len(TitlesRange)]
AnsweredTitles == {t \in ToSet(TitlesRange) : Resolved(t) \in PagesOf(TitlesRange) \ BadTitles}
AnswerPages ==
  /\ reader.status = "reading" /\ reader.kind \notin {"users", "revids"} /\ reader.todo # <<>>
  /\ \E given \in Gifts :
       LET complete == given = AllGiven
           Props(page) == IF Exists(page) THEN SubSeq(Wanted(page), reader.given[page] + 1, given[page]) ELSE <<>>
       IN  /\ given # reader.given \/ complete
           /\ reader' = IF ~PagesOf(TitlesRange) \subseteq {Resolved(t) : t \in ToSet(TitlesRange)}
                        THEN [reader EXCEPT !.status = "failed"]
                        ELSE [reader EXCEPT
                                !.result = [t \in DOMAIN @ |-> IF t \in AnsweredTitles
                                                               THEN Update(t, Resolved(t), Props(Resolved(t))) ELSE @[t]],
                                !.given = IF complete THEN NothingGiven ELSE given,
                                !.todo = IF complete THEN OtherRanges ELSE @,
                                !.split = @ \/ ~complete]

\* readRevisionsOneRequest: one answer, and what the wiki leaves for a second one is not asked for.
AnswerRevisions ==
  /\ reader.status = "reading" /\ reader.kind = "revids" /\ reader.todo # <<>>
  /\ \E given \in SUBSET {t \in ToSet(TitlesRange) : Exists(t)} :
       reader' = [reader EXCEPT !.todo = OtherRanges,
                    !.split = @ \/ \E t \in ToSet(TitlesRange) \ given : Exists(t),
                    !.result = [t \in DOMAIN @ |-> IF t \in given THEN <<t>> ELSE @[t]]]

\* getUsersInfoOneRequest: users come back in the order of the request, under their normalized names
\* only, and those that are the same user once: their number is another one.
AnswerUsers ==
  LET range == TitlesRange
      repeated == \E j, k \in DOMAIN range : j # k /\ Normal(range[j]) = Normal(range[k])
      answer == [k \in DOMAIN range |-> Normal(range[k])]
      Place(t) == CHOOSE k \in DOMAIN range : range[k] = t
  IN  /\ reader.status = "reading" /\ reader.kind = "users" /\ reader.todo # <<>>
      /\ reader' = IF repeated
                   THEN [reader EXCEPT !.status = "failed"]
                   ELSE [reader EXCEPT !.todo = OtherRanges,
                           !.result = [t \in DOMAIN @ |-> IF t \in ToSet(range) THEN <<answer[Place(t)]>> ELSE @[t]]]

ReadReturns ==
  /\ reader.status = "reading" /\ reader.todo = <<>>
  /\ reader' = [reader EXCEPT !.status = "returned"]

ReaderInit ==
  reader = [status |-> "idle", kind |-> "links", redirects |-> <<>>, asked |-> <<>>, todo |-> <<>>,
            given |-> NothingGiven, split |-> FALSE, result |-> <<>>]

ReaderNext == StartReading \/ AnswerPages \/ AnswerRevisions \/ AnswerUsers \/ ReadReturns
ReaderSpec == ReaderInit /\ [][ReaderNext]_reader

---------------------------------------------------------------------------
\* What is read about several titles is what the wiki has about each page, redirects of at most two hops
\* being followed; readPages and readRevisions say what readPage and readRevision say.  Left out, because
\* the code does not keep them: a state or a revision whose range came in several answers, titles asked
\* twice when lists are read, and special pages, which readPages takes for empty ones.
PagesAreReadCompletely ==
  LET Page(t) == Final(reader.redirects, Normal(t))
      Hop(t) == Follow(reader.redirects, t)
      hops == \A t \in ToSet(reader.asked) : Page(t) = Hop(Hop(Normal(t)))
      Props(t) == IF Exists(Page(t)) THEN PropsOf[Page(t)] ELSE <<>>
      First(t) == IF Exists(Page(t)) THEN FirstProp(Page(t)) ELSE <<>>
  IN  /\ reader.status = "failed" => ~hops \/ reader.kind = "users"
      /\ reader.status = "returned" /\ hops => \A t \in ToSet(reader.asked) :
           /\ reader.kind = "links" /\ IsInjective(reader.asked) => reader.result[t] = Props(t)
           /\ reader.kind = "protections" /\ IsInjective(reader.asked) => reader.result[t] = Supported(Props(t))
           /\ reader.kind \in {"item", "size"} => reader.result[t] = First(t)
           /\ reader.kind = "status" /\ ~reader.split =>
                reader.result[t] = IF t \in Elsewhere THEN <<>> ELSE <<Props(t) # <<>>>>
           /\ reader.kind = "revision" /\ ~reader.split /\ Page(t) \notin SpecialTitles =>
                reader.result[t] = <<GetSinglePage(IF DOMAIN reader.redirects = {} THEN t ELSE Page(t))>>
           /\ reader.kind = "users" => reader.result[t] = <<Normal(t)>>
           /\ reader.kind = "revids" /\ ~reader.split => reader.result[t] = ReadRevision(t)
===============================================================================

# Verification of orlodrimbot in TLA+

orlodrimbot is a set of bots for the French Wikipedia, with the libraries they are built on. Most of
its programs are short: they are started by cron, read something, edit a page and stop. What makes
the system hard is not in one run but between runs: state kept in SQLite tables, JSON files and wiki
pages, processes that may overlap or die at any point, a wiki that answers late, out of order or not
at all, and pages that other people edit at the same time. This project models those parts, checks
them on small instances with TLC, and proves the most important results with TLAPS.

## 1. Inventory

| component | state it keeps | operations | talks to |
|---|---|---|---|
| live replication (`orlodrimbot/live_replication`) | SQLite table `recentchanges`; each client's continue token | `RecentChangesSync::updateDatabaseFromWiki`, `RecentChangesReader::enumRecentChanges` and the two functions over it | the wiki's list of recent changes; read by lost messages, published drafts, main page, subpages mover, newsletters |
| job queue (`wiki_job_runner/job_queue/job_queue.cpp`) | SQLite table `job`, flag `start_from_most_recent` | insert in three modes, remove, reschedule, enumerate | job runner, any client that inserts jobs |
| job runner (`job_runner.cpp`) | copies of a batch, in memory | `runJobs`, batches, handlers' `startBatch`/`run`/`endBatch` | job queue, handlers (article to draft moves) |
| mwclient, requests and sessions (`wiki_base.cpp`, `request.cpp`, `wiki_session.cpp`) | cookies, cached tokens, session file | `apiRequest` with its retries, `logIn`, `retryToLogIn`, `setTokenAndRun`, `runPager` | HTTP client, the wiki |
| mwclient, writes (`wiki_write_api.cpp`) | date of the last edit (delay between edits), emergency stop callback | `writePage`, `editPage`, `appendToPage`, `movePage`... | every bot |
| mwclient, reads (`wiki_read_api*.cpp`, `request.cpp`) | the continuation of a list, the answers read so far | one function per query, over two pagers | every bot |
| wikicode parser (`parser*.cpp`) | a stack of elements, then a tree | `parse`, traversals, fields of templates | every bot |
| titles, site info, bot exclusion, bot sections, inclusion tags | the site description (`SiteInfo`), kept in the session file | parse and normalise titles, replace a section, cut tags | every bot |
| talk page archiver | archives and templates on the wiki, a file of stable revision ids | `Archiver::archivePage` | mwclient writes, parser, dates |
| bot requests archiver | two pages of the wiki | `archiveMonth` | mwclient writes |
| newsletters | JSON state file, page of subscribers | find the issue, distribute it | change feed, mwclient writes |
| lost messages | JSON state file, file of mentors, feed token | detect messages left in wrong places, answer, list | change feed, classifiers, mwclient writes |
| main page updater | JSON state file (feed token, pending targets), SQLite cache of expansions | copy computed pages to their targets when a source changes | change feed, mwclient writes |
| list of published drafts | JSON state file | follow moves and list drafts that became articles | change feed, mwclient writes |
| article to draft moves | a job per request | answer requests to move an article | job runner, mwclient writes |
| subpages mover | date of the last processed move | move subpages after their page | change feed, `movePage` |
| sandbox, statuses on user pages, monthly categories | none | overwrite one page | mwclient writes |
| templates statistics, dump processing | files | one-pass filters | none |
| wikiutil, cbl | SQLite connection and its open transaction | dates, JSON, strings, files, HTTP, SQLite wrapper | everything |

**What is hard here.**

- *Order.* The rcid of a change, its timestamp and the moment it becomes readable are three
  different orders, and the synchroniser has to publish a table that only ever grows at its end.
- *Overlap.* Two synchronisers, two job runners, or a runner and the clients of the queue work on
  the same table; each method is one transaction, but what a process remembers between two of them
  may be stale.
- *Crashes.* Every program may die between a side effect and the record of it.
- *Retries.* A request whose answer is lost is sent again; a rejected token is renewed, then the
  session.
- *Edit conflicts.* `editPage` reads, transforms and writes, and starts again when somebody else
  edited in between.
- *Starvation and loops.* A job that always fails must neither block the others nor be forgotten.

The components with the hazards found in them, at their lines, are in `PROJECT.json`.

**What makes each component correct.** Live replication: no hole, no late row, nothing a reader
asked for is skipped, everything arrives in the end. Job queue and runner: no job is lost, the last
request for a page is the last one executed, a crash loop slows down, no job starves, every call
returns. mwclient: an edit never erases what it has not seen, is not applied twice, is never made
logged out, and success means that it was made. Archivers: a thread is in the page or in an archive, and
the failures that lose or double one are known. Newsletters, published drafts, lost messages: each item is handled at least once, and which crash
makes it handled twice is known. Main page: a target that could not be updated is tried again.

## 2. Modules

| module | models | composed with |
|---|---|---|
| `ChangeFeed` | what live replication promises to a client (abstract) | refined by `LiveReplication` |
| `LiveReplication` | the wiki's log, `RecentChangesSync`, the table, `RecentChangesReader`, its clients | |
| `JobOrder` | the order in which `enumerateJobsToRun` visits a table, and the flag | used by the two below |
| `JobEnumeration` | the loop of `enumerateJobsToRun` with its two cursors | checked against `JobOrder` |
| `JobRunner` | the table `job`, its clients, any number of processes in `runJobs` | extends `JobOrder` |
| `PageWrites` | what a bot may rely on when it changes a page that others change (abstract) | refined by `WikiClient` |
| `WikiClient` | `apiRequest`, sessions, tokens, emergency stop, `editPage`, `writePage`, `appendToPage`, and the wiki that answers | |
| `TalkArchiver`, `BotRequests`, `SubpagesMover`, `Newsletters`, `PublishedDrafts`, `ArticleToDraft`, `LostMessages`, `MainPage` | one bot each, with the people who edit the same pages | together in `MCBots` |
| `Wikicode`, `WikicodeNodes` | the parser; its tree and what is done with it | `WikicodeNodes` extends `Wikicode` and `Titles` |
| `Titles`, `PageMarkers`, `ListReads`, `ApiReads`, `Calendar`, `Dates`, `Utf8`, `JsonValues` | titles; sections, tags and exclusion; lists read in pieces; reads about many titles; days, seconds and local time; dates in texts; UTF-8; JSON | together in `MCAlgorithms` |
| `MC*` | instances for TLC: model values, options, requests | |
| `Selections` | a loop over a sequence as a recursive function | used by three bots |
| `Lemmas`, `*Proofs` | lemmas and theorems | extend the modules they are about |

### LiveReplication

State and code: `db` is the table `recentchanges` (a row is determined by its rcid, so the table is a
set of rcids), `sync[s]` what one run of `updateDatabaseFromWiki` holds (the start of the request, the
request date, the response), `token[r]` and `work[r]` the continue token a bot has saved and the one
it has just received. `log`, `visible` and `clock` are the wiki: rcids are given in order, a
timestamp may be `StampLag` older than the moment the rcid is given, and a change becomes readable at
most `CommitLag` later. `published`, `baseline`, `delivered` and `origin` only record what happened.

Actions: `BeginSync` (read transaction, request date), `ReadFromWiki` (the request; only the newest
change when the table was empty), `WriteToDatabase` (the whole write transaction, expiry included),
`AbortSync` (API error, crash), `Enumerate` (one call of the reader, in one read transaction, with
start and end dates, limit and types), `SaveToken`, `LoseToken` (the bot dies before it saves).

Left out: the columns other than rcid, timestamp and kind; titles and users as filters; the mock
reader used in tests. The clocks of the wiki and of the bot are the same.

### JobOrder, JobEnumeration, JobRunner

`jobs` is the table (priority, `run_after`, `can_be_processed`, the retry delays), `newestFirst` the
flag, `run[r]` the call of `runJobs` in process `r`: the point it has reached, what is left of
`maxCount`, and its batch of copies. Each action is one transaction of the queue or one call of a
handler: `CheckQueue` (`getFirstJobDate`), `PickBatch` (`enumerateJobsToRun` with the callback of
`runOneBatchOfJobs`), `DiscardJob` (unknown handler), `Reserve` (reschedule before trying),
`StartBatch`, `SplitBatch`, `FailSingle`, `BeginJob`, `FinishJob`, `RemoveFinished`, `FailJob`,
`EndBatch`, `Crash`, and for the clients `InsertJob` and `RemoveJobs`. `PickBatch` takes the order of the rows
from `JobOrder!Place`; `JobEnumeration` has the two-cursor loop itself and shows that it hands rows
over in that order. Left out: job data, logs, the read-only listings.

### WikiClient

State and code: `account[c]` is the session and the cached edit token of a `Wiki` object, as the wiki
sees them, and whether `m_internalUserName` is set (only then `assert=user` is sent); `call[c]` is the
call under way: the request it is at (`pc`), what `editPage` read (`base`, `seen`) and made of it
(`text`), and the counters of the three loops that surround an edit, `attemptsLeft` (`editPage`),
`renewed` (`setTokenAndRun`) and `tries` (`apiRequest`). `page` and `stopped` are the wiki. A page is a
set of lines `<<author, call, tag>>`: that is what the properties tell apart. `made`, `calm`,
`outcome`, `faults` and `humanEdits` record what happened or bound it.

Actions: `StartCall`, `ReadPage` (with `transformContent`), `GetToken`, `TestStop`, the answers to an
edit (`Success`, `BadToken`, `EditConflict`, `PageAlreadyExists`, `Refused`), errors of any request
(`Unreachable`, `Lagged`, `AssertUserFailed`, and `AnswerLost` for an edit that is made although its
answer never comes) and the two ends of a login. The wiki is modelled from what mwclient sends: an
edit with a base revision is merged with later ones or refused, `createonly` refuses an existing page,
the same text again is no new revision, a token belongs to the session that asked for it.

Left out: the delay between edits, write hooks, bot exclusion, the guard against empty pages (pages are
taken to have a heading, and the bot's talk page to exist), other pages and other writes, the first
`logIn` and its session file. A lost edit reaches the wiki before it is sent again. A session may be
lost, or kept while all its tokens are refused ("sick", cured by a new login), and a single token may
be refused.

### The bots

Each module has the state a bot keeps (a state file, a token, a date), the pages it edits together
with the people who edit them, and a run cut at each call to the wiki. Between two calls anybody may
act, and each call may fail, fail after it was done, or be the last one before a crash (the bounds
`Max...Errors`, `MaxFailures`). They rely on what `WikiClient` shows of one edit: an edit whose base
is no longer the last revision is refused, and `editPage` reads again.

- `TalkArchiver`: `StartRun` reads the page, its template and the file of stable revisions, and
  applies the algorithms in order (`Archiver::archivePage`); archives are written one by one, the
  page is cut last, and only if it is the one that was read. Users post, reply, edit and change the
  template or its counter. `archives` maps the titles that exist to their threads; numbered archives
  are found by doubling an index, then halving an interval.
- `BotRequests`: the months a run still watches, the page and the archive of each; the page is
  cut by `editPage` first, then the archive is appended to. Both calls have their two attempts, and a
  write whose answer is lost after it was executed (`executed`) is sent again, conflicts if a user edited
  meanwhile, and then the body runs again on a page that has its own effect. An archive that does not
  exist is created, which fails without a second attempt if a user creates it first. `Held` is
  what the run has cut and not appended.
- `SubpagesMover`: a log of moves with dates that may be equal, read from the newest to the oldest,
  chains of moves collapsed to the last title (`Collapse`, a recursive function that stands for the map
  `lastName`), the date kept between runs, calls that fail and runs that are interrupted. Articles
  are known by their first title: the log remembers which one was moved, so that the property can say
  where its subpages belong.
- `Newsletters`: the move that publishes an issue, the state file, then one edit per subscriber that
  replaces older messages nobody replied to; forced runs from any subscriber on, redirects, Flow boards
  (`boards`, which follow their page when it is renamed).
- `PublishedDrafts`: the replay of moves and deletions since the token (`Replay`, a recursive
  function that takes one event after the other), the edit of the list, the state file.
- `ArticleToDraft`: the handler of jobs, its message and its banner, with two runners that may
  have the same job (`JobRunner` shows that they can).
- `LostMessages`: the revisions since the token, the check of the history, the message to the
  mentor or the reply, the list and the token. A revision has an author and a text, and anybody may give
  the page a text it had before, as an edit that is undone does: the reply depends on the text alone. What
  a text says, and what the classifier answers, are free choices.
- `MainPage`: three kinds of targets, the state file with what is pending, the cache of expansions
  with its age, the delay before a source is trusted. A target without a source is dropped, one that
  fails is kept.

### The algorithms

Texts are sequences of symbols, one symbol for each thing the code tells apart: a bracket, a tag, a
run of digits, a byte for UTF-8 and JSON. An action lets people type one more piece of text, the
wiki give one more answer, or a program call one more function, and the properties compare what the
code makes of the result with a definition that is not the code's: pairs of brackets found by
rewriting (`Wikicode!TwoPasses`) instead of the stack, a traversal defined by the shape of the tree
instead of a stack of indexes, the text of a page instead of the order of its tokens, or reading back
what was written.

`ListReads` and `ApiReads` are not pure functions: items come and go while a list is read in several calls, and
something asked about many titles is given range by range, each in as many answers as the
wiki wants, under normalised and redirected titles.

## 3. What is checked

| run | instance | shows |
|---|---|---|
| `sync` | 2 overlapping synchronisers, 3 changes, no reader | `NoGap`: the table has no hole from its first row to its last, whatever the order of stamps and commits. `NoLateRow`: no row appears behind one that could already be read |
| `readers` | 1 synchroniser, 1 reader of edits, 2 changes, rows that expire, every combination of options the bots use | `ReaderComplete`: what lies before a saved token was given to the bot or expired. `FeedSpec`: `LiveReplication` implements `ChangeFeed` |
| `delivery` | as above, with fairness | `EventuallyDelivered`: what a reader is owed arrives |
| `start` | start date after the newest row | the header's promise on `start` is not kept (section 6) |
| `two_runners` | 2 runners, 2 jobs, all insertion modes, cancellations, failures, crashes | `NoJobLost`, `TypeOK` |
| `one_runner` | 1 runner, 3 jobs, 2 mishaps | `ReplacedIsNotRunLast`, `OldestIsNotPassedOverTwice`, `CrashLoopIsSlow`, `QuotaIsKept` |
| `runner_ends` | 1 runner, dry runs too, with fairness | `EveryJobLeaves`, `RunnerReturns` |
| `client` | 1 bot, 2 calls, 2 faults, 2 edits by others, all requests, with fairness | `WrittenOnce`, `NeverLoggedOut`, `HealthyCallsSucceed` (an error has a cause in the same call), `CallsReturn`; `PageSpec`: `WikiClient` implements `PageWrites` |
| `stop` | as above, safety | the emergency stop is not always "not executed" (section 6) |
| `bots` | each bot with 1 error, 2 titles, jobs, threads or subscribers, and 1 to 4 edits by people | one or several properties per bot, below |
| `lost_posts` | a new user, 4 revisions, no error needed | a user who saves twice between two runs is not examined (section 6) |
| `algorithms` | all small inputs of each algorithm | one property per algorithm, below |

`bots`: `NothingIsLost` (the last text of a thread is on the page or in an archive, unless an algorithm
that erases chose it), `ArchivesHaveNoHole`, `StableMeansNothingToDo` (a revision recorded as stable
never becomes due); `RequestsInOnePlace` (a request is on one page, in one archive or in the hands of the run; it is lost only when
the run gave its month up after the cut, and twice in an archive only when an append that was executed is done
again after a conflict; `dropped` and `repeated` record those requests, and without errors only edits of the archive
lose any); `SubpagesFollowTheirPage`; `OneMessagePerIssue` and
`RepliesSurvive` (no step of the bot removes a message somebody changed); `PublishedDraftsAreListed`;
`NoticesAreNotRepeated`; `RepliesOnceAndAlone` (every reply is added to a text written when only the user and bots had
edited, so after a human only if that edit was undone; one message to the mentor); `StaleTargetsArePending` (a target that is behind its source is one the next run will look
at).

`algorithms`: `VisitsInOrder` (each ready job once, in the alternating order), `ParsesInTwoPasses` (the
stack finds the pairs of two passes of rewriting, within the depth, and the tree writes the code
back), `NodesReadBack` (traversals, fields of templates changed and parsed again),
`TitlesNormalizeOnce`, `MarkersAreRespected` (bot sections replaced alone; inclusion tags cut where the parser sees
them, an unclosed `<pre>` counted as text; templates that forbid an edit seen, but possibly in a page where an odd
number of "{", three or more, follow each other; summaries shown without effect; the run reaches both exceptions,
without which the property fails), `ListIsReadOnce` and `PagesAreReadCompletely`, `DatesReadBack`
(signatures, days, ISO dates, local time around the two changes of hour), `JsonReadsBack` (values built
by any calls, texts received whole or cut, UTF-8 both ways).

**Bounds.** `MaxChanges`, `MaxClock`, `MaxEditClock`, `MaxJobs`, `MaxMishaps`, `MaxMishapClock`,
`MaxInsertClock`, for `WikiClient` `MaxCalls`, `MaxFaults` and `MaxHumanEdits`, and those that the bots
and the algorithms name `Max...` and `Last...`, are the only bounds; each is a guard of the action that grows
the counter. Two changes are enough to be out of order, three to have a late one between two
others; two jobs are enough to be replaced, batched and split, three to be passed over. A clock of 4 or 5 passes `SecondsToIgnore` = 3 (the smallest value
that covers `StampLag` + `CommitLag` = 2 strictly) with room on both sides: with 2, `NoGap` fails.
`client` sends each request twice instead of 5 times, which is enough for an edit that is made, lost
and sent again, and keeps the code's 2 attempts of `editPage` and 2 renewals of a token: two
faults use up the renewals (a session whose tokens are all refused, and a new one that is spoiled
too), two edits by others use up the attempts. A second call shows what a first one leaves in
the `Wiki` object. Several bots differ from one bot and other editors only in the histories of their
sessions, and the theorems hold for any number.

For each bot `bots` has two of what it handles (threads, requests, titles, subscribers, drafts), which
is enough for an order and for a conflict between them, one error, placed at any call, and an edit by people between any two calls.
`BotRequests` has two errors and four edits: a lost answer and two conflicts, or one in each of its two calls. Larger instances were checked one bot at a time and gave nothing new:
3 titles with 2 articles for `SubpagesMover`, 2 edits of a page for `Newsletters`, batches of 3 events
for `PublishedDrafts`, 3 drafts for `ArticleToDraft`, 2 errors for `LostMessages`, 4 ticks for `MainPage`, 5
edits for `TalkArchiver`. The bots share no page in this run: they are chosen at the start, and
each behaviour is one of a single bot.

`algorithms` enumerates codes of up to 5 pieces (two or three brackets of a kind, or a bar) or
4 with tags, titles and fields of 4 symbols, pages of 4 marks, 4 bytes, JSON texts of 4 pieces, 2
changes of a value, tables of 3 jobs, lists of 4 keys that change once. Five pieces hold
an element inside another one, with a piece left to break either. Brackets up
to 9 symbols, fields of 5, sequences of 4 among 16 bytes, 5 pieces and 3 changes of JSON were checked
apart. Instants stay before 2038, and the site has a few namespaces of each kind.

**Assumptions of the runs.** `sync` starts the table with one synchroniser (`ColdStartsAlone`): two
first synchronisations that overlap each insert the newest change they saw and leave a hole, which
nothing in the code prevents and which the documentation of the command does not exclude; it is
listed among the hazards.

`one_runner` has clients that use one insertion mode per kind of request (`OneModeEachSpec`: move
requests replace an earlier one, the others append), as each program of the repository does.
`two_runners` mixes all the modes. `WrittenOnce` excludes a `transformContent` that adds its line
without looking whether it is there: `editPage` calls it again after a conflict, and the
conflict may be with the call's own lost edit. The archive of bot requests is such a page, and
`RequestsInOnePlace` says what becomes of it.

**Fairness.** Cron starts the programs again and again, and a process that is not killed goes on:
weak fairness of the steps of a process, strong fairness of the steps that an abort may interrupt
(download, write, save) and of a start of `runJobs` for good. There are finitely many mishaps, or
none that recurs for ever at the same step, as without that nothing can be promised. No fairness is assumed of
clients that insert jobs or of edits on the wiki. In `client` every request gets an answer or an error
in the end (HTTP requests time out): weak fairness of the answers to a call, with no word on which
answer. Answers that say the wiki lags are among the finitely many faults: `apiRequest` does not count
them as attempts, so a wiki that lags for ever holds a call for ever.

## 4. What is proved

All proofs are checked by TLAPS down to the last leaf, for every value of the constants that the
named assumptions of the modules allow.

*`LiveReplicationProofs`.* `TypeCorrect` needs nothing. The others assume `OneSyncer` (runs of
`updateDatabaseFromWiki` do not overlap) and `Margins` (`SecondsToIgnore` exceeds the two lags of
the wiki, the overlap covers `StampLag`, and rows are kept longer than both). `NoGap` alone is not inductive.
`Inductive` adds: the order of stamps and rcids (`LogOrder`), that only supported changes of the
current history are rows and that a row goes only when a change `KeepTime` younger has been seen
(`TableOrder`), and what a run holds between its request and its write (`SyncWindow`): a change
missing in the response is older than the start of the request or too recent to be trusted. The last
is the heart of the argument: with the margins, everything below the first row that is not trusted
was in the response. `ReaderCovers` says that the rows between the origin and the token of a reader
were handed over. From `Inductive` follow `TableHasNoGap`, `ReadersAreComplete`, `NoRowComesLate` and
`ImplementsChangeFeed` (each step is a step of `ChangeFeed` or a stutter).

*`JobRunnerProofs`.* `InvariantHolds` proves `Inductive`, for any number of runners, handlers,
requests and mishaps: `NoJobLost` is not inductive because a runner removes a job it believes
completed, so it needs `BatchIsSound` (what a batch is at each point) and `RowsAreNotReplaced` (a
replaced job has no row). `NoJobIsLost`, `ReadyJobsAreDue` and `TypeCorrect` follow.
`LastRunIsTheLastAsked` assumes `OneRunner` and adds `CopiesAreNotOutrun`: with two runners a copy of
a replaced job may be executed after the new one.

`OldestJobIsTakenInTurn` (`OldestIsNotPassedOverTwice`) assumes `OneRunner` too. Its invariant `OldestIsNext`
says where the debt of a batch that left the oldest job out is paid: the flag is down again, or the oldest
job is in the batch being reserved. It holds because a batch of `limit` jobs begins with the oldest one
(`FirstInOrder`), because a job handed over is no longer ready, so that completing, splitting or rescheduling
it changes nothing about the oldest ready job, and because the copies of a job have places of their own
(`CopiesAreApart`).

`CallsStayWithinQuota` (`QuotaIsKept`) holds for any number of runners: a batch has the jobs whose rank
is below `Limit`, so it has no more than that (`FewAreEarly`, a counting lemma), and a runner picks only
while its quota is positive (`QuotaIsSound`).

`CrashesAreSpacedOut` (`CrashLoopIsSlow`, an action property) assumes `OneRunner`. A try moves a row to a later date
and leaves the runner with a copy of it; what has to be kept until the next try is that a row, and the copy of
it in a batch, remember a delay that is not shorter than the gap owed and a date not earlier than that gap
after the last try (`GapsAreKept`). Copies matter because a job that failed is put back from its copy, and
identifiers because a new job must not inherit the debt of another (`NewIdsAreNotTried`).

*`JobOrderProofs`, `AlgorithmsProofs`.* The first has what both ways to see the order share: places
in a finite table are distinct and fill 1 .. n (`QueuesAreTables` says that the tables are finite),
and what comes first and second. `RowsAreVisitedInOrder`
proves `VisitsInOrder` for every table. Its invariant says, for the priority being visited, what
each cursor has returned (`AtPriority`): the two have returned as many rows and none in common until they
meet, all rows of lower priorities were handed over, and the rows handed over so far are at
their places (`PlacesAreFollowed`). That `readJobsBackward` is never exhausted first, an assertion of the code, follows.

`TitlesAreNormalizedOnce` (`TitlesNormalizeOnce`, in `AlgorithmsProofs`) holds for titles of any length and for
any site. What `parseTitle` makes of any text is *sound* (`AreSound`): its name is in normal form, with the capital
its namespace asks for and no "#", its prefix is the name of that namespace or of an interwiki (in the main
namespace nothing before its first colon is known), and its anchor is in normal form. Sound parts are read back (`ReadBack`) from the whole title, from the title after a colon, from the
link `makeLink` writes and from a redirect to it. Both rest on what `appendNormalizedTitlePart` does of a text, symbol
by symbol: its result is left alone by another pass and has no sign (colon, "#", bracket...) the text had not
(induction over texts, one symbol longer each time). Five assumptions say of the site what MediaWiki promises:
each word has a capital of its own (`CapitalAssumption`); namespaces have distinct names in normal form without ":"
nor "#", and a page and its talk page agree about the first letter (`NamespacesAssumption`); an alias
names one namespace, and never another one's (`AliasesAssumption`); interwikis are names in normal form
(`InterwikisAssumption`); and `#REDIRECT` is among the words for redirects (`RedirectsAssumption`). Titles cannot
have "]" nor "|" (`TitleSymbolsAssumption`), as MediaWiki refuses them. TLC checks them all on the site of `MCAlgorithms`.

Three theorems in `AlgorithmsProofs` are about `Calendar`, on which `Dates` is built; they hold for every moment from
1970 to 9999 (`IsMoment`; 1971 where 270 days are subtracted). `LocalTimeIsThatOfTheWiki`: `getFrWikiLocalTime`, which tells summer time from a
last Sunday found by arithmetic on the 31st, agrees with the clock of the wiki, which changes at 1:00 UTC on
the greatest Sunday of March and of October. `YearsLeftOutAreFound`: `consumeDate` gives back the year of a
day written without it, if the day is at most 239 days old or 90 ahead. `ShortYearsAreFound`: it does so for a year
written with two digits, at most 80 years old or 19 ahead. Years and months follow one another without a gap or an
overlap (`YearsFollow`, `MonthsFollow`, `LaterMonths`), so a number of days is in one month only
(`OneMonth`), the one that `FromTimeT` finds (`DatesOfSeconds`); two days that are 31 to 360 days apart are in
two different months, the second of which ends before the first one comes back.

*`ArchiversProofs`.* `NoThreadIsLost`, `ArchivesStayContiguous` and `StablePagesCanBeSkipped` come from
one invariant: what a run is about to cut is in an archive or erased (`PageIsCovered`), the archives
still to be written leave no hole at any point of the run (`RunFillsNoHole`), a text is the last one of
its thread (`LatestIsOwn`), and revisions of the stable file are not in the future (`StableIsPast`).
The search of the last archive is a recursive function; that it ends at one followed by none is
proved by induction on its passes. `RequestsStayInOnePlace` rests on
`PageCutIsRight` (until somebody edits the page, the run holds what stays and what goes, or only what stays
once its write was executed), `AppendIsRight` (what the run appends is not in the archive before
its first attempt, and once at most before the second), `ListsAreRight` (no page has a request twice, and an archive
only one that is `repeated`) and `ErrorsExplain` (without an error nothing is sent again).

`SubpagesAreNotForgotten` (`SubpagesFollowTheirPage`) has `NothingLeftBehind` for invariant: a title left behind by a
move that the run has seen has a pending event (`PendingIsLeft`), one by a move that an earlier run has seen does
not exist (`SettledIsDone`), and an event leads from a title to where its article was when the log was read (`EventsAreSound`).
That collapsing gives every move the title where its article is now (`CollapseFollowsArticles`) is proved by induction
along the log, from the fact that consecutive moves of a title are of one article (`MovesAreLinked`). That no
event brings a subpage back to an abandoned title (`EventsLeadElsewhere`) makes the order of the events harmless, and
reading the log from a date, included, covers all moves after those of the runs that ended (`LogIsTheEnd`), whatever
moves share their second.

*`EditorsProofs`.* `NoticesAreNeverRepeated`: what a runner saw before its write is still true unless
another write made it stale (`ReadsAreFresh`). `RepliesAreAlone`: the post a run checked is a revision of the
user before which only bots and the user edited (`PostWasAlone`), and the page has its text when the reply is
added, whatever its history became. `IssuesArePostedOnce` and
`RepliesAreKept`: the text about to be written has the replies of the page it replaces, and the
issue once (`WriteIsSound`). `NoTargetStaysStale`: `RunKeepsTargets` says the same of what a run is about to
save, and `DatesAreOrdered` that no date runs ahead of the clock. `NoDraftIsMissed`: replaying the log from
any earlier token finds the drafts that entered since (`FollowedSince`, proved as the log grows, event by
event, as a replay of a longer log is one step more), and a run between its two writes has found what it
is about to list (`PendingIsSound`).

*Induction over data.* `Lemmas` proves a form of induction up to a bound from the well-foundedness of
the integers (`InductionUpTo`, stated with a set in place of a predicate). That is how
what recursive functions compute is proved: `Selected` (`SelectedProperties`), the
archives written by a run, the search of the last archive, `Replay`, `Collapse`, the callbacks of an answer
(`Update`).

*Assumptions on constants*, all typing or what the code's own constants satisfy: `BannerLimit`,
`LastIssue` and delays are numbers, days have a length (`TimeAssumption`), subscribers, drafts,
templates, posts and watched months have the shape the modules give them, and the first titles of articles
are titles, distinct from the two marks of a page without article (`TitlesAreNames`).

*`WikiClientProofs`.* `InvariantHolds` proves `Inductive` for any number of bots, calls, faults and
limits. `NeverLoggedOut` rests on `NameIsSet`: the name is unset only while a login is under way, and
then no edit is sent. `WrittenOnce` needs more, as the line of a call may be on the page and in
the text that is about to be sent: `LineIsUnique` says that the two are one line, that an append
finds no earlier line of its call and has a single try, and that `writePage` never reads again;
`TextIsSound` says that a text differs from what was read by the call's own line and its cuts, and
`PageIsSound` that lines come from known calls, so that a new number is fresh. From the same invariant
follow `TypeCorrect`, `LinesAreWrittenOnce`, `NoEditIsAnonymous` and `ImplementsPageWrites`. They
assume that no bot bears the name of other authors or of an anonymous one (`ClientsAreTyped`).
`CallsAreNotHauntedByThePast` (`HealthyCallsSucceed`) adds `Healthy`, for a call that nothing disturbed
since it began: once it logged in again its session is live, and the second renewal of the token comes
with that new session, so the token is good when the edit is sent. It assumes `TokenRenewals >= 2`, the code's value;
with one renewal less TLC refutes it.

`ListsAreReadOnce` (`ListIsReadOnce`, in the same module) holds for any list, limits and dates; it assumes
only that the keys of the items are numbers (`ListAssumption`). Its invariant `ListIsGoingOn` says that what the
caller has is in order and before what comes next (`InOrderUpTo`), that no item that stayed was skipped
(`NoneSkipped`), and that what the requests of this call were about is not later than what comes next, and
earlier unless the last answer was empty (`SentIsBehind`): so a request that was sent already means that the
wiki gave nothing, and the guard against loops never cuts a sound reading. It needs that a query other than a
continuation starts from nothing (`StatusIsRight`), and that the order of a query is total (`OrderOfItems`).

`ManyPagesAreReadAsOne` (`PagesAreReadCompletely`, in the same module) holds for any question, limit, redirects and
answers. Its invariant `ReaderInv` says for each title asked about that what is stored is right for the number of
properties of its page that the wiki has given so far (`RightSoFar`, by kind of question: what the callback adds to
a list, keeps once, or overwrites), and that a title asked about once is in one range only. The rest is about the
way back from a page to titles: if redirects have at most two hops, the titles of a range that are answered are
exactly those of this wiki (`TitlesOfThisWikiAreAnswered`), so no page is one that was not asked about, and
a callback called twice for a title in one answer does no harm unless it adds to a list (`UpdateIsCallback`). It
assumes that what the wiki normalizes or redirects are titles of its own, that it normalizes to normal forms
(`TitlesAreLocal`), that pages are neither special nor elsewhere (`PagesAreApart`), and that the limit is positive.

**Only model-checked.** Liveness (`EventuallyDelivered`, `EveryJobLeaves`, `RunnerReturns`,
`CallsReturn`), which TLAPS cannot state with fairness; two overlapping
synchronisers; and five algorithms (`ParsesInTwoPasses`, `NodesReadBack`, `MarkersAreRespected`, `DatesReadBack`,
`JsonReadsBack`), which recur over trees, lists of tokens and texts with recursive operators, out of the provers'
reach. Of `DatesReadBack` the part about the calendar is proved. The inductive invariants and
`ReadyIsDue` (a job that is ready is one that its date allows) are invariants no run checks any more; they
were checked with TLC before they were proved.

## 5. What is not modelled

`PROJECT.json` lists every component with its reason.

- *Input and output*: files, HTTP, logs, command lines, dumps and their statistics.
- *Programs without memory*: the sandbox, the statuses on user pages and the monthly categories overwrite
  a page with something computed from the wiki; there is no step between which something could go
  wrong. The same holds for reports that bots print.
- *Wording*: messages, summaries and titles are model values, except where a property is about them
  (`PageMarkers!CommentIsShown`). The fixed patterns of `detect_standard_message` and the request to a
  language model are free choices in `LostMessages`.
- *mwclient*: other writes than edits of one page (`movePage`, `deletePage`, `protectPage`... send one
  request as `appendToPage` does), the first `logIn` and its session file, write hooks, the conversion of
  each JSON item, site queries; in titles, entities and invalid UTF-8; in the parser, error messages.
- *cbl*: the SQLite wrapper's own nesting of transactions, hashes, random numbers.
- `job_queue.cpp:60` opens the database with `SYNC_OFF`: a power failure may lose or corrupt the last
  transactions. A model of it would only restate SQLite's documentation.
- `job_runner.cpp:108` and `:111`: two runners may both run a job, and then the record of attempts is
  computed from a stale copy. The runs include it (`two_runners`), `ArticleToDraft` relies on it, and no
  property forbids it.

## 6. Disagreements met while modelling

- `recent_changes_reader.cpp:94`: a start date after the newest row makes the reader enumerate the
  whole table, although the header says that the enumeration may not start earlier (run `start`).
- `recent_changes_reader.cpp:226`: the end date is ignored when `RP_TIMESTAMP` is not among the
  requested properties, as the row then has a null date. The reader is modelled that way
  (`PastEnd`); no property is about it.
- `recent_changes_sync.cpp:63` and `:222`: when expiry leaves the table empty the next synchronisation is a
  first one and restarts from the newest change; `baseline` records it.
- `job_queue.cpp:73`: the comment says `run_after >= now` where line 187 means `run_after <= now`.
- `job_runner.cpp:38`: the delay "infinite" is written to the field that later holds seconds and is
  read back as 0 (`OldDelay`).
- `request.cpp:158`: the emergency stop is tested in the same loop that sends the edit again, so
  `EmergencyStopError` may be thrown for an edit that is on the page, whereas `wiki.h:388` says that
  the operation is not executed (run `stop`).
- `wiki_base.cpp:36`: the delay between edits counts from the start of the previous edit, before its
  token, stop test and retries, whereas `wiki.h:410` says that it counts from the time the edit was
  done. Not modelled.
- `bot_requests_archiver_lib.cpp:154` and `:161`: `request.h:40` says of edits with their full text that
  it is safe to send them again. It is not for this caller: when the answer to an executed edit was
  lost and a user edits before it is sent again, `editPage` runs its body a second time. The body of the cut
  then finds nothing to move, `numToArchive` is 0 and the archive is skipped: the requests are lost and no error
  is reported. The body of the append adds the requests a second time. A user who creates the archive
  between its reading and its creation has the requests lost too, with an error (`wiki_base.cpp:111`).
  `RequestsInOnePlace` names these cases and holds with them.
- `bot_exclusion.h:8` says that the function checks whether `{{nobots}}` or `{{bots}}` blocks an edit. It does not
  see `{{{nobots}}` (`bot_exclusion.cpp:21`), which the parser reads as "{" and a template. `MarkersAreRespected`
  excepts such runs of braces.
- `include_tags.cpp:83` and `parser.cpp:519`: an unclosed `<pre>` is text for the former and
  hides the rest of the page for the latter. `MarkersAreRespected` compares them with that difference.
- `lost_messages_lib.cpp:442`: a page is dropped as soon as one of its revisions is not a post, and the first
  of two revisions saved between two runs is not the last one; the second is then never examined,
  whereas `lost_messages_lib.h:76` promises the first post by the user (run `lost_posts`).

Not stated as findings, because the text that would be contradicted is vague or because nothing depends on it:

- *Reads.* `readPages` and `getPagesDisambigStatus` store what each answer gives, so an answer that comes
  in several parts may leave a page without what an earlier part gave (`wiki.h:259`). `readRevisions` and
  `getUsersInfo` never ask for the rest. Titles given twice in one range double their links. When a chain
  of three redirects ends on a page that was also requested, the first title silently gets nothing.
  `readPages` gives revision 0 for special pages where `readPage` throws.
- *Nodes.* `parser_nodes.h` says that `setFieldValue` keeps the name of the parameter: not when a
  comment or a template in the name holds "=", nor when an unnamed field is given a value with "=".
- *Titles.* "::x" and "Talk:User:x" change again when they are normalised again.
- *Bot exclusion.* `{{bots|x={{y}}|deny=B}}`, whose fields are not plain text, is not seen.
- *Dates.* A two-digit year after the name of a month is a year before 100; "45 1er janvier 2020" is a
  date; `dayOfWeek` is wrong before 1970.
- *UTF-8, JSON.* `utf8::len` stops at the first invalid byte, which the header counts as 1. `strtol` would
  also read a sign, blanks or "0x" in a `\u` escape.
- *Subpages.* A page renamed without redirect while a run is under way leaves its subpages behind, and so
  does a title whose subpage was refused because the new name was taken, once its page moves on. More
  than 2000 moves or 50 subpages are cut off, and moves older than 50 hours are not read.
- *Lost messages.* When the mentor's page was edited but the edit was reported as failed, the user has a
  reply as well. A page that was changed and changed back is taken for unchanged (`lost_messages_lib.cpp:763` compares
  texts): the bot then replies although a human edited, and a reply of its own that was undone may be made
  again. `RepliesOnceAndAlone` allows both.
- *Newsletters.* Flow boards, and the page of proposed tweets, are not checked for an existing message.
- *Main page.* The expansion of a source whose template had changed too recently stays in the cache and is used an hour
  later, even if the template was repaired meanwhile (`template_expansion_cache.cpp:97`).
- *Published drafts.* The entry of a draft whose title was overwritten by another page may stay on the list.

## 7. Plan

1. The first login with its session file, and `SqliteConnection` (nested transactions).
2. The bots over `PageWrites` instead of their own pages: `editPage` as the abstract module promises it.

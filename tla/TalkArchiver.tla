---------------------------- MODULE TalkArchiver ----------------------------
(***************************************************************************)
(* The talk page archiver (src/orlodrimbot/talk_page_archiver) on one talk *)
(* page.  Users post threads, reply to them and change the archiving       *)
(* template while a run of the bot reads the page, decides which threads   *)
(* are old enough, writes them to one or several archives and then cuts    *)
(* them from the page.                                                     *)
(*                                                                         *)
(* A text is a version of a thread: a record                               *)
(*   [id, level, kept, kind, date, since]                                  *)
(* with the level of its title, whether it holds {{Ne pas archiver}}, what *)
(* the algorithms recognise in it, the day of its last signature (NoDate   *)
(* if it has none) and the day this text appeared in the page's history.   *)
(* Sizes of archives are counted in threads.                               *)
(***************************************************************************)
EXTENDS Selections, SequencesExt

CONSTANTS Threads,       \* the threads users may post
          LastDay,       \* bound on the clock
          Counters,      \* values users may give to the counter
          MaxTalkRevid,  \* bound on the edits of users to the talk page
          MaxFailures,   \* bound on failed calls, unknown outcomes and crashes
          Posts,         \* level, kind and signature of the threads users may post
          Templates      \* the parameters users may give to the template

ASSUME TemplatesAssumption ==
  /\ Templates # {} /\ Counters \subseteq Int
  /\ Templates \subseteq [algos : SUBSET [name : STRING, age : Int], minLeft : Int, minToArchive : Int,
                          numbered : BOOLEAN, maxSize : Nat \ {0}, tracking : BOOLEAN, subpage : BOOLEAN]
ASSUME PostsAssumption == Posts \subseteq [level : Int, kind : STRING, signed : BOOLEAN]

NoDate == -1
NotSet == -1   \* ARCHIVE_PARAM_NOT_SET
NoText == [level |-> NotSet]

VARIABLES talkPage,      \* the texts of the page, in order
          template,      \* the parameters of {{Archivage par bot}} on the page
          counter,       \* its parameter "counter", NotSet if missing
          talkRevid,
          archives,      \* title of an archive that exists -> the texts it holds, in order
          erased,        \* texts the bot removed without archiving them
          latest,        \* thread -> its last text posted, a history variable
          today,
          stableRevids,  \* the file stable_revids.txt
          run,           \* the run of the bot
          failures

archiverVars == <<talkPage, template, counter, talkRevid, archives, erased, latest,
                  today, stableRevids, run, failures>>

Numbered(i) == <<"archive", i>>
Dated(d) == <<"year", d>>

NoRun == [step |-> "idle", base |-> 0, todo |-> <<>>, page |-> <<>>, gone |-> {},
          counter |-> NotSet, newestFirst |-> FALSE, stable |-> {}]

---------------------------------------------------------------------------
(* What the template asks for.                                             *)

\* The algorithms of the template, the most specific first whatever their
\* order in the parameter; "old(15d)" when there is none.
Registered == <<"erasedda", "dda", "eraseanecdotes", "anecdotes", "erasenewsletters", "fdn",
                "checked+old", "oldtitle", "old", "eraseold">>
Algorithms(t) ==
  LET Before(a, b) == \E i, j \in DOMAIN Registered :
                        i < j /\ a.name = Registered[i] /\ b.name = Registered[j]
  IN  IF t.algos = {} THEN <<[name |-> "old", age |-> 15]>> ELSE SetToSortSeq(t.algos, Before)

Default(value, default) == IF value = NotSet THEN default ELSE value

\* A page with the tracking template of a category is read backwards and may
\* be emptied down to one thread; the others keep 3 threads by default.
MinLeft(t) == Default(t.minLeft, IF t.tracking THEN 1 ELSE 3)
MinToArchive(t) ==
  LET asked == Default(t.minToArchive, IF t.tracking THEN 1 ELSE 2)
  IN  IF asked > 1 THEN asked ELSE 1

---------------------------------------------------------------------------
(* The state of a thread.                                                  *)

\* The kind of texts each algorithm looks for: standard messages of deletion
\* debates and of "did you know", newsletters (seen at the end of the text),
\* questions with a final answer, titles with a mark or a date.
Recognises ==
  [erasedda |-> {"afd"}, dda |-> {"afd"}, eraseanecdotes |-> {"anecdote"}, anecdotes |-> {"anecdote"},
   erasenewsletters |-> {"newsletter"}, fdn |-> {"answered"}, oldtitle |-> {"dated"}] @@
  ("checked+old" :> {"checked"})
Erasing == {"erasedda", "eraseanecdotes", "erasenewsletters", "eraseold"}

Wanted(name, text) ==
  CASE name \in DOMAIN Recognises /\ text.kind \notin Recognises[name] -> "keep"
    [] name \notin DOMAIN Recognises \/ text.kind \in Recognises[name] ->
         IF name \in Erasing THEN "erase" ELSE "archive"

\* HistoryCache: the version of the page of that day has this very text.
InHistoryAt(text, day) == text.since <= day

\* A signed text is old when its last signature is; one without signature when
\* it was already in the version of the page of that day.
OldEnough(text, threshold) ==
  IF text.date = NoDate THEN InHistoryAt(text, threshold) ELSE text.date < threshold

\* The algorithms that want the text away and find it old enough: the first acts.
Acting(text, day, algos) ==
  {i \in DOMAIN algos : /\ Wanted(algos[i].name, text) # "keep"
                        /\ OldEnough(text, day - algos[i].age)}

State(text, day, algos) ==
  LET acting == Acting(text, day, algos)
  IN  CASE text.level # 2 -> "never_level"
        [] text.level = 2 /\ text.kept -> "never_text"
        [] text.level = 2 /\ ~text.kept /\ acting = {} -> "not_yet"
        [] OTHER -> Wanted(algos[Min(acting)].name, text)

DateOfText(text, day, algos) ==
  IF text.date # NoDate THEN text.date ELSE day - algos[Min(Acting(text, day, algos))].age

---------------------------------------------------------------------------
(* Which archive receives a thread.                                        *)

Size(arch, i) == IF Numbered(i) \in DOMAIN arch THEN Len(arch[Numbered(i)]) ELSE 0

\* goToLastArchive: double the index until a missing archive is met, then
\* halve the interval.  NoLimit stands for INT_MAX.
NoLimit == -1
NextPass(search, arch) ==
  LET index == IF search.high = NoLimit THEN 2 * search.low ELSE (search.low + search.high + 1) \div 2
  IN  CASE search.high # NoLimit /\ search.low >= search.high -> search
        [] search.high = NoLimit \/ search.low < search.high ->
             IF Size(arch, index) = 0 THEN [search EXCEPT !.high = index - 1]
             ELSE [search EXCEPT !.low = index]
EnoughPasses(arch) == 2 * Cardinality(DOMAIN arch) + 2
GoToLastArchive(arch) ==
  LET Search[n \in 0 .. EnoughPasses(arch)] ==
        IF n = 0 THEN [low |-> 1, high |-> NoLimit] ELSE NextPass(Search[n - 1], arch)
  IN  Search[EnoughPasses(arch)].low

\* initializeCounter: a missing counter, or one past the archives that exist
\* (a template copied from another page), is replaced by the last archive.
CounterAsGiven(c, arch) == IF c < 1 THEN GoToLastArchive(arch) ELSE c  \* mutant: past the end
FirstCounter(c, arch) ==
  IF c < 1 \/ (c > 1 /\ Size(arch, c) = 0 /\ Size(arch, c - 1) = 0)
  THEN GoToLastArchive(arch) ELSE c

\* used is the archives to write, in the order they were first used, each with
\* the texts it receives.
Added(used, title) == {k \in DOMAIN used : used[k].title = title}
Full(i, used, arch, maxSize) ==
  Size(arch, i) + (IF Added(used, Numbered(i)) = {} THEN 0
                   ELSE Len(used[Min(Added(used, Numbered(i)))].texts)) >= maxSize
Put(used, title, text) ==
  IF Added(used, title) = {} THEN Append(used, [title |-> title, texts |-> <<text>>])
  ELSE [k \in DOMAIN used |-> IF used[k].title = title THEN [used[k] EXCEPT !.texts = Append(@, text)]
                              ELSE used[k]]

\* From c on, the first archive that is not full: all those before it are.
FirstWithRoom(c, used, arch, maxSize) ==
  Max({i \in c .. c + Cardinality(DOMAIN arch) + Len(used) :
         \A j \in c .. i - 1 : Full(j, used, arch, maxSize)})

\* addThread: the counter is checked before the first text.
AddThread(plan, text, t, arch, day) ==
  LET from == IF plan.used = <<>> THEN FirstCounter(plan.counter, arch) ELSE plan.counter
      to == FirstWithRoom(from, plan.used, arch, t.maxSize)
  IN  IF t.numbered THEN [used |-> Put(plan.used, Numbered(to), text), counter |-> to]
      ELSE [used |-> Put(plan.used, Dated(DateOfText(text, day, Algorithms(t))), text),
            counter |-> plan.counter]

\* Gives each text of the sequence its archive, and the counter reached.
Allocate(texts, t, c, arch, day) ==
  LET Plan[n \in 0 .. Len(texts)] ==
        IF n = 0 THEN [used |-> <<>>, counter |-> c]
        ELSE AddThread(Plan[n - 1], texts[n], t, arch, day)
  IN  Plan[Len(texts)]

---------------------------------------------------------------------------
(* The decision of archivePageWithCode.                                    *)

InOrder(texts, t) == IF t.tracking THEN Reverse(texts) ELSE texts

ThreadsLeft(texts) == Cardinality({i \in DOMAIN texts : texts[i].level = 2})

\* The page has too few threads for any run to archive one, at any date.
InStableState(texts, t) == ThreadsLeft(texts) < MinLeft(t) + MinToArchive(t)

Candidates(texts, t, day) ==
  Selected(InOrder(texts, t), {x \in ToSet(texts) : State(x, day, Algorithms(t)) \in {"archive", "erase"}})

\* The texts that go, oldest first, as long as enough threads are left.
Going(texts, t, day) ==
  LET all == Candidates(texts, t, day)
      room == ThreadsLeft(texts) - MinLeft(t)
  IN  IF Len(all) < MinToArchive(t) \/ InStableState(texts, t) THEN <<>>
      ELSE SubSeq(all, 1, IF Len(all) < room THEN Len(all) ELSE room)

\* generateCode and updateArchiveTemplate: the page without what goes, and the
\* counter of its template when archives are numbered.
Remaining(texts, going) == Selected(texts, ToSet(texts) \ ToSet(going))
NewCounter(t, reached) == IF t.numbered THEN reached ELSE NotSet

\* checkArchiveName and the check of the algorithm of a tracking template.
Refused(t) == ~t.subpage \/ (t.tracking /\ {a.name : a \in t.algos} # {"oldtitle"})

NothingDueToday(texts, t) == ~Refused(t) /\ Going(texts, t, today) = <<>>  \* mutant: stable until tomorrow
Stable(texts, t) == ~Refused(t) /\ InStableState(texts, t)

---------------------------------------------------------------------------
(* The users and the clock.                                                *)

ArchiverInit ==
  /\ talkPage = <<>> /\ counter = NotSet /\ talkRevid = 1
  /\ template = CHOOSE t \in Templates : TRUE
  /\ archives = <<>> /\ erased = {} /\ latest = [t \in Threads |-> NoText]
  /\ today = 0 /\ stableRevids = {} /\ run = NoRun /\ failures = 0

UserEdits(newPage) ==
  /\ talkRevid < MaxTalkRevid
  /\ talkPage' = newPage /\ talkRevid' = talkRevid + 1
  /\ UNCHANGED <<archives, erased, today, stableRevids, run, failures>>

\* A new thread at the end; one with a date in its title is also signed.
Post(level, kind, signed) ==
  LET id == CHOOSE t \in Threads : latest[t] = NoText
      text == [id |-> id, level |-> level, kept |-> FALSE, kind |-> kind,
               date |-> IF signed THEN today ELSE NoDate, since |-> today]
  IN  /\ \E t \in Threads : latest[t] = NoText
      /\ kind = "dated" => signed
      /\ latest' = [latest EXCEPT ![id] = text]
      /\ UserEdits(Append(talkPage, text)) /\ UNCHANGED <<template, counter>>

\* The addition of {{Ne pas archiver}}, or a signed reply, after which a
\* newsletter is no longer one.
Change(i, keep) ==
  LET text == IF keep THEN [talkPage[i] EXCEPT !.kept = TRUE, !.since = today]
              ELSE [talkPage[i] EXCEPT !.date = today, !.since = today,
                      !.kind = IF @ = "newsletter" THEN "talk" ELSE @]
  IN  /\ text # talkPage[i]
      /\ latest' = [latest EXCEPT ![text.id] = text]
      /\ UserEdits([talkPage EXCEPT ![i] = text]) /\ UNCHANGED <<template, counter>>

ChangeTemplate(t, c) ==
  /\ <<t, c>> # <<template, counter>>
  /\ template' = t /\ counter' = c
  /\ UserEdits(talkPage) /\ UNCHANGED latest

NextDay ==
  /\ today < LastDay
  /\ today' = today + 1
  /\ UNCHANGED <<talkPage, template, counter, talkRevid, archives, erased, latest,
                 stableRevids, run, failures>>

---------------------------------------------------------------------------
(* The bot.                                                                *)

\* What a step of the bot leaves alone.
UsersWait == UNCHANGED <<latest, today, template>>

\* filterStablePages.
KnownStable == talkRevid \in stableRevids

\* archiveAll: a page whose last revision is known to be stable is not read.
StartRun ==
  /\ run.step = "idle"
  /\ run' = IF KnownStable THEN [NoRun EXCEPT !.step = "save", !.stable = {talkRevid}]
            ELSE [NoRun EXCEPT !.step = "read"]
  /\ UsersWait /\ UNCHANGED <<talkPage, counter, talkRevid, archives, erased, stableRevids, failures>>

\* archivePage up to the writes: read the page and decide what goes where.
ReadAndPlan ==
  LET going == Going(talkPage, template, today)
      archived == Selected(going, {x \in ToSet(going) : State(x, today, Algorithms(template)) = "archive"})
      plan == Allocate(archived, template, counter, archives, today)
  IN  /\ run.step = "read"
      /\ run' = IF Refused(template) \/ going = <<>>
                THEN [NoRun EXCEPT !.step = "save", !.stable = IF Stable(talkPage, template) THEN {talkRevid} ELSE {}]
                ELSE [NoRun EXCEPT !.step = "archives", !.base = talkRevid, !.todo = plan.used,
                        !.page = Remaining(talkPage, going),
                        !.gone = ToSet(going) \ ToSet(archived),
                        !.newestFirst = template.tracking,
                        !.counter = NewCounter(template, plan.counter)]
      /\ UsersWait /\ UNCHANGED <<talkPage, counter, talkRevid, archives, erased, stableRevids, failures>>

\* A call that writes ends well, fails, or was executed although it failed:
\* archivePages gives up the page on any error.
Outcomes == IF failures < MaxFailures THEN {"done", "failed", "unknown"} ELSE {"done"}

AfterCall(outcome) == IF outcome = "done" THEN "archives" ELSE "save"

\* ArchivePage::update on the next archive used: old texts first, except with
\* a tracking template.
WriteArchive(outcome) ==
  LET next == Head(run.todo)
      old == IF next.title \in DOMAIN archives THEN archives[next.title] ELSE <<>>
      new == IF run.newestFirst THEN Reverse(next.texts) \o old ELSE old \o next.texts
  IN  /\ run.step = "archives" /\ run.todo # <<>>
      /\ archives' = IF outcome = "failed" THEN archives
                     ELSE [x \in DOMAIN archives \cup {next.title} |->
                             IF x = next.title THEN new ELSE archives[x]]
      /\ run' = [run EXCEPT !.todo = Tail(@), !.step = AfterCall(outcome)]
      /\ failures' = failures + (IF outcome = "done" THEN 0 ELSE 1)
      /\ UsersWait /\ UNCHANGED <<talkPage, counter, talkRevid, erased, stableRevids>>

\* The write token of the read: an edit of a user in between makes the wiki
\* refuse the write.
WrittenAnyway(outcome) == outcome # "failed"  \* mutant: no write token
PageIsWritten(outcome) == outcome # "failed" /\ talkRevid = run.base

\* The page is written last.
WritePage(outcome) ==
  LET written == PageIsWritten(outcome)
  IN  /\ run.step = "archives" /\ run.todo = <<>>
      /\ talkRevid' = IF written THEN talkRevid + 1 ELSE talkRevid
      /\ talkPage' = IF written THEN run.page ELSE talkPage
      /\ erased' = IF written THEN erased \cup run.gone ELSE erased
      /\ counter' = IF written /\ run.counter # NotSet THEN run.counter ELSE counter
      /\ run' = [NoRun EXCEPT !.step = "save"]
      /\ failures' = failures + (IF outcome = "done" THEN 0 ELSE 1)
      /\ UsersWait /\ UNCHANGED <<archives, stableRevids>>

\* The file is replaced by what this run saw: a page that failed is read again.
SaveStableRevids ==
  /\ run.step = "save"
  /\ stableRevids' = run.stable
  /\ run' = NoRun
  /\ UsersWait /\ UNCHANGED <<talkPage, counter, talkRevid, archives, erased, failures>>

Crash ==
  /\ run.step # "idle" /\ failures < MaxFailures
  /\ run' = NoRun /\ failures' = failures + 1
  /\ UsersWait /\ UNCHANGED <<talkPage, counter, talkRevid, archives, erased, stableRevids>>

ArchiverNext ==
  \/ \E p \in Posts : Post(p.level, p.kind, p.signed)
  \/ \E i \in DOMAIN talkPage, keep \in BOOLEAN : Change(i, keep)
  \/ \E t \in Templates, c \in Counters \cup {NotSet} : ChangeTemplate(t, c)
  \/ NextDay
  \/ StartRun
  \/ ReadAndPlan
  \/ \E outcome \in Outcomes : WriteArchive(outcome) \/ WritePage(outcome)
  \/ SaveStableRevids
  \/ Crash

ArchiverSpec == ArchiverInit /\ [][ArchiverNext]_archiverVars

---------------------------------------------------------------------------
(* Properties.                                                             *)

Archived == UNION {ToSet(archives[x]) : x \in DOMAIN archives}

\* Whatever fails or is interrupted, and whoever edits the page meanwhile, the
\* last text of every thread posted is on the page or in an archive, unless an
\* algorithm that erases chose that very text: archives are written before the
\* page is cut, and the page is cut only if it is still the one that was read.
NothingIsLost ==
  \A id \in Threads : latest[id] # NoText =>
    \/ latest[id] \in ToSet(talkPage) \cup Archived
    \/ latest[id] \in erased

\* A run that starts from a wrong counter, or that is interrupted between two
\* archives, leaves no hole in the numbered archives: the search of the last
\* archive of later runs depends on it.
ArchivesHaveNoHole ==
  \A title \in DOMAIN archives :
    title[1] = "archive" => title[2] = 1 \/ Numbered(title[2] - 1) \in DOMAIN archives

\* A revision recorded as stable is one that no later run would archive
\* anything from, whatever the date: skipping it without reading it is sound.
StableMeansNothingToDo ==
  talkRevid \in stableRevids =>
    \A day \in today .. LastDay + 15 : Going(talkPage, template, day) = <<>>
=============================================================================

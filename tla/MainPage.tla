------------------------------- MODULE MainPage -------------------------------
(***************************************************************************)
(* The updater of the main page (src/orlodrimbot/update_main_page).  The   *)
(* main page shows protected targets, copies of source pages that many     *)
(* users may edit: the news, the picture of the day, the article of the    *)
(* day.  A run reads the changes since its token, works out which targets  *)
(* to update, expands the templates of each source, through a cache, and   *)
(* writes the target, unless the source or a template is too recent.  What *)
(* it could not update stays in its state file, saved when it ends.        *)
(***************************************************************************)
EXTENDS Integers, FiniteSets

CONSTANTS FeaturedArticles,   \* articles that may be featured
          NoArticle,
          LastTime,           \* bound on the clock
          DayLength,          \* the clock ticks of a day
          Delay,              \* age of a source that may be copied (2 minutes)
          Trust,              \* age of a template that is trusted (1 hour)
          MaxSourceEdits,     \* bound on the edits of sources and templates
          MaxMainPageErrors   \* bound on failed calls and crashes

ASSUME TimeAssumption ==
  LastTime \in Nat /\ Trust \in 0 .. LastTime /\ DayLength \in Nat \ {0}

LastDayShown == LastTime \div DayLength
News == <<"news", 0>>
Picture(d) == <<"picture", d>>
Featured(a) == <<"featured", a>>
Sources == {News} \cup {Picture(d) : d \in 0 .. LastDayShown}
             \cup {Featured(a) : a \in FeaturedArticles \cup {NoArticle}}
MainPageTargets == {"news", "picture", "featured"}

VARIABLES time,          \* the clock
          source,        \* source -> its last revision: [rev, time, byBot]
          templateTime,  \* when the last version of the templates was saved
          expansions,    \* the cache: source -> [rev, template], for its last revision cached
          target,        \* target -> what it shows: [from, rev, template]
          unread,        \* sources that changed since the token of the state file
          saved,         \* the rest of the state file
          update,        \* the run
          sourceEdits, mainPageErrors

mainPageVars == <<time, source, templateTime, expansions, target, unread, saved, update,
                  sourceEdits, mainPageErrors>>

Day(t) == t \div DayLength

EmptyState == [day |-> -1, featuredDay |-> -1, article |-> NoArticle, targets |-> {}, toCache |-> {}]
NoUpdate == [step |-> "idle", day |-> 0, state |-> EmptyState, failed |-> {}, after |-> {}]

---------------------------------------------------------------------------
(* The map of sources and targets, and the pending work.                   *)

SourceOf(t, article, day) ==
  CASE t = "news" -> News
    [] t = "picture" -> Picture(day)
    [] OTHER -> Featured(article)

\* updatePendingWork: the targets of the sources that changed, and those whose
\* source is another one since the last update.
PendingTargets(state, day, featuredRead) ==
  state.targets
    \cup {t \in MainPageTargets : SourceOf(t, state.article, day) \in unread}
    \cup (IF saved.day # day THEN {"picture"} ELSE {})
    \cup (IF featuredRead THEN {"featured"} ELSE {})

\* shouldCachePage: a source that may be shown later is expanded now.
WorthCaching(day, article) ==
  {s \in unread : /\ \A t \in MainPageTargets : s # SourceOf(t, article, day)
                  /\ s \in {Picture(d) : d \in day .. LastDayShown} \cup {Featured(a) : a \in FeaturedArticles}}

\* TemplateExpansionCache: the templates of a revision are expanded once.
Expand(s) ==
  IF expansions[s].rev = source[s].rev THEN expansions[s]
  ELSE [rev |-> source[s].rev, template |-> templateTime]

\* Users have some time to check their edits; a template changed since, or
\* less than an hour ago, is not trusted.
TooRecent(s) == time - source[s].time < Delay /\ ~source[s].byBot
Later(t1, t2) == IF t1 > t2 THEN t1 ELSE t2
Trusted(template, s) == template < Later(source[s].time, time - Trust)

---------------------------------------------------------------------------

MainPageInit ==
  /\ time = Trust
  /\ source = [s \in Sources |-> [rev |-> 0, time |-> 0, byBot |-> FALSE]]
  /\ templateTime = -1
  /\ expansions = [s \in Sources |-> [rev |-> -1, template |-> -1]]
  /\ target = [t \in MainPageTargets |-> [from |-> News, rev |-> 0, template |-> -1]]
  /\ unread = {} /\ saved = EmptyState /\ update = NoUpdate
  /\ sourceEdits = 0 /\ mainPageErrors = 0

TimePasses ==
  /\ time < LastTime /\ time' = time + 1
  /\ UNCHANGED <<source, templateTime, expansions, target, unread, saved, update, sourceEdits,
                 mainPageErrors>>

EditSource(s, byBot) ==
  /\ s # Featured(NoArticle) /\ sourceEdits < MaxSourceEdits /\ sourceEdits' = sourceEdits + 1
  /\ source' = [source EXCEPT ![s] = [rev |-> @.rev + 1, time |-> time, byBot |-> byBot]]
  /\ unread' = unread \cup {s}
  /\ update' = IF update.step = "idle" THEN update ELSE [update EXCEPT !.after = @ \cup {s}]
  /\ UNCHANGED <<time, templateTime, expansions, target, saved, mainPageErrors>>

EditTemplate ==
  /\ sourceEdits < MaxSourceEdits /\ sourceEdits' = sourceEdits + 1
  /\ templateTime # time /\ templateTime' = time
  /\ UNCHANGED <<time, source, expansions, target, unread, saved, update, mainPageErrors>>

---------------------------------------------------------------------------
(* The run.                                                                *)

\* The article of the day is read once a day, and perhaps not found.
StartUpdate(article, found) ==
  LET day == Day(time)
      read == saved.featuredDay # day /\ found
      state == IF read THEN [saved EXCEPT !.featuredDay = day, !.article = article] ELSE saved
  IN  /\ update.step = "idle" /\ (IF read THEN article # NoArticle ELSE article = saved.article)
      /\ update' = [NoUpdate EXCEPT !.step = "update", !.day = day,
                      !.state = [state EXCEPT !.day = day,
                                   !.targets = PendingTargets(state, day, read),
                                   !.toCache = @ \cup WorthCaching(day, state.article)]]
      /\ UNCHANGED <<time, source, templateTime, expansions, target, unread, saved, sourceEdits,
                     mainPageErrors>>

\* updateTargetPage.  An error of the wiki, a missing source or a stylesheet
\* that is not protected, and the target stays to be done; a target that no
\* source has, as no article was read yet, is forgotten.
UpdateTarget(t, outcome) ==
  LET s == SourceOf(t, update.state.article, update.day)
      expansion == Expand(s)
      noSource == s = Featured(NoArticle)
      read == outcome # "unreadable" /\ ~noSource
      accepted == read /\ ~TooRecent(s) /\ Trusted(expansion.template, s)
  IN  /\ update.step = "update" /\ t \in update.state.targets
      /\ outcome # "done" => mainPageErrors < MaxMainPageErrors
      /\ expansions' = IF read THEN [expansions EXCEPT ![s] = expansion] ELSE expansions
      /\ target' = IF accepted /\ outcome \in {"done", "unknown"}
                   THEN [target EXCEPT ![t] = [from |-> s, rev |-> source[s].rev,
                                               template |-> expansion.template]]
                   ELSE target
      /\ update' = [update EXCEPT !.state.targets = @ \ {t},
                      !.failed = IF noSource \/ (accepted /\ outcome = "done") THEN @ ELSE @ \cup {t}]
      /\ mainPageErrors' = mainPageErrors + (IF outcome = "done" THEN 0 ELSE 1)
      /\ UNCHANGED <<time, source, templateTime, unread, saved, sourceEdits>>

\* The sources to cache, after all the targets.
CacheSource(s, failed) ==
  /\ update.step = "update" /\ update.state.targets = {} /\ s \in update.state.toCache \ update.failed
  /\ failed => mainPageErrors < MaxMainPageErrors
  /\ expansions' = IF failed THEN expansions ELSE [expansions EXCEPT ![s] = Expand(s)]
  /\ update' = IF failed THEN [update EXCEPT !.failed = @ \cup {s}]
               ELSE [update EXCEPT !.state.toCache = @ \ {s}]
  /\ mainPageErrors' = mainPageErrors + (IF failed THEN 1 ELSE 0)
  /\ UNCHANGED <<time, source, templateTime, target, unread, saved, sourceEdits>>

\* markTopPageAsFailed: what the next run finds in the state file.
NothingLeft == {}  \* mutant: a failed target is dropped
FailedTargets == update.failed \cap MainPageTargets

\* The destructor and RunOnDestroy.
SaveState ==
  /\ update.step = "update" /\ update.state.targets = {} /\ update.state.toCache \subseteq update.failed
  /\ saved' = [update.state EXCEPT !.targets = FailedTargets]
  /\ unread' = update.after /\ update' = NoUpdate
  /\ UNCHANGED <<time, source, templateTime, expansions, target, sourceEdits, mainPageErrors>>

\* Or an error that nothing catches: the state file stays the one of before.
UpdateCrashes ==
  /\ update.step # "idle" /\ mainPageErrors < MaxMainPageErrors
  /\ update' = NoUpdate /\ mainPageErrors' = mainPageErrors + 1
  /\ UNCHANGED <<time, source, templateTime, expansions, target, unread, saved, sourceEdits>>

MainPageNext ==
  \/ TimePasses
  \/ \E s \in Sources, byBot \in BOOLEAN : EditSource(s, byBot)
  \/ EditTemplate
  \/ \E article \in FeaturedArticles \cup {NoArticle}, found \in BOOLEAN : StartUpdate(article, found)
  \/ \E t \in MainPageTargets, outcome \in {"done", "failed", "unknown", "unreadable"} : UpdateTarget(t, outcome)
  \/ \E s \in Sources, failed \in BOOLEAN : CacheSource(s, failed)
  \/ SaveState
  \/ UpdateCrashes

MainPageSpec == MainPageInit /\ [][MainPageNext]_mainPageVars

---------------------------------------------------------------------------
(* Properties.                                                             *)

\* A target that does not show the last revision of its source is one the next
\* run will see it has to update, from its state file, the changes since its
\* token or the date: no error, delay, crash or edit at the wrong moment makes
\* it stay stale.
StaleTargetsArePending ==
  \A t \in MainPageTargets :
    LET s == SourceOf(t, saved.article, Day(time))
        shown == target[t].from = s /\ target[t].rev = source[s].rev
    IN  shown \/ t \in saved.targets \/ s \in unread
          \/ (t = "picture" /\ saved.day # Day(time)) \/ (t = "featured" /\ saved.featuredDay # Day(time))
=============================================================================

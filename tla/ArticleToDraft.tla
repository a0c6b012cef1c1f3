---------------------------- MODULE ArticleToDraft ----------------------------
(***************************************************************************)
(* The handler of articles turned into drafts                              *)
(* (src/orlodrimbot/article_to_draft_move), for one user whose articles    *)
(* were moved to subpages of the user page.  The job of a draft leaves a   *)
(* message on the talk page, then a banner on the standard draft of the    *)
(* user.  The job runner may run a job again after a failure, and two      *)
(* runners may run the same one; other people edit the two pages.          *)
(***************************************************************************)
EXTENDS Integers, SequencesExt

CONSTANTS Drafts,           \* the drafts that jobs are about
          StandardDraft,    \* the one, perhaps not in Drafts, whose link is in the interface
          DraftWorkers,     \* the runners
          BannerLimit,      \* 5 in the code
          MaxPeopleEdits,   \* bound on the edits of other people
          MaxHandlerErrors  \* bound on failed calls

ASSUME BannerLimitAssumption == BannerLimit \in Nat

VARIABLES talk,         \* [drafts, index, kind]: the talk page of the user
          draftPage,    \* [banners, kind]: the page StandardDraft
          jobsLeft,     \* drafts whose job is in the queue
          worker,       \* worker -> its job and what it has read
          peopleEdits, handlerErrors

articleVars == <<talk, draftPage, jobsLeft, worker, peopleEdits, handlerErrors>>

NoWork == [step |-> "idle", draft |-> StandardDraft, stale |-> FALSE]

---------------------------------------------------------------------------
(* What the two edits do.                                                  *)

SendsMessageAgain(draft) ==  \* mutant: the draft is not looked for on the page
  /\ talk.kind # "excluded" /\ talk.index # "recent" /\ (talk.index = "old" \/ talk.kind # "redirect")

\* The talk page gets no message if it excludes the bot, links to the draft,
\* is a redirect, or has a recent link to the list of subpages; a link that is
\* older than the move hides the redirect.
SendsMessage(draft) ==
  /\ talk.kind # "excluded" /\ draft \notin ToSet(talk.drafts)
  /\ talk.index # "recent" /\ (talk.index = "old" \/ talk.kind # "redirect")

\* A redirect to an article is replaced by the banner, any other is kept.
AddsBanner(draft) ==
  /\ draftPage.kind \notin {"excluded", "redirect"}
  /\ draft \notin ToSet(draftPage.banners) /\ Len(draftPage.banners) < BannerLimit

---------------------------------------------------------------------------

ArticleInit ==
  /\ talk = [drafts |-> <<>>, index |-> "none", kind |-> "text"]
  /\ draftPage = [banners |-> <<>>, kind |-> "text"]
  /\ jobsLeft = Drafts /\ worker = [w \in DraftWorkers |-> NoWork]
  /\ peopleEdits = 0 /\ handlerErrors = 0

\* The write of a page makes the others that read it start again.
Stale(step) == [w \in DraftWorkers |-> IF worker[w].step = step
                                       THEN [worker[w] EXCEPT !.stale = TRUE] ELSE worker[w]]

PeopleEdit ==
  /\ peopleEdits < MaxPeopleEdits /\ peopleEdits' = peopleEdits + 1
  /\ UNCHANGED <<jobsLeft, handlerErrors>>

\* Somebody tells the user about subpages, the user clears the page, redirects
\* it or excludes the bot.
EditTalk(index, kind, cleared) ==
  /\ PeopleEdit
  /\ talk' = [drafts |-> IF cleared THEN <<>> ELSE talk.drafts, index |-> index, kind |-> kind]
  /\ talk' # talk
  /\ worker' = Stale("talk") /\ UNCHANGED draftPage

\* The user removes the banners, or replaces the draft by a redirect.
EditDraft(kind) ==
  /\ PeopleEdit
  /\ draftPage' = [banners |-> IF kind \in {"text", "to_article"} THEN <<>> ELSE draftPage.banners,
                   kind |-> kind]
  /\ draftPage' # draftPage
  /\ worker' = Stale("draft") /\ UNCHANGED talk

---------------------------------------------------------------------------
(* The handler.                                                            *)

PeopleWait == UNCHANGED peopleEdits
Does(w, work) == worker' = [worker EXCEPT ![w] = work]

\* The checks on the creator and the mover; the job that is not concerned ends.
\* A runner takes a job that another one may have taken.
TakeJob(w, draft, concerned) ==
  /\ worker[w].step = "idle" /\ draft \in jobsLeft
  /\ IF concerned THEN Does(w, [NoWork EXCEPT !.step = "read_talk", !.draft = draft]) /\ UNCHANGED jobsLeft
     ELSE jobsLeft' = jobsLeft \ {draft} /\ UNCHANGED worker
  /\ PeopleWait /\ UNCHANGED <<talk, draftPage, handlerErrors>>

EndJob(w) == Does(w, NoWork) /\ jobsLeft' = jobsLeft \ {worker[w].draft}

\* Temporary accounts have no standard draft.
ReadDraftOrEnd(w, temporary) ==
  IF worker[w].draft = StandardDraft \/ temporary THEN EndJob(w)
  ELSE Does(w, [worker[w] EXCEPT !.step = "read_draft", !.stale = FALSE]) /\ UNCHANGED jobsLeft

ReadTalk(w, temporary) ==
  /\ worker[w].step = "read_talk"
  /\ IF talk.kind = "excluded" THEN EndJob(w)
     ELSE IF ~SendsMessage(worker[w].draft) THEN ReadDraftOrEnd(w, temporary)
     ELSE Does(w, [worker[w] EXCEPT !.step = "talk", !.stale = FALSE]) /\ UNCHANGED jobsLeft
  /\ PeopleWait /\ UNCHANGED <<talk, draftPage, handlerErrors>>

\* A failed job stays in the queue.
Fail(w) == Does(w, NoWork) /\ UNCHANGED jobsLeft

WriteTalk(w, outcome, temporary) ==
  LET written == outcome # "failed" /\ ~worker[w].stale
  IN  /\ worker[w].step = "talk"
      /\ talk' = IF written THEN [talk EXCEPT !.drafts = Append(@, worker[w].draft)] ELSE talk
      /\ handlerErrors' = handlerErrors + (IF outcome = "done" THEN 0 ELSE 1)
      /\ LET others == IF written THEN Stale("talk") ELSE worker
             next == CASE outcome # "done" -> NoWork
                       [] outcome = "done" /\ worker[w].stale -> [worker[w] EXCEPT !.step = "read_talk"]
                       [] outcome = "done" /\ ~worker[w].stale
                            /\ (worker[w].draft = StandardDraft \/ temporary) -> NoWork
                       [] OTHER -> [worker[w] EXCEPT !.step = "read_draft"]
         IN  /\ worker' = [others EXCEPT ![w] = next]
             /\ jobsLeft' = IF outcome = "done" /\ next = NoWork THEN jobsLeft \ {worker[w].draft} ELSE jobsLeft
      /\ PeopleWait /\ UNCHANGED draftPage

ReadDraft(w) ==
  /\ worker[w].step = "read_draft"
  /\ IF AddsBanner(worker[w].draft)
     THEN Does(w, [worker[w] EXCEPT !.step = "draft", !.stale = FALSE]) /\ UNCHANGED jobsLeft
     ELSE EndJob(w)
  /\ PeopleWait /\ UNCHANGED <<talk, draftPage, handlerErrors>>

WriteDraft(w, outcome) ==
  LET written == outcome # "failed" /\ ~worker[w].stale
      ends == outcome = "done" /\ ~worker[w].stale
      next == IF outcome = "done" /\ worker[w].stale THEN [worker[w] EXCEPT !.step = "read_draft"] ELSE NoWork
      others == IF written THEN Stale("draft") ELSE worker
  IN  /\ worker[w].step = "draft"
      /\ draftPage' = IF ~written THEN draftPage
                      ELSE [banners |-> <<worker[w].draft>> \o draftPage.banners, kind |-> "text"]
      /\ handlerErrors' = handlerErrors + (IF outcome = "done" THEN 0 ELSE 1)
      /\ worker' = [others EXCEPT ![w] = next]
      /\ jobsLeft' = IF ends THEN jobsLeft \ {worker[w].draft} ELSE jobsLeft
      /\ PeopleWait /\ UNCHANGED talk

HandlerOutcomes == IF handlerErrors < MaxHandlerErrors THEN {"done", "failed", "unknown"} ELSE {"done"}

ArticleNext ==
  \/ \E i \in {"none", "old", "recent"}, k \in {"text", "redirect", "excluded"}, c \in BOOLEAN : EditTalk(i, k, c)
  \/ \E k \in {"text", "to_article", "redirect", "excluded"} : EditDraft(k)
  \/ \E w \in DraftWorkers :
       \/ \E draft \in Drafts, concerned \in BOOLEAN : TakeJob(w, draft, concerned)
       \/ \E temporary \in BOOLEAN :
            \/ ReadTalk(w, temporary)
            \/ \E outcome \in HandlerOutcomes : WriteTalk(w, outcome, temporary)
       \/ ReadDraft(w)
       \/ \E outcome \in HandlerOutcomes : WriteDraft(w, outcome)

ArticleSpec == ArticleInit /\ [][ArticleNext]_articleVars

---------------------------------------------------------------------------
(* Properties.                                                             *)

\* Whether a job runs twice because it failed after its edit was done, or at
\* the same time in two runners, the user never has two messages or two
\* banners about one draft, and never more banners than the limit.
NoticesAreNotRepeated ==
  /\ IsInjective(talk.drafts) /\ IsInjective(draftPage.banners)
  /\ Len(draftPage.banners) <= BannerLimit
=============================================================================

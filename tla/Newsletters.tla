----------------------------- MODULE Newsletters -----------------------------
(***************************************************************************)
(* The distributor of newsletters (src/orlodrimbot/newsletters).  A user   *)
(* publishes an issue by moving its page; a run finds the move in the      *)
(* recent changes, records the issue in its state file, then posts a       *)
(* message on the page of every subscriber and removes the messages of     *)
(* older issues.  An operator may force a distribution again, from any     *)
(* subscriber on.  Subscribers reply to messages and rename their pages.   *)
(***************************************************************************)
EXTENDS Selections, SequencesExt

CONSTANTS Subscribers,      \* the pages of the subscription page, in order
          KeepOld,          \* those that keep the messages of older issues
          FlowBoards,       \* the pages that are Flow boards at first
          OtherPages,       \* user pages that did not subscribe
          LastIssue,        \* bound on the number of issues
          MaxPageEdits,     \* bound on the edits of subscribers
          MaxPostErrors     \* bound on failed calls and crashes

SubscriberPages == ToSet(Subscribers) \cup OtherPages
NoPage == "no page"

ASSUME SubscribersAssumption ==
  /\ Subscribers \in Seq(SubscriberPages) /\ NoPage \notin SubscriberPages /\ LastIssue \in Nat
  /\ FlowBoards \subseteq SubscriberPages

VARIABLES sections,      \* page -> the sections of its wikitext: [issue, changed]
          boards,        \* the pages that are Flow boards; their topics are not looked at
          redirect,      \* page -> the page it redirects to, or NoPage
          lastMoved,     \* the issues moved to their final title so far are 1 .. lastMoved
          newMove,       \* the last move since the token of the state file: [issue, allowed]
          savedIssue,    \* "lastissue" of the state file
          job,           \* the run of the distributor
          pageEdits, postErrors

newsletterVars == <<sections, boards, redirect, lastMoved, newMove, savedIssue, job, pageEdits, postErrors>>

NoMove == [issue |-> 0, allowed |-> FALSE]
NoJob == [step |-> "idle", issue |-> 0, force |-> FALSE, todo |-> <<>>,
          target |-> NoPage, flow |-> FALSE, fresh |-> FALSE, content |-> <<>>]

---------------------------------------------------------------------------
(* The message.                                                            *)

\* The sections of older issues, all but the last of them, are removed unless
\* isStandardNewsletterSection finds a line in them that it does not know.
Removed(content, issue) ==
  LET old == {i \in DOMAIN content : content[i].issue # issue}
  IN  {i \in old : i # Max(old) /\ ~content[i].changed}

NewContent(content, issue, deleteOld) ==
  LET gone == IF deleteOld THEN Removed(content, issue) ELSE {}
      kept == Selected([k \in DOMAIN content |-> k], DOMAIN content \ gone)
  IN  Append([k \in DOMAIN kept |-> content[kept[k]]], [issue |-> issue, changed |-> FALSE])

NeverThere(content, issue) == FALSE  \* mutant: the page is not searched
HasIssue(content, issue) == \E i \in DOMAIN content : content[i].issue = issue

\* One redirect is followed, not two.
Target(page) == IF redirect[page] = NoPage THEN page ELSE redirect[page]

---------------------------------------------------------------------------

NewslettersInit ==
  /\ sections = [p \in SubscriberPages |-> <<>>] /\ redirect = [p \in SubscriberPages |-> NoPage]
  /\ boards = FlowBoards /\ lastMoved = 0 /\ newMove = NoMove /\ savedIssue = 0 /\ job = NoJob
  /\ pageEdits = 0 /\ postErrors = 0

\* An issue is moved to its final title, perhaps by a user who may not publish
\* it, perhaps the same issue again.
MoveIssue(issue, allowed) ==
  /\ issue <= lastMoved + 1
  /\ newMove' = [issue |-> issue, allowed |-> allowed]
  /\ lastMoved' = IF issue > lastMoved THEN issue ELSE lastMoved
  /\ UNCHANGED <<sections, boards, redirect, savedIssue, job, pageEdits, postErrors>>

\* An edit of these pages, after which the write token of the run is stale if
\* it read one of them.
SubscriberEdits(edited) ==
  /\ pageEdits < MaxPageEdits /\ pageEdits' = pageEdits + 1
  /\ job' = IF job.target \in edited THEN [job EXCEPT !.fresh = FALSE] ELSE job
  /\ UNCHANGED <<lastMoved, newMove, savedIssue, postErrors>>

ReplyToMessage(p, i) ==
  /\ SubscriberEdits({p}) /\ ~sections[p][i].changed
  /\ sections' = [sections EXCEPT ![p][i].changed = TRUE] /\ UNCHANGED <<boards, redirect>>

\* The talk page, Flow board or not, follows the account; a redirect stays at
\* the old title.
RenameAccount(p, q) ==
  /\ SubscriberEdits({p, q})
  /\ p # q /\ redirect[p] = NoPage /\ redirect[q] = NoPage /\ sections[q] = <<>> /\ q \notin boards
  /\ sections' = [sections EXCEPT ![q] = sections[p], ![p] = <<>>]
  /\ redirect' = [redirect EXCEPT ![p] = q]
  /\ boards' = IF p \in boards THEN (boards \ {p}) \cup {q} ELSE boards

---------------------------------------------------------------------------
(* The distributor.                                                        *)

SubscribersWait == UNCHANGED <<boards, redirect, lastMoved, pageEdits>>

\* getNewIssue: only the last move since the token counts.  The token is saved
\* even when the user may not publish.
FindNewIssue ==
  /\ job.step = "idle" /\ newMove # NoMove
  /\ newMove' = NoMove
  /\ job' = IF newMove.allowed THEN [NoJob EXCEPT !.step = "check", !.issue = newMove.issue] ELSE NoJob
  /\ SubscribersWait /\ UNCHANGED <<sections, savedIssue, postErrors>>

\* The operator names an issue and the subscribers to serve: from one on
\* (--from), or a single one (--page).
ForceIssue(issue, from, single) ==
  /\ job.step = "idle" /\ issue <= lastMoved
  /\ job' = [NoJob EXCEPT !.step = "check", !.issue = issue, !.force = TRUE,
               !.todo = SubSeq(Subscribers, from, IF single THEN from ELSE Len(Subscribers))]
  /\ SubscribersWait /\ UNCHANGED <<sections, newMove, savedIssue, postErrors>>

\* An issue that is not newer than the last one, or not ready, is refused
\* unless forced; the last issue is saved before any message is posted.
CheckIssue(ready) ==
  LET newer == savedIssue < job.issue
  IN  /\ job.step = "check"
      /\ IF job.force \/ (newer /\ ready)
         THEN /\ savedIssue' = IF newer THEN job.issue ELSE savedIssue
              /\ job' = [job EXCEPT !.step = "read", !.todo = IF job.force THEN @ ELSE Subscribers]
         ELSE job' = NoJob /\ UNCHANGED savedIssue
      /\ SubscribersWait /\ UNCHANGED <<sections, newMove, postErrors>>

NextSubscriber == [job EXCEPT !.step = "read", !.todo = Tail(@), !.content = <<>>, !.target = NoPage,
                     !.flow = FALSE, !.fresh = FALSE]

\* postMessage up to the write.  A double redirect, a page that excludes bots,
\* or the issue on the page already, and the subscriber is left alone.  What a
\* Flow board holds is not looked at.
ReadSubscriber(excluded) ==
  LET page == Head(job.todo)
      target == Target(page)
      flow == target \in boards
      skipped == \/ redirect[target] # NoPage
                 \/ ~flow /\ (excluded \/ HasIssue(sections[target], job.issue))
  IN  /\ job.step = "read" /\ job.todo # <<>>
      /\ job' = IF skipped THEN NextSubscriber
                ELSE [job EXCEPT !.step = "write", !.target = target, !.flow = flow, !.fresh = TRUE,
                        !.content = NewContent(sections[target], job.issue, page \notin KeepOld)]
      /\ SubscribersWait /\ UNCHANGED <<sections, newMove, savedIssue, postErrors>>

\* The write is refused if the page changed since it was read.
WrittenOverEdits(outcome) == outcome # "failed"  \* mutant: no write token
MessageIsWritten(outcome) == outcome # "failed" /\ job.fresh

\* Every error is logged and the next subscriber follows.  A new topic of a
\* Flow board is no section.
PostMessage(outcome) ==
  /\ job.step = "write"
  /\ sections' = IF ~job.flow /\ MessageIsWritten(outcome)
                 THEN [sections EXCEPT ![job.target] = job.content] ELSE sections
  /\ postErrors' = postErrors + (IF outcome = "done" THEN 0 ELSE 1)
  /\ job' = NextSubscriber
  /\ SubscribersWait /\ UNCHANGED <<newMove, savedIssue>>

PostOutcomes == IF postErrors < MaxPostErrors THEN {"done", "failed", "unknown"} ELSE {"done"}

EndOfDistribution ==
  /\ job.step = "read" /\ job.todo = <<>>
  /\ job' = NoJob
  /\ SubscribersWait /\ UNCHANGED <<sections, newMove, savedIssue, postErrors>>

DistributorStops ==
  /\ job.step # "idle" /\ postErrors < MaxPostErrors
  /\ job' = NoJob /\ postErrors' = postErrors + 1
  /\ SubscribersWait /\ UNCHANGED <<sections, newMove, savedIssue>>

NewslettersNext ==
  \/ \E issue \in 1 .. LastIssue, allowed \in BOOLEAN : MoveIssue(issue, allowed)
  \/ \E p \in SubscriberPages : \E i \in DOMAIN sections[p] : ReplyToMessage(p, i)
  \/ \E p, q \in SubscriberPages : RenameAccount(p, q)
  \/ FindNewIssue
  \/ \E issue \in 1 .. LastIssue, from \in DOMAIN Subscribers, single \in BOOLEAN : ForceIssue(issue, from, single)
  \/ \E ready \in BOOLEAN : CheckIssue(ready)
  \/ \E excluded \in BOOLEAN : ReadSubscriber(excluded)
  \/ \E outcome \in PostOutcomes : PostMessage(outcome)
  \/ EndOfDistribution
  \/ DistributorStops

NewslettersSpec == NewslettersInit /\ [][NewslettersNext]_newsletterVars

---------------------------------------------------------------------------
(* Properties.                                                             *)

\* No page holds two messages of one issue in its wikitext, although a
\* distribution may be forced again from any subscriber after a failure, a
\* write reported as failed may have been done, and two subscribers may
\* redirect to one page.
OneMessagePerIssue ==
  \A p \in SubscriberPages : \A i, j \in DOMAIN sections[p] :
    sections[p][i].issue = sections[p][j].issue => i = j

\* The removal of old messages never takes a section that a subscriber replied
\* in, even when the reply came after the page was read: the section stays on
\* its page, or follows it to its new title.
Replied(p) == {s \in ToSet(sections[p]) : s.changed}
RepliesSurvive == [][\A p \in SubscriberPages : Replied(p) \subseteq Replied(Target(p))']_newsletterVars
=============================================================================

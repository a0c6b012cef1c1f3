----------------------------- MODULE BotRequests -----------------------------
(***************************************************************************)
(* The archiver of bot requests                                            *)
(* (src/orlodrimbot/bot_requests_archiver): one page of requests and one   *)
(* page of archives for every month.  A run goes through the months it     *)
(* still watches, cuts the requests that are done from the page of the     *)
(* month, then appends them to its archive.  Users post, mark as done and  *)
(* edit in between.                                                        *)
(***************************************************************************)
EXTENDS Selections, SequencesExt

CONSTANTS Requests,          \* the requests users may post
          LastMonth,         \* bound on the clock
          Watched,           \* how many past months a run archives (12)
          MaxRequestEdits,   \* bound on the edits of users
          MaxRequestErrors   \* bound on failed calls and crashes

ASSUME WatchedAssumption == Watched \in Nat

Months == 1 .. LastMonth

VARIABLES requests,      \* month -> the requests on its page: [id, done]
          pageKind,      \* month -> "absent", "page" or "redirect" to the archive
          edits,         \* month -> how often users edited its page
          archive,       \* month -> the requests of its archive, in order
          archiveEdits,  \* month -> how often users edited its archive
          month, firstDay,   \* the month of the clock, four hours ahead
          todo,          \* the months left to the run: [month, all, redirect]
          cutting,       \* what the run does with the first of them
          userEdits, errors,
          \* History variables: the requests posted so far, those the run had cut when
          \* it gave their month up, those appended by an edit that is done again.
          posted, dropped, repeated

requestVars == <<requests, pageKind, edits, archive, archiveEdits, month, firstDay, todo, cutting,
                 userEdits, errors, posted, dropped, repeated>>
pageVars == <<requests, pageKind, edits, archive, archiveEdits>>
historyVars == <<posted, dropped, repeated>>

\* editPage runs its body once more after an edit conflict, and gives up at the
\* second one.
EditAttempts == 2

\* A call of editPage: its page as read at revision "base", the text to write,
\* and whether a write whose answer was lost was executed.
NotCutting == [step |-> "read", attempts |-> EditAttempts, base |-> 0, left |-> <<>>, moved |-> <<>>,
               redirect |-> FALSE, executed |-> FALSE]

Ids(s) == {s[i].id : i \in DOMAIN s}

\* The requests that only the run holds: it cut them and did not append them.
Held ==
  IF (cutting.step = "cut" /\ cutting.executed)
     \/ cutting.step = "look" \/ (cutting.step = "append" /\ ~cutting.executed)
  THEN Ids(cutting.moved) \ repeated ELSE {}

---------------------------------------------------------------------------

\* splitRequests: a request goes when it is marked as done, or when the month
\* is closed.
Leaves(r, all) == all \/ r.done
Staying(m, all) == Selected(requests[m], {r \in ToSet(requests[m]) : ~Leaves(r, all)})
Leaving(m, all) == Selected(requests[m], {r \in ToSet(requests[m]) : Leaves(r, all)})

\* A page with no request left becomes a redirect if the caller allows it.
BecomesRedirect(m, all, allowed) ==
  /\ Staying(m, all) = <<>> /\ pageKind[m] # "redirect"
  /\ allowed = "yes" \/ (allowed = "if_changed" /\ Leaving(m, all) # <<>>)

\* The work of a run: on the first day of a month, close the oldest one and
\* create the new one; the month that ends becomes a redirect when it is empty.
Work(m, first) ==
  LET Item(i, all, redirect) == [month |-> i, all |-> all, redirect |-> redirect, init |-> FALSE]
      Past(i) == Item(i, FALSE, IF first /\ i = m - 1 THEN "yes" ELSE "if_changed")
      old == IF first THEN <<Item(m - Watched - 1, TRUE, "if_changed")>> ELSE <<>>
      current == IF first THEN <<[Item(m, FALSE, "no") EXCEPT !.init = TRUE]>>
                 ELSE <<Item(m, FALSE, "no")>>
      all == old \o [k \in 1 .. Watched |-> Past(m - Watched - 1 + k)] \o current
  IN  Selected(all, {w \in ToSet(all) : w.month \in Months})

RequestsInit ==
  /\ requests = [m \in Months |-> <<>>] /\ pageKind = [m \in Months |-> "absent"]
  /\ edits = [m \in Months |-> 0]
  /\ archive = [m \in Months |-> <<>>] /\ archiveEdits = [m \in Months |-> 0]
  /\ month = 1 /\ firstDay = TRUE /\ todo = <<>> /\ cutting = NotCutting
  /\ userEdits = 0 /\ errors = 0 /\ posted = {} /\ dropped = {} /\ repeated = {}

---------------------------------------------------------------------------
(* The users and the clock.                                                *)

EditByUser ==
  /\ userEdits < MaxRequestEdits /\ userEdits' = userEdits + 1
  /\ UNCHANGED <<archive, month, firstDay, todo, cutting, errors, dropped, repeated>>

EditRequests(m, newRequests) ==
  /\ requests' = [requests EXCEPT ![m] = newRequests]
  /\ edits' = [edits EXCEPT ![m] = @ + 1]
  /\ EditByUser /\ UNCHANGED archiveEdits

PostRequest(m) ==
  LET id == CHOOSE q \in Requests : q \notin posted
  IN  /\ m \in {month, month - 1} /\ posted # Requests /\ posted' = posted \cup {id}
      /\ pageKind' = [pageKind EXCEPT ![m] = "page"]
      /\ EditRequests(m, Append(requests[m], [id |-> id, done |-> FALSE]))

\* The line that dates the archiving is added to a request, or removed.
MarkRequest(m, i) ==
  /\ EditRequests(m, [requests[m] EXCEPT ![i].done = ~@])
  /\ UNCHANGED <<pageKind, posted>>

\* A user edits the archive, and leaves the requests that are there.
EditArchive(m) ==
  /\ archiveEdits' = [archiveEdits EXCEPT ![m] = @ + 1]
  /\ EditByUser /\ UNCHANGED <<requests, pageKind, edits, posted>>

ClockTicks ==
  /\ firstDay \/ month < LastMonth
  /\ firstDay' = ~firstDay /\ month' = IF firstDay THEN month ELSE month + 1
  /\ UNCHANGED <<pageVars, historyVars, todo, cutting, userEdits, errors>>

---------------------------------------------------------------------------
(* The bot.                                                                *)

RequestsUsersWait == UNCHANGED <<edits, archiveEdits, month, firstDay, posted, userEdits>>
NothingFails == UNCHANGED <<errors, dropped, repeated>>

StartRequestsRun ==
  /\ todo = <<>>
  /\ todo' = Work(month, firstDay) /\ cutting' = NotCutting
  /\ RequestsUsersWait /\ NothingFails /\ UNCHANGED <<requests, pageKind, archive>>

NextMonth == todo' = Tail(todo) /\ cutting' = NotCutting

\* initPage: creating a page that exists fails without harm.
InitPage ==
  LET m == Head(todo).month
  IN  /\ todo # <<>> /\ Head(todo).init
      /\ pageKind' = [pageKind EXCEPT ![m] = IF @ = "absent" THEN "page" ELSE @]
      /\ NextMonth /\ RequestsUsersWait /\ NothingFails /\ UNCHANGED <<requests, archive>>

\* The body of the first editPage: what stays and what goes is computed anew
\* at every attempt.
ReadRequests ==
  LET w == Head(todo)
      leaving == Leaving(w.month, w.all)
      redirect == BecomesRedirect(w.month, w.all, w.redirect)
  IN  /\ todo # <<>> /\ ~Head(todo).init /\ cutting.step = "read"
      /\ IF pageKind[w.month] = "absent" \/ (leaving = <<>> /\ ~redirect)
         THEN NextMonth
         ELSE cutting' = [NotCutting EXCEPT !.step = "cut", !.attempts = cutting.attempts,
                            !.base = edits[w.month], !.left = Staying(w.month, w.all),
                            !.moved = leaving, !.redirect = redirect]
              /\ UNCHANGED todo
      /\ RequestsUsersWait /\ NothingFails /\ UNCHANGED <<requests, pageKind, archive>>

\* The wiki refuses a write when somebody else edited the page meanwhile.  (If
\* it merges both edits, this is as if the other one came after the write.)
NeverConflicts(revision) == FALSE  \* mutant: the token of the first attempt is dropped
Conflicts(revision) == revision # cutting.base

\* How the call that writes ends: with the answer of the wiki ("answered"), an
\* error ("failed"), or an answer that is lost after the edit was executed: the
\* same edit is sent again.
CallOutcomes == IF errors < MaxRequestErrors THEN {"answered", "failed", "lost"} ELSE {"answered"}
CountCall(outcome) == errors' = errors + (IF outcome = "answered" THEN 0 ELSE 1)

\* An error, or the second edit conflict of a call of editPage: the run gives
\* the month up.
GivesUp(outcome, conflict) == outcome = "failed" \/ (conflict /\ cutting.attempts = 1)

\* An archive that did not exist when it was read is created, which fails if it
\* exists by then: this is no edit conflict, and there is no second attempt.
Creates == cutting.base = 0 /\ Len(cutting.left) = Len(cutting.moved)
ArchiveExists(m) == archive[m] # <<>> \/ archiveEdits[m] > 0

\* The write of the page of requests.  After a conflict, everything is computed
\* anew from the page, even if the write that conflicts was executed before.
CutRequests(outcome) ==
  LET m == Head(todo).month
      conflict == Conflicts(edits[m])
      written == outcome # "failed" /\ ~conflict
  IN  /\ todo # <<>> /\ cutting.step = "cut" /\ (outcome = "lost" => written)
      /\ requests' = IF written THEN [requests EXCEPT ![m] = cutting.left] ELSE requests
      /\ pageKind' = IF written /\ cutting.redirect THEN [pageKind EXCEPT ![m] = "redirect"] ELSE pageKind
      /\ IF GivesUp(outcome, conflict) THEN NextMonth
         ELSE IF conflict
         THEN cutting' = [NotCutting EXCEPT !.attempts = cutting.attempts - 1] /\ UNCHANGED todo
         ELSE IF outcome = "lost" THEN cutting' = [cutting EXCEPT !.executed = TRUE] /\ UNCHANGED todo
         ELSE IF cutting.moved = <<>> THEN NextMonth
         ELSE cutting' = [NotCutting EXCEPT !.step = "look", !.moved = cutting.moved] /\ UNCHANGED todo
      /\ dropped' = IF written THEN dropped ELSE dropped \cup Held
      /\ CountCall(outcome) /\ RequestsUsersWait /\ UNCHANGED <<archive, repeated>>

\* The body of the second editPage appends to the archive it reads.
ReadArchive ==
  LET m == Head(todo).month
  IN  /\ todo # <<>> /\ cutting.step = "look"
      /\ cutting' = [cutting EXCEPT !.step = "append", !.base = archiveEdits[m],
                       !.left = archive[m] \o cutting.moved]
      /\ RequestsUsersWait /\ NothingFails /\ UNCHANGED <<requests, pageKind, archive, todo>>

\* The write of the archive.  After a conflict the body appends again, without
\* looking for what a write that conflicts has already appended.
AppendToArchive(outcome) ==
  LET m == Head(todo).month
      exists == Creates /\ ArchiveExists(m)
      conflict == Conflicts(archiveEdits[m])
      written == outcome # "failed" /\ ~conflict /\ ~exists
      givesUp == exists \/ GivesUp(outcome, conflict)
      again == conflict /\ ~givesUp
  IN  /\ todo # <<>> /\ cutting.step = "append" /\ (outcome = "lost" => written)
      /\ archive' = IF written THEN [archive EXCEPT ![m] = cutting.left] ELSE archive
      /\ IF again
         THEN cutting' = [NotCutting EXCEPT !.step = "look", !.attempts = cutting.attempts - 1,
                            !.moved = cutting.moved] /\ UNCHANGED todo
         ELSE IF outcome = "lost" THEN cutting' = [cutting EXCEPT !.executed = TRUE] /\ UNCHANGED todo
         ELSE NextMonth
      /\ dropped' = IF givesUp THEN dropped \cup Held ELSE dropped
      /\ repeated' = IF again /\ cutting.executed THEN repeated \cup Ids(cutting.moved) ELSE repeated
      /\ CountCall(outcome) /\ RequestsUsersWait /\ UNCHANGED <<requests, pageKind>>

RequestsCrash ==
  /\ todo # <<>> /\ errors < MaxRequestErrors
  /\ errors' = errors + 1 /\ todo' = <<>> /\ cutting' = NotCutting
  /\ dropped' = dropped \cup Held
  /\ RequestsUsersWait /\ UNCHANGED <<requests, pageKind, archive, repeated>>

RequestsNext ==
  \/ \E m \in Months : PostRequest(m) \/ EditArchive(m)
  \/ \E m \in Months : \E i \in DOMAIN requests[m] : MarkRequest(m, i)
  \/ ClockTicks
  \/ StartRequestsRun
  \/ InitPage
  \/ ReadRequests
  \/ ReadArchive
  \/ \E outcome \in CallOutcomes : CutRequests(outcome) \/ AppendToArchive(outcome)
  \/ RequestsCrash

RequestsSpec == RequestsInit /\ [][RequestsNext]_requestVars

---------------------------------------------------------------------------
(* Properties.                                                             *)

\* The pages, the archives, or the hands of the run, that hold a request.
Places(id) ==
  {<<"page", m>> : m \in {x \in Months : id \in Ids(requests[x])}}
  \cup {<<"archive", m>> : m \in {x \in Months : id \in Ids(archive[x])}}
  \cup (IF id \in Held THEN {<<"run", 0>>} ELSE {})

NamedOnce(s, id) == \A i, j \in DOMAIN s : s[i].id = id /\ s[j].id = id => i = j
NamedTwice(s, id) ==
  \A i, j, k \in DOMAIN s : ~(i < j /\ j < k /\ s[i].id = id /\ s[j].id = id /\ s[k].id = id)

\* Where archiveMonth leaves the requests users post.  A request is never on two
\* pages, nor both on a page and in an archive, nor twice on a page, whatever
\* users edit meanwhile.  It is nowhere exactly when the run that had cut it
\* gave its month up before appending it: an error or a crash; two conflicts
\* with edits of the archive, or its creation by a user; or a cut whose answer
\* was lost and that conflicts when it is sent again, for the body then finds
\* nothing left to move.  It is twice in an archive only if an append whose
\* answer was lost conflicts when it is sent again.  Without errors, only edits
\* of the archive lose anything.
RequestsInOnePlace ==
  /\ \A id \in posted : Cardinality(Places(id)) = IF id \in dropped THEN 0 ELSE 1
  /\ \A id \in posted, m \in Months :
       /\ NamedOnce(requests[m], id)
       /\ IF id \in repeated THEN NamedTwice(archive[m], id) ELSE NamedOnce(archive[m], id)
  /\ errors = 0 => repeated = {} /\ (dropped # {} => \E m \in Months : archiveEdits[m] > 0)
=============================================================================

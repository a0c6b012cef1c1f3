--------------------------- MODULE PublishedDrafts ---------------------------
(***************************************************************************)
(* The list of published drafts (src/orlodrimbot/draft_moved_to_main): the *)
(* drafts that untrusted users moved to the main namespace.  A run replays *)
(* the log events since its token, following each published draft from     *)
(* title to title, edits the list, then saves its token.                   *)
(***************************************************************************)
EXTENDS Integers, SequencesExt

CONSTANTS Articles,        \* the pages, whatever their titles
          MainTitles,      \* titles of the main namespace
          DraftTitles,     \* titles of other namespaces
          MaxBatch,        \* bound on the log events between two runs
          MaxDraftErrors   \* bound on crashes and failed saves

DraftMovesTitles == MainTitles \cup DraftTitles
Nobody == "no page"

ASSUME DraftTitlesAssumption == MainTitles \cap DraftTitles = {} /\ Nobody \notin Articles

VARIABLES place,        \* title -> the article there, or Nobody (nothing, or a redirect)
          log,          \* moves and deletions since the token of the state file
          list,         \* the articles in the bot section of the list
          pending,      \* what a run that has read the log will save
          entered,      \* article -> the event of log that published it, 0 if it is
                        \* before the token, NotPublished; a history variable
          draftErrors

draftVars == <<place, log, list, pending, entered, draftErrors>>

NothingPending == [read |-> -1, found |-> {}]
NotPublished == -1

---------------------------------------------------------------------------
(* The replay of the log.                                                  *)

Entry(e, time) == [article |-> e.article, deleted |-> FALSE, moved |-> time, trusted |-> e.trusted]

\* acc.entries: the drafts published in the batch; acc.at: title -> the entry
\* that is followed there, 0 if none.
ReplayMove(acc, e, time) ==
  LET k == acc.at[e.from]
      out == [acc.at EXCEPT ![e.from] = 0]
  IN  CASE k # 0 /\ e.to \in MainTitles ->
             [entries |-> [acc.entries EXCEPT ![k].moved = time], at |-> [out EXCEPT ![e.to] = k]]
        [] k # 0 /\ e.to \notin MainTitles /\ ~e.redirect ->
             [entries |-> [acc.entries EXCEPT ![k].deleted = TRUE], at |-> out]
        [] k = 0 /\ e.from \notin MainTitles /\ e.to \in MainTitles ->
             [entries |-> Append(acc.entries, Entry(e, time)),
              at |-> [acc.at EXCEPT ![e.to] = Len(acc.entries) + 1]]
        [] OTHER -> [entries |-> acc.entries, at |-> acc.at]

\* The deletion of a page that a followed draft has just overwritten may come
\* after the move, with the same time.
IsNotEarlier(time, entry) == time >= entry.moved  \* mutant: the deletion of the page overwritten
IsLater(time, entry) == time > entry.moved

ReplayDeletion(acc, e, time) ==
  LET k == acc.at[e.from]
  IN  IF k # 0 /\ IsLater(time, acc.entries[k])
      THEN [entries |-> [acc.entries EXCEPT ![k].deleted = TRUE], at |-> [acc.at EXCEPT ![e.from] = 0]]
      ELSE [entries |-> acc.entries, at |-> acc.at]

\* An event is at the time of the one before it, or later.
Replayed(acc, e) ==
  LET time == IF e.together THEN acc.time ELSE acc.time + 1
      next == IF e.type = "move" THEN ReplayMove(acc, e, time) ELSE ReplayDeletion(acc, e, time)
  IN  [entries |-> next.entries, at |-> next.at, time |-> time]

NothingReplayed == [entries |-> <<>>, at |-> [t \in DraftMovesTitles |-> 0], time |-> 0]
Replay(events) ==
  LET After[n \in 0 .. Len(events)] == IF n = 0 THEN NothingReplayed ELSE Replayed(After[n - 1], events[n])
  IN  After[Len(events)]

NewlyPublished(events) ==
  {entry.article : entry \in {x \in ToSet(Replay(events).entries) : ~x.deleted /\ ~x.trusted}}

---------------------------------------------------------------------------

DraftsInit ==
  /\ place = [t \in DraftMovesTitles |-> Nobody] /\ log = <<>> /\ list = {}
  /\ pending = NothingPending /\ entered = [a \in Articles |-> NotPublished] /\ draftErrors = 0

\* EventsByDay: the lines of the section and the new ones, each once.
Listed(found) == list \cup found

DraftsBotWaits == UNCHANGED <<list, pending, draftErrors>>

\* A page that was deleted may be created again: it is then another one.
CreatePage(a, t) ==
  /\ place[t] = Nobody /\ \A u \in DraftMovesTitles : place[u] # a
  /\ place' = [place EXCEPT ![t] = a] /\ entered' = [entered EXCEPT ![a] = NotPublished]
  /\ list' = list \ {a} /\ UNCHANGED <<log, pending, draftErrors>>

\* What the replay reads of an event: whether a redirect is left matters only
\* when a page leaves the main namespace, the user only when one enters it.
Event(type, from, to, redirect, trusted, together) ==
  [type |-> type, from |-> from, to |-> to, article |-> place[from],
   redirect |-> redirect \/ ~(from \in MainTitles /\ to \in DraftTitles),
   trusted |-> trusted \/ ~(from \in DraftTitles /\ to \in MainTitles),
   together |-> together /\ log # <<>>]

\* An administrator may move a page over another one, which is then deleted:
\* the two events have the same time and come in any order.
MovePage(from, to, redirect, trusted, together, deletionFirst) ==
  LET overwrites == place[to] # Nobody
      move == Event("move", from, to, redirect, trusted, together)
      deletion == Event("delete", to, to, FALSE, TRUE, together)
      Same(e) == [e EXCEPT !.together = TRUE]
      at == Len(log) + IF overwrites /\ deletionFirst THEN 2 ELSE 1
  IN  /\ Len(log) < MaxBatch /\ from # to /\ place[from] # Nobody
      /\ place' = [place EXCEPT ![to] = place[from], ![from] = Nobody]
      /\ log' = log \o CASE ~overwrites -> <<move>>
                        [] overwrites /\ deletionFirst -> <<deletion, Same(move)>>
                        [] OTHER -> <<move, Same(deletion)>>
      /\ entered' = IF from \in DraftTitles /\ to \in MainTitles
                    THEN [entered EXCEPT ![place[from]] = IF trusted THEN NotPublished ELSE at]
                    ELSE entered
      /\ DraftsBotWaits

\* No page is deleted in the very second of another event.
DeletePage(t) ==
  /\ Len(log) < MaxBatch /\ place[t] # Nobody
  /\ place' = [place EXCEPT ![t] = Nobody]
  /\ log' = Append(log, Event("delete", t, t, FALSE, TRUE, FALSE))
  /\ DraftsBotWaits /\ UNCHANGED entered

\* update, up to the edit of the list.
ReadDraftLog ==
  /\ pending = NothingPending
  /\ pending' = [read |-> Len(log), found |-> NewlyPublished(log)]
  /\ UNCHANGED <<place, log, list, entered, draftErrors>>

\* updateBotSection, then saveState; a failure of the edit ends the run, a
\* failure of the save is only logged.
EditListAndSave(listed, saved) ==
  /\ pending # NothingPending
  /\ saved => listed
  /\ ~saved => draftErrors < MaxDraftErrors
  /\ list' = IF listed THEN Listed(pending.found) ELSE list
  /\ log' = IF saved THEN SubSeq(log, pending.read + 1, Len(log)) ELSE log
  /\ entered' = IF ~saved THEN entered
                ELSE [a \in Articles |-> CASE entered[a] = NotPublished -> NotPublished
                                          [] entered[a] <= pending.read /\ entered[a] # NotPublished -> 0
                                          [] OTHER -> entered[a] - pending.read]
  /\ pending' = NothingPending
  /\ draftErrors' = draftErrors + (IF saved THEN 0 ELSE 1)
  /\ UNCHANGED place

DraftsNext ==
  \/ \E a \in Articles, t \in DraftMovesTitles : CreatePage(a, t)
  \/ \E from, to \in DraftMovesTitles, r, u, s, d \in BOOLEAN : MovePage(from, to, r, u, s, d)
  \/ \E t \in DraftMovesTitles : DeletePage(t)
  \/ ReadDraftLog
  \/ \E listed, saved \in BOOLEAN : EditListAndSave(listed, saved)

DraftsSpec == DraftsInit /\ [][DraftsNext]_draftVars

---------------------------------------------------------------------------
(* Properties.                                                             *)

\* A draft that an untrusted user published, and that is still in the main
\* namespace, is on the list once the token is past its publication: no order
\* of moves, deletions and overwritten pages, within or across runs, and no
\* failure between the edit of the list and the state file, makes the bot miss
\* it or forget it.
PublishedDraftsAreListed ==
  \A a \in Articles :
    (entered[a] = 0 /\ \E t \in MainTitles : place[t] = a) => a \in list
=============================================================================

---------------------------- MODULE SubpagesMover ----------------------------
(***************************************************************************)
(* The bot that moves the subpages of a talk page after its page was       *)
(* renamed (src/orlodrimbot/move_subpages).  It reads the moves made since *)
(* its last run, the newest first, and gives each title that was left the  *)
(* last name of its page before it looks at the subpages.                  *)
(***************************************************************************)
EXTENDS SequencesExt, Selections

CONSTANTS Titles,          \* titles of the main namespace
          OtherTitles,     \* titles of a namespace that is not processed
          FirstTitles,     \* those that have an article at first
          SubpageNames,    \* the standard names of subpages
          NoRedirectNames, \* those moved without leaving a redirect
          MaxMoves,        \* bound on the moves of users
          MaxMoveErrors    \* bound on failed calls and interrupted runs

AllTitles == Titles \cup OtherTitles

ASSUME TitlesAreNames == FirstTitles \subseteq AllTitles /\ AllTitles \cap {"none", "redirect"} = {}

VARIABLES pages,         \* title -> "none", "redirect" or an article, known by its first title
          subpages,      \* <<title, suffix>> -> "none", "text" or "redirect"
          moveLog,       \* [from, to, time] and history, the oldest first
          now,           \* several moves may happen at the same time
          lastProcessed, \* m_dateOfLastProcessedMove, kept between the runs
          events,        \* the moves left to the run, the newest first
          newest,        \* the date the run will end with
          \* History
          settled, seen, \* moves that the runs that ended, that a run so far have seen
          skipped,       \* subpages left behind by an error or because their new name was taken
          quiet,         \* no user acted since the last run read the log
          moveErrors

moverVars == <<pages, subpages, moveLog, now, lastProcessed, events, newest, settled, seen, skipped,
               quiet, moveErrors>>

IsArticle(t) == pages[t] \in FirstTitles

---------------------------------------------------------------------------

\* Consecutive moves, the newest first: a target that was left later, which the map lastName knows
\* from the oldest of the moves read so far, becomes what this move had for target.
Collapse(log) ==
  LET LastName[k \in DOMAIN log] ==
        LET newer == {j \in 1 .. k - 1 : log[j].from = log[k].to}
        IN  IF newer = {} THEN log[k].to ELSE LastName[Max(newer)]
  IN  [k \in DOMAIN log |-> [from |-> log[k].from, to |-> LastName[k]]]

\* Moves to or from another namespace are dropped once they are collapsed.
Relevant(log) == Selected(Collapse(log), {e \in [from : Titles, to : Titles] : e.from # e.to})

\* The move log since a date, included, the newest first.
NewestFirst(moves) == [k \in 1 .. Cardinality(moves) |-> moveLog[Len(moveLog) + 1 - k]]
LogAfter(date) == NewestFirst({k \in DOMAIN moveLog : moveLog[k].time > date})  \* mutant
LogSince(date) == NewestFirst({k \in DOMAIN moveLog : moveLog[k].time >= date})

\* processMove leaves alone the subpages of a page that exists again, and
\* those of a page whose new name no longer exists.
Applies(e) == ~IsArticle(e.from) /\ pages[e.to] # "none"

\* movePage refuses a title that has text; over a redirect, it depends on its history.
HasText(t, x) == subpages[<<t, x>>] = "text"
Present(e) == {x \in SubpageNames : Applies(e) /\ HasText(e.from, x)}
NamesTaken(e) == {x \in SubpageNames : HasText(e.to, x)}
NamesFree(e) == {x \in SubpageNames : subpages[<<e.to, x>>] = "none"}

MoveSubpages(e, xs) ==
  [p \in DOMAIN subpages |->
     IF p[2] \notin xs THEN subpages[p]
     ELSE CASE p[1] = e.to -> "text"
            [] p[1] = e.from -> IF p[2] \in NoRedirectNames THEN "none" ELSE "redirect"
            [] OTHER -> subpages[p]]

---------------------------------------------------------------------------

MoverInit ==
  /\ pages = [t \in AllTitles |-> IF t \in FirstTitles THEN t ELSE "none"]
  /\ subpages = [p \in AllTitles \X SubpageNames |-> "none"]
  /\ moveLog = <<>> /\ now = 1 /\ lastProcessed = 0 /\ events = <<>> /\ newest = 0
  /\ settled = 0 /\ seen = 0 /\ skipped = {} /\ quiet = FALSE /\ moveErrors = 0

\* A user renames a page, over nothing or a redirect, with or without its
\* subpages, and leaves a redirect or not.
Rename(from, to, leaveRedirect, withSubpages, sameSecond) ==
  LET e == [from |-> from, to |-> to, time |-> IF sameSecond THEN now ELSE now + 1,
            article |-> pages[from], seen |-> seen, hidden |-> newest # 0 /\ ~leaveRedirect]
  IN  /\ Len(moveLog) < MaxMoves
      /\ from # to /\ IsArticle(from) /\ ~IsArticle(to)
      /\ pages' = [pages EXCEPT ![to] = pages[from], ![from] = IF leaveRedirect THEN "redirect" ELSE "none"]
      /\ subpages' = IF withSubpages
                      THEN MoveSubpages(e, {x \in NamesFree(e) : HasText(from, x)}) ELSE subpages
      /\ moveLog' = Append(moveLog, e) /\ now' = e.time
      /\ skipped' = {p \in skipped : p[1] # from} /\ quiet' = FALSE
      /\ UNCHANGED <<settled, seen, lastProcessed, events, newest, moveErrors>>

\* A discussion is opened in a subpage of an article.
CreateSubpage(t, x) ==
  /\ IsArticle(t) /\ subpages[<<t, x>>] = "none"
  /\ subpages' = [subpages EXCEPT ![<<t, x>>] = "text"]
  /\ quiet' = FALSE
  /\ UNCHANGED <<settled, seen, skipped, pages, moveLog, now, lastProcessed, events, newest, moveErrors>>

\* processAllMoves up to its loop.
ReadMoveLog ==
  LET log == LogSince(lastProcessed)
  IN  /\ newest = 0 /\ log # <<>>
      /\ events' = Relevant(log) /\ newest' = Head(log).time /\ seen' = Len(moveLog) /\ quiet' = TRUE
      /\ UNCHANGED <<pages, subpages, moveLog, now, lastProcessed, settled, skipped, moveErrors>>

\* processMove: an error, at the start or between two subpages, is only logged.
ProcessMove ==
  LET e == Head(events)
  IN  /\ events # <<>>
      /\ \E refused \in SUBSET (Present(e) \ NamesFree(e)), done \in SUBSET (Present(e) \ NamesTaken(e)) :
           /\ refused \cap done = {}
           /\ refused \cup done # Present(e) => moveErrors < MaxMoveErrors
           /\ subpages' = MoveSubpages(e, done)
           /\ skipped' = {p \in skipped \cup ({e.from} \X (Present(e) \ done)) : subpages'[p] = "text"}
           /\ moveErrors' = moveErrors + (IF refused \cup done = Present(e) THEN 0 ELSE 1)
      /\ events' = Tail(events)
      /\ UNCHANGED <<pages, moveLog, now, lastProcessed, newest, settled, seen, quiet>>

\* saveLastDate.
EndOfRun ==
  /\ events = <<>> /\ newest # 0
  /\ lastProcessed' = newest /\ newest' = 0 /\ settled' = seen
  /\ UNCHANGED <<pages, subpages, moveLog, now, events, seen, skipped, quiet, moveErrors>>

\* The process dies: the next one starts from the date of the last run that ended.
InterruptRun ==
  /\ newest # 0 /\ moveErrors < MaxMoveErrors
  /\ events' = <<>> /\ newest' = 0 /\ seen' = settled /\ quiet' = FALSE /\ moveErrors' = moveErrors + 1
  /\ UNCHANGED <<pages, subpages, moveLog, now, lastProcessed, settled, skipped>>

MoverNext ==
  \/ \E from, to \in AllTitles, r, s, d \in BOOLEAN : Rename(from, to, r, s, d)
  \/ \E t \in Titles, x \in SubpageNames : CreateSubpage(t, x)
  \/ ReadMoveLog
  \/ ProcessMove
  \/ EndOfRun
  \/ InterruptRun

MoverSpec == MoverInit /\ [][MoverNext]_moverVars

---------------------------------------------------------------------------

\* The moves of an article from the i-th one on.
Journey(i) == {j \in i .. Len(moveLog) : moveLog[j].article = moveLog[i].article}

\* An article that passed through another namespace did so before a run read
\* the first of these moves, and none of its names disappeared during a run.
Traceable(i) ==
  /\ (\E j \in Journey(i) : moveLog[j].to \notin Titles) => \A j \in Journey(i) : moveLog[j].seen < i
  /\ \A j \in Journey(i), k \in i .. Len(moveLog) : moveLog[k].from = moveLog[j].from => ~moveLog[k].hidden

\* The title of the i-th move was not used again by an article, and the bot
\* neither was refused nor failed to move the subpage away.
LeftBehind(i, x) ==
  /\ moveLog[i].from \in Titles /\ ~IsArticle(moveLog[i].from)
  /\ \A j \in i + 1 .. Len(moveLog) : moveLog[j].from # moveLog[i].from
  /\ HasText(moveLog[i].from, x) /\ <<moveLog[i].from, x>> \notin skipped
  /\ \E home \in Titles : pages[home] = moveLog[i].article
  /\ Traceable(i)

\* When no user moves or creates anything between the start and the end of a
\* run, no subpage is left behind: when an article went from a title, by any
\* sequence of moves, within or across runs, interrupted ones included, in the
\* same second or not, back and forth or through another namespace between two
\* runs, but never without redirect during a run, and no article took its
\* place, its subpages were moved, unless there was a subpage of the same name
\* or a call failed.
SubpagesFollowTheirPage ==
  newest = 0 /\ quiet => \A i \in DOMAIN moveLog, x \in SubpageNames : ~LeftBehind(i, x)
=============================================================================

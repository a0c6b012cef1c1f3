--------------------------- MODULE JobEnumeration ---------------------------
(***************************************************************************)
(* The loop of JobQueue::enumerateJobsToRun: a statement that reads the    *)
(* ready rows from the oldest on and, for one priority at a time, another  *)
(* that reads them backward.  It hands the rows over in the order of Place.*)
(***************************************************************************)
EXTENDS JobOrder, Sequences

CONSTANTS Queues  \* the tables to enumerate

ASSUME QueuesAreTables ==
  \A q \in Queues :
    /\ IsFiniteSet(DOMAIN q) /\ DOMAIN q \subseteq Nat
    /\ \A i \in DOMAIN q : q[i].priority \in Int /\ q[i].runAfter \in Int

VARIABLES
  queue, newestFirst,  \* the table and startFromMostRecent
  unread,              \* rows that readJobs has not returned yet
  unreadBackward,      \* rows that readJobsBackward has not returned yet
  level,               \* lastPriority: at most one priority
  previousNew,         \* previousNewJobId
  middleReached,
  failed,              \* CBL_ASSERT(readJobsBackward.step()) failed
  stopped,             \* the callback returned false
  visited              \* rows passed to the callback

vars == <<queue, newestFirst, unread, unreadBackward, level, previousNew, middleReached,
          failed, stopped, visited>>

NoLevel == {}
NoJob == -1

OldestOf(S) == CHOOSE i \in S : \A k \in S \ {i} : Before(queue, i, k)
NewestOf(S) == CHOOSE i \in S : \A k \in S \ {i} : Before(queue, k, i)

Init ==
  /\ queue \in Queues
  /\ newestFirst \in BOOLEAN
  /\ unread = Ready(queue)
  /\ unreadBackward = {}
  /\ level = NoLevel
  /\ previousNew = NoJob
  /\ middleReached = FALSE
  /\ failed = FALSE
  /\ stopped = FALSE
  /\ visited = <<>>

PairOldestFirst(old, new) == <<old, new>>  \* mutant: startFromMostRecent is ignored
Pair(old, new) == IF newestFirst THEN <<new, old>> ELSE <<old, new>>

\* A callback that wants no more rows after the first of the pair does not get the second one.
HandOver(rows) ==
  \/ visited' = visited \o rows /\ stopped' \in BOOLEAN
  \/ Len(rows) = 2 /\ visited' = Append(visited, rows[1]) /\ stopped' = TRUE

\* One iteration of the loop.
ReadRow ==
  LET old == OldestOf(unread)
      newLevel == level # {queue[old].priority}
      backward == IF newLevel THEN SameLevel(queue, old) ELSE unreadBackward
      new == NewestOf(backward)
      atMiddle == IF newLevel THEN FALSE ELSE middleReached
      previous == IF newLevel THEN NoJob ELSE previousNew
      wanted == ~atMiddle /\ old # previous
  IN  /\ unread # {} /\ ~failed /\ ~stopped
      /\ unread' = unread \ {old}
      /\ level' = {queue[old].priority}
      /\ failed' = (wanted /\ backward = {})
      /\ \/ /\ ~wanted \/ backward = {}
            /\ middleReached' = (atMiddle \/ old = previous)
            /\ unreadBackward' = backward
            /\ previousNew' = previous
            /\ UNCHANGED <<stopped, visited>>
         \/ /\ wanted /\ backward # {}
            /\ unreadBackward' = backward \ {new}
            /\ HandOver(IF new = old THEN <<old>> ELSE Pair(old, new))
            /\ middleReached' = (new = old)
            /\ previousNew' = IF new = old THEN previous ELSE new
      /\ UNCHANGED <<queue, newestFirst>>

Next == ReadRow
Spec == Init /\ [][Next]_vars

\* The rows are handed over in the order of Place, each at most once, and all of them unless the
\* callback stops the enumeration.  readJobsBackward never runs out of rows before the middle.
VisitsInOrder ==
  /\ ~failed
  /\ \A k \in 1..Len(visited) : Place(queue, newestFirst, visited[k]) = k
  /\ unread = {} /\ ~stopped => {visited[k] : k \in 1..Len(visited)} = Ready(queue)
=============================================================================

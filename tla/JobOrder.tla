------------------------------ MODULE JobOrder ------------------------------
(***************************************************************************)
(* The order of the table job of a JobQueue.  A queue q is a function from *)
(* the ids of the rows to the rows.                                        *)
(***************************************************************************)
EXTENDS Integers, FiniteSets

\* ORDER BY priority, run_after, id
Before(q, a, b) ==
  \/ q[a].priority < q[b].priority
  \/ q[a].priority = q[b].priority
     /\ \/ q[a].runAfter < q[b].runAfter
        \/ q[a].runAfter = q[b].runAfter /\ a < b

Ready(q) == {i \in DOMAIN q : q[i].ready}  \* can_be_processed = 1

IsFirst(q, i) == i \in Ready(q) /\ \A k \in Ready(q) \ {i} : Before(q, i, k)

SameLevel(q, i) == {k \in Ready(q) : q[k].priority = q[i].priority}

\* The place of row i among the rows that enumerateJobsToRun passes to its callback: by priority,
\* then alternately from both ends.
Place(q, newestFirst, i) ==
  LET levelsBefore == Cardinality({k \in Ready(q) : q[k].priority < q[i].priority})
      older == Cardinality({k \in SameLevel(q, i) : Before(q, k, i)})
      newer == Cardinality({k \in SameLevel(q, i) : Before(q, i, k)})
      pairsBefore == IF older < newer THEN older ELSE newer
      second == older # newer /\ (older < newer <=> newestFirst)
  IN  levelsBefore + 2 * pairsBefore + IF second THEN 2 ELSE 1

FlagNotReset(q, flag, i) == flag \/ IsFirst(q, i)  \* mutant
\* updateStartFromMostRecent: the flag start_from_most_recent after row i was taken out.
FlagAfter(q, flag, i) == IF i \in Ready(q) THEN IsFirst(q, i) ELSE flag
=============================================================================

----------------------------- MODULE MCJobRunner -----------------------------
EXTENDS JobRunner
CONSTANTS r1, r2, move, unknown
Job(handler, key, priority, delay) ==
  [handler |-> handler, key |-> key, priority |-> priority, delay |-> delay]

TwoHandlers == {move, unknown}
OneHandler == {move}
InPairs == [h \in Handlers |-> 2]

OnePageOrUnknown == {Job(move, "a", 0, 0), Job(unknown, "a", 0, 0)}

Appending == {"IGNORE_DUPS"}
AppendOrReplace == {"IGNORE_DUPS", "OVERWRITE_IF_EXISTS"}
NoCancellation == {}
Any == {{1}, {1, 2}}
Unchanged == {SamePriority}
Demoted == {SamePriority, 1}
SoonOrNever == {0, Forever}

\* Each client sticks to one mode: requests to move a page replace each other, the others add up.
OneModeEach == \A i \in Ids : inserted[i].mode = "OVERWRITE_IF_EXISTS" <=> inserted[i].handler = move
OneModeEachSpec == Init /\ [][Next /\ OneModeEach']_vars
=============================================================================

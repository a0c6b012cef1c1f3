-------------------------- MODULE MCLiveReplication --------------------------
(* Instances of LiveReplication for TLC. *)
EXTENDS LiveReplication

CONSTANTS s1, s2, edits, all

\* One option record for each way the bots call the reader.
Follow == [startAge |-> NoAge, endAge |-> NoAge, limit |-> MaxChanges, dated |-> TRUE]
Paged == [Follow EXCEPT !.limit = 1]
Since == [Follow EXCEPT !.startAge = 1]
Until == [Follow EXCEPT !.endAge = 2]
UntilUndated == [Until EXCEPT !.dated = FALSE]

FollowOnly == {Follow}
AllOptions == {Follow, Paged, Since, Until, UntilUndated}
SinceOnly == {Since}

NoReaders == [r \in {} |-> {}]
OneReader == [r \in {all} |-> StoredKinds]
EditsReader == [r \in {edits} |-> {"edit"}]

\* The first synchronisation is run by hand and ends before others start.
ColdStartsAlone ==
  \A s, t \in Syncers : s # t /\ sync[s].cold => sync[t].pc = "idle"
ColdStartsAloneSpec == Init /\ [][Next /\ ColdStartsAlone']_vars
=============================================================================

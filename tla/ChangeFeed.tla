------------------------------ MODULE ChangeFeed ------------------------------
(***************************************************************************)
(* What live_replication promises to a bot that comes back with its        *)
(* continue token: a feed that only grows at its end and only loses what   *)
(* expires, and a cursor that never passes a row the bot was not given.    *)
(***************************************************************************)
EXTENDS Integers

CONSTANTS
  Readers,
  Types,        \* the kinds of rows each reader asks for
  MayJump       \* whether readers ask to start at a date later than their cursor

VARIABLES
  feed,    \* the rows ever published, as records of an id and a kind
  gone,    \* the rows that have expired
  cursor,  \* where each reader goes on from, -1 before its first save
  seen     \* the rows each reader was given

vars == <<feed, gone, cursor, seen>>

NoCursor == -1
Wanted(r) == {x \in feed : x.kind \in Types[r]}
EndOfFeed(n) == n = 0 \/ \E x \in feed : n <= x.id + 1

Init == /\ feed = {}
        /\ gone = {}
        /\ cursor = [r \in Readers |-> NoCursor]
        /\ seen = [r \in Readers |-> {}]

\* New rows come after all the others and before no cursor; rows expire.
Update ==
  /\ feed \subseteq feed' /\ gone \subseteq gone' /\ gone' \subseteq feed'
  /\ \A x \in feed' \ feed : /\ \A y \in feed : y.id < x.id
                             /\ \A r \in Readers : cursor[r] <= x.id
  /\ UNCHANGED <<cursor, seen>>

Deliver(r) ==
  /\ seen[r] \subseteq seen'[r] /\ seen'[r] \subseteq seen[r] \cup (Wanted(r) \ gone)
  /\ seen' = [seen EXCEPT ![r] = seen'[r]]
  /\ UNCHANGED <<feed, gone, cursor>>

\* The cursor goes on over rows it was given, from its place or from the later row that the reader's
\* start date led to.
Advance(r, to) ==
  /\ \E from \in 0..to :
       /\ \/ from = cursor[r]
          \/ cursor[r] = NoCursor
          \/ MayJump /\ from > cursor[r] /\ \E x \in feed : x.id = from
       /\ \A x \in Wanted(r) : x.id >= from /\ x.id < to => x \in seen[r] \cup gone
  /\ EndOfFeed(to)
  /\ cursor' = [cursor EXCEPT ![r] = to]
  /\ UNCHANGED <<feed, gone, seen>>

Next == \/ Update
        \/ \E r \in Readers : Deliver(r) \/ Advance(r, cursor'[r])

Spec == Init /\ [][Next]_vars
===============================================================================

------------------------------ MODULE PageWrites ------------------------------
(***************************************************************************)
(* What mwclient promises to a bot that changes a page which others change *)
(* too: a call takes effect on the page as it is at that moment, adds      *)
(* nothing but its own line, removes nothing that the bot has not read,    *)
(* and returns success only if its line was put there.                     *)
(*                                                                         *)
(* A line is a tuple that starts with its author and the number of the     *)
(* author's call it comes from.                                            *)
(***************************************************************************)
EXTENDS Integers

CONSTANTS Bots

VARIABLES
  page,    \* the lines of the page
  number,  \* the number of the last call of each bot
  open,    \* whether that call is under way
  adds,    \* whether it is to add a line
  known,   \* the lines the bot has read for it
  said,    \* whether it returned success
  made     \* the calls whose line was put on the page

vars == <<page, number, open, adds, known, said, made>>

OwnLine(l, b) == l[1] = b /\ l[2] = number[b]

Init == /\ page = {}
        /\ number = [b \in Bots |-> 0]
        /\ open = [b \in Bots |-> FALSE]
        /\ adds \in [Bots -> BOOLEAN]
        /\ known = [b \in Bots |-> {}]
        /\ said = [b \in Bots |-> FALSE]
        /\ made = {}

Others == /\ \A l \in page' \ page : l[1] \notin Bots
          /\ UNCHANGED <<number, open, adds, known, said, made>>

Begin(b) == /\ ~open[b]
            /\ number' = [number EXCEPT ![b] = @ + 1]
            /\ open' = [open EXCEPT ![b] = TRUE]
            /\ adds' \in {[adds EXCEPT ![b] = add] : add \in BOOLEAN}
            /\ said' = [said EXCEPT ![b] = FALSE]
            /\ UNCHANGED <<page, known, made>>

Read(b) == /\ open[b]
           /\ known' = [known EXCEPT ![b] = page]
           /\ UNCHANGED <<page, number, open, adds, said, made>>

Effect(b) == /\ page \ page' \subseteq known[b]
             /\ \A l \in page' \ page : OwnLine(l, b)
             /\ made' = IF page' \subseteq page THEN made ELSE made \cup {<<b, number[b]>>}

Change(b) == /\ open[b]
             /\ Effect(b)
             /\ UNCHANGED <<number, open, adds, known, said>>

\* The answer to the change may be what ends the call.
End(b, success) == /\ open[b]
                   /\ Effect(b)
                   /\ success /\ adds[b] => <<b, number[b]>> \in made'
                   /\ open' = [open EXCEPT ![b] = FALSE]
                   /\ known' = [known EXCEPT ![b] = {}]
                   /\ said' = [said EXCEPT ![b] = success]
                   /\ UNCHANGED <<number, adds>>

Next == \/ Others
        \/ \E b \in Bots : \/ Begin(b) \/ Read(b) \/ Change(b)
                           \/ \E success \in BOOLEAN : End(b, success)

Spec == Init /\ [][Next]_vars
===============================================================================

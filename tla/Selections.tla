------------------------------ MODULE Selections ------------------------------
(* Loops over a sequence, as recursive functions that can be reasoned about. *)
EXTENDS Integers, Sequences

\* The elements of s that belong to S, in their order.
Selected(s, S) ==
  LET Upto[n \in 0 .. Len(s)] ==
        IF n = 0 THEN <<>>
        ELSE IF s[n] \in S THEN Append(Upto[n - 1], s[n]) ELSE Upto[n - 1]
  IN  Upto[Len(s)]
===============================================================================

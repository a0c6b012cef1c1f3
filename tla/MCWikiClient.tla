----------------------------- MODULE MCWikiClient -----------------------------
(* Instances of WikiClient for TLC. *)
EXTENDS WikiClient

CONSTANT c1

AllRequests ==
  {[function |-> "editPage", change |-> x] : x \in {"addUnlessThere", "cut"}}
  \cup {[function |-> f, change |-> "add"] : f \in {"writePage", "appendToPage"}}
===============================================================================

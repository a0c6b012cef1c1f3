------------------------------- MODULE ListReads ------------------------------
(***************************************************************************)
(* Reads of a list, page by page and possibly by several calls, while the  *)
(* wiki changes (src/mwclient/request.cpp, wiki_read_api_query_list.cpp).  *)
(***************************************************************************)
EXTENDS Integers, SequencesExt

CONSTANTS
  ApiLimit, Limits,       \* the wiki's limit of items, and those of the callers (or All)
  MaxKey, ItemDates,      \* keys of the items of a list: dates or positions; bounds of the callers
  MaxListChanges          \* how often the list changes

ASSUME ListAssumption == MaxKey \in Nat

All == -1      \* PAGER_ALL
NoDate == 0
VARIABLES
  items, stayed,  \* the items of the list, those that were there all along
  listChanges,
  pager           \* the query, its WikiListPager and what the caller has
listVars == <<items, stayed, listChanges, pager>>

---------------------------------------------------------------------------
(* What the caller asks, and what each function makes of it: only some pass the limit or the dates   *)
(* on, only some let the next call continue.                                                         *)

Questions ==
  [limit : Limits, newestFirst : BOOLEAN, start : ItemDates, end : ItemDates, continues : {TRUE}, sized : {FALSE}]
Undated(ask) == [ask EXCEPT !.newestFirst = FALSE, !.start = NoDate, !.end = NoDate]
Once(ask) == [ask EXCEPT !.continues = FALSE]

GetRecentChanges(ask) == ask
GetUserContribs(ask) == ask
GetHistory(ask) == ask
GetLogEvents(ask) == Once(ask)
CategoryByDate(ask) == Once(ask)
CategoryByName(ask) == [Once(Undated(ask)) EXCEPT !.sized = TRUE]  \* with sizeEstimate
GetBacklinks(ask) == Once(Undated(ask))
GetTransclusions(ask) == [Once(Undated(ask)) EXCEPT !.limit = All]
GetUsersInGroup(ask) == [Once(Undated(ask)) EXCEPT !.limit = All]
\* The titles with a prefix are an interval of titles.
GetAllPages(ask) == [Once(ask) EXCEPT !.newestFirst = FALSE]
GetPagesByPrefix(ask) == GetAllPages([ask EXCEPT !.limit = All])
SearchText(ask) == Once(Undated(ask))
GetExtURLUsage(ask) == Once(Undated(ask))

Queries(ask) ==
  {GetRecentChanges(ask), GetUserContribs(ask), GetHistory(ask), GetLogEvents(ask), CategoryByDate(ask),
   CategoryByName(ask), GetBacklinks(ask), GetTransclusions(ask), GetUsersInGroup(ask), GetAllPages(ask),
   GetPagesByPrefix(ask), SearchText(ask), GetExtURLUsage(ask)}

\* What the wiki makes of a query: items in the order and between the dates that were asked.
Later(query, j, k) == IF query.newestFirst THEN j < k ELSE j > k
Selects(query, k) ==
  /\ query.start # NoDate => ~Later(query, query.start, k)
  /\ query.end # NoDate => ~Later(query, k, query.end)

---------------------------------------------------------------------------
(* WikiPager::runPager.                                                                              *)

AtStart == 0
AtEnd == -1
AskedFor == IF pager.left = All THEN ApiLimit ELSE Min({ApiLimit, pager.left})

\* The items of the next answer: the wiki gives as many as it wants.
Ahead ==
  {k \in items : Selects(pager.query, k) /\ (pager.next # AtStart => ~Later(pager.query, pager.next, k))}
Answers ==
  UNION {{answer \in [1 .. n -> Ahead] :
            \A j \in 1 .. n : /\ \A k \in 1 .. j - 1 : Later(pager.query, answer[j], answer[k])
                              /\ \A k \in Ahead \ ToSet(answer) : Later(pager.query, k, answer[j])} :
         n \in 0 .. AskedFor}
FirstIn(keys) == CHOOSE k \in keys : \A other \in keys : ~Later(pager.query, k, other)
NextAfter(answer) ==
  IF Ahead \subseteq ToSet(answer) THEN AtEnd ELSE FirstIn(Ahead \ ToSet(answer))

Request == <<AskedFor, pager.next, pager.sizeAsked>>

\* A call starts, or goes on where the call before it stopped when its function allows that.
StartList ==
  /\ pager.status = "idle" \/ (pager.status = "returned" /\ pager.next # AtEnd /\ pager.query.continues)
  /\ \E ask \in Questions : \E query \in Queries(ask) :
       /\ pager.status = "returned" => query = [pager.query EXCEPT !.limit = query.limit]
       /\ pager' = [pager EXCEPT !.status = IF query.limit = 0 THEN "returned" ELSE "asking",
                                 !.query = query, !.left = query.limit, !.sent = {}, !.sizeAsked = query.sized]
  /\ UNCHANGED <<items, stayed, listChanges>>

ResumeAtLast(answer) ==  \* mutant: the last item again
  IF answer = <<>> \/ Ahead \subseteq ToSet(answer) THEN NextAfter(answer) ELSE Last(answer)
ContinueAfter(answer) == NextAfter(answer)

AnswerList ==
  /\ pager.status = "asking" /\ Request \notin pager.sent
  /\ \E answer \in Answers :
       LET left == IF pager.left = All THEN All ELSE pager.left - Len(answer)
           next == ContinueAfter(answer)
       IN  pager' = [pager EXCEPT
             !.status = IF left = 0 \/ next = AtEnd THEN "returned" ELSE "asking",
             !.left = left, !.next = next, !.sent = @ \cup {Request}, !.sizeAsked = FALSE,
             !.got = @ \o answer, !.empty = answer = <<>>]
  /\ UNCHANGED <<items, stayed, listChanges>>

\* The same request twice: the pager would loop forever.
LoopInPager ==
  /\ pager.status = "asking" /\ Request \in pager.sent
  /\ pager' = [pager EXCEPT !.status = "failed"]
  /\ UNCHANGED <<items, stayed, listChanges>>

ItemComesOrGoes ==
  /\ listChanges < MaxListChanges /\ pager.status \in {"asking", "returned"}
  /\ listChanges' = listChanges + 1
  /\ \E k \in 1 .. MaxKey : items' = IF k \in items THEN items \ {k} ELSE items \cup {k}
  /\ stayed' = stayed \cap items'
  /\ UNCHANGED pager

ListInit ==
  /\ items \in SUBSET (1 .. MaxKey)
  /\ stayed = items
  /\ listChanges = 0
  /\ pager = [status |-> "idle", left |-> All, next |-> AtStart, sent |-> {}, sizeAsked |-> FALSE,
              got |-> <<>>, empty |-> FALSE,
              query |-> [limit |-> All, newestFirst |-> FALSE, start |-> NoDate, end |-> NoDate,
                         continues |-> TRUE, sized |-> FALSE]]

ListNext == StartList \/ AnswerList \/ LoopInPager \/ ItemComesOrGoes
ListSpec == ListInit /\ [][ListNext]_listVars

---------------------------------------------------------------------------
\* However its answers are cut and whatever comes and goes meanwhile, a list is read in the order and between
\* the dates that were asked, each item once; an item that stayed is not skipped, and nothing but the limit
\* ends the reading.  The pager gives up only when the wiki gave nothing.
ListIsReadOnce ==
  /\ \A j \in DOMAIN pager.got : /\ Selects(pager.query, pager.got[j])
                                 /\ \A k \in 1 .. j - 1 : Later(pager.query, pager.got[j], pager.got[k])
  /\ \A k \in stayed : Selects(pager.query, k) =>
       \/ k \in ToSet(pager.got)
       \/ pager.next = AtStart
       \/ (pager.next # AtEnd /\ ~Later(pager.query, pager.next, k))
  /\ pager.status = "returned" /\ pager.next # AtEnd => pager.query.limit # All
  /\ pager.status = "failed" => pager.empty
===============================================================================

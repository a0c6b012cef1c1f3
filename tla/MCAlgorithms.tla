----------------------------- MODULE MCAlgorithms -----------------------------
(***************************************************************************)
(* The algorithms that the bots and mwclient share keep no state between   *)
(* two calls: every behaviour is about a single one, chosen at the start,  *)
(* and only what it is given changes.                                      *)
(***************************************************************************)
EXTENDS JobEnumeration, PageMarkers, ListReads, ApiReads, Dates, JsonValues

CONSTANTS MaxRows, MaxPriority, MaxDate  \* the tables of jobs
VARIABLE subject

Subjects == {"jobs", "parser", "titles", "nodes", "markers", "lists", "pages", "dates", "values", "characters"}

\* Every table of up to MaxRows rows with these priorities and dates, where a row may not be ready, and
\* longer tables of rows that have the same priority.
MCQueues ==
  UNION {[1..n -> [priority : 0..MaxPriority, runAfter : 0..MaxDate, ready : BOOLEAN]] : n \in 0..MaxRows}
  \cup UNION {[1..n -> [priority : {0}, runAfter : 0..1, ready : {TRUE}]] : n \in 0..2 * MaxRows}

Times(symbol, n) == [k \in 1 .. n |-> symbol]
MCChunks == {Times("[", 2), Times("[", 3), Times("]", 2), Times("{", 2), Times("{", 3), Times("}", 2), Times("}", 3), <<"|">>}
MCTagChunks == {<<s>> : s \in {"<ref>", "</ref>", "<pre>", "</nowiki>", "<nowiki>", "<!--", "-->"}}
MCDeepOpening == Times("[", 8)

MCSiteAnswer ==
  LET Namespace(id, name, canonical, firstLetter) ==
        [id |-> id, name |-> <<name>>, canonical |-> <<canonical>>, firstLetter |-> firstLetter]
  IN  [namespaces |-> {[id |-> 0, name |-> <<>>, canonical |-> <<>>, firstLetter |-> TRUE],
                       Namespace(1, "Disc", "Talk", TRUE), Namespace(2, "U", "User", TRUE),
                       Namespace(6, "F", "F", TRUE), Namespace(14, "Cat", "Cat", FALSE)},
       aliases |-> {[name |-> <<"X", " ", "U">>, id |-> 2]},
       interwikis |-> {<<"iw">>}, redirects |-> {<<"#", "redirect">>}]
MCCapital ==
  [w \in {"x", "u", "talk", "disc", "cat", "f", "redirect"} |->
     CASE w = "x" -> "X" [] w = "u" -> "U" [] w = "talk" -> "Talk" [] w = "disc" -> "Disc" [] w = "cat" -> "Cat" [] w = "f" -> "F"
       [] w = "redirect" -> "Redirect"]
MCTitleSymbols == {":", "#", " ", "LRM", "x", "U", "talk", "Cat", "F", "iw"}
MCFieldSymbols == {<<"=">>, <<" ">>, <<"\n">>, <<"1">>, <<"|">>, <<"<!--">>, <<"-->">>, Times("{", 2), Times("}", 2)}

MCMarkerChunks ==
  [section |-> {Comment(Begin), Comment(End), Comment(Counter(1)), <<"<!--">>, <<"-->">>, <<"\n">>, <<"x">>},
   inclusion |-> {<<"x">>, <<"<!--">>, <<"-->">>, <<SelfClosing("noinclude")>>} \cup
                 UNION {{<<Opening(n)>>, <<Closing(n)>>} : n \in IncludeNames \cup {"nowiki", "pre"}},
   exclusion |-> {<<"{">>, <<"{", "{", "bots">>, <<"{", "{", "nobots">>, Times("}", 2), <<"|", "deny", "=">>,
                  <<"|", "allow", "=">>, <<"|", "optout", "=">>, <<"B">>, <<",">>, <<"all">>, <<"T">>, <<" ">>},
   summary |-> {Times("[", 2), <<"[">>, Times("]", 2), Times("{", 2), Times("}", 2), <<"|">>, <<"x">>, <<"'">>,
                <<"Cat", ":">>, <<"F", ":">>, <<"<">>, <<" ">>, <<"://">>}]
MCNewSections == {<<>>, <<"x", "\n">>, <<"-->">>, Comment(End)}

MCLimits == {All, 2}
MCTitles == {"a", "A", "B", "iw", "special", "gone"}
MCAsked ==
  UNION {{s \in [1..n -> MCTitles] : \A i, j \in 1..n : s[i] = s[j] => i = j} : n \in 1..3}
  \cup {<<"A", "A", "bad">>, <<"bad", "B">>}
MCNormalForm == [t \in {"a"} |-> "A"]
MCRedirectMaps ==
  {<<>>, [t \in {"A", "B"} |-> IF t = "A" THEN "B" ELSE "C"], [t \in {"A"} |-> "gone"],
   [t \in {"A", "B", "C"} |-> CASE t = "A" -> "B" [] t = "B" -> "C" [] t = "C" -> "D"]}
MCPropsOf == [t \in {"A", "B", "C", "D"} |-> CASE t = "A" -> <<1>> [] t = "B" -> <<2, 3>> [] t = "C" -> <<4>> [] t = "D" -> <<>>]

\* Around changes of time, ends of months and of years, leap days.
MCEpochs ==
  {<<2019, 12, 31, 23, 30, 0>>, <<2020, 2, 29, 23, 0, 5>>, <<2020, 3, 29, 0, 40, 0>>, <<2020, 10, 25, 0, 30, 0>>,
   <<2021, 10, 31, 0, 30, 0>>, <<2024, 3, 31, 0, 30, 59>>, <<2024, 1, 31, 12, 0, 0>>, <<2000, 9, 30, 12, 0, 0>>}
MCWrittenWords ==
  {<<Number(12, 2)>>, <<Number(45, 2), Word("1er")>>, <<Number(12, 2), Word("mars"), Number(2020, 4), Word("à")>>,
   <<Word("("), Word("CET")>>,
   <<Number(31, 1), Word("février"), Number(2020, 4), Word("à"), Number(10, 2), Word(":"), Number(5, 2)>>}

MCBytes == {0, 127, 128, 194, 224, 160, 240, 144, 248}
MCKeys == {<<97>>, <<34>>}
MCStrings == {<<>>, <<92, 110>>, <<34, 10, 1>>, <<195, 169, 92>>}
MCPaths ==
  LET Key(k) == [key |-> k, index |-> -1]
      Index(i) == [key |-> <<>>, index |-> i]
  IN  {<<>>, <<Key(<<97>>)>>, <<Key(<<34>>)>>, <<Index(1)>>, <<Key(<<97>>), Index(0)>>, <<Index(0), Key(<<97>>)>>}
MCJsonChunks ==
  {<<123>>, <<125>>, <<91>>, <<93>>, <<44>>, <<34, 97, 34>>, <<58>>, <<34>>, <<92>>, NullWord, <<45, 49>>, <<46, 53>>,
   <<117, 48, 48, 48, 48>>, <<117, 68, 56, 51, 100, 92, 117, 100, 101, 48, 48>>}

---------------------------------------------------------------------------
\* What is not the subject has a fixed value.
AlgorithmsInit ==
  /\ subject \in Subjects
  /\ subject # "jobs" => queue = <<>> /\ newestFirst = FALSE
  /\ subject # "parser" => chunks = <<>>
  /\ subject # "markers" => page = [kind |-> "summary", text |-> <<>>, size |-> 0]
  /\ subject # "lists" => items = {}
  /\ subject # "dates" => diary = [now |-> <<2000, 9, 30, 12, 0, 0>>, notes |-> <<[text |-> <<>>, signed |-> {}]>>]
  /\ subject # "values" => json = [kind |-> "received", value |-> Null, text |-> <<>>, size |-> 0]
  /\ Init /\ CodeInit /\ TitleInit /\ FieldInit /\ PageInit /\ ListInit /\ ReaderInit /\ JsonInit
  /\ BytesInit
  /\ subject = "dates" => DiaryInit

Others(name) ==
  /\ subject = name /\ UNCHANGED subject
  /\ name # "jobs" => UNCHANGED vars
  /\ name # "parser" => UNCHANGED chunks
  /\ name # "titles" => UNCHANGED writtenTitle
  /\ name # "nodes" => UNCHANGED field
  /\ name # "markers" => UNCHANGED page
  /\ name # "lists" => UNCHANGED listVars
  /\ name # "pages" => UNCHANGED reader
  /\ name # "dates" => UNCHANGED diary
  /\ name # "values" => UNCHANGED json
  /\ name # "characters" => UNCHANGED bytes

AlgorithmsNext ==
  \/ Others("jobs") /\ Next
  \/ Others("parser") /\ WriteChunk
  \/ Others("titles") /\ TypeTitle
  \/ Others("nodes") /\ TypeField
  \/ Others("markers") /\ WriteMarker
  \/ Others("lists") /\ ListNext
  \/ Others("pages") /\ ReaderNext
  \/ Others("dates") /\ WriteNote
  \/ Others("values") /\ JsonNext
  \/ Others("characters") /\ TypeByte

AlgorithmsSpec ==
  AlgorithmsInit /\ [][AlgorithmsNext]_<<subject, vars, chunks, writtenTitle, field, page, listVars, reader, diary, json, bytes>>
===============================================================================

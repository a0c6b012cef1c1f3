---------------------------- MODULE WikicodeNodes ----------------------------
(***************************************************************************)
(* What is done with the tree of Wikicode (src/mwclient/parser_nodes.cpp   *)
(* and parser_misc.cpp): the traversal, the fields of templates, the names *)
(* of templates and the targets of links.  Here "=", " " and "\n" are      *)
(* symbols of ordinary text.                                               *)
(***************************************************************************)
EXTENDS Wikicode, Titles

CONSTANTS FieldSymbols, MaxFieldSymbols  \* the fields written in a model
VARIABLE field

---------------------------------------------------------------------------
(* NodeGenerator.  A node is a node of Wikicode or [type |-> "list",       *)
(* nodes].  An entry of the stack is a node and the index of the child     *)
(* where it is: -2 for a root not visited yet.                             *)

ListNode(list) == [type |-> "list", nodes |-> list]
FieldsOf(node) ==
  CASE node.type \in {"link", "template"} -> node.fields
    [] node.type = "tag" -> node.content
    [] node.type = "variable" -> <<node.name>> \o node.default
    [] OTHER -> <<>>
Children(node) ==
  IF node.type = "list" THEN node.nodes ELSE [k \in DOMAIN FieldsOf(node) |-> ListNode(FieldsOf(node)[k])]

Entry(node, child) == [node |-> node, child |-> child]

\* One call of next().
RECURSIVE NextNode(_, _, _)
NextNode(stack, postfix, wanted) ==
  LET at == Len(stack)
      child == stack[at].child + 1
      moved == [stack EXCEPT ![at].child = child]
      children == Children(stack[at].node)
      pushed == child = -1 \/ child < Len(children)
      longer == IF child >= 0 /\ pushed THEN Append(moved, Entry(children[child + 1], -1)) ELSE moved
      returned == pushed = ~postfix /\ Last(longer).node.type \in wanted
  IN  IF stack = <<>> THEN <<>>
      ELSE IF returned THEN longer
      ELSE NextNode(IF pushed THEN longer ELSE Front(longer), postfix, wanted)

Resume(stack, postfix) ==
  IF postfix /\ stack # <<>> /\ Last(stack).child # -2 THEN Front(stack) ELSE stack

RECURSIVE Enumeration(_, _, _)
Enumeration(stack, postfix, wanted) ==
  LET found == NextNode(Resume(stack, postfix), postfix, wanted)
  IN  IF found = <<>> THEN <<>> ELSE <<Last(found).node>> \o Enumeration(found, postfix, wanted)
GetNodes(node, postfix, wanted) == Enumeration(<<Entry(node, -2)>>, postfix, wanted)

---------------------------------------------------------------------------
(* Strings: cbl/string.cpp and parser_misc.cpp.                            *)

IsSpace(symbol) == symbol \in {" ", "\n"}
Ink(text) == {i \in DOMAIN text : ~IsSpace(text[i])}
\* getTrimmedBorders: how many symbols stand before and after what is left.
LeftSpace(text) == IF Ink(text) = {} THEN Len(text) ELSE Min(Ink(text)) - 1
RightSpace(text) == IF Ink(text) = {} THEN 0 ELSE Len(text) - Max(Ink(text))
Trim(text) == SubSeq(text, LeftSpace(text) + 1, Len(text) - RightSpace(text))
TrimAndCollapse(text) ==
  LET Add(acc, symbol) ==
        IF ~IsSpace(symbol) THEN Append(acc, symbol)
        ELSE IF Last(acc) = " " THEN acc ELSE Append(acc, " ")
  IN  FoldLeft(Add, <<>>, Trim(text))

RECURSIVE StripComments(_)
StripComments(text) ==
  LET start == FindSymbol("<!--", text, 0)
      end == FindSymbol("-->", text, start + 1)
  IN  CASE start = -1 -> text
        [] end = -1 -> Upto(text, start)
        [] OTHER -> Upto(text, start) \o StripComments(After(text, end + 1))

RECURSIVE IsSpaceOrComment(_)
IsSpaceOrComment(text) ==
  LET end == FindSymbol("-->", text, 1)
  IN  CASE text = <<>> -> TRUE
        [] text # <<>> /\ IsSpace(text[1]) -> IsSpaceOrComment(Tail(text))
        [] text # <<>> /\ text[1] = "<!--" -> end = -1 \/ IsSpaceOrComment(After(text, end + 1))
        [] OTHER -> FALSE

---------------------------------------------------------------------------
(* Template: fields.                                                       *)

\* splitParamValue: the first "=" of the first text that has one separates the
\* parameter from the value, unless it starts a title.
StartsTitle(text, i) == i > 1 /\ text[i - 1] = "\n" /\ i < Len(text) /\ text[i + 1] = "="
Unnamed == <<"=", "0">>
SplitAt(list, k, text, equal) ==
  IF StartsTitle(text, equal)
  THEN [param |-> Unnamed, value |-> ListText(list)]
  ELSE [param |-> ListText(Upto(list, k - 1)) \o Upto(text, equal - 1),
        value |-> After(text, equal) \o ListText(After(list, k))]
SplitInText(list, k) == SplitAt(list, k, list[k].text, First({"="}, list[k].text))
SplitParamValue(list) ==
  LET withEqual == {k \in DOMAIN list : list[k].type = "text" /\ First({"="}, list[k].text) # 0}
  IN  IF withEqual = {} THEN [param |-> Unnamed, value |-> ListText(list)] ELSE SplitInText(list, Min(withEqual))

NormalizeParam(param) == TrimAndCollapse(StripComments(param))
NormalizeValue(value) == Trim(StripComments(value))

\* getParsedFields: fields without a name are numbered, the last field of a name
\* is the one that counts.
ParsedSplit(split, unnamed) ==
  [i \in DOMAIN split |->
     [param |-> IF i \in unnamed THEN <<ToString(Cardinality({j \in unnamed : j <= i}))>> ELSE NormalizeParam(split[i].param),
      value |-> NormalizeValue(split[i].value)]]
ParsedFieldsOf(split) == ParsedSplit(split, {i \in DOMAIN split : split[i].param = Unnamed})
ParsedFields(template) ==
  ParsedFieldsOf([i \in 1 .. Len(template.fields) - 1 |-> SplitParamValue(template.fields[i + 1])])
ParsedField(fields, param) ==
  LET found == {i \in DOMAIN fields : fields[i].param = param}
  IN  IF found = {} THEN <<>> ELSE fields[Max(found)].value

SetField(template, i, text) == [template EXCEPT !.fields[i] = TextList(text)]

Renamed(param, name) ==
  IF Ink(param) = {} THEN name \o param ELSE Upto(param, LeftSpace(param)) \o name \o After(param, Len(param) - RightSpace(param))
SetSplitName(template, i, split, name) ==
  SetField(template, i, Renamed(IF split.param = Unnamed THEN <<>> ELSE split.param, name) \o <<"=">> \o split.value)
SetFieldName(template, i, name) == SetSplitName(template, i, SplitParamValue(template.fields[i]), name)

ParamAlways(split) == split.param \o <<"=">>  \* mutant: UNNAMED_PARAM is written
ParamAndEqual(split) == IF split.param = Unnamed THEN <<>> ELSE split.param \o <<"=">>

\* The space around the value is kept.
ChangedValue(old, value) ==
  LET blank == IF StartsWith(old, " ") THEN 1 ELSE 0
  IN  IF Ink(old) = {} THEN Upto(old, blank) \o value \o After(old, blank)
      ELSE Upto(old, LeftSpace(old)) \o value \o After(old, Len(old) - RightSpace(old))
SetSplitValue(template, i, split, value) ==
  SetField(template, i, ParamAndEqual(split) \o ChangedValue(split.value, value))
SetFieldValue(template, i, value) == SetSplitValue(template, i, SplitParamValue(template.fields[i]), value)

---------------------------------------------------------------------------
(* Names of templates and targets of links.                                *)

TextOf(list) == FlattenSeq([k \in DOMAIN list |-> IF list[k].type = "text" THEN list[k].text ELSE <<>>])
OnlyText(list) == \A k \in DOMAIN list : list[k].type \in {"text", "comment"}

\* extractDummyVariableText: {{{|text}}} is written for its default value.
IsDummy(variable) ==
  /\ variable.default # <<>>
  /\ OnlyText(variable.name) /\ Ink(TextOf(variable.name)) = {}
  /\ OnlyText(variable.default[1])

StripSubst(name) ==
  LET stripped == SubSeq(name, LeftSpace(name) + 1, Len(name))
  IN  IF Upto(stripped, 2) \in {<<"subst", ":">>, <<"safesubst", ":">>} THEN After(stripped, 2) ELSE name

\* computeName; <<>> when it cannot be known.
RawName(node) ==
  CASE node.type = "text" -> node.text
    [] node.type = "variable" -> TextOf(node.default[1])
    [] OTHER -> <<>>
IsKnown(node) == node.type \in {"text", "comment"} \/ (node.type = "variable" /\ IsDummy(node))
NameOrAnchor(parts) == IF WithoutAnchor(parts) = <<>> THEN parts.anchor ELSE WithoutAnchor(parts)
NameOfList(list) ==
  IF \A k \in DOMAIN list : IsKnown(list[k])
  THEN NameOrAnchor(TitleParts(StubSite, StripSubst(FlattenSeq([k \in DOMAIN list |-> RawName(list[k])])), Main, TRUE))
  ELSE <<>>
TemplateName(template) == NameOfList(template.fields[1])

\* computeTarget.
TargetOf(parts) ==
  IF "|" \in ToSet(WithoutAnchor(parts)) THEN [target |-> <<>>, anchor |-> <<>>]
                                        ELSE [target |-> WithoutAnchor(parts), anchor |-> parts.anchor]
TargetOfList(list) ==
  IF OnlyText(list) THEN TargetOf(TitleParts(StubSite, TextOf(list), Main, TRUE)) ELSE [target |-> <<>>, anchor |-> <<>>]
LinkTarget(link) == TargetOfList(link.fields[1])

---------------------------------------------------------------------------
(* References.                                                             *)

RECURSIVE Descendants(_, _), AllDescendants(_, _)
AllDescendants(nodes, postfix) == FlattenSeq([k \in DOMAIN nodes |-> Descendants(nodes[k], postfix)])
Descendants(node, postfix) ==
  (IF postfix THEN <<>> ELSE <<node>>) \o AllDescendants(Children(node), postfix) \o (IF postfix THEN <<node>> ELSE <<>>)

AllTypes == {"list", "text", "comment", "tag", "link", "template", "variable"}
TraversalIsInOrder(root) ==
  \A postfix \in BOOLEAN :
    \A wanted \in {AllTypes} \cup {{type} : type \in AllTypes} :
      GetNodes(root, postfix, wanted) =
        SelectSeq(Descendants(root, postfix), LAMBDA node : node.type \in wanted)

\* Field i of a template after an edit, in the tree and in the code parsed again.
OneTemplate(list, fields) == Len(list) = 1 /\ list[1].type = "template" /\ ParsedFields(list[1]) = fields
SaysThere(read, param, value) ==
  NormalizeParam(read.param) = NormalizeParam(param) /\ NormalizeValue(read.value) = NormalizeValue(value)
ReadsBack(template, i, edit) ==
  /\ SaysThere(SplitParamValue(edit.result.fields[i]), edit.param, edit.value)
  /\ \A j \in DOMAIN template.fields \ {i} : edit.result.fields[j] = template.fields[j]
  /\ OneTemplate(Parse(Text(edit.result)).list, ParsedFields(edit.result))
Edits(template, i, split) ==
  {[param |-> <<"n">>, value |-> split.value, result |-> SetFieldName(template, i, <<"n">>)]} \cup
  (IF split.param = Unnamed \/ First({"="}, split.param) = 0
   THEN {[param |-> split.param, value |-> <<"v">>, result |-> SetFieldValue(template, i, <<"v">>)]} ELSE {})

\* A template has the same name when it is substituted where that is possible, and a link the same
\* target.
Braced(text, subst) ==
  <<"{", "{">> \o (IF subst THEN <<"{", "{", "{", "|", "subst", ":", "}", "}", "}">> ELSE <<>>) \o text \o <<"}", "}">>
NameIn(list) == IF Len(list) = 1 /\ list[1].type = "template" THEN TemplateName(list[1]) ELSE <<>>
NamesOf(text) == [subst \in BOOLEAN |-> NameIn(Parse(Braced(text, subst)).list)]
SameTarget(list, name) ==
  Len(list) = 1 /\ list[1].type = "link" /\ OnlyText(list[1].fields[1]) => LinkTarget(list[1]).target = name
SameName(names, text) ==
  names[FALSE] # <<>> =>
    names[TRUE] = names[FALSE] /\ SameTarget(Parse(<<"[", "[">> \o text \o <<"]", "]">>).list, names[FALSE])
NameIsKnown(text) == SameName(NamesOf(text), text)

FieldInit == field = <<>>
TypeField == Len(field) < MaxFieldSymbols /\ \E s \in FieldSymbols : field' = Append(field, s)

\* After an edit of a field, the template has the new value or name there, the other part of that
\* field and the other fields are what they were, and the code parsed again says the same, provided no
\* "=" stands in a comment or a template within the name.  Comments and blanks are the same for
\* the tree and for the functions on strings, each node is visited once, in order, and the name of a
\* template does not depend on the way it is called.
IsBlank(list) == \A k \in DOMAIN list : list[k].type = "comment" \/ (list[k].type = "text" /\ Ink(list[k].text) = {})
FieldReadsBack(template, i) ==
  /\ \A edit \in Edits(template, i, SplitParamValue(template.fields[i])) : ReadsBack(template, i, edit)
  /\ OnlyText(template.fields[i]) => TextOf(template.fields[i]) = StripComments(ListText(template.fields[i]))
TemplateReadsBack(list) ==
  /\ TraversalIsInOrder(ListNode(list))
  /\ Len(list) = 1 /\ list[1].type = "template" => \A i \in 2 .. Len(list[1].fields) : FieldReadsBack(list[1], i)
FieldTextReadsBack(text) ==
  text # <<>> =>
    /\ TemplateReadsBack(Parse(<<"{", "{", "t", "|">> \o text \o <<"}", "}">>).list)
    /\ NameIsKnown(text)
    /\ IsSpaceOrComment(text) <=> IsBlank(Parse(text).list)
NodesReadBack == FieldTextReadsBack(FlattenSeq(field))
===============================================================================

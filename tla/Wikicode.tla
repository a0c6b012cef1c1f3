------------------------------- MODULE Wikicode -------------------------------
(***************************************************************************)
(* The wikicode parser (src/mwclient/parser.cpp).  A code is a sequence of *)
(* symbols: the special characters "[", "]", "{", "}" and "|", whole tags  *)
(* "<ref>", "</ref>"..., "<!--", "-->", and any other symbol for ordinary  *)
(* text.  The result is a tree of nodes:                                   *)
(*   a list           a sequence of nodes                                  *)
(*   text, comment    [type, text]                                         *)
(*   tag              [type, opening, content, closing], content being     *)
(*                    <<>> or <<list>>                                     *)
(*   link, template   [type, fields], fields being lists                   *)
(*   variable         [type, name, default], default being <<>> or <<list>> *)
(*                                                                         *)
(* Only TLC evaluates this module: its operators are recursive.            *)
(***************************************************************************)
EXTENDS Integers, SequencesExt

CONSTANTS
  MaxDepth,      \* PARSER_MAX_DEPTH
  Chunks, TagChunks, DeepOpening, MaxChunks, MaxTagged  \* the codes written in a model
VARIABLE chunks  \* the code to parse

RawTags == {"nowiki", "pre"}
WikicodeTags == {"ref"}
TagNames == RawTags \cup WikicodeTags
Opening(name) == "<" \o name \o ">"
SelfClosing(name) == "<" \o name \o "/>"
Closing(name) == "</" \o name \o ">"
SpecialSymbols == {"[", "]", "{", "}", "|", "<!--"} \cup
                  UNION {{Opening(n), SelfClosing(n), Closing(n)} : n \in TagNames}

---------------------------------------------------------------------------
(* The text of a tree.                                                     *)

RECURSIVE Text(_), ListText(_)
Joined(fields) == FlattenSeq([k \in DOMAIN fields |-> (IF k = 1 THEN <<>> ELSE <<"|">>) \o ListText(fields[k])])
OwnText(node) == node.text
TagText(node) == node.opening \o Joined(node.content) \o node.closing
LinkText(node) == <<"[", "[">> \o Joined(node.fields) \o <<"]", "]">>
TemplateText(node) == <<"{", "{">> \o Joined(node.fields) \o <<"}", "}">>
VariableText(node) == <<"{", "{", "{">> \o Joined(<<node.name>> \o node.default) \o <<"}", "}", "}">>
Text(node) ==
  CASE node.type \in {"text", "comment"} -> OwnText(node)
    [] node.type = "tag" -> TagText(node)
    [] node.type = "link" -> LinkText(node)
    [] node.type = "template" -> TemplateText(node)
    [] node.type = "variable" -> VariableText(node)
ListText(list) == FlattenSeq([k \in DOMAIN list |-> Text(list[k])])

TextList(text) == IF text = <<>> THEN <<>> ELSE <<[type |-> "text", text |-> text]>>

---------------------------------------------------------------------------
(* Elements of the stack: tokens [type, text] and nodes [type, node,       *)
(* depth].                                                                 *)

Token(type, text) == [type |-> type, text |-> text]
NodeElement(node, depth) == [type |-> "node", node |-> node, depth |-> depth]
IsNode(e) == e.type = "node"

\* constructList: nodes stay, other elements become text, joined with the text
\* just before.
AddElement(list, e) ==
  IF IsNode(e) THEN Append(list, e.node)
  ELSE IF list # <<>> /\ Last(list).type = "text"
       THEN [list EXCEPT ![Len(list)].text = @ \o e.text]
       ELSE Append(list, [type |-> "text", text |-> e.text])
ListOf(elements) == FoldLeft(AddElement, <<>>, elements)

DepthOf(elements) ==
  Max({IF elements = <<>> THEN 1 ELSE 2} \cup
      {elements[k].depth + 1 : k \in {j \in DOMAIN elements : IsNode(elements[j])}})

\* A pipe between "[[[" and the next "]]" does not separate fields.
Separators(elements) ==
  LET Step(acc, k) ==
        CASE elements[k].type = "link_broken_begin" -> [acc EXCEPT !.broken = @ + 1]
          [] elements[k].type = "link_end" /\ acc.broken > 0 -> [acc EXCEPT !.broken = @ - 1]
          [] elements[k].type = "pipe" /\ acc.broken = 0 -> [acc EXCEPT !.found = @ \cup {k}]
          [] OTHER -> acc
  IN  FoldLeft(Step, [broken |-> 0, found |-> {}], [k \in DOMAIN elements |-> k]).found

Between(elements, bounds) ==
  [k \in 1 .. Len(bounds) - 1 |-> SubSeq(elements, bounds[k] + 1, bounds[k + 1] - 1)]
PartsAt(elements, bars) ==
  Between(elements, SelectSeq([k \in 1 .. Len(elements) + 2 |-> k - 1], LAMBDA k : k \in bars))
Parts(elements) == PartsAt(elements, {0, Len(elements) + 1} \cup Separators(elements))

\* A default value never stops at a pipe.
NameAndDefaultAt(elements, bar) ==
  IF bar > Len(elements) THEN <<elements>>
  ELSE <<SubSeq(elements, 1, bar - 1), SubSeq(elements, bar + 1, Len(elements))>>
NameAndDefault(elements) == NameAndDefaultAt(elements, Min(Separators(elements) \cup {Len(elements) + 1}))

\* constructNodeWithFields: a pipe with nothing after it ends with an empty field.
ListsOf(parts) == [k \in DOMAIN parts |-> ListOf(parts[k])]
NodeOfLists(type, lists) ==
  IF type = "variable" THEN [type |-> type, name |-> Head(lists), default |-> Tail(lists)]
                       ELSE [type |-> type, fields |-> lists]
NodeOf(type, elements) ==
  NodeOfLists(type, ListsOf(IF type = "variable" THEN NameAndDefault(elements) ELSE Parts(elements)))

\* constructList takes the depth of each list; a separator adds nothing to it.
PartsDepth(parts) == Max({DepthOf(parts[k]) : k \in DOMAIN parts})

---------------------------------------------------------------------------
(* ParserStack: the elements and the positions of the openings that may    *)
(* still be closed, above a sentinel 0.                                    *)

EmptyStack == [elements |-> <<>>, links |-> <<0>>, templates |-> <<0>>, deep |-> FALSE]

\* A node at the depth limit closes the door to all nodes around it.
Push(s, e) ==
  LET at == Len(s.elements) + 1
      pushed == [s EXCEPT !.elements = Append(@, e)]
  IN  CASE IsNode(e) -> IF e.depth < MaxDepth - 1 THEN pushed
                        ELSE [pushed EXCEPT !.links = <<0>>, !.templates = <<0>>, !.deep = TRUE]
        [] e.type \in {"link_begin", "link_broken_begin"} -> [pushed EXCEPT !.links = Append(@, at)]
        [] e.type = "template_begin" -> [pushed EXCEPT !.templates = Append(@, at)]
        [] OTHER -> pushed

PopTo(s, size) ==
  LET Below(openings) == SelectSeq(openings, LAMBDA i : i <= size)
  IN  [s EXCEPT !.elements = SubSeq(@, 1, size), !.links = Below(@), !.templates = Below(@)]

LastLinkOpening(s) == IF Last(s.links) > Last(s.templates) THEN Last(s.links) ELSE 0
LastTemplateOpening(s) == IF Last(s.templates) > Last(s.links) THEN Last(s.templates) ELSE 0

NewElement(type, parts) == NodeElement(NodeOfLists(type, ListsOf(parts)), PartsDepth(parts) + 1)
Inside(s, opening) == SubSeq(s.elements, opening + 1, Len(s.elements) - 1)

\* On top of the stack is "]]".
ReduceLinkAt(s, i) ==
  CASE i = 0 -> s
    [] i # 0 /\ s.elements[i].type = "link_broken_begin" -> [s EXCEPT !.links = Front(@)]
    [] OTHER -> Push(PopTo(s, i - 1), NewElement("link", Parts(Inside(s, i))))
ReduceLink(s) == ReduceLinkAt(s, LastLinkOpening(s))

\* On top of the stack are two or more "}".  What is left of the opening may
\* be closed by what is left of the closure.
BracesElement(inside, used) ==
  IF used = 3 THEN NewElement("variable", NameAndDefault(inside)) ELSE NewElement("template", Parts(inside))
OpeningLeft(text) == Token(IF Len(text) = 1 THEN "leftover" ELSE "template_begin", text)
PushIf(condition, s, e) == IF condition THEN Push(s, e) ELSE s
ReduceBraces(s, i, used, openingLeft, closureLeft) ==
  PushIf(closureLeft # <<>>,
         Push(PushIf(openingLeft # <<>>, PopTo(s, i - 1), OpeningLeft(openingLeft)), BracesElement(Inside(s, i), used)),
         Token("template_end", closureLeft))
RECURSIVE ReduceTemplateOrVariable(_)
ReduceTemplateOrVariable(s) ==
  LET i == LastTemplateOpening(s)
      opening == s.elements[i].text
      closure == Last(s.elements).text
      used == IF Len(opening) >= 3 /\ Len(closure) >= 3 THEN 3 ELSE 2
      closureLeft == SubSeq(closure, used + 1, Len(closure))
      Again(t) == IF Len(closureLeft) >= 2 THEN ReduceTemplateOrVariable(t) ELSE t
  IN  IF i = 0 THEN s
      ELSE Again(ReduceBraces(s, i, used, SubSeq(opening, 1, Len(opening) - used), closureLeft))

ReduceAfter(s, type) ==
  CASE type = "link_end" -> ReduceLink(s)
    [] type = "template_end" -> ReduceTemplateOrVariable(s)
    [] OTHER -> s
PushAndReduce(s, e) == ReduceAfter(Push(s, e), e.type)

\* When an opening of each kind is left, "{{" may have hidden "[[" from "]]":
\* the links are parsed again.
AsLeftover(e) == IF e.type = "template_begin" THEN Token("leftover", e.text) ELSE e
PushAndReduceLink(s, e) == IF e.type = "link_end" THEN ReduceLink(Push(s, e)) ELSE Push(s, AsLeftover(e))
NotReparsed(s) == s  \* mutant: the second pass is forgotten
ReparseLinksIfNeeded(s) ==
  IF Last(s.templates) = 0 \/ Last(s.links) = 0 THEN s
  ELSE FoldLeft(PushAndReduceLink, [EmptyStack EXCEPT !.deep = s.deep], s.elements)

---------------------------------------------------------------------------
(* The lexer.  A position is the number of symbols read.                   *)

RunLength(code, at) ==
  Max({n \in 1 .. Len(code) - at : \A k \in 1 .. n : code[at + k] = code[at + 1]})

\* The first position from which the symbol is read, or -1.
FindSymbol(symbol, code, from) ==
  LET found == {i \in from .. Len(code) - 1 : code[i + 1] = symbol}
  IN  IF found = {} THEN -1 ELSE Min(found)

TokenAt(code, at) ==
  LET symbol == code[at + 1]
      n == RunLength(code, at)
      next == {i \in at + 1 .. Len(code) - 1 : code[i + 1] \in SpecialSymbols}
      Taken(type, size) == Token(type, SubSeq(code, at + 1, at + size))
  IN  CASE symbol = "[" /\ n = 3 -> Taken("link_broken_begin", 3)
        [] symbol = "[" /\ n >= 2 /\ n # 3 -> Taken("link_begin", 2)
        [] symbol = "{" /\ n >= 2 -> Taken("template_begin", n)
        [] symbol = "]" /\ n >= 2 -> Taken("link_end", 2)
        [] symbol = "}" /\ n >= 2 -> Taken("template_end", n)
        [] symbol = "|" -> Taken("pipe", 1)
        [] OTHER -> Taken("plain", Min(next \cup {Len(code)}) - at)

\* parseComment: an unclosed comment goes to the end.
CommentAt(code, at) ==
  LET closed == FindSymbol("-->", code, at + 1)
  IN  NodeElement([type |-> "comment",
                   text |-> SubSeq(code, at + 1, IF closed = -1 THEN Len(code) ELSE closed + 1)], 1)

\* findClosingTag: the first closing tag of that name, wherever it is; it
\* counts only within the code.
ClosingTag(code, name, from) == FindSymbol(Closing(name), code, from)

OpensTag(code, at, name) ==
  /\ code[at + 1] = Opening(name)
  /\ ClosingTag(code, name, at + 1) # -1 \/ name = "pre"

RECURSIVE Parse(_)

\* parseTag: only <pre> needs no closing tag.
RawContent(text) == [list |-> TextList(text), depth |-> IF text = <<>> THEN 1 ELSE 2]
TagElement(name, inner, closing) ==
  NodeElement([type |-> "tag", opening |-> <<Opening(name)>>, content |-> <<inner.list>>, closing |-> closing],
              inner.depth + 1)
TagAt(code, at, name) ==
  LET found == ClosingTag(code, name, at + 1)
      inner == SubSeq(code, at + 2, IF found = -1 THEN Len(code) ELSE found)
  IN  TagElement(name, IF name \in RawTags THEN RawContent(inner) ELSE Parse(inner),
                 IF found = -1 THEN <<>> ELSE <<Closing(name)>>)

SelfClosingTag(symbol) ==
  NodeElement([type |-> "tag", opening |-> <<symbol>>, content |-> <<>>, closing |-> <<>>], 1)

\* parseToken.
ElementAt(code, at) ==
  CASE code[at + 1] = "<!--" -> CommentAt(code, at)
    [] \E name \in TagNames : OpensTag(code, at, name) ->
         TagAt(code, at, CHOOSE name \in TagNames : OpensTag(code, at, name))
    [] \E name \in TagNames : code[at + 1] = SelfClosing(name) -> SelfClosingTag(code[at + 1])
    [] OTHER -> TokenAt(code, at)

ElementText(e) == IF IsNode(e) THEN Text(e.node) ELSE e.text

RECURSIVE ElementsFrom(_, _)
Following(code, at, e) == <<e>> \o ElementsFrom(code, at + Len(ElementText(e)))
ElementsFrom(code, at) == IF at = Len(code) THEN <<>> ELSE Following(code, at, ElementAt(code, at))
Elements(code) == ElementsFrom(code, 0)

\* CodeParser::parse.
Parsed(s) == [list |-> ListOf(s.elements), depth |-> DepthOf(s.elements), deep |-> s.deep]
ParseElements(elements) == Parsed(ReparseLinksIfNeeded(FoldLeft(PushAndReduce, EmptyStack, elements)))
Parse(code) == ParseElements(Elements(code))

---------------------------------------------------------------------------
(* The reference: rewriting until nothing changes.                         *)

\* The nearest opening before a closing element decides whether it is closed.
\* What a "[[[" and its "]]" enclose is only marked as seen.
Openings(s, kinds, j) ==
  {i \in 1 .. j - 1 : s[i].type \in kinds /\ ~IsNode(s[i])}
Closes(s, kinds, j) ==
  /\ Openings(s, kinds, j) # {}
  /\ LET opening == s[Max(Openings(s, kinds, j))].type
     IN  \/ s[j].type = "link_end" /\ opening \in {"link_begin", "link_broken_begin"}
         \/ s[j].type = "template_end" /\ Len(s[j].text) >= 2 /\ opening = "template_begin"

RECURSIVE Rewrite(_, _)
Rewrite(s, kinds) ==
  LET closing == {j \in DOMAIN s : Closes(s, kinds, j)}
      j == Min(closing)
      i == Max(Openings(s, kinds, j))
      inside == SubSeq(s, i + 1, j - 1)
      With(middle) == Rewrite(SubSeq(s, 1, i - 1) \o middle \o SubSeq(s, j + 1, Len(s)), kinds)
      Seen(e) == IF e.type \in {"node", "seen"} THEN e ELSE [type |-> "seen", was |-> e.type, text |-> e.text]
      used == IF Len(s[i].text) >= 3 /\ Len(s[j].text) >= 3 THEN 3 ELSE 2
      Braces(type, text) == IF text = <<>> THEN <<>> ELSE <<Token(type, text)>>
      opened == SubSeq(s[i].text, 1, Len(s[i].text) - used)
      closed == SubSeq(s[j].text, used + 1, Len(s[j].text))
      Unseen(e) == IF e.type = "seen" THEN Token(e.was, e.text) ELSE e
      content == [k \in DOMAIN inside |-> Unseen(inside[k])]
  IN  IF closing = {} THEN [k \in DOMAIN s |-> Unseen(s[k])]
      ELSE CASE s[i].type = "link_broken_begin" -> With([k \in 1 .. j - i + 1 |-> Seen(s[i + k - 1])])
             [] s[i].type = "link_begin" -> With(<<NodeElement(NodeOf("link", content), 1)>>)
             [] OTHER -> With(Braces(IF Len(opened) = 1 THEN "leftover" ELSE "template_begin", opened)
                              \o <<NodeElement(NodeOf(IF used = 3 THEN "variable" ELSE "template", content), 1)>>
                              \o Braces("template_end", closed))

\* First everything, then the links alone.
TwoPasses(elements) ==
  ListOf(Rewrite(Rewrite(elements, {"link_begin", "link_broken_begin", "template_begin"}),
                 {"link_begin", "link_broken_begin"}))

---------------------------------------------------------------------------
(* Every code made of a few chunks.                                        *)

CodeInit == chunks \in {<<>>, <<DeepOpening>>}
WriteChunk ==
  \E chunk \in Chunks \cup TagChunks :
    LET longer == Append(chunks, chunk)
    IN  /\ Len(longer) <= IF ToSet(longer) \cap TagChunks = {} THEN MaxChunks ELSE MaxTagged
        /\ chunks' = longer

\* Any string is a valid code, and the tree writes that code back.  Elements are paired in two
\* passes, the second for links alone, whatever the order the stack met them in.  Trees have a bounded
\* depth: past it, nodes are left as text.
ParsedAsWritten(code, elements, parsed) ==
  LET tagged == \E name \in TagNames : Opening(name) \in ToSet(code)
  IN  /\ ListText(parsed.list) = code
      /\ ~parsed.deep => parsed.list = TwoPasses(elements)
      /\ ~tagged => parsed.depth <= MaxDepth + 1
ElementsParsedAsWritten(code, elements) == ParsedAsWritten(code, elements, ParseElements(elements))
CodeParsedAsWritten(code) == ElementsParsedAsWritten(code, Elements(code))
ParsesInTwoPasses == CodeParsedAsWritten(FlattenSeq(chunks))
===============================================================================

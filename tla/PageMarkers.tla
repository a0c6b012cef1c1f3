------------------------------ MODULE PageMarkers ------------------------------
(***************************************************************************)
(* What the bots find in a page without parsing it: the bot section        *)
(* (src/mwclient/util/bot_section.cpp), the inclusion tags                 *)
(* (util/include_tags.cpp), the templates that forbid edits                *)
(* (src/mwclient/bot_exclusion.cpp), and the summaries of edits that bots  *)
(* copy into pages (orlodrimbot/wikiutil/escape_comment.cpp).  The page is *)
(* a sequence of symbols; a tag, or the text of a comment between its      *)
(* delimiters, is one symbol.                                              *)
(***************************************************************************)
EXTENDS WikicodeNodes

CONSTANTS
  MarkerChunks,     \* what people write, for each kind of markers
  MaxMarkerChunks,
  NewSections       \* what bots write in their section
VARIABLE page

---------------------------------------------------------------------------
(* Bot sections.                                                           *)

\* extractComment: a comment runs from the last "<!--" before its "-->".
NextSymbol(code, symbols, from) == Min({i \in from .. Len(code) : code[i] \in symbols} \cup {Len(code) + 1})
CommentEnd(code, i) == NextSymbol(code, {"-->"}, i + 1)
IsComment(code, i) ==
  code[i] = "<!--" /\ CommentEnd(code, i) <= Len(code) /\ CommentEnd(code, i) < NextSymbol(code, {"<!--"}, i + 1)
Said(code, i) == Trim(SubSeq(code, i + 1, CommentEnd(code, i) - 1))

Begin == <<"BEGIN BOT SECTION">>
End == <<"END BOT SECTION">>
Counter(n) == <<"update #", ToString(n)>>
MaxCount == 2  \* bound: the counters written in a model
Comment(said) == <<"<!--">> \o said \o <<"-->">>

FirstEnd(code, ends) == Min(ends \cup {Len(code) + 1})  \* mutant: the first mark of an end
SectionEnd(code, ends) == IF ends = {} THEN Len(code) + 1 ELSE Max(ends)

\* parseBotSection: from the first mark of a beginning, and the counter if it follows at once, to the last
\* mark of an end.
Comments(code, from) == {i \in from .. Len(code) : IsComment(code, i)}
CommentsSaying(code, from, said) == {i \in Comments(code, from) : Said(code, i) = said}
NoSection(code) == [prefix |-> code, section |-> <<>>, suffix |-> <<>>, hasBegin |-> FALSE, hasEnd |-> FALSE, count |-> 0]
SplitAtEnd(code, after, start, count, ends) ==
  LET end == SectionEnd(code, ends)
  IN  [prefix |-> Upto(code, after - 1), section |-> SubSeq(code, start, end - 1), suffix |-> After(code, end - 1),
       hasBegin |-> TRUE, hasEnd |-> ends # {}, count |-> count]
SplitFrom(code, after, start, count) == SplitAtEnd(code, after, start, count, CommentsSaying(code, start, End))
CountSaid(said) == Max({0} \cup {n \in 0 .. MaxCount + 1 : said = Counter(n)})
SplitAfter(code, after) ==
  IF after <= Len(code) /\ IsComment(code, after) /\ StartsWith(Said(code, after), "update #")
  THEN SplitFrom(code, after, CommentEnd(code, after) + 1, CountSaid(Said(code, after)))
  ELSE SplitFrom(code, after, after, 0)
SplitAtBegins(code, begins) ==
  IF begins = {} THEN NoSection(code) ELSE SplitAfter(code, CommentEnd(code, Min(begins)) + 1)
ParseBotSection(code) == SplitAtBegins(code, CommentsSaying(code, 1, Begin))

WithoutNewLine(section) == IF StartsWith(section, "\n") THEN Tail(section) ELSE section
ReadBotSection(code) == WithoutNewLine(ParseBotSection(code).section)

EndsLine(text) == text = <<>> \/ Last(text) = "\n"
BotSectionChanged(old, new, compact) ==
  IF compact THEN old # new
  ELSE ~StartsWith(old, "\n") \/ Tail(old) # (IF EndsLine(new) THEN new ELSE Append(new, "\n"))

\* replaceBotSection; a page is returned as it is when the section has to exist and does not.
If(condition, text) == IF condition THEN text ELSE <<>>
ReplaceIn(split, code, new, flags) ==
  LET spaced == "compact" \notin flags
  IN  IF (~split.hasBegin /\ "must exist" \in flags) \/ ~BotSectionChanged(split.section, new, ~spaced)
      THEN code
      ELSE split.prefix
           \o If(~split.hasBegin /\ ~EndsLine(code), <<"\n">>) \o If(~split.hasBegin, Comment(Begin))
           \o If("update counter" \in flags, Comment(Counter(split.count + 1)))
           \o If(spaced, <<"\n">>) \o new \o If(spaced /\ ~EndsLine(new), <<"\n">>)
           \o If(~split.hasEnd, Comment(End)) \o split.suffix
ReplaceBotSection(code, new, flags) == ReplaceIn(ParseBotSection(code), code, new, flags)

---------------------------------------------------------------------------
(* Inclusion tags.                                                         *)

IncludeNames == {"includeonly", "noinclude", "onlyinclude"}
TextNames == {"nowiki", "pre"}  \* their content is text
TagsOf(name) ==
  {[symbol |-> Opening(name), name |-> name, type |-> "opening"],
   [symbol |-> Closing(name), name |-> name, type |-> "closing"],
   [symbol |-> SelfClosing(name), name |-> name, type |-> "empty"]}
AllTags == UNION {TagsOf(name) : name \in IncludeNames \cup TextNames}
Tags == [symbol \in {t.symbol : t \in AllTags} |-> CHOOSE t \in AllTags : t.symbol = symbol]
IsTag(symbol) == symbol \in DOMAIN Tags
NameOf(symbol) == Tags[symbol].name
TypeOf(symbol) == Tags[symbol].type

\* enumIncludeTags: the tokens between "from" and the end, where "text" is the name of the tag whose end is
\* looked for, opened just before "reopen".
RECURSIVE IncludeTokens(_, _, _, _, _, _)
NextTag(code, at) == Min({k \in at .. Len(code) : IsTag(code[k]) \/ code[k] = "<!--"} \cup {Len(code) + 1})
Piece(code, first, last) == IF first <= last THEN <<SubSeq(code, first, last)>> ELSE <<>>
\* What follows a tag met in a text: where to go on, and the tag whose end is looked for.
Skipped(code, i, name, ignored) ==
  CASE name = "comment" -> [next |-> NextSymbol(code, {"-->"}, i + 1), text |-> "", reopen |-> 0]
    [] name \in TextNames /\ code[i] = Opening(name) /\ name \notin ignored -> [next |-> i + 1, text |-> name, reopen |-> i + 1]
    [] OTHER -> [next |-> i + 1, text |-> "", reopen |-> 0]
InsideText(code, i, text, reopen) ==
  [next |-> i + 1, text |-> IF code[i] = Closing(text) THEN "" ELSE text, reopen |-> reopen]
TokensAt(code, i, name, from, text, reopen, ignored) ==
  LET Go(g, more) == IncludeTokens(code, g.next, from, g.text, g.reopen, ignored \cup more)
  IN  CASE i > Len(code) -> IF text = "" THEN Piece(code, from, Len(code))
                            ELSE Go([next |-> reopen, text |-> "", reopen |-> 0], {text})
        [] i <= Len(code) /\ text = "" /\ name \in IncludeNames ->
             Piece(code, from, i - 1) \o <<<<code[i]>>>> \o IncludeTokens(code, i + 1, i + 1, "", 0, ignored)
        [] OTHER -> Go(IF text = "" THEN Skipped(code, i, name, ignored) ELSE InsideText(code, i, text, reopen), {})
FromTag(code, i, from, text, reopen, ignored) ==
  TokensAt(code, i, IF i <= Len(code) /\ IsTag(code[i]) THEN NameOf(code[i]) ELSE "comment", from, text, reopen, ignored)
IncludeTokens(code, at, from, text, reopen, ignored) == FromTag(code, NextTag(code, at), from, text, reopen, ignored)
EnumIncludeTags(code) == IncludeTokens(code, 1, 1, "", 0, {})

TokenIsTag(token) == Len(token) = 1 /\ IsTag(token[1]) /\ NameOf(token[1]) \in IncludeNames

\* parse: the text as it is on the page and as it is when the page is transcluded, and the errors.
AddText(acc, token) ==
  LET open == ToSet(acc.open)
      shown == "noinclude" \notin open /\ (acc.onlyInclude => "onlyinclude" \in open)
  IN  [acc EXCEPT !.errors = @ \/ {"includeonly", "noinclude"} \subseteq open,
                  !.notTranscluded = IF "includeonly" \in open THEN @ ELSE @ \o token,
                  !.transcluded = IF shown THEN @ \o token ELSE @]
OpenTag(acc, name) ==
  LET isOpen == name \in ToSet(acc.open)
      firstOnly == name = "onlyinclude" /\ ~acc.onlyInclude
  IN  [acc EXCEPT !.open = IF isOpen THEN @ ELSE Append(@, name), !.errors = @ \/ isOpen,
                  !.onlyInclude = @ \/ firstOnly, !.transcluded = IF firstOnly THEN <<>> ELSE @]
CloseTag(acc, name) ==
  [acc EXCEPT !.open = SelectSeq(@, LAMBDA n : n # name), !.errors = @ \/ Last(acc.open) # name]
TakeTag(acc, token, name, type) ==
  LET isOpen == name \in ToSet(acc.open)
  IN  CASE type = "opening" -> OpenTag(acc, name)
        [] type = "closing" /\ isOpen -> CloseTag(acc, name)
        [] type = "closing" /\ ~isOpen -> [AddText(acc, token) EXCEPT !.errors = TRUE]
        [] type = "empty" -> [acc EXCEPT !.errors = @ \/ isOpen]
TakeToken(acc, token) ==
  IF TokenIsTag(token) THEN TakeTag(acc, token, NameOf(token[1]), TypeOf(token[1]))
                       ELSE AddText(acc, token)
WithUnclosed(acc) == [acc EXCEPT !.errors = @ \/ acc.open # <<>>]
ParseIncludeTags(code) ==
  WithUnclosed(FoldLeft(TakeToken, [open |-> <<>>, onlyInclude |-> FALSE, errors |-> FALSE,
                                    notTranscluded |-> <<>>, transcluded |-> <<>>], EnumIncludeTags(code)))

---------------------------------------------------------------------------
(* Bot exclusion.                                                          *)

Pieces(text, separator) ==
  FoldLeft(LAMBDA acc, symbol : IF symbol = separator THEN Append(acc, <<>>)
                                                      ELSE [acc EXCEPT ![Len(acc)] = Append(@, symbol)],
           <<<<>>>>, text)
ItemInList(item, values) == \E value \in ToSet(Pieces(values, ",")) : Trim(value) \in {item, <<"all">>}

ForbiddenBy(param, values, bot, messageType) ==
  \/ param = <<"allow">> /\ ~ItemInList(bot, values)
  \/ param = <<"deny">> /\ ItemInList(bot, values)
  \/ param = <<"optout">> /\ messageType # <<>> /\ ItemInList(messageType, values)

ForbiddenField(text, equal, bot, messageType) ==
  equal <= Len(text) /\ ForbiddenBy(Trim(Upto(text, equal - 1)), After(text, equal), bot, messageType)
ForbiddenIn(name, fields, bot, messageType) ==
  \/ name = <<"nobots">>
  \/ name = <<"bots">> /\ \E text \in ToSet(fields) : ForbiddenField(text, NextSymbol(text, {"="}, 1), bot, messageType)

\* testBotExclusion: templates are looked for from brace to brace, without parsing the page.
RECURSIVE TestBotExclusion(_, _, _)
TestTemplate(code, start, nameEnd, end, bot, messageType) ==
  /\ end <= Len(code)
  /\ \/ ForbiddenIn(Trim(SubSeq(code, start, nameEnd - 1)),
                    IF nameEnd < end THEN Pieces(SubSeq(code, nameEnd + 1, end - 1), "|") ELSE <<>>, bot, messageType)
     \/ TestBotExclusion(After(code, end - 1), bot, messageType)
TestNamed(code, start, nameEnd, bot, messageType) ==
  TestTemplate(code, start, nameEnd, NextSymbol(code, {"{", "}"}, nameEnd), bot, messageType)
TestFrom(code, start, bot, messageType) ==
  start <= Len(code) + 1 /\ TestNamed(code, start, NextSymbol(code, {"|", "{", "}"}, start), bot, messageType)

\* Where two equal symbols follow each other.
Twice(text, symbol, from) == Min({i \in from .. Len(text) - 1 : text[i] = symbol /\ text[i + 1] = symbol} \cup {Len(text)})
TestBotExclusion(code, bot, messageType) == TestFrom(code, Twice(code, "{", 1) + 2, bot, messageType)

---------------------------------------------------------------------------
(* Summaries of edits.                                                     *)

EscapeCommentFragment(fragment) ==
  IF \/ ToSet(fragment) \cap {"<", ">", "[", "]", "{", "}", "://"} # {}
     \/ \E i \in 1 .. Len(fragment) - 1 : fragment[i] = "'" /\ fragment[i + 1] = "'"
  THEN <<Opening("nowiki")>> \o fragment \o <<Closing("nowiki")>>
  ELSE fragment

\* One link after the other; a target with special symbols is no link.
RECURSIVE EscapeLinks(_)
IsSpecial(target) == ~StartsWith(target, ":") /\ TitleNamespace(target) \in {CategoryNamespace, FileNamespace}
EscapedLink(target, label) ==
  <<"[", "[">> \o (IF IsSpecial(target) THEN <<":">> ELSE <<>>) \o target
  \o (IF label = <<>> THEN <<>> ELSE <<"|">> \o EscapeCommentFragment(Tail(label))) \o <<"]", "]">>
EscapeTarget(before, link, target, label) ==
  IF ToSet(target) \cap {">", "[", "]", "{", "}", "&lt;"} = {}
  THEN EscapeCommentFragment(before) \o EscapedLink(target, label)
  ELSE EscapeCommentFragment(before \o <<"[", "[">> \o link \o <<"]", "]">>)
EscapeContent(before, content, bar) ==
  EscapeTarget(before, content, Trim(Upto(content, bar - 1)), After(content, bar - 1))
EscapeOneLink(before, content) ==
  EscapeContent(before, content, IF First({"|"}, content) = 0 THEN Len(content) + 1 ELSE First({"|"}, content))
EscapeFrom(text, start, end) ==
  IF start >= Len(text) \/ end >= Len(text) THEN EscapeCommentFragment(text)
  ELSE EscapeOneLink(Upto(text, start - 1), SubSeq(text, start + 2, end - 1)) \o EscapeLinks(After(text, end + 1))
EscapeAfter(text, start) == EscapeFrom(text, start, Twice(text, "]", start + 2))
EscapeLinks(text) == EscapeAfter(text, Twice(text, "[", 1))
WithoutTags(comment) == [i \in DOMAIN comment |-> IF comment[i] = "<" THEN "&lt;" ELSE comment[i]]
EscapeComment(comment) == EscapeLinks(TrimAndCollapse(WithoutTags(comment)))

---------------------------------------------------------------------------
(* References.                                                             *)

\* The new section is read back as it was given, but for line feeds around it; what people wrote before
\* and after stays; a second edit changes nothing.
Given(new, compact) ==
  IF compact THEN WithoutNewLine(new) ELSE IF EndsLine(new) THEN new ELSE Append(new, "\n")
ReplacedBy(old, read, result, code, new, flags) ==
  IF ~old.hasBegin /\ "must exist" \in flags THEN result = code
  ELSE /\ WithoutNewLine(read.section) = Given(new, "compact" \in flags)
       /\ Upto(result, Len(old.prefix)) = old.prefix
       /\ old.hasEnd => read.suffix = old.suffix
       /\ "update counter" \in flags /\ result # code => read.count = old.count + 1
       /\ ReplaceBotSection(result, new, flags) = result
ResultReadsBack(result, code, new, flags) ==
  ReplacedBy(ParseBotSection(code), ParseBotSection(result), result, code, new, flags)
SectionIsReplaced(code, new, flags) == ResultReadsBack(ReplaceBotSection(code, new, flags), code, new, flags)

\* The tokens are the page, the tags among them are those the parser leaves in its texts, but that "<pre>"
\* without a "</pre>" after it is plain text here and hides the rest of the page from the parser, and when
\* the tags are nested well the two texts are those outside of the tags that hide them.
IsUnclosedPre(code, i) == code[i] = Opening("pre") /\ NextSymbol(code, {Closing("pre")}, i) > Len(code)
PreAsText(code) == [i \in DOMAIN code |-> IF IsUnclosedPre(code, i) THEN "pre" ELSE code[i]]
IncludeTagsOf(text) == SelectSeq(text, LAMBDA s : IsTag(s) /\ NameOf(s) \in IncludeNames)
TagsInTexts(list) == FlattenSeq([k \in DOMAIN list |-> IF list[k].type = "text" THEN IncludeTagsOf(list[k].text) ELSE <<>>])
CountBefore(tokens, k, tag) == Cardinality({j \in 1 .. k : tokens[j] = <<tag>>})
IsInside(tokens, k, name) == CountBefore(tokens, k, Opening(name)) > CountBefore(tokens, k, Closing(name))
Chosen(tokens, chosen) == FlattenSeq([k \in DOMAIN tokens |-> IF k \in chosen THEN tokens[k] ELSE <<>>])
TextsMatch(tokens, texts, only, parsed) ==
  LET outside == {k \in texts : ~IsInside(tokens, k, "noinclude")}
  IN  /\ parsed.notTranscluded = Chosen(tokens, {k \in texts : ~IsInside(tokens, k, "includeonly")})
      /\ parsed.transcluded =
           Chosen(tokens, IF only THEN {k \in outside : IsInside(tokens, k, "onlyinclude")} ELSE outside)
TokensAreCut(tokens, tags, code, parsed) ==
  /\ FlattenSeq(tokens) = code
  /\ Chosen(tokens, tags) = TagsInTexts(Parse(PreAsText(code)).list)
  /\ parsed.errors \/ TextsMatch(tokens, DOMAIN tokens \ tags, <<Opening("onlyinclude")>> \in ToSet(tokens), parsed)
CutAsParsed(tokens, code) ==
  TokensAreCut(tokens, {k \in DOMAIN tokens : TokenIsTag(tokens[k])}, code, ParseIncludeTags(code))
TagsAreCut(code) == CutAsParsed(EnumIncludeTags(code), code)

\* A template that forbids the bot, and whose fields are plain text, is found, but in a page where three, or
\* any odd number, of "{" follow each other: the search goes by pairs, and may miss the pair that opens the
\* template.  Where all templates are such, nothing else is found.
IsRunOfBraces(code, i, j) ==
  /\ \A k \in i .. j : code[k] = "{"
  /\ i = 1 \/ code[i - 1] # "{"
  /\ j = Len(code) \/ code[j + 1] # "{"
HasOddBraces(code) == \E i, j \in DOMAIN code : i + 2 <= j /\ (j - i) % 2 = 0 /\ IsRunOfBraces(code, i, j)
ForbiddenByFields(fields, bot, messageType) ==
  \E k \in DOMAIN fields : ForbiddenBy(fields[k].param, fields[k].value, bot, messageType)
Forbids(template, bot, messageType) ==
  LET name == TemplateName(template)
  IN  name = <<"nobots">> \/ (name = <<"bots">> /\ ForbiddenByFields(ParsedFields(template), bot, messageType))
IsPlain(template) == \A k \in DOMAIN template.fields : \A j \in DOMAIN template.fields[k] : template.fields[k][j].type = "text"
AllSeen(nodes, plain, closed, odd, bot, messageType, test) ==
  LET found == \E k \in plain : Forbids(nodes[k], bot, messageType)
  IN  (found => test \/ odd) /\ (test /\ closed /\ plain = DOMAIN nodes => found)
TemplatesSeen(nodes, code, bot, messageType) ==
  AllSeen(nodes, {k \in DOMAIN nodes : IsPlain(nodes[k])}, 2 * Len(nodes) = Cardinality({i \in DOMAIN code : code[i] = "{"}),
          HasOddBraces(code), bot, messageType, TestBotExclusion(code, bot, messageType))
ExclusionIsSeen(code, bot, messageType) ==
  TemplatesSeen(GetNodes(ListNode(Parse(code).list), FALSE, {"template"}), code, bot, messageType)

\* A summary is shown as it was written, with links but no template, category or file.
Shown(text) == SelectSeq(text, LAMBDA s : s \notin {" ", ":", Opening("nowiki"), Closing("nowiki")})
OnlyLinks(nodes) ==
  \A k \in DOMAIN nodes : nodes[k].type = "link" /\ ~IsSpecial(ListText(nodes[k].fields[1]))
EscapedIsShown(escaped, comment) ==
  /\ Shown(escaped) = Shown(WithoutTags(comment))
  /\ OnlyLinks(GetNodes(ListNode(Parse(escaped).list), FALSE, {"link", "template", "variable"}))
CommentIsShown(comment) == EscapedIsShown(EscapeComment(comment), comment)

PageInit == \E kind \in DOMAIN MarkerChunks : page = [kind |-> kind, text |-> <<>>, size |-> 0]
WriteMarker ==
  /\ page.size < MaxMarkerChunks
  /\ \E chunk \in MarkerChunks[page.kind] : page' = [page EXCEPT !.text = @ \o chunk, !.size = @ + 1]

\* Whatever people leave of the marks, the section is replaced alone and once (bot_section.cpp); the tags of
\* inclusion cut the page where the parser sees them, or would see them if an unclosed "<pre>" were text
\* (include_tags.cpp:83, parser.cpp:519); the templates that forbid an edit are seen, but possibly in a page
\* with an odd number of braces in a row (bot_exclusion.cpp:21-42); and summaries copied into a page are only
\* shown (escape_comment.cpp).
MarkersAreRespected ==
  CASE page.kind = "section" ->
         \A new \in NewSections, flags \in SUBSET {"must exist", "compact", "update counter"} :
           SectionIsReplaced(page.text, new, flags)
    [] page.kind = "inclusion" -> TagsAreCut(page.text)
    [] page.kind = "exclusion" -> \A messageType \in {<<>>, <<"T">>} : ExclusionIsSeen(page.text, <<"B">>, messageType)
    [] page.kind = "summary" -> CommentIsShown(page.text)
===============================================================================

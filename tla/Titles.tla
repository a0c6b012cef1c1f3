-------------------------------- MODULE Titles --------------------------------
(***************************************************************************)
(* Titles of pages (src/mwclient/titles_util.cpp), the description of the  *)
(* site they depend on (site_info.cpp) and redirects (wiki.cpp).  A title  *)
(* is a sequence of symbols: ":", "#", blanks, the invisible "LRM", and    *)
(* words in lower case or with a capital.                                  *)
(*                                                                         *)
(* Entities and percent-encoding are decoded first: they are left out.     *)
(***************************************************************************)
EXTENDS Integers, SequencesExt

CONSTANTS
  SiteAnswer,  \* what the API says: namespaces, aliases, interwikis, redirect words
  Capital,     \* a function from words in lower case to words with a capital
  TitleSymbols, MaxTitleSymbols  \* the titles written in a model
VARIABLE writtenTitle

Main == 0
Interwiki == -100   \* SPLIT_TITLE_INTERWIKI
CategoryNamespace == 14
FileNamespace == 6
Blanks == {" ", "_", "\n"}

First(symbols, text) ==
  LET found == {i \in DOMAIN text : text[i] \in symbols} IN IF found = {} THEN 0 ELSE Min(found)
Upto(text, i) == SubSeq(text, 1, Min({i, Len(text)}))
After(text, i) == SubSeq(text, i + 1, Len(text))
StartsWith(text, symbol) == text # <<>> /\ text[1] = symbol

TitleCase(word) == IF word \in DOMAIN Capital THEN Capital[word] ELSE word
ToLowerCase(word) ==
  IF \E w \in DOMAIN Capital : Capital[w] = word THEN CHOOSE w \in DOMAIN Capital : Capital[w] = word ELSE word
LowerCase(text) == [i \in DOMAIN text |-> ToLowerCase(text[i])]

---------------------------------------------------------------------------
(* SiteInfo.                                                               *)

\* Later entries win: names and canonical names, then aliases.
FromAPIResponse(answer) ==
  LET Named(n) == {LowerCase(n.name), LowerCase(n.canonical)}
      byAlias == {LowerCase(a.name) : a \in answer.aliases}
      byName == (UNION {Named(n) : n \in answer.namespaces}) \ byAlias
  IN  [namespaces |-> [id \in {n.id : n \in answer.namespaces} |->
                         LET n == CHOOSE n \in answer.namespaces : n.id = id
                         IN  [name |-> n.name, firstLetter |-> n.firstLetter]],
       aliases |-> [alias \in byName \cup byAlias |->
                      IF alias \in byAlias
                      THEN (CHOOSE a \in answer.aliases : LowerCase(a.name) = alias).id
                      ELSE (CHOOSE n \in answer.namespaces : alias \in Named(n)).id],
       interwikis |-> [key \in {LowerCase(p) : p \in answer.interwikis} |->
                         CHOOSE p \in answer.interwikis : LowerCase(p) = key],
       redirects |-> {LowerCase(w) : w \in answer.redirects}]

\* The description is kept in a file between two runs.
ToJSONValue(info) ==
  [namespaces |-> {[key |-> info.namespaces[id].name, number |-> id, firstLetter |-> info.namespaces[id].firstLetter]
                   : id \in DOMAIN info.namespaces},
   aliases |-> info.aliases,
   interwikis |-> {info.interwikis[k] : k \in DOMAIN info.interwikis},
   redirects |-> info.redirects]
FromJSONValue(value) ==
  [namespaces |-> [id \in {n.number : n \in value.namespaces} |->
                     LET n == CHOOSE n \in value.namespaces : n.number = id
                     IN  [name |-> n.key, firstLetter |-> n.firstLetter]],
   aliases |-> value.aliases,
   interwikis |-> [key \in {LowerCase(p) : p \in value.interwikis} |->
                     CHOOSE p \in value.interwikis : LowerCase(p) = key],
   redirects |-> value.redirects]

\* stubInstance: no namespace is known.
StubSite == [namespaces |-> [id \in {Main} |-> [name |-> <<>>, firstLetter |-> FALSE]],
             aliases |-> <<>>, interwikis |-> <<>>, redirects |-> {}]

Site == FromJSONValue(ToJSONValue(FromAPIResponse(SiteAnswer)))

---------------------------------------------------------------------------
(* TitlesUtil.                                                             *)

\* appendNormalizedTitlePart: what one more symbol adds, and all of them.
AppendSymbol(acc, symbol, firstLetter) ==
  IF symbol = "LRM" THEN acc
  ELSE IF symbol \in Blanks THEN [out |-> acc.out, blank |-> acc.out # <<>>]
  ELSE [out |-> acc.out \o (IF acc.blank THEN <<" ">> ELSE <<>>)
                \o (IF acc.out = <<>> /\ firstLetter THEN <<TitleCase(symbol)>> ELSE <<symbol>>),
        blank |-> FALSE]
AppendSymbols(text, firstLetter) ==
  LET Appended[n \in 0 .. Len(text)] ==
        IF n = 0 THEN [out |-> <<>>, blank |-> FALSE] ELSE AppendSymbol(Appended[n - 1], text[n], firstLetter)
  IN  Appended[Len(text)]
NormalizedPart(text, firstLetter) == AppendSymbols(text, firstLetter).out

\* What stands before the first colon.
NoPrefix(default) == [number |-> default, name |-> <<>>, firstLetter |-> FALSE, found |-> FALSE]
Prefix(site, text, default) ==
  LET key == LowerCase(text)
      Of(number) == [number |-> number, name |-> site.namespaces[number].name,
                     firstLetter |-> site.namespaces[number].firstLetter, found |-> TRUE]
  IN  IF text = <<>> THEN NoPrefix(default)
      ELSE IF key \in DOMAIN site.aliases THEN Of(site.aliases[key])
      ELSE IF key \in DOMAIN site.interwikis
      THEN [number |-> Interwiki, name |-> site.interwikis[key], firstLetter |-> FALSE, found |-> TRUE]
      ELSE NoPrefix(default)

\* A title that starts with a colon is one of the main namespace, or has its
\* namespace after it.
KeepNamespace(default) == default  \* mutant: the colon does not reset the namespace
WithoutNamespace(default) == Main

\* The part before a colon, or what an initial colon leaves.
BeforeColon(text) == NormalizedPart(Upto(text, First({":"}, text) - 1), FALSE)
PartsAfter(site, prefix, colon, body, anchor) ==
  LET known == ~prefix.found /\ prefix.number # Main
      name == IF known THEN site.namespaces[prefix.number].name ELSE prefix.name
      firstLetter == IF prefix.found THEN prefix.firstLetter ELSE site.namespaces[prefix.number].firstLetter
  IN  [number |-> prefix.number, prefix |-> IF prefix.found \/ known THEN name \o <<":">> ELSE <<>>,
       name |-> NormalizedPart(IF prefix.found THEN After(body, colon) ELSE body, firstLetter),
       anchor |-> NormalizedPart(anchor, FALSE)]
PartsOf(site, rest, fallback) ==
  LET colon == First({":"}, rest)
      hash == First({"#"}, rest)
  IN  PartsAfter(site, IF colon = 0 THEN NoPrefix(fallback) ELSE Prefix(site, BeforeColon(rest), fallback), colon,
                 IF hash = 0 THEN rest ELSE Upto(rest, hash - 1), IF hash = 0 THEN <<>> ELSE After(rest, hash - 1))
TitleParts(site, text, default, keepInitialColon) ==
  LET skip == ~keepInitialColon /\ First({":"}, text) # 0 /\ BeforeColon(text) = <<>>
  IN  PartsOf(site, IF skip THEN After(text, First({":"}, text)) ELSE text,
              IF skip THEN WithoutNamespace(default) ELSE default)

ParseTitle(text, default, keepInitialColon) == TitleParts(Site, text, default, keepInitialColon)

WithoutAnchor(parts) == parts.prefix \o parts.name
WholeTitle(parts) == WithoutAnchor(parts) \o parts.anchor
NormalizeTitle(text, default) == WholeTitle(ParseTitle(text, default, FALSE))
TitleNamespace(text) == ParseTitle(text, Main, FALSE).number

\* getSubjectOrTalkPageHelper: <<>> when there is no such page.
Counterpart(parts, lowerBit) ==
  LET number == 2 * (parts.number \div 2) + lowerBit
  IN  IF parts.number = Interwiki \/ parts.name = <<>> \/ number \notin DOMAIN Site.namespaces THEN <<>>
      ELSE IF number = Main THEN parts.name
      ELSE Site.namespaces[number].name \o <<":">> \o parts.name
CounterpartPage(text, lowerBit) == Counterpart(ParseTitle(text, Main, FALSE), lowerBit)
TalkPage(text) == CounterpartPage(text, 1)
OrElse(page, default) == IF page = <<>> THEN default ELSE page
SubjectPage(text) == OrElse(CounterpartPage(text, 0), text)

\* A link to a category puts the page in it, and one to a file shows it: a colon is needed.
NeedsColon(text) ==
  /\ ~StartsWith(text, ":")
  /\ TitleNamespace(text) \in {CategoryNamespace, FileNamespace} \/ StartsWith(text, "/")
MakeLink(text) ==
  <<"[", "[">> \o (IF NeedsColon(text) THEN <<":">> ELSE <<>>)
  \o text \o <<"]", "]">>

\* Wiki::readRedirect: the target, or <<>>.
SkipSpace(text) ==
  LET ink == {i \in DOMAIN text : text[i] \notin {" ", "\n"}}
  IN  IF ink = {} THEN <<>> ELSE SubSeq(text, Min(ink), Len(text))
WithoutColon(text) == IF StartsWith(text, ":") THEN SkipSpace(Tail(text)) ELSE text
RedirectTarget(target) ==
  LET end == First({"]", "|", "\n"}, target)
  IN  IF end # 0 /\ target[end] # "\n" THEN WithoutAnchor(ParseTitle(Upto(target, end - 1), Main, FALSE)) ELSE <<>>
RedirectLink(link) == IF Upto(link, 2) = <<"[", "[">> THEN RedirectTarget(After(link, 2)) ELSE <<>>
RedirectFrom(start) ==
  LET wordEnd == First({" ", ":", "[", "\n"}, start)
  IN  IF StartsWith(start, "#") /\ wordEnd # 0 /\ LowerCase(Upto(start, wordEnd - 1)) \in Site.redirects
      THEN RedirectLink(WithoutColon(SkipSpace(After(start, wordEnd - 1))))
      ELSE <<>>
ReadRedirect(code) == RedirectFrom(SkipSpace(code))

---------------------------------------------------------------------------
(* Every short title, on a site of which the API tells what MediaWiki     *)
(* promises.                                                               *)

\* Words have a capital of their own, which is not in lower case; symbols that mean something have none.
Meaningful == {":", "#", "[", "]", "|", "/", " ", "_", "\n", "LRM"}
ASSUME CapitalAssumption ==
  /\ \A v, w \in DOMAIN Capital : Capital[v] = Capital[w] => v = w
  /\ \A w \in DOMAIN Capital : w \notin Meaningful /\ Capital[w] \notin Meaningful \cup DOMAIN Capital

\* No link can have a title with these symbols.
ASSUME TitleSymbolsAssumption == TitleSymbols \cap {"]", "|"} = {}

\* Namespaces have names of their own, in normal form, but the main one that has none; the two of a page
\* and its talk page agree about the first letter.  Aliases are other names of some of them.
ProperName(name) ==
  /\ name \in Seq(ToSet(name)) /\ name # <<>> /\ NormalizedPart(name, FALSE) = name
  /\ ToSet(name) \cap {":", "#", "]", "|"} = {}
ASSUME NamespacesAssumption ==
  /\ \E n \in SiteAnswer.namespaces : n.id = Main
  /\ \A n \in SiteAnswer.namespaces :
       /\ n.id \in Int \ {Interwiki} /\ n.firstLetter \in BOOLEAN
       /\ IF n.id = Main THEN n.name = <<>> /\ n.canonical = <<>> ELSE ProperName(n.name) /\ "#" \notin ToSet(n.canonical)
  /\ \A m, n \in SiteAnswer.namespaces :
       /\ m.id = n.id \/ (m.id # Main /\ LowerCase(m.name) \in {LowerCase(n.name), LowerCase(n.canonical)}) => m = n
       /\ m.id \div 2 = n.id \div 2 => m.firstLetter = n.firstLetter
ASSUME AliasesAssumption ==
  \A a \in SiteAnswer.aliases :
    /\ a.id # Main /\ a.id \in {n.id : n \in SiteAnswer.namespaces} /\ "#" \notin ToSet(a.name)
    /\ \A n \in SiteAnswer.namespaces : n.id # Main /\ LowerCase(a.name) = LowerCase(n.name) => a.id = n.id
ASSUME InterwikisAssumption == \A p \in SiteAnswer.interwikis : ProperName(p)
ASSUME RedirectsAssumption == LowerCase(<<"#", "Redirect">>) \in {LowerCase(w) : w \in SiteAnswer.redirects}

TitleInit == writtenTitle = <<>>
TypeTitle == Len(writtenTitle) < MaxTitleSymbols /\ \E s \in TitleSymbols : writtenTitle' = Append(writtenTitle, s)
TitleSpec == TitleInit /\ [][TypeTitle]_writtenTitle

\* Titles that MediaWiki accepts: not "Talk:User:x", nor "::x".
Acceptable(parts) ==
  /\ parts.name # <<>> /\ parts.name[1] # ":"
  /\ parts.number % 2 = 1 => TitleNamespace(parts.name) = Main

\* A normalized title names the same page when it is normalized again, when it is written with a
\* colon in front where another namespace is the default, and in the link and the redirect made from
\* it.  Its talk page is in a talk namespace and has the same subject.
SameSubject(talk, subject) ==
  talk # <<>> => TitleNamespace(talk) % 2 = 1 /\ TalkPage(subject) = talk /\ SubjectPage(talk) = subject
NormalizesOnce(parts, page) ==
  Acceptable(parts) =>
    /\ \A other \in DOMAIN Site.namespaces :
         \A text \in {<<":">> \o WholeTitle(parts)} \cup (IF other = Main THEN {WholeTitle(parts)} ELSE {}) :
           ParseTitle(text, other, FALSE) = parts
    /\ ReadRedirect(<<"#", "Redirect", " ">> \o MakeLink(page) \o <<"\n">>) = page
    /\ SameSubject(TalkPage(page), SubjectPage(page))
PartsNormalizeOnce(parts) == NormalizesOnce(parts, WithoutAnchor(parts))
TitlesNormalizeOnce == \A default \in DOMAIN Site.namespaces : PartsNormalizeOnce(ParseTitle(writtenTitle, default, FALSE))
===============================================================================

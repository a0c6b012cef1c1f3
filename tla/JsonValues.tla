------------------------------- MODULE JsonValues -------------------------------
(***************************************************************************)
(* The values of src/cbl/json.cpp, the functions that change them, and the *)
(* text they are written to and read from: the answers of the API, the     *)
(* files and the session of the bots.  Texts are sequences of bytes.       *)
(* A value is [type |-> "null"], [type, boolean], [type, number],          *)
(* [type, str], [type, items] or [type, members].                          *)
(*                                                                         *)
(* Only TLC evaluates this module: its operators are recursive.            *)
(***************************************************************************)
EXTENDS Utf8

CONSTANTS
  Keys, Strings, Paths, MaxChanges,  \* the calls that build values in a model
  JsonChunks, MaxJsonChunks          \* the texts read in a model
VARIABLE json  \* [kind, value, text, size]: a value built by calls, or a text received

Null == [type |-> "null"]
Boolean(b) == [type |-> "bool", boolean |-> b]
NumberValue(text) == [type |-> "number", number |-> text]
StringValue(text) == [type |-> "string", str |-> text]
Array(items) == [type |-> "array", items |-> items]
Object(members) == [type |-> "object", members |-> members]
EmptyObject == Object(<<>>)

---------------------------------------------------------------------------
(* Changes.  A path is a sequence of keys and of indexes [key] or [index]. *)

\* setType keeps what a value of that type holds.
ItemsOf(value) == IF value.type = "array" THEN value.items ELSE <<>>
MembersOf(value) == IF value.type = "object" THEN value.members ELSE <<>>
Resized(items, size) == [k \in 1 .. size |-> IF k <= Len(items) THEN items[k] ELSE Null]
Set(members, key, value) == [k \in DOMAIN members \cup {key} |-> IF k = key THEN value ELSE members[k]]
Member(members, key) == IF key \in DOMAIN members THEN members[key] ELSE Null
Without(members, key) == [k \in DOMAIN members \ {key} |-> members[k]]

\* The last call on a path; "take" assigns a part of a value to that value, "move" a member to another one.
Changed(value, op) ==
  LET members == MembersOf(value)
      moved == Member(members, op.key)
  IN  CASE op.name = "set" -> op.value
        [] op.name = "setToEmptyObject" -> EmptyObject
        [] op.name = "resize" -> Array(Resized(ItemsOf(value), op.size))
        [] op.name = "addItem" -> Array(Append(ItemsOf(value), Null))
        [] op.name = "erase" -> IF value.type = "object" THEN Object(Without(members, op.key)) ELSE value
        [] op.name = "take" -> moved
        [] op.name = "move" -> IF op.to = op.key THEN Object(Set(members, op.key, moved))
                               ELSE Object(Set(Set(members, op.key, Null), op.to, moved))

\* getMutable makes an object or an array of what is on the path.
RECURSIVE Change(_, _, _)
Change(value, path, op) ==
  IF path = <<>> THEN Changed(value, op)
  ELSE LET step == Head(path)
           members == MembersOf(value)
           items == Resized(ItemsOf(value), Max({Len(ItemsOf(value)), step.index + 1}))
       IN  IF step.index = -1
           THEN Object(Set(members, step.key, Change(Member(members, step.key), Tail(path), op)))
           ELSE Array([items EXCEPT ![step.index + 1] = Change(@, Tail(path), op)])

RECURSIVE Copy(_)
Copy(value) ==
  CASE value.type = "object" -> Object([key \in DOMAIN value.members |-> Copy(value.members[key])])
    [] value.type = "array" -> Array([k \in DOMAIN value.items |-> Copy(value.items[k])])
    [] OTHER -> value

\* atoll reads the digits at the beginning.
IsDigit(byte) == byte \in 48 .. 57
IntegerOf(text) ==
  LET negative == text # <<>> /\ Head(text) = 45
      digits == IF negative THEN Tail(text) ELSE text
      size == Min({k \in DOMAIN digits : ~IsDigit(digits[k])} \cup {Len(digits) + 1}) - 1
      number == FoldLeft(LAMBDA n, byte : 10 * n + byte - 48, 0, Keep(digits, size))
  IN  IF negative THEN -number ELSE number

RECURSIVE Equal(_, _)
Equal(value, other) ==
  /\ value.type = other.type
  /\ CASE value.type = "null" -> TRUE
       [] value.type = "bool" -> value.boolean = other.boolean
       [] value.type = "number" -> IntegerOf(value.number) = IntegerOf(other.number)
       [] value.type = "string" -> value.str = other.str
       [] value.type = "object" -> /\ DOMAIN value.members = DOMAIN other.members
                                   /\ \A key \in DOMAIN value.members : Equal(value.members[key], other.members[key])
       [] value.type = "array" -> /\ Len(value.items) = Len(other.items)
                                  /\ \A k \in DOMAIN value.items : Equal(value.items[k], other.items[k])

---------------------------------------------------------------------------
(* Writing.                                                                *)

Space == 32
LineFeed == 10
QuoteMark == 34
Comma == 44
Colon == 58
Backslash == 92
HexDigit(n) == IF n < 10 THEN 48 + n ELSE 55 + n

Escape(byte) ==
  CASE byte = LineFeed -> <<Backslash, 110>>
    [] byte = 9 -> <<Backslash, 116>>
    [] byte = 13 -> <<Backslash, 114>>
    [] byte < 32 /\ byte \notin {9, 10, 13} -> <<Backslash, 117, 48, 48, HexDigit(byte \div 16), HexDigit(byte % 16)>>
    [] byte \in {Backslash, QuoteMark} -> <<Backslash, byte>>
    [] OTHER -> <<byte>>
EscapeQuotesOnly(byte) ==  \* mutant: a backslash is written as it is
  IF byte = Backslash THEN <<byte>> ELSE Escape(byte)
EscapeByte(byte) == Escape(byte)
Quote(text) == <<QuoteMark>> \o FlattenSeq([k \in DOMAIN text |-> EscapeByte(text[k])]) \o <<QuoteMark>>

\* The members of a map come in the order of their keys.
Precedes(a, b) == \E k \in 1 .. Len(b) : Keep(a, k - 1) = Keep(b, k - 1) /\ (Len(a) < k \/ (Len(a) >= k /\ a[k] < b[k]))
SortedKeys(keys) == SetToSortSeq(keys, LAMBDA a, b : Precedes(a, b))

IndentedLine(style, depth) ==
  IF style = "INDENTED" THEN <<LineFeed>> \o [k \in 1 .. 2 * depth |-> Space] ELSE <<>>
List(opening, parts, closing, style, depth) ==
  <<opening>> \o
  FlattenSeq([k \in DOMAIN parts |-> (IF k = 1 THEN <<>> ELSE <<Comma>>) \o IndentedLine(style, depth + 1) \o parts[k]])
  \o (IF parts = <<>> THEN <<>> ELSE IndentedLine(style, depth)) \o <<closing>>

NullWord == <<110, 117, 108, 108>>
TrueWord == <<116, 114, 117, 101>>
FalseWord == <<102, 97, 108, 115, 101>>
RECURSIVE ToJSON(_, _, _)
ToJSON(value, style, depth) ==
  CASE value.type = "null" -> NullWord
    [] value.type = "bool" -> IF value.boolean THEN TrueWord ELSE FalseWord
    [] value.type = "number" -> value.number
    [] value.type = "string" -> Quote(value.str)
    [] value.type = "object" ->
         LET keys == SortedKeys(DOMAIN value.members)
             Entry(key) == Quote(key) \o (IF style = "INDENTED" THEN <<Colon, Space>> ELSE <<Colon>>)
                           \o ToJSON(value.members[key], style, depth + 1)
         IN  List(123, [k \in DOMAIN keys |-> Entry(keys[k])], 125, style, depth)
    [] value.type = "array" ->
         List(91, [k \in DOMAIN value.items |-> ToJSON(value.items[k], style, depth + 1)], 93, style, depth)

---------------------------------------------------------------------------
(* Reading.  A reader gives what it read and the rest of the text, or an   *)
(* error.                                                                  *)

Error == [ok |-> FALSE]
Read(value, rest) == [ok |-> TRUE, value |-> value, rest |-> rest]

RECURSIVE SkipBlanks(_)
SkipBlanks(text) == IF text # <<>> /\ Head(text) \in {9, 10, 11, 12, 13, 32} THEN SkipBlanks(Tail(text)) ELSE text
Opens(text, byte) == text # <<>> /\ Head(text) = byte

HexValue(byte) ==
  CASE byte \in 48 .. 57 -> byte - 48 [] byte \in 65 .. 70 -> byte - 55 [] byte \in 97 .. 102 -> byte - 87 [] OTHER -> -1
\* parseStringUEscape: four digits; strtol would also read a sign, blanks or "0x" before fewer digits.
ReadHex(text) ==
  IF Len(text) < 4 \/ \E k \in 1 .. 4 : HexValue(text[k]) = -1 THEN Error
  ELSE Read(FoldLeft(LAMBDA n, byte : 16 * n + HexValue(byte), 0, Keep(text, 4)), Drop(text, 4))

\* Two escapes make one character beyond 16 bits.
SecondEscape(rest) == IF Keep(rest, 2) = <<Backslash, 117>> THEN ReadHex(Drop(rest, 2)) ELSE Error
Combined(high, low) ==
  IF low.ok THEN Read(Encode(((high % 1024) + 64) * 1024 + (low.value % 1024)), low.rest) ELSE Error
CharacterOf(first) ==
  CASE ~first.ok -> Error
    [] first.ok /\ first.value \notin 55296 .. 57343 -> Read(Encode(first.value), first.rest)
    [] first.ok /\ first.value \in 55296 .. 56319 -> Combined(first.value, SecondEscape(first.rest))
    [] OTHER -> Error
ReadCharacter(text) == CharacterOf(ReadHex(text))

EscapedCharacters == {<<34, 34>>, <<92, 92>>, <<47, 47>>, <<98, 8>>, <<102, 12>>, <<110, 10>>, <<114, 13>>, <<116, 9>>}
RECURSIVE UnquoteRest(_, _)
UnquoteAfter(character, data) == IF character.ok THEN UnquoteRest(character.rest, data \o character.value) ELSE Error
UnquoteEscape(rest, data) ==
  LET simple == {pair[2] : pair \in {p \in EscapedCharacters : Opens(rest, p[1])}}
  IN  CASE simple # {} -> UnquoteAfter(Read(<<Max(simple)>>, Tail(rest)), data)
        [] simple = {} /\ Opens(rest, 117) -> UnquoteAfter(ReadCharacter(Tail(rest)), data)
        [] OTHER -> Error
UnquoteAt(text, position, data) ==
  CASE position <= Len(text) /\ text[position] = QuoteMark -> Read(data, Drop(text, position))
    [] position <= Len(text) /\ text[position] = Backslash -> UnquoteEscape(Drop(text, position), data)
    [] OTHER -> Error
UnquoteTo(text, position, data) == UnquoteAt(text, position, data \o Keep(text, position - 1))
UnquoteRest(text, data) ==
  UnquoteTo(text, Min({k \in DOMAIN text : text[k] \in {QuoteMark, Backslash, 0}} \cup {Len(text) + 1}), data)
UnquotePartial(text) == IF Opens(text, QuoteMark) THEN UnquoteRest(Tail(text), <<>>) ELSE Error

\* The longest beginning of a text that has only these bytes.
Span(text, Wanted(_)) == Min({k \in DOMAIN text : ~Wanted(text[k])} \cup {Len(text) + 1}) - 1
IsLetter(byte) == byte \in 97 .. 122
Words == {<<NullWord, Null>>, <<TrueWord, Boolean(TRUE)>>, <<FalseWord, Boolean(FALSE)>>}
ParseKeyword(text) ==
  LET size == Span(text, IsLetter)
      found == {w \in Words : w[1] = Keep(text, size)}
  IN  IF found = {} THEN Error ELSE Read((CHOOSE w \in found : TRUE)[2], Drop(text, size))
InNumber(byte) == IsDigit(byte) \/ byte \in {45, 46, 43, 101, 69}
ParseNumber(text) ==
  LET size == Span(text, InNumber)
  IN  IF size = 0 \/ Cardinality({k \in 1 .. size : text[k] = 46}) > 1 THEN Error
      ELSE Read(NumberValue(Keep(text, size)), Drop(text, size))

RECURSIVE ParseAnyType(_), ParseMembers(_, _), ParseItems(_, _)
\* From the key of a member on.
MemberEnd(next, members) ==
  CASE Opens(next, 125) -> Read(Object(members), Tail(next))
    [] Opens(next, Comma) -> ParseMembers(SkipBlanks(Tail(next)), members)
    [] OTHER -> Error
MemberValue(key, value, members) ==
  IF value.ok THEN MemberEnd(SkipBlanks(value.rest), Set(members, key, value.value)) ELSE Error
MemberColon(key, colon, members) ==
  IF Opens(colon, Colon) THEN MemberValue(key, ParseAnyType(Tail(colon)), members) ELSE Error
MemberKey(key, members) == IF key.ok THEN MemberColon(key.value, SkipBlanks(key.rest), members) ELSE Error
ParseMembers(text, members) == MemberKey(UnquotePartial(text), members)
ItemEnd(next, items) ==
  CASE Opens(next, 93) -> Read(Array(items), Tail(next))
    [] Opens(next, Comma) -> ParseItems(Tail(next), items)
    [] OTHER -> Error
ItemValue(value, items) ==
  IF value.ok THEN ItemEnd(SkipBlanks(value.rest), Append(items, value.value)) ELSE Error
ParseItems(text, items) == ItemValue(ParseAnyType(text), items)
ParseString(string) == IF string.ok THEN Read(StringValue(string.value), string.rest) ELSE Error
ParseObject(inside) == IF Opens(inside, 125) THEN Read(EmptyObject, Tail(inside)) ELSE ParseMembers(inside, <<>>)
ParseArray(inside) == IF Opens(inside, 93) THEN Read(Array(<<>>), Tail(inside)) ELSE ParseItems(inside, <<>>)
ParseText(text, first) ==
  CASE first = 123 -> ParseObject(SkipBlanks(Tail(text)))
    [] first = 91 -> ParseArray(SkipBlanks(Tail(text)))
    [] first = QuoteMark -> ParseString(UnquotePartial(text))
    [] IsDigit(first) \/ first = 45 -> ParseNumber(text)
    [] IsLetter(first) -> ParseKeyword(text)
    [] OTHER -> Error
ParseNonBlank(text) == IF text = <<>> THEN Error ELSE ParseText(text, Head(text))
ParseAnyType(text) == ParseNonBlank(SkipBlanks(text))
WholeValue(parsed) == IF parsed.ok /\ SkipBlanks(parsed.rest) # <<>> THEN Error ELSE parsed
ParseJSON(text) == WholeValue(ParseAnyType(text))

---------------------------------------------------------------------------
JsonInit == \E kind \in {"built", "received"} : json = [kind |-> kind, value |-> Null, text |-> <<>>, size |-> 0]

Apply(op) ==
  /\ json.kind = "built" /\ json.size < MaxChanges
  /\ \E path \in Paths : json' = [json EXCEPT !.value = Change(@, path, op), !.size = @ + 1]
OneDigit(n) == NumberValue(IF n < 0 THEN <<45, 48 - n>> ELSE <<48 + n>>)  \* to_string, of one digit
SetScalar ==
  \E value \in {Null} \cup {Boolean(b) : b \in BOOLEAN} \cup {OneDigit(n) : n \in {-1, 7}} \cup {StringValue(s) : s \in Strings} :
    Apply([name |-> "set", value |-> value])
SetToEmptyObject == Apply([name |-> "setToEmptyObject"])
Resize == \E size \in 0 .. 2 : Apply([name |-> "resize", size |-> size])
AddItem == Apply([name |-> "addItem"])
Erase == \E key \in Keys : Apply([name |-> "erase", key |-> key])
TakePart == \E key \in Keys : Apply([name |-> "take", key |-> key])
MoveMember == \E key, to \in Keys : Apply([name |-> "move", key |-> key, to |-> to])

\* What a server sends, whole or not (external).
ReceiveJSON ==
  /\ json.kind = "received" /\ json.size < MaxJsonChunks
  /\ \E chunk \in JsonChunks : json' = [json EXCEPT !.text = @ \o chunk, !.size = @ + 1]

JsonNext ==
  SetScalar \/ SetToEmptyObject \/ Resize \/ AddItem \/ Erase \/ TakePart \/ MoveMember \/ ReceiveJSON

\* A value is read back as it was, and no beginning of the text of an object or of an array is a value.
IsValue(parsed, value) == parsed.ok /\ parsed.value = value /\ Equal(parsed.value, value)
IsBeginningRead(parsed, whole, value) == IF whole THEN IsValue(parsed, value) ELSE ~parsed.ok
JsonTextReadsBack(text, value) ==
  \A n \in {Len(text)} \cup (IF value.type \in {"object", "array"} THEN 0 .. Len(text) ELSE {}) :
    IsBeginningRead(ParseJSON(Keep(text, n)), n = Len(text), value)
ValueReadsBack(value) ==
  Copy(value) = value /\ \A style \in {"COMPACT", "INDENTED"} : JsonTextReadsBack(ToJSON(value, style, 0), value)

\* Values are written and read back whatever calls built them, and those received too; characters are
\* those of UTF-8, and an answer that is cut is refused.
JsonReadsBack ==
  /\ \A parsed \in {IF json.kind = "built" THEN Read(json.value, <<>>) ELSE ParseJSON(json.text)} :
       parsed.ok => ValueReadsBack(parsed.value)
  /\ bytes # <<>> => CharactersReadBack(bytes)
===============================================================================

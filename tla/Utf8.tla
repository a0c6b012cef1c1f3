---------------------------------- MODULE Utf8 ----------------------------------
(***************************************************************************)
(* Characters of UTF-8 texts (src/cbl/utf8.cpp), as sequences of bytes.    *)
(*                                                                         *)
(* Only TLC evaluates this module: its operators are recursive.            *)
(***************************************************************************)
EXTENDS Integers, SequencesExt

CONSTANTS Bytes, MaxBytes  \* the texts of a model
VARIABLE bytes

Drop(text, n) == SubSeq(text, n + 1, Len(text))
Keep(text, n) == SubSeq(text, 1, IF n < Len(text) THEN n ELSE Len(text))
Continues(byte) == byte \in 128 .. 191

\* The number of bytes that the first one announces, the part of it that belongs to the character, and the
\* least character that needs so many.
Announced(byte) ==
  CASE byte < 128 -> 1 [] byte \in 192 .. 223 -> 2 [] byte \in 224 .. 239 -> 3 [] byte \in 240 .. 247 -> 4 [] OTHER -> 0
FirstBits(byte) == byte % (<<128, 32, 16, 8>>[Announced(byte)])
Least(size) == <<0, 128, 2048, 65536>>[size]

\* consumeChar on a text that is not empty; a byte that starts no character is -1.
NotCharacter == [character |-> -1, size |-> 1]
AtLeast(character, size) == IF character >= Least(size) THEN [character |-> character, size |-> size] ELSE NotCharacter
ConsumeBytes(text, size) ==
  IF size # 0 /\ size <= Len(text) /\ \A k \in 2 .. size : Continues(text[k])
  THEN AtLeast(FoldLeft(LAMBDA c, byte : 64 * c + (byte % 64), FirstBits(Head(text)), SubSeq(text, 2, size)), size)
  ELSE NotCharacter
ConsumeChar(text) == ConsumeBytes(text, Announced(Head(text)))

\* consumeCharFromEnd: a character of at most four bytes that ends where the text does.
IfWhole(consumed, size) == IF consumed.size = size THEN consumed ELSE NotCharacter
ConsumeLast(text, longest) ==
  LET size == Min({k \in 1 .. longest : k = longest \/ ~Continues(text[Len(text) - k + 1])})
  IN  IfWhole(ConsumeChar(Drop(text, Len(text) - size)), size)
ConsumeCharFromEnd(text) == ConsumeLast(text, Min({Len(text), 4}))

Encode(character) ==
  LET Bits(shift) == 128 + ((character \div shift) % 64)
  IN  CASE character \in 0 .. 127 -> <<character>>
        [] character \in 128 .. 2047 -> <<192 + character \div 64, Bits(1)>>
        [] character \in 2048 .. 65535 -> <<224 + character \div 4096, Bits(64), Bits(1)>>
        [] character \in 65536 .. 2097151 -> <<240 + character \div 262144, Bits(4096), Bits(64), Bits(1)>>
        [] OTHER -> <<>>

\* len stops at the first byte that is not part of a character.
RECURSIVE CharLength(_), SizeOfFirst(_, _), SizeOfLast(_, _)
CountAfter(text, first) == IF first.character = -1 THEN 0 ELSE 1 + CharLength(Drop(text, first.size))
CharLength(text) == IF text = <<>> THEN 0 ELSE CountAfter(text, ConsumeChar(text))
AddFirst(text, size, n) == size + SizeOfFirst(Drop(text, size), n - 1)
SizeOfFirst(text, n) == IF n <= 0 \/ text = <<>> THEN 0 ELSE AddFirst(text, ConsumeChar(text).size, n)
AddLast(text, size, n) == size + SizeOfLast(Keep(text, Len(text) - size), n - 1)
SizeOfLast(text, n) == IF n <= 0 \/ text = <<>> THEN 0 ELSE AddLast(text, ConsumeCharFromEnd(text).size, n)

PositionOf(text, index) == IF index >= 0 THEN SizeOfFirst(text, index) ELSE Len(text) - SizeOfLast(text, -index)
SizeTo(text, first, start, end) ==
  IF start >= 0 /\ end >= 0 THEN SizeOfFirst(Drop(text, first), end - start) ELSE PositionOf(text, end) - first
SubstringFrom(text, first, start, end) == Keep(Drop(text, first), Max({SizeTo(text, first, start, end), 0}))
Substring(text, start, end) == SubstringFrom(text, PositionOf(text, start), start, end)

Dot == 46
Shortened(text, truncated, maxLength) ==
  IF Len(truncated) = Len(text) THEN text
  ELSE Keep(truncated, Len(truncated) - SizeOfLast(truncated, 3)) \o [k \in 1 .. Min({maxLength, 3}) |-> Dot]
LimitStringLength(text, maxLength) ==
  IF maxLength <= 0 THEN <<>> ELSE Shortened(text, Substring(text, 0, maxLength), maxLength)

---------------------------------------------------------------------------
RECURSIVE CharactersOf(_), CharactersFromEnd(_)
CharacterAndRest(text, first) ==
  <<[character |-> first.character, bytes |-> Keep(text, first.size)]>> \o CharactersOf(Drop(text, first.size))
CharactersOf(text) == IF text = <<>> THEN <<>> ELSE CharacterAndRest(text, ConsumeChar(text))
RestAndCharacter(before, character, encoded) ==
  Append(CharactersFromEnd(before), [character |-> character, bytes |-> encoded])
LastCharacter(text, last) ==
  RestAndCharacter(Keep(text, Len(text) - last.size), last.character, Drop(text, Len(text) - last.size))
CharactersFromEnd(text) == IF text = <<>> THEN <<>> ELSE LastCharacter(text, ConsumeCharFromEnd(text))

BytesInit == bytes = <<>>
TypeByte == Len(bytes) < MaxBytes /\ \E byte \in Bytes : bytes' = Append(bytes, byte)

\* Whatever the bytes, a text is cut into the same characters from both ends, each character is
\* written as it was read, no part of a text splits a character, and a shortened text is short enough.
BytesOf(characters) == FlattenSeq([k \in DOMAIN characters |-> characters[k].bytes])
IndexIn(i, n) == IF i >= 0 THEN Min({i, n}) ELSE Max({n + i, 0})
ShortEnough(short, text, n, maxLength) == Len(CharactersOf(short)) <= maxLength /\ (n <= maxLength => short = text)
CharactersAre(characters, text, n) ==
  /\ CharactersFromEnd(text) = characters
  /\ \A c \in ToSet(characters) : c.character # -1 => Encode(c.character) = c.bytes
  /\ (\A c \in ToSet(characters) : c.character # -1) => CharLength(text) = n
  /\ \A start, end \in -2 .. 3 :
       Substring(text, start, end) = BytesOf(SubSeq(characters, IndexIn(start, n) + 1, IndexIn(end, n)))
  /\ \A maxLength \in 0 .. 4 : ShortEnough(LimitStringLength(text, maxLength), text, n, maxLength)
CutIntoCharacters(characters, text) == CharactersAre(characters, text, Len(characters))
CharactersReadBack(text) == CutIntoCharacters(CharactersOf(text), text)
===============================================================================

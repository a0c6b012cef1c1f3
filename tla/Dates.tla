--------------------------------- MODULE Dates ---------------------------------
(***************************************************************************)
(* The dates people and bots write: the formats of cbl/date.cpp, and the   *)
(* French date formatter and date parser of src/orlodrimbot/wikiutil.  A   *)
(* text is a sequence of words and numbers, [word, value, digits], a       *)
(* number having digits and a word none.                                   *)
(*                                                                         *)
(* Only TLC evaluates this module: its operators are recursive.            *)
(***************************************************************************)
EXTENDS Calendar

CONSTANTS
  Epochs,       \* the moments a model starts at
  Delays,       \* the seconds a clock may advance by
  WrittenWords, \* what people write beside signatures
  FutureDelay,  \* how far ahead a date in the future is written
  MaxNotes
VARIABLE diary  \* [now, notes]: the time, and what people wrote on a page

\* toISO8601 and fromISO8601: a text of digits and separators; a date that is not one is <<>>.
Pattern == <<"#", "#", "#", "#", "-", "#", "#", "-", "#", "#", "T", "#", "#", ":", "#", "#", ":", "#", "#", "Z">>
Digits(n, width) ==
  LET Digit[k \in 1 .. width] == IF k = width THEN n % 10 ELSE (n \div (10 ^ (width - k))) % 10
  IN  [k \in 1 .. width |-> ToString(Digit[k])]
ToISO8601(d) ==
  Digits(d[1], 4) \o <<"-">> \o Digits(d[2], 2) \o <<"-">> \o Digits(d[3], 2) \o <<"T">> \o
  Digits(d[4], 2) \o <<":">> \o Digits(d[5], 2) \o <<":">> \o Digits(d[6], 2) \o <<"Z">>
DigitSymbols == {ToString(n) : n \in 0 .. 9}
ValueOf(digits) == FoldLeft(LAMBDA n, s : 10 * n + (CHOOSE k \in 0 .. 9 : ToString(k) = s), 0, digits)
FromDigits(text) ==
  LET digits == SelectSeq(text, LAMBDA s : s \in DigitSymbols)
      Number(k) == ValueOf(SubSeq(digits, 2 * k + 1, 2 * k + 2))
  IN  IF Len(digits) # 14 THEN NullDate
      ELSE InitDate(<<100 * Number(0) + Number(1), Number(2), Number(3), Number(4), Number(5), Number(6)>>)
FromISO8601(text) ==
  IF /\ Len(text) = Len(Pattern)
     /\ \A k \in DOMAIN text : IF Pattern[k] = "#" THEN text[k] \in DigitSymbols ELSE text[k] = Pattern[k]
  THEN FromDigits(text)
  ELSE <<>>

---------------------------------------------------------------------------
(* Dates in texts.                                                         *)

Word(word) == [word |-> word, value |-> 0, digits |-> 0]
DigitsOf(n) == CASE n < 10 -> 1 [] n \in 10 .. 99 -> 2 [] n \in 100 .. 999 -> 3 [] n \in 1000 .. 9999 -> 4 [] OTHER -> 5
Number(n, width) == [word |-> "", value |-> n, digits |-> Max({DigitsOf(n), width})]
Months == <<"janvier", "février", "mars", "avril", "mai", "juin", "juillet", "août", "septembre", "octobre",
            "novembre", "décembre">>

FormatDay(day, format) ==
  CASE day = 1 /\ format = "LONG_1ST" -> Word("1er")
    [] day = 1 /\ format = "LONG_1ST_TEMPLATE" -> Word("{{1er}}")
    [] OTHER -> Number(day, 1)
FormatTime(d, precision) ==
  CASE precision = "DAY" -> <<>>
    [] precision = "MINUTE" -> <<Word("à"), Number(d[4], 2), Word(":"), Number(d[5], 2)>>
    [] precision = "SECOND" -> <<Word("à"), Number(d[4], 2), Word(":"), Number(d[5], 2), Word(":"), Number(d[6], 2)>>
Format(d, format, precision) ==
  IF d = NullDate THEN <<>>
  ELSE (IF format = "SHORT"
        THEN <<Number(Day(d), 2), Word("/"), Number(Month(d), 2), Word("/"), Number(Year(d) % 100, 2)>>
        ELSE <<FormatDay(Day(d), format), Word(Months[Min({Max({Month(d), 1}), 12})]), Number(Year(d), 1)>>)
       \o FormatTime(d, precision)

\* The lexer: its position is the rest of the text, the first token of which is the current one.
TokenType(text) ==
  LET t == Head(text)
  IN  CASE text = <<>> -> "END"
        [] text # <<>> /\ t.digits \in {1, 2} -> "TWO_DIGIT_NUMBER"
        [] text # <<>> /\ t.digits \in {3, 4} -> "YEAR"
        [] text # <<>> /\ t.word \in {"1er", "{{1er}}"} -> "DAY"
        [] text # <<>> /\ t.word \in ToSet(Months) \cup {"aout"} -> "MONTH"
        [] OTHER -> "OTHER"
TokenValue(text) ==
  CASE TokenType(text) = "DAY" -> 1
    [] TokenType(text) = "MONTH" -> IF Head(text).word = "aout" THEN 8
                                    ELSE CHOOSE m \in 1 .. 12 : Months[m] = Head(text).word
    [] OTHER -> Head(text).value
NextToken(text) == IF text = <<>> THEN <<>> ELSE Tail(text)

\* consumeValue and consumeString, on a reader [ok, rest, values]: nothing is read after a failure.
Consume(types, valid(_), reader) ==
  IF reader.ok /\ TokenType(reader.rest) \in types
  THEN [ok |-> valid(TokenValue(reader.rest)), rest |-> NextToken(reader.rest),
        values |-> Append(reader.values, TokenValue(reader.rest))]
  ELSE [reader EXCEPT !.ok = FALSE]
AnyValue(value) == TRUE
ConsumeString(word, reader) ==
  IF reader.ok /\ TokenType(reader.rest) = "OTHER" /\ Head(reader.rest) = Word(word)
  THEN [reader EXCEPT !.rest = NextToken(@)]
  ELSE [reader EXCEPT !.ok = FALSE]
Reader(text) == [ok |-> TRUE, rest |-> text, values |-> <<>>]

RECURSIVE JumpToNextValidDay(_)
JumpToNextValidDay(text) ==
  IF text = <<>> \/ (TokenType(text) \in {"DAY", "TWO_DIGIT_NUMBER"} /\ TokenValue(text) \in 1 .. 31)
  THEN text
  ELSE JumpToNextValidDay(NextToken(text))

\* Dates in the future are rejected with a margin for the time zone and for the clock of the computer.
MaxDelayInTheFuture == Minutes(2 * 60 + 5)

\* consumeSignatureDate: "(", and a zone without ")", are passed all the same.
Closed(reader, difference, otherwise) == IF reader.ok THEN [difference |-> difference, rest |-> reader.rest] ELSE otherwise
Unclosed(reader) == [difference |-> 0, rest |-> reader.rest]
SummerZone(cest) == Closed(ConsumeString(")", cest), Hours(2), Unclosed(cest))
WinterZone(opened, cet) ==
  Closed(ConsumeString(")", cet), Hours(1), SummerZone(ConsumeString("CEST", IF cet.ok THEN cet ELSE opened)))
ZoneAfter(opened) == WinterZone(opened, ConsumeString("CET", opened))
ZoneDifference(reader) == ZoneAfter(ConsumeString("(", reader))

ExistingDay(reader) ==
  [reader EXCEPT !.ok = @ /\ reader.values[1] <= GetNumDaysInMonth(reader.values[2], reader.values[3])]
SignatureDay(text) ==
  Consume({"YEAR"}, LAMBDA v : v >= 2000,
          Consume({"MONTH"}, AnyValue, Consume({"TWO_DIGIT_NUMBER"}, LAMBDA v : v \in 1 .. 31, Reader(text))))
SignatureReader(text) ==
  Consume({"TWO_DIGIT_NUMBER"}, LAMBDA v : v < 60,
          ConsumeString(":", Consume({"TWO_DIGIT_NUMBER"}, LAMBDA v : v < 24,
                                     ConsumeString("à", ExistingDay(SignatureDay(text))))))
NotSigned(rest) == [ok |-> FALSE, rest |-> rest, date |-> NullDate, difference |-> 0]
Signed(utcDate, zone, now) ==
  [ok |-> Earlier(utcDate, Plus(now, MaxDelayInTheFuture)), rest |-> zone.rest, date |-> utcDate,
   difference |-> zone.difference]
SignedInZone(v, zone, now) == Signed(Minus(<<v[3], v[2], v[1], v[4], v[5], 0>>, zone.difference), zone, now)
SignatureRead(reader, now) ==
  IF reader.ok THEN SignedInZone(reader.values, ZoneDifference(reader), now) ELSE NotSigned(reader.rest)
ConsumeSignatureDate(text, now) == SignatureRead(SignatureReader(text), now)

KeepReading(saved, rest) == NextToken(rest)  \* mutant: the search goes on where the failed attempt stopped
RestoreStateAndNext(saved, rest) == NextToken(saved)

RECURSIVE FindAndConsumeSignatureDate(_, _)
ElseFindNext(saved, consumed, now) ==
  IF consumed.ok THEN consumed ELSE FindAndConsumeSignatureDate(RestoreStateAndNext(saved, consumed.rest), now)
SearchFrom(saved, now) ==
  IF saved = <<>> THEN NotSigned(<<>>) ELSE ElseFindNext(saved, ConsumeSignatureDate(saved, now), now)
FindAndConsumeSignatureDate(text, now) == SearchFrom(JumpToNextValidDay(text), now)

ExtractFirstSignatureDate(text, now) == FindAndConsumeSignatureDate(text, now).date
RECURSIVE MaxSignatureDate(_, _, _)
LaterSignature(date, other) == IF Earlier(date, other) THEN other ELSE date
MaxWithNext(found, now, date) ==
  IF found.ok THEN MaxSignatureDate(found.rest, now, LaterSignature(date, found.date)) ELSE date
MaxSignatureDate(text, now, date) == MaxWithNext(FindAndConsumeSignatureDate(text, now), now, date)
ExtractMaxSignatureDate(text, now) == MaxSignatureDate(text, now, NullDate)

PositiveValue(v) == v >= 1
ElseFirst(number) == IF number.ok THEN number ELSE Consume({"DAY"}, AnyValue, Reader(number.rest))
ConsumeDay(text) == ElseFirst(Consume({"TWO_DIGIT_NUMBER"}, LAMBDA v : v \in 1 .. 31, Reader(text)))
\* [ok, rest, values |-> <<day, month, year>>]: a number in the place of a year is passed even when it is 0.
WithYear(year, month, flags, now) ==
  IF year.ok THEN year
  ELSE [ok |-> "IMPLICIT_YEAR" \in flags, rest |-> year.rest, values |-> Append(month.values, ImplicitYear(month.values[2], now))]
LongDate(month, flags, now) == WithYear(Consume({"TWO_DIGIT_NUMBER", "YEAR"}, PositiveValue, month), month, flags, now)
NumericYear(slash, short, now) ==
  IF short.ok THEN [short EXCEPT !.values[3] = ShortYear(@, now)] ELSE Consume({"YEAR"}, PositiveValue, slash)
YearAfterSlash(slash, now) == NumericYear(slash, Consume({"TWO_DIGIT_NUMBER"}, AnyValue, slash), now)
NumericDate(text, day, flags, now) ==
  YearAfterSlash(
    ConsumeString("/", Consume({"TWO_DIGIT_NUMBER"}, LAMBDA v : v \in 1 .. 12,
                               ConsumeString("/", [day EXCEPT !.ok = @ /\ "ALLOW_NUMERIC_MONTH" \in flags /\
                                                                     TokenType(text) = "TWO_DIGIT_NUMBER"]))), now)
DateReader(text, day, month, flags, now) ==
  IF month.ok THEN LongDate(month, flags, now) ELSE NumericDate(text, day, flags, now)
ReaderAfterDay(text, day, flags, now) == DateReader(text, day, Consume({"MONTH"}, AnyValue, day), flags, now)

Latest(flags, now) == Plus(now, MaxDelayInTheFuture + (IF "END_OF_DAY" \in flags THEN Days(1) ELSE 0))
Consumed(valid, rest, date) == [ok |-> valid, rest |-> rest, date |-> IF valid THEN date ELSE NullDate]
ValidDate(v, date, rest, flags, now) ==
  Consumed(/\ "AFTER_2000" \in flags => v[3] >= 2000
           /\ v[1] <= GetNumDaysInMonth(v[2], v[3])
           /\ "BEFORE_NOW" \in flags => Earlier(date, Latest(flags, now)),
           rest, date)
DateRead(reader, v, flags, now) ==
  IF reader.ok
  THEN ValidDate(v, IF "END_OF_DAY" \in flags THEN <<v[3], v[2], v[1], 23, 59, 59>> ELSE Midnight(v[3], v[2], v[1]),
                 reader.rest, flags, now)
  ELSE Consumed(FALSE, reader.rest, NullDate)
ReadDate(reader, flags, now) == DateRead(reader, reader.values, flags, now)
ConsumeDate(text, flags, now) == ReadDate(ReaderAfterDay(text, ConsumeDay(text), flags, now), flags, now)

WholeText(consumed) == IF consumed.ok /\ consumed.rest = <<>> THEN consumed.date ELSE NullDate
ParseDate(text, flags, now) == WholeText(ConsumeDate(text, flags, now))
RECURSIVE ExtractFirstDate(_, _, _)
ElseExtractNext(saved, consumed, flags, now) ==
  IF consumed.ok THEN consumed.date ELSE ExtractFirstDate(RestoreStateAndNext(saved, consumed.rest), flags, now)
ExtractFrom(saved, flags, now) ==
  IF saved = <<>> THEN NullDate ELSE ElseExtractNext(saved, ConsumeDate(saved, flags, now), flags, now)
ExtractFirstDate(text, flags, now) == ExtractFrom(JumpToNextValidDay(text), flags, now)

---------------------------------------------------------------------------
(* What people write, and what the bots must read.                         *)

\* A signature on the wiki, and one copied from a wiki in another time zone.
Signature(utc) ==
  Format(LocalTime(utc), "LONG", "MINUTE") \o <<Word("("), Word(IF IsSummer(utc) THEN "CEST" ELSE "CET"), Word(")")>>
CopiedSignature(utc) == Format(utc, "LONG", "MINUTE") \o <<Word("("), Word("UTC"), Word(")")>>

DiaryInit == diary \in [now : Epochs, notes : {<<>>}]
WriteNote ==
  /\ Len(diary.notes) < MaxNotes
  /\ \E delay \in Delays :
       LET now == Plus(diary.now, delay)
           minute == [now EXCEPT ![6] = 0]
           future == Plus(minute, FutureDelay)
           notes == {[text |-> Signature(minute), signed |-> {minute}],
                     [text |-> CopiedSignature(minute), signed |-> {minute}],
                     [text |-> Signature(future), signed |-> {future}]}
                    \cup {[text |-> text, signed |-> {}] : text \in WrittenWords}
       IN  \E note \in notes : diary' = [now |-> now, notes |-> Append(diary.notes, note)]

\* The signatures are found whatever stands between them, each at the time it was written, across the
\* change of time too; those in the future are not.
Past(note, now) == {d \in note.signed : Earlier(d, Plus(now, MaxDelayInTheFuture))}
FirstPast(past) == past[Min({k \in DOMAIN past : past[k] # {}})]
Extracted(past, max, first) ==
  IF \A k \in DOMAIN past : past[k] = {} THEN max = NullDate /\ first = NullDate
  ELSE /\ \E k \in DOMAIN past : max \in past[k]
       /\ \A k \in DOMAIN past : \A d \in past[k] : NotLater(d, max)
       /\ first \in FirstPast(past)
TextReadsBack(past, text, now) ==
  Extracted(past, ExtractMaxSignatureDate(text, now), ExtractFirstSignatureDate(text, now))
SignaturesReadBack ==
  TextReadsBack([k \in DOMAIN diary.notes |-> Past(diary.notes[k], diary.now)],
                FlattenSeq([k \in DOMAIN diary.notes |-> diary.notes[k].text]), diary.now)

\* A day that a bot writes is read back by the bots, whatever is written before it.
WrittenDays(d) ==
  {[text |-> Format(d, format, "DAY"), flags |-> IF format = "SHORT" THEN {"ALLOW_NUMERIC_MONTH"} ELSE {}] :
     format \in {"LONG", "LONG_1ST", "LONG_1ST_TEMPLATE", "SHORT"}}
  \cup {[text |-> SubSeq(Format(d, "LONG_1ST", "DAY"), 1, 2), flags |-> {"IMPLICIT_YEAR"}]}
Expected(midnight, flags, now) ==
  IF "END_OF_DAY" \in flags THEN [k \in 1 .. 6 |-> IF k <= 3 THEN midnight[k] ELSE <<23, 59, 59>>[k - 3]]
  ELSE IF "BEFORE_NOW" \notin flags \/ Earlier(midnight, Plus(now, MaxDelayInTheFuture)) THEN midnight ELSE NullDate
DayReadsBack(written, midnight, now) ==
  /\ \A more \in {{}, {"END_OF_DAY"}, {"BEFORE_NOW"}} :
       ParseDate(written.text, written.flags \cup more, now) = Expected(midnight, more, now)
  /\ \A words \in WrittenWords :
       LET First(text) == ExtractFirstDate(text, written.flags \cup {"AFTER_2000"}, now)
       IN  First(words) = NullDate => First(words \o written.text) = midnight
DaysReadBack(d, now) ==
  \A written \in WrittenDays(d) : DayReadsBack(written, <<d[1], d[2], d[3], 0, 0, 0>>, now)
Around(now) == {Plus(now, Days(n)) : n \in {-239, -100, -31, -28, -1, 0, 1, 28, 31, 90}}

\* What is written on pages is what is read back: signatures in the order of time, days in all formats and
\* without a year, ISO dates; local time is that of the wiki's own signatures.
DatesReadBack ==
  /\ SignaturesReadBack
  /\ diary.notes = <<>> =>
       \A d \in Around(diary.now) :
         /\ DaysReadBack(d, diary.now)
         /\ FromISO8601(ToISO8601(d)) = d
         /\ GetFrWikiLocalTime(d) = LocalTime(d)
===============================================================================

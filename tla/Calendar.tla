-------------------------------- MODULE Calendar --------------------------------
(***************************************************************************)
(* Days, seconds and years: cbl/date.cpp, the local time of the wiki and   *)
(* the years that people leave out (src/orlodrimbot/wikiutil).  A date is  *)
(* <<year, month, day, hour, minute, second>>.                             *)
(***************************************************************************)
EXTENDS Integers, SequencesExt

NullDate == <<0, 0, 0, 0, 0, 0>>
Year(d) == d[1]
Month(d) == d[2]
Day(d) == d[3]

\* The order of sortKey: each field of a date fits in its own bits.
Earlier(d, e) == \E k \in 1 .. 6 : d[k] < e[k] /\ \A j \in 1 .. k - 1 : d[j] = e[j]
NotLater(d, e) == d = e \/ Earlier(d, e)

---------------------------------------------------------------------------
(* The calendar.                                                           *)

IsLeapYear(year) == year % 4 = 0 /\ (year % 100 # 0 \/ year % 400 = 0)
GetNumDaysInMonth(month, year) ==
  IF month \notin 1 .. 12 THEN 0
  ELSE IF month = 2 /\ IsLeapYear(year) THEN 29
  ELSE <<31, 28, 31, 30, 31, 30, 31, 31, 30, 31, 30, 31>>[month]

\* timegm and gmtime, in seconds since 1970.
SecondsPerDay == 86400
DaysBeforeYear(year) ==
  365 * (year - 1970) + (year - 1969) \div 4 - (year - 1901) \div 100 + (year - 1601) \div 400
DaysBeforeMonth(month, year) ==
  <<0, 31, 59, 90, 120, 151, 181, 212, 243, 273, 304, 334>>[month] + (IF month > 2 /\ IsLeapYear(year) THEN 1 ELSE 0)
ToTimeT(d) ==
  (DaysBeforeYear(d[1]) + DaysBeforeMonth(d[2], d[1]) + d[3] - 1) * SecondsPerDay + d[4] * 3600 + d[5] * 60 + d[6]
FromTimeT(t) ==
  LET days == t \div SecondsPerDay
      seconds == t % SecondsPerDay
      year == Max({y \in 1970 + days \div 366 .. 1970 + days \div 365 : DaysBeforeYear(y) <= days})
      dayOfYear == days - DaysBeforeYear(year)
      month == Max({m \in 1 .. 12 : DaysBeforeMonth(m, year) <= dayOfYear})
  IN  <<year, month, dayOfYear - DaysBeforeMonth(month, year) + 1,
        seconds \div 3600, (seconds % 3600) \div 60, seconds % 60>>

MaxYear == 9999
InitDate(d) == IF d[1] \in 0 .. MaxYear /\ d[2] \in 0 .. 12 /\ \A k \in 3 .. 6 : d[k] \in 0 .. 99 THEN d ELSE NullDate
Midnight(year, month, day) == InitDate(<<year, month, day, 0, 0, 0>>)
Plus(d, seconds) == FromTimeT(ToTimeT(d) + seconds)
Minus(d, seconds) == FromTimeT(ToTimeT(d) - seconds)
DayOfWeek(d) == (ToTimeT(d) \div SecondsPerDay + 3) % 7  \* 0 is Monday

Minutes(n) == n * 60
Hours(n) == n * 3600
Days(n) == n * SecondsPerDay

\* The first and the last day of summer time are the last Sundays of March and October.
LastSunday(year, month) == 31 - ((DayOfWeek(Midnight(year, month, 31)) + 1) % 7)
GetFrWikiLocalTime(utc) ==
  LET sunday == LastSunday(Year(utc), Month(utc))
      summerTime ==
        \/ Month(utc) = 3 /\ (Day(utc) > sunday \/ (Day(utc) = sunday /\ utc[4] >= 1))
        \/ Month(utc) = 10 /\ (Day(utc) < sunday \/ (Day(utc) = sunday /\ utc[4] = 0))
        \/ Month(utc) \in 4 .. 9
  IN  Plus(utc, Hours(IF summerTime THEN 2 ELSE 1))

\* consumeDate.  A date without a year is the one that is 90 days ahead at most, up to the end of a month.
YearAfter(minDate, month) == Year(minDate) + (IF month <= Month(minDate) THEN 1 ELSE 0)
ImplicitYear(month, now) == YearAfter(Minus(now, Days(270)), month)
ShortYear(year, now) ==
  LET minYear == Year(now) - 80
      guessed == year + (minYear \div 100) * 100
  IN  IF guessed < minYear THEN guessed + 100 ELSE guessed

\* The clock of the wiki (external): summer time from the last Sunday of March to that of October, at 1:00
\* UTC.
Sundays(year, month) == {day \in 1 .. 31 : DayOfWeek(Midnight(year, month, day)) = 6}
IsSummer(utc) ==
  LET ChangesIn(month) == <<Year(utc), month, Max(Sundays(Year(utc), month)), 1, 0, 0>>
  IN  NotLater(ChangesIn(3), utc) /\ Earlier(utc, ChangesIn(10))
LocalTime(utc) == Plus(utc, Hours(IF IsSummer(utc) THEN 2 ELSE 1))
=================================================================================

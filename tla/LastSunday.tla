---------------------------- MODULE LastSunday ----------------------------
(***************************************************************************)
(* The generator of the table of summer times (tzadj/dow.c): for each year *)
(* it finds the last Sundays of March and October by the weekday of the    *)
(* last day of the month.  Its one loop is the function RowOf of the year. *)
(***************************************************************************)
EXTENDS TzTable

\* The years for which there is a row.
TableYears == 2018 .. 2034

monthdays == <<31, 29, 31, 30, 31, 30, 31, 31, 30, 31, 30, 31>>

\* 0 is Monday.  The years of the formula begin with March: m is 0 for it, y
\* counts from 4801 BC.
FromMarch(mon) == mon + 12 * ((14 - mon) \div 12) - 3
YearsBefore(y, mon) == y + 4800 - (14 - mon) \div 12
weekday(y, mon, day) ==
  LET n == YearsBefore(y, mon)
  IN (day + (153 * FromMarch(mon) + 2) \div 5 + 365 * n
        + n \div 4 - n \div 100 + n \div 400 - 32045) % 7

\* The mutated form takes 0 for Sunday.
BackToSundayFirst(dow) == dow
BackToSunday(dow) == IF dow < 6 THEN dow + 1 ELSE 0
getlastsundaydate(y, mon) ==
  LET dom == monthdays[mon] IN dom - BackToSunday(weekday(y, mon, dom))

-----------------------------------------------------------------------------
\* The calendar, counted day by day from 1 January 1970, a Thursday.
IsLeap(y) == (y % 4 = 0 /\ y % 100 # 0) \/ y % 400 = 0
DaysIn(y, mon) == IF mon = 2 /\ ~IsLeap(y) THEN 28 ELSE monthdays[mon]
CalendarYears == 1970 .. 2034
DaysToYear[y \in CalendarYears] ==
  IF y = 1970 THEN 0
  ELSE DaysToYear[y - 1] + IF IsLeap(y - 1) THEN 366 ELSE 365
DaysToMonth[mon \in 1 .. 12] ==
  [y \in CalendarYears |->
     IF mon = 1 THEN DaysToYear[y] ELSE DaysToMonth[mon - 1][y] + DaysIn(y, mon - 1)]

\* timegm of the C library, for a full hour.
epochfordate(y, mon, dom, hour) ==
  (DaysToMonth[mon][y] + dom - 1) * 86400 + hour * 3600

\* One o'clock on the last Sunday of a month.
IsLastSunday(t, y, mon) ==
  \E day \in monthdays[mon] - 6 .. monthdays[mon] :
    /\ t = epochfordate(y, mon, day, 1)
    /\ (t \div 86400 + 3) % 7 = 6

-----------------------------------------------------------------------------
\* What is printed for a year.
RowOf(y) == Row(epochfordate(y, 3, getlastsundaydate(y, 3), 1),
                epochfordate(y, 10, getlastsundaydate(y, 10), 1))
=============================================================================

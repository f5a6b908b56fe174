------------------------------ MODULE NtpTime ------------------------------
(***************************************************************************)
(* How the first terminal turns the answer of a time server into the line  *)
(* the clock reads (esp8266terminal/ntp.c).  Quotients and remainders are  *)
(* found by repeated subtraction, which stops while the divisor is still   *)
(* there.  A remainder is therefore in 1 .. divisor, and a second is taken *)
(* off at the end.                                                         *)
(*                                                                         *)
(* One step is a second, and the line is that of an answer which the       *)
(* server stamps in it (the transmit time of the packet), so that each     *)
(* instant of the windows is converted.  Module ClockSync has the way from *)
(* the server to the clock, which reads some of these lines.               *)
(***************************************************************************)
EXTENDS TzTable

CONSTANT Windows    \* a set of intervals of instants, [first, last]

ASSUME WindowsAssumption ==
  Windows \subseteq [first : Nat \ {0}, last : Nat]

VARIABLES timestamp,    \* the transmit time in an answer
          time          \* what it prints: [hour, min, sec]

vars == <<timestamp, time>>

\* 365 days: what is left of a year is left of a day too.  The mutated form
\* is the mean year, which is not a number of days.
YearMean == 31556952
Year == 31536000
DayLength == 86400
Hour == 3600

\* while (input > divisor) { ctr ++; input -= divisor; } for a positive
\* divisor.
simpledivide(input, divisor) ==
  IF input > 0 THEN (input - 1) \div divisor ELSE 0

simplemod(input, divisor) == input - simpledivide(input, divisor) * divisor

\* The lines before fetch the four bytes of the answer and take off the
\* seconds from 1900 to 1970.
SinceNewYear(ts) == simplemod(ts, Year)

HourOf(temp, add) == simplemod(simpledivide(temp, Hour) + add, 24)

\* The mutated form does not take off the second.
SecOfNoCorrection(temp) == simplemod(temp, 60)
SecOf(temp) == simplemod(temp, 60) - 1

ntp_udp_recv(ts) ==
  LET temp == simplemod(SinceNewYear(ts), DayLength)
      rest == simplemod(temp, Hour)
  IN [hour |-> HourOf(temp, tz_shouldaddanhour(ts)),
      min  |-> simpledivide(rest, 60),
      sec  |-> SecOf(rest)]

Answer(ts) == timestamp' = ts /\ time' = ntp_udp_recv(ts)

Init ==
  /\ timestamp \in {w.first : w \in Windows}
  /\ time = ntp_udp_recv(timestamp)

Next == \E w \in Windows :
  timestamp + 1 \in w.first .. w.last /\ Answer(timestamp + 1)

Spec == Init /\ [][Next]_vars

-----------------------------------------------------------------------------
\* Summer time as the table means it: from the start of a row on, up to its
\* end.
Summer(t) == \E i \in 1 .. Len(timezonechanges) - 1 :
               t >= timezonechanges[i].startsat /\ t < timezonechanges[i].endsat
LocalTime(t) == (t + IF Summer(t) THEN Hour ELSE 0) % DayLength
Before(s) == (s - 1) % DayLength

\* The second of the day a line stands for; hour 24 is the first hour.
Shown(l) == (l.hour * Hour + l.min * 60 + l.sec) % DayLength

TypeOK ==
  /\ timestamp \in Nat \ {0}
  /\ time \in [hour : 0 .. 24, min : 0 .. 59, sec : 0 .. 59]

\* The subtractions of ntp.c:93-101 agree on what is subtracted: the line is
\* the local time of the second before the answer, never a minute or an hour
\* off where a quotient is exact.  In the second in which summer time starts
\* or ends it may be a second before the local time of either side.
ASecondBehind ==
  Shown(time) \in {LocalTime(timestamp - 1), Before(LocalTime(timestamp))}

\* The hour is out of range in one hour of a day in summer, the last one in
\* UTC, where the remainder of ntp.c:96 is the divisor; the clock is sent 24
\* for 0.
MidnightIs24 ==
  time.hour = 24 <=> /\ tz_shouldaddanhour(timestamp) = 1
                     /\ (timestamp - 1) % DayLength >= DayLength - Hour

\* Answers a second apart print times a second apart; where summer time starts
\* or ends between them, an hour is skipped or repeated (ntp.c:92-107).
SecondBySecond == [][
  LET jump == tz_shouldaddanhour(timestamp + 1) - tz_shouldaddanhour(timestamp)
  IN (Shown(time') - Shown(time)) % DayLength = (1 + jump * Hour) % DayLength]_vars
=============================================================================

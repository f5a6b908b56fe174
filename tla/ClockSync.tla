----------------------------- MODULE ClockSync -----------------------------
(***************************************************************************)
(* The clock and the first terminal together: the clock counts seconds     *)
(* (module Rtc), asks for the time when a minute or an hour is over, and   *)
(* is set to what the terminal makes of the answer of the time server      *)
(* (module NtpTime, with the table of summer times), hour 24 included.     *)
(* The server is right, and stamps its answer when it sends it.  Requests  *)
(* and answers may be lost, and overtake each other; from a request to the *)
(* line it takes up to MaxDelay seconds.                                   *)
(*                                                                         *)
(* The clock's seconds begin when the server's do: the part of a second    *)
(* that they are apart in truth is left out.                               *)
(*                                                                         *)
(* A line sets the clock in one step: module LedClock has the carries that *)
(* come in between.  The main loop sends a request before the next tick.   *)
(***************************************************************************)
EXTENDS NtpTime, Rtc, LastSunday

CONSTANT MaxDelay

\* The line has hours of sixty minutes, and the clock counts those.
ASSUME ClockSyncAssumption ==
  /\ MaxDelay \in Nat
  /\ HoursPerDay = 24 /\ MinutesPerHour = 60 /\ SecondsPerMinute = 60

VARIABLES
  exchanges,    \* requests on their way to the server, with no stamp, and
                \* answers on their way to the clock: [sent, stamp]
  season,       \* history: of the answer that set the clock last: in "winter",
                \* in "summer", or there in the last hour of a day, "night"
  transit,      \* history: how long that answer was on its way
  unanswered    \* history: requests since it came

syncvars == <<vars, rtcctx, exchanges, season, transit, unanswered>>

NoStamp == 0
Season(t) == IF tz_shouldaddanhour(t) = 0 THEN "winter"
             ELSE IF (t - 1) % DayLength >= DayLength - Hour THEN "night"
             ELSE "summer"
IsSet == "TIMESET" \in flags

SyncInit ==
  /\ Init /\ rtc_initialise
  /\ exchanges = {} /\ season = "winter" /\ transit = 0 /\ unanswered = 0

\* Time goes on, for the server and for the clock.
Second ==
  /\ "UPDATETIME" \notin flags
  /\ \A x \in exchanges : timestamp - x.sent < MaxDelay
  /\ Next /\ Timer0_A0
  /\ UNCHANGED <<exchanges, season, transit, unanswered>>

Request ==
  /\ "UPDATETIME" \in flags /\ flags' = flags \ {"UPDATETIME"}
  /\ exchanges' = exchanges \cup {[sent |-> timestamp, stamp |-> NoStamp]}
  /\ unanswered' = IF IsSet THEN unanswered + 1 ELSE 0
  /\ UNCHANGED <<vars, hours, minutes, seconds, season, transit>>

\* The server answers with the time at which it does.
Serve == \E x \in exchanges :
  /\ x.stamp = NoStamp
  /\ exchanges' = (exchanges \ {x}) \cup {[x EXCEPT !.stamp = timestamp]}
  /\ UNCHANGED <<vars, rtcctx, season, transit, unanswered>>

\* The terminal prints the time in the answer, and the clock reads the line.
Set == \E x \in exchanges :
  /\ x.stamp # NoStamp /\ exchanges' = exchanges \ {x}
  /\ LET line == ntp_udp_recv(x.stamp) IN
       hours' = line.hour /\ minutes' = line.min /\ seconds' = line.sec
  /\ flags' = flags \cup {"TIMESET"}
  /\ season' = Season(x.stamp) /\ transit' = timestamp - x.stamp
  /\ unanswered' = 0 /\ UNCHANGED vars

Lose == \E x \in exchanges :
  /\ exchanges' = exchanges \ {x}
  /\ UNCHANGED <<vars, rtcctx, season, transit, unanswered>>

SyncNext == Second \/ Request \/ Serve \/ Set \/ Lose

SyncSpec == SyncInit /\ [][SyncNext]_syncvars

-----------------------------------------------------------------------------
\* A clock that was set stays behind the time by a second and by what the last
\* answer took from the server to the clock, neither more nor less, in the
\* season of that answer, through every carry, though hours may count from 24
\* on (ntp.c:79-101, rtc.c:18-33).
StaysBehindByTransit ==
  IsSet => TimeVal(hours, minutes, seconds) % DayLength =
             (timestamp - transit - 1
                + (IF season = "winter" THEN 0 ELSE Hour)) % DayLength

\* Hours out of range, which no carry brings back, come from an answer in the
\* last hour of a day (UTC) in summer only, and grow by one for each request
\* that is not answered: the display reads its table of ten digits at
\* hours / 10, which is no digit after the 76th (ntp.c:96, rtc.c:28-31,
\* main.c:44-91).
OutOfRangeByRequests ==
  hours >= HoursPerDay =>
    /\ season = "night"
    /\ hours - HoursPerDay <=
         unanswered + (IF "UPDATETIME" \in flags THEN 1 ELSE 0)

\* When the table has summer time start or end, the row is what the generator
\* prints for the year, and it is one o'clock on the last Sundays of March and
\* October (dow.c:18-88, londontzstruct.c:3-22).
IsTheTable ==
  \A y \in TableYears :
    LET row == timezonechanges[y - 2017] IN
    timestamp \in {row.startsat, row.endsat} =>
      /\ row = RowOf(y)
      /\ IsLastSunday(row.startsat, y, 3) /\ IsLastSunday(row.endsat, y, 10)
=============================================================================

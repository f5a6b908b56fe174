-------------------------------- MODULE Rtc --------------------------------
(***************************************************************************)
(* The real-time clock of the firmware (ledclocksw/rtc.c): the record      *)
(* rtcctx and the timer interrupt that advances it once a second.  The     *)
(* carries are tests for equality: a field that is set beyond its limit    *)
(* counts up to the end of the integer range before it carries again.      *)
(*                                                                         *)
(* Module LedClock adds the main loop, which sets the same fields without  *)
(* a lock; RtcSpec is the clock before the first line arrives.             *)
(***************************************************************************)
EXTENDS Integers

CONSTANTS
  HoursPerDay, MinutesPerHour, SecondsPerMinute,
  IntMax      \* the largest int: 32767 on the MSP430

ASSUME RtcAssumption ==
  /\ IntMax \in Nat
  /\ HoursPerDay \in 1 .. IntMax
  /\ MinutesPerHour \in 1 .. IntMax
  /\ SecondsPerMinute \in 1 .. IntMax

VARIABLES flags,    \* a subset of RTCFLAGS
          hours, minutes, seconds

rtcctx == <<flags, hours, minutes, seconds>>

RTCFLAGS == {"UPDATETIME", "TIMESET"}
Int16 == -(IntMax + 1) .. IntMax

\* 23:59:00, one minute before midnight.
rtc_initialise ==
  /\ flags = {}
  /\ hours = HoursPerDay - 1
  /\ minutes = MinutesPerHour - 1
  /\ seconds = 0

\* x ++, on a two's complement machine.  The mutated form stops at
\* the largest value.
IncrSaturating(x) == IF x = IntMax THEN IntMax ELSE x + 1
Incr(x) == IF x = IntMax THEN -(IntMax + 1) ELSE x + 1

\* x ++; if (x == limit) x = 0.  The mutated form carries one too late.
CarryLate(x, limit) == IF x = limit THEN 0 ELSE Incr(x)
Carry(x, limit) == IF Incr(x) = limit THEN 0 ELSE Incr(x)

MinuteIsOver == Incr(seconds) = SecondsPerMinute

\* The test of the minutes is nested in that of the seconds; in the mutated
\* form it is not.
HourUnnested == Incr(minutes) = MinutesPerHour
HourIsOver == MinuteIsOver /\ Incr(minutes) = MinutesPerHour

\* The clock asks for the time every minute until it was set once, and
\* every hour from then on.  The mutated form stops when it was set.
DueUntilSet == MinuteIsOver /\ "TIMESET" \notin flags
RequestIsDue == MinuteIsOver /\ (HourIsOver \/ "TIMESET" \notin flags)

Timer0_A0 ==
  /\ seconds' = Carry(seconds, SecondsPerMinute)
  /\ minutes' = IF MinuteIsOver THEN Carry(minutes, MinutesPerHour)
                                ELSE minutes
  /\ hours' = IF HourIsOver THEN Carry(hours, HoursPerDay) ELSE hours
  /\ flags' = IF RequestIsDue THEN flags \cup {"UPDATETIME"} ELSE flags

RtcSpec == rtc_initialise /\ [][Timer0_A0]_rtcctx

-----------------------------------------------------------------------------
SecondsPerHour == MinutesPerHour * SecondsPerMinute
Day == HoursPerDay * SecondsPerHour

\* The seconds since midnight of h:m:s.
TimeVal(h, m, s) == h * SecondsPerHour + m * SecondsPerMinute + s

InRange(h, m, s) ==
  /\ h \in 0 .. HoursPerDay - 1
  /\ m \in 0 .. MinutesPerHour - 1
  /\ s \in 0 .. SecondsPerMinute - 1

\* A clock that is left alone shows a time of day.
RtcTypeOK == flags \in SUBSET RTCFLAGS /\ InRange(hours, minutes, seconds)

\* The three fields and their carries implement one count of seconds, over
\* midnight too (rtc.c:19-36).
TimeOfDay == INSTANCE TimeOfDay
               WITH Start <- TimeVal(HoursPerDay - 1, MinutesPerHour - 1, 0),
                    tod <- TimeVal(hours, minutes, seconds)
CountsTheDay == TimeOfDay!Spec
=============================================================================

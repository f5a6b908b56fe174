----------------------------- MODULE RtcProofs -----------------------------
(***************************************************************************)
(* Proofs about module Rtc, for days, hours and minutes of any length that *)
(* an int can count.                                                       *)
(***************************************************************************)
EXTENDS Rtc, TLAPS

\* A field in range is carried to a field in range.
LEMMA CarryInRange ==
  ASSUME NEW limit \in 1 .. IntMax, NEW x \in 0 .. limit - 1
  PROVE  /\ Incr(x) = x + 1
         /\ Carry(x, limit) \in 0 .. limit - 1
         /\ Carry(x, limit) = IF x + 1 = limit THEN 0 ELSE x + 1
BY RtcAssumption DEF Carry, Incr

\* Two facts about products that linear arithmetic does not know.
LEMMA TimesSucc ==
  ASSUME NEW a \in Nat, NEW c \in Nat
  PROVE  (a + 1) * c = a * c + c /\ a * c \in Nat
OBVIOUS

LEMMA TimesMono ==
  ASSUME NEW a \in Nat, NEW b \in Nat, NEW c \in Nat, a <= b
  PROVE  a * c <= b * c
<1>1. (b - a) * c >= 0
  OBVIOUS
<1>2. (b - a) * c = b * c - a * c
  OBVIOUS
<1>. QED BY <1>1, <1>2

\* The seconds since midnight are a mixed-radix number: times in range are
\* below Day, and equal to its last second only if every field is.
LEMMA TimeValBounds ==
  ASSUME NEW h, NEW m, NEW s, InRange(h, m, s)
  PROVE  /\ TimeVal(h, m, s) \in 0 .. Day - 1
         /\ m * SecondsPerMinute + s \in 0 .. SecondsPerHour - 1
         /\ SecondsPerHour \in Nat \ {0}
<1> USE RtcAssumption
<1> DEFINE S == SecondsPerMinute
           P == SecondsPerHour
<1>1. /\ h \in Nat /\ m \in Nat /\ s \in Nat
      /\ h + 1 <= HoursPerDay /\ m + 1 <= MinutesPerHour /\ s + 1 <= S
      /\ HoursPerDay \in Nat /\ MinutesPerHour \in Nat /\ S \in Nat
  BY DEF InRange
<1>2. P \in Nat /\ (m + 1) * S <= P
  BY <1>1, TimesMono, TimesSucc DEF SecondsPerHour
<1>3. m * S \in Nat /\ m * S + S <= P
  BY <1>1, <1>2, TimesSucc
<1>4. Day \in Nat /\ (h + 1) * P <= Day
  BY <1>1, <1>2, TimesMono, TimesSucc DEF Day
<1>5. h * P \in Nat /\ h * P + P <= Day
  BY <1>1, <1>2, <1>4, TimesSucc
<1> HIDE DEF P
<1>. QED BY <1>1, <1>2, <1>3, <1>4, <1>5 DEF TimeVal, P

\* What one tick does to a clock that is in range.
LEMMA TickInRange ==
  ASSUME InRange(hours, minutes, seconds), Timer0_A0
  PROVE  /\ InRange(hours, minutes, seconds)'
         /\ TimeVal(hours', minutes', seconds') =
              IF TimeVal(hours, minutes, seconds) + 1 = Day
                THEN 0 ELSE TimeVal(hours, minutes, seconds) + 1
<1> USE RtcAssumption
<1> DEFINE H == HoursPerDay
           M == MinutesPerHour
           S == SecondsPerMinute
<1>1. /\ hours \in 0 .. H - 1 /\ minutes \in 0 .. M - 1 /\ seconds \in 0 .. S - 1
      /\ H \in 1 .. IntMax /\ M \in 1 .. IntMax /\ S \in 1 .. IntMax
  BY DEF InRange
<1>2. /\ MinuteIsOver <=> seconds + 1 = S
      /\ HourIsOver <=> seconds + 1 = S /\ minutes + 1 = M
  BY <1>1, CarryInRange DEF MinuteIsOver, HourIsOver
<1>3. /\ seconds' = IF seconds + 1 = S THEN 0 ELSE seconds + 1
      /\ minutes' = IF seconds + 1 # S THEN minutes
                    ELSE IF minutes + 1 = M THEN 0 ELSE minutes + 1
      /\ hours' = IF ~ (seconds + 1 = S /\ minutes + 1 = M) THEN hours
                  ELSE IF hours + 1 = H THEN 0 ELSE hours + 1
  BY <1>1, <1>2, CarryInRange DEF Timer0_A0
<1>4. InRange(hours, minutes, seconds)'
  BY <1>1, <1>3 DEF InRange
<1> DEFINE P == SecondsPerHour
           old == TimeVal(hours, minutes, seconds)
           new == TimeVal(hours', minutes', seconds')
<1>5. /\ old \in 0 .. Day - 1
      /\ minutes * S + seconds \in 0 .. P - 1
      /\ P \in Nat \ {0}
      /\ new \in 0 .. Day - 1
  BY <1>4, TimeValBounds DEF InRange
<1>6. /\ hours * P \in Nat /\ (hours + 1) * P = hours * P + P
      /\ minutes * S \in Nat /\ (minutes + 1) * S = minutes * S + S
  BY <1>1, <1>5, TimesSucc
<1>7. old = hours * P + minutes * S + seconds
  BY DEF TimeVal
<1>8. M * S = P /\ H * P = Day
  BY DEF SecondsPerHour, Day
<1>9. CASE seconds + 1 # S
  <2>1. new = old + 1
    BY <1>1, <1>3, <1>6, <1>9 DEF TimeVal
  <2>. QED BY <1>4, <1>5, <2>1
<1>10. CASE seconds + 1 = S /\ minutes + 1 # M
  <2>1. new = hours * P + (minutes + 1) * S + 0
    BY <1>1, <1>3, <1>10 DEF TimeVal
  <2>2. old + 1 = hours * P + (minutes * S + S)
    BY <1>1, <1>6, <1>7, <1>10
  <2>3. new = hours * P + (minutes * S + S)
    BY <1>1, <1>6, <2>1
  <2>4. new = old + 1
    BY <2>2, <2>3
  <2>. QED BY <1>4, <1>5, <2>4
<1>11. CASE seconds + 1 = S /\ minutes + 1 = M
  <2>1. old + 1 = hours * P + P
    BY <1>1, <1>6, <1>7, <1>8, <1>11
  <2>2. CASE hours + 1 = H
    <3>1. old + 1 = Day
      BY <1>6, <1>8, <2>1, <2>2
    <3>2. new = 0
      BY <1>3, <1>5, <1>11, <2>2 DEF TimeVal
    <3>. QED BY <1>4, <3>1, <3>2
  <2>3. CASE hours + 1 # H
    <3>1. new = (hours + 1) * P + 0 * S + 0
      BY <1>3, <1>11, <2>3 DEF TimeVal
    <3>2. new = hours * P + P
      <4>1. 0 * S = 0
        BY <1>1
      <4> HIDE DEF P, new
      <4>. QED BY <1>5, <1>6, <3>1, <4>1
    <3>3. new = old + 1
      BY <2>1, <3>2
    <3>. QED BY <1>4, <1>5, <3>3
  <2>. QED BY <2>2, <2>3
<1>. QED BY <1>9, <1>10, <1>11

-----------------------------------------------------------------------------
LEMMA RtcInit == rtc_initialise => RtcTypeOK
BY RtcAssumption DEF rtc_initialise, RtcTypeOK, InRange, RTCFLAGS

LEMMA RtcNext == RtcTypeOK /\ [Timer0_A0]_rtcctx => RtcTypeOK'
<1>1. CASE Timer0_A0
  BY <1>1, TickInRange DEF RtcTypeOK, Timer0_A0, RTCFLAGS
<1>2. CASE UNCHANGED rtcctx
  BY <1>2 DEF rtcctx, RtcTypeOK, InRange
<1>. QED BY <1>1, <1>2

\* A clock that is left alone stays in range.
THEOREM RtcStaysInRange == RtcSpec => []RtcTypeOK
BY RtcInit, RtcNext, PTL DEF RtcSpec

\* The carries of rtc.c count the seconds of the day, whatever the lengths
\* of minutes, hours and days are.
THEOREM RtcCountsTheDay == RtcSpec => CountsTheDay
<1>1. rtc_initialise => TimeOfDay!Init
  BY DEF rtc_initialise, TimeOfDay!Init
<1>2. RtcTypeOK /\ [Timer0_A0]_rtcctx
        => [TimeOfDay!Next]_(TimeVal(hours, minutes, seconds))
  <2>1. CASE UNCHANGED rtcctx
    BY <2>1 DEF rtcctx, TimeVal
  <2>2. ASSUME RtcTypeOK, Timer0_A0
        PROVE  TimeOfDay!Next
    BY <2>2, TickInRange DEF RtcTypeOK, TimeOfDay!Next, TimeOfDay!Tick
  <2>. QED BY <2>1, <2>2
<1>. QED BY <1>1, <1>2, RtcStaysInRange, PTL
     DEF RtcSpec, CountsTheDay, TimeOfDay!Spec
=============================================================================

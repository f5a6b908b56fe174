------------------------------ MODULE Display ------------------------------
(***************************************************************************)
(* The four digits of the clock (ledclocksw/main.c:39-105): an interrupt   *)
(* of a second timer shows one digit after the other, and turns it off     *)
(* again, while the interrupt of module Rtc advances the time between two  *)
(* digits.  One cycle of the timer overflows ("period"), which ends the    *)
(* last digit, and 50 us later matches ("match"), which begins the next.   *)
(***************************************************************************)
EXTENDS Rtc

CONSTANTS Base,   \* ten
          Off     \* no segment is on

ASSUME DisplayAssumption ==
  /\ Base \in Nat \ {0}
  /\ HoursPerDay <= Base * Base
  /\ MinutesPerHour <= Base * Base
  /\ Off \notin Nat

Digits == 0 .. 3   \* from the left

VARIABLES
  digit_idx,     \* the digit that is shown next
  p2val,         \* the digit that the interrupt is about to light
  P2OUT,         \* the digits that are lit
  P3OUT,         \* the numeral whose segments are on
  isr,           \* how far the interrupt has got: interrupts do not nest
  pending,       \* the flags of the timer
  phase,         \* what the timer does next
  \* History variables, read by no action of the firmware:
  begun,         \* the interrupt has lit a digit
  frame,         \* the numerals that were shown last
  start,         \* the hours and minutes when the leftmost was
  ticked         \* ticks since then

ports == <<P2OUT, P3OUT>>
timer == <<pending, phase>>
history == <<begun, frame, start, ticked>>
vars == <<rtcctx, digit_idx, p2val, ports, isr, timer, history>>

\* The numeral that is the digit k of the time.  The mutated form shows the
\* tens of the hours twice.
NumeralTensTwice(k) ==
  CASE k = 0 -> hours \div Base
    [] k = 1 -> hours \div Base
    [] k = 2 -> (minutes \div Base) % Base
    [] k = 3 -> minutes % Base
Numeral(k) ==
  CASE k = 0 -> hours \div Base
    [] k = 1 -> hours % Base
    [] k = 2 -> (minutes \div Base) % Base
    [] k = 3 -> minutes % Base

\* digit_idx ++, or 0 after the last.  The mutated form stays at the last.
NextStuck(k) == IF k = 3 THEN 3 ELSE k + 1
NextDigit(k) == IF k = 3 THEN 0 ELSE k + 1

\* The minutes since midnight.
Minute(h, m) == h * MinutesPerHour + m

\* main until it enables the interrupts: both flags are set by then, two
\* digits are selected, and no segment is on.
Init ==
  /\ rtc_initialise
  /\ digit_idx = 0
  /\ p2val = 0
  /\ P2OUT = {1, 3}
  /\ P3OUT = Off
  /\ isr = "idle"
  /\ pending = {"match", "period"}
  /\ phase \in {"match", "period"}
  /\ begun = FALSE
  /\ frame = [k \in Digits |-> Numeral(k)]
  /\ start = <<hours, minutes>>
  /\ ticked = 0

\* The timer matches and overflows in turn.  An interrupt is served before
\* the next event: the others are done in much less than 50 us.
TimerEvent ==
  /\ isr = "idle"
  /\ pending = {}
  /\ pending' = {phase}
  /\ phase' = IF phase = "match" THEN "period" ELSE "match"
  /\ UNCHANGED <<rtcctx, digit_idx, p2val, ports, isr, history>>

\* Reading TA1IV returns and clears the match first.  P3OUT gets the segments
\* of the next digit ...
ShowSegments ==
  /\ isr = "idle"
  /\ "match" \in pending
  /\ pending' = pending \ {"match"}
  /\ P3OUT' = Numeral(digit_idx)
  /\ p2val' = digit_idx
  /\ digit_idx' = NextDigit(digit_idx)
  /\ isr' = "match"
  /\ frame' = [frame EXCEPT ![digit_idx] = P3OUT']
  /\ IF digit_idx = 0 THEN start' = <<hours, minutes>> /\ ticked' = 0
                      ELSE UNCHANGED <<start, ticked>>
  /\ UNCHANGED <<rtcctx, P2OUT, phase, begun>>

\* ... and then P2OUT selects it.
LightDigit ==
  /\ isr = "match"
  /\ P2OUT' = {p2val}
  /\ isr' = "idle"
  /\ begun' = TRUE
  /\ UNCHANGED <<rtcctx, digit_idx, p2val, P3OUT, timer, frame, start, ticked>>

\* The overflow turns the digit off.  In the mutated form it does not.
NoBlank == P2OUT
Blank == {}

PeriodEnds ==
  /\ isr = "idle"
  /\ pending = {"period"}
  /\ pending' = {}
  /\ P2OUT' = Blank
  /\ UNCHANGED <<rtcctx, digit_idx, p2val, P3OUT, isr, phase, history>>

\* Four digits take 8 ms, so the clock ticks once at most meanwhile.
Tick ==
  /\ isr = "idle"
  /\ ticked = 0
  /\ Timer0_A0
  /\ ticked' = 1
  /\ UNCHANGED <<digit_idx, p2val, ports, isr, timer, begun, frame, start>>

Timer1_A1 == ShowSegments \/ LightDigit \/ PeriodEnds

Next == TimerEvent \/ Timer1_A1 \/ Tick

Spec == Init /\ [][Next]_vars

\* The timer runs, and its interrupt is enabled.
FairSpec == Spec /\ WF_vars(TimerEvent) /\ WF_vars(Timer1_A1)

-----------------------------------------------------------------------------
Numerals == 0 .. Base - 1

TypeOK ==
  /\ RtcTypeOK
  /\ digit_idx \in Digits
  /\ p2val \in Digits
  /\ P2OUT \subseteq Digits
  /\ P3OUT \in Numerals \cup {Off}
  /\ isr \in {"idle", "match"}
  /\ pending \subseteq {"match", "period"}
  /\ phase \in {"match", "period"}
  /\ begun \in BOOLEAN
  /\ frame \in [Digits -> Numerals]
  /\ start \in (0 .. HoursPerDay - 1) \X (0 .. MinutesPerHour - 1)
  /\ ticked \in 0 .. 1

\* From the first digit that the interrupt lights, every lit digit shows its
\* own numeral, also between the writes to the two ports: the last one is off
\* before the segments change (main.c:91-101).  Until then the two digits that
\* main has selected (main.c:157) are dark, but for the moment between the two
\* writes of the first interrupt, when both show the numeral of the leftmost.
NoGhost ==
  /\ begun => \A k \in P2OUT : P3OUT = frame[k]
  /\ ~begun /\ P3OUT # Off => isr = "match"

\* The four numerals that are shown one after the other are the time, or, if
\* the clock has ticked in between, not ahead of it: the digits that
\* were shown before a carry make the time look earlier (main.c:48-90 against
\* rtc.c:19-32).
Shown == Minute(frame[0] * Base + frame[1], frame[2] * Base + frame[3])

FrameIsNotAhead ==
  digit_idx = 0 =>
    LET now == Minute(hours, minutes)
        was == Minute(start[1], start[2])
    IN  /\ ticked = 0 => Shown = now
        /\ Shown <= IF now < was THEN was ELSE now

\* Each digit is shown again and again (main.c:46-104).
AllDigitsAreShown == \A k \in Digits : []<>(P2OUT = {k})
=============================================================================

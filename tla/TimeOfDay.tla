----------------------------- MODULE TimeOfDay -----------------------------
(***************************************************************************)
(* What the real-time clock of the firmware (ledclocksw/rtc.c) promises:   *)
(* a count of seconds since midnight that goes up by one with every tick   *)
(* and starts again when the day is over.                                  *)
(***************************************************************************)
EXTENDS Naturals

CONSTANTS Day,    \* the seconds of a day
          Start   \* the time at power-up

VARIABLE tod      \* the time of day, in seconds

Init == tod = Start

Tick == tod' = IF tod + 1 = Day THEN 0 ELSE tod + 1

Next == Tick

Spec == Init /\ [][Next]_tod
=============================================================================

----------------------------- MODULE MCLedClock -----------------------------
(***************************************************************************)
(* Instance of LedClock for TLC: a short day and a short range of int; the *)
(* times that are set are the last second of the day and one in which the  *)
(* hours and the minutes are out of range.  Three hours are the fewest for *)
(* which an hour ahead is not an hour behind.                              *)
(***************************************************************************)
EXTENDS LedClock

Time(h, m, s) == [hours |-> h, minutes |-> m, seconds |-> s]

MCTimes == {Time(HoursPerDay - 1, MinutesPerHour - 1, SecondsPerMinute - 1),
            Time(HoursPerDay, MinutesPerHour + 1, 0)}
=============================================================================

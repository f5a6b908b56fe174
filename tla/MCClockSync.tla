---------------------------- MODULE MCClockSync ----------------------------
(***************************************************************************)
(* Instance of ClockSync for TLC.  The long window is from 22:00 UTC on    *)
(* the day before the one in 2024 on which summer time ended to a quarter  *)
(* past 02:00 UTC on that day: two midnights at which the hour is sent as  *)
(* 24, a day in between with and without answers, and the end of summer    *)
(* time at 01:00.  The others are the seconds around every change in the   *)
(* table, and around every multiple of 365 days.                           *)
(***************************************************************************)
EXTENDS ClockSync

Around(t) == [first |-> t - 3, last |-> t + 3]
Rows == {timezonechanges[i] : i \in 1 .. Len(timezonechanges) - 1}

MCWindows ==
  {Around(r.startsat) : r \in Rows} \cup {Around(r.endsat) : r \in Rows}
    \cup {Around(k * Year) : k \in 49 .. 65}
    \cup {[first |-> 1729990800 - 97200, last |-> 1729990800 + 4500]}
=============================================================================

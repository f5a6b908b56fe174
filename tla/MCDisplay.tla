----------------------------- MODULE MCDisplay -----------------------------
(* Instance of Display for TLC: the hours and minutes of the clock.        *)
EXTENDS Display, TLC
=============================================================================

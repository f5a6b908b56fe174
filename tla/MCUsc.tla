------------------------------- MODULE MCUsc -------------------------------
(* Instance of Usc for TLC: two payload bytes; RAM cleared or full of one. *)
EXTENDS Usc, TLC

CONSTANTS c1, c2

MCChars == {c1, c2}
MCPowerUp == {[i \in 0 .. LastPos |-> Nul], [i \in 0 .. LastPos |-> c1]}
=============================================================================

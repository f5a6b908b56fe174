---------------------------- MODULE MCEsp8266Sim ----------------------------
(* Instance of Esp8266Sim for TLC: a request of two bytes, an answer of two *)
(* bytes; lines that fit the ring buffer, and lines that fill it.           *)
EXTENDS Esp8266Sim, TLC

CONSTANTS t, x, cr

MCByte == {t, x, cr}
MCRequest == <<t, t>>
MCAnswer == <<x, t>>
MCLineLengths == {3, 4}
=============================================================================

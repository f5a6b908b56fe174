----------------------------- MODULE MCCbQueue -----------------------------
(* Instance of CbQueue for TLC: all messages of one to three bytes.        *)
EXTENDS CbQueue, TLC

CONSTANTS b1, b2

MCByte == {b1, b2}
MCMessages == UNION {[1 .. n -> Byte] : n \in 1 .. 3}
=============================================================================

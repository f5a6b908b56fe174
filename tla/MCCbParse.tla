----------------------------- MODULE MCCbParse -----------------------------
(* Instance of CbParse for TLC: a digit, a letter that is a digit in base  *)
(* sixteen, signs, a blank and the byte of an empty buffer.               *)
EXTENDS CbParse, TLC

MCChars == {"1", "a", "-", " ", "+"}
MCByte == MCChars \cup {"nul"}
MCDigits == {"1"}
MCHexDigits == {"1", "a"}
MCValueOf == ("1" :> 1) @@ ("a" :> 10)
MCBlanks == {" "}
MCPatterns == {<<"1">>, <<"1", "a">>, <<"1", "1">>, <<"?", "a", "1">>}
=============================================================================

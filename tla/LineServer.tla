----------------------------- MODULE LineServer -----------------------------
(***************************************************************************)
(* What the simulator promises (esp8266simulator/appsrc/esp8266sim.c):     *)
(* the lines that come in are taken one by one, whole and in order, and a  *)
(* line that begins with the request queues the answer, if it fits.        *)
(***************************************************************************)
EXTENDS Naturals, Sequences, SequencesExt

CONSTANTS Byte, Cr, Request, Answer, RdCapacity, WrCapacity

VARIABLES rd,   \* what came in and was not taken
          wr    \* what is to go out

vars == <<rd, wr>>

Init == rd = << >> /\ wr = << >>

Receive ==
  /\ \E n \in 1 .. RdCapacity - Len(rd) :
       \E chunk \in [1 .. n -> Byte] : rd' = rd \o chunk
  /\ UNCHANGED wr

TakeLine(n) ==
  LET line == SubSeq(rd, 1, n - 1)
      answered == IsPrefix(Request, line)
                    /\ Len(wr) + Len(Answer) <= WrCapacity
  IN  /\ rd[n] = Cr
      /\ ~ Contains(line, Cr)
      /\ rd' = SubSeq(rd, n + 1, Len(rd))
      /\ wr' = IF answered THEN wr \o Answer ELSE wr

Send(n) ==
  /\ wr' = SubSeq(wr, n + 1, Len(wr))
  /\ UNCHANGED rd

Next == \/ Receive
        \/ \E n \in 1 .. Len(rd) : TakeLine(n)
        \/ \E n \in 1 .. Len(wr) : Send(n)

Spec == Init /\ [][Next]_vars
=============================================================================

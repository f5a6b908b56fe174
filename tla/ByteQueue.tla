------------------------------ MODULE ByteQueue ------------------------------
(***************************************************************************)
(* What the ring buffer of the simulator promises                          *)
(* (esp8266simulator/src/circularbuffer.h): a queue of bytes with a fixed  *)
(* capacity.  One side puts a message in, whole and in one step; the other *)
(* takes bytes out in the order in which they were put in, or drops them.  *)
(***************************************************************************)
EXTENDS Naturals, Sequences

CONSTANTS Messages,   \* what can be put in at once: sequences of bytes
          Capacity    \* the most bytes that are in the queue

VARIABLES offered,    \* the message that is about to be put in
          queue,      \* the bytes that are in the queue
          taken       \* the bytes that were taken out last

vars == <<offered, queue, taken>>

Init == offered = << >> /\ queue = << >> /\ taken = << >>

Offer(message) ==
  /\ offered = << >>
  /\ offered' = message
  /\ UNCHANGED <<queue, taken>>

Put ==
  /\ Len(queue) + Len(offered) <= Capacity
  /\ queue' = queue \o offered
  /\ offered' = << >>
  /\ UNCHANGED taken

Drop(n) ==
  /\ queue' = SubSeq(queue, n + 1, Len(queue))
  /\ UNCHANGED <<offered, taken>>

Take(n) ==
  /\ taken' = SubSeq(queue, 1, n)
  /\ queue' = SubSeq(queue, n + 1, Len(queue))
  /\ UNCHANGED offered

Next == \/ \E message \in Messages : Offer(message)
        \/ Put
        \/ \E n \in 0 .. Len(queue) : Take(n) \/ Drop(n)

Spec == Init /\ [][Next]_vars
=============================================================================

--------------------------- MODULE CircularBuffer ---------------------------
(***************************************************************************)
(* The arithmetic of the ring buffer                                       *)
(* (esp8266simulator/src/circularbuffer.c): bytes are written at head and  *)
(* read at tail, and one place stays empty, to tell a full buffer from an  *)
(* empty one.  In CbQueue the two sides work concurrently, in CbParse one  *)
(* program does both.                                                      *)
(***************************************************************************)
EXTENDS Naturals, Sequences

CONSTANTS
  Size,   \* the places of the buffer, one more than its capacity
  Byte,
  Zero    \* the byte that memset writes

ASSUME CircularBufferAssumption ==
  /\ Size \in Nat \ {0}
  /\ Zero \in Byte

VARIABLES head, tail, buffer     \* the members of circularbuffer_t

Index == 0 .. Size - 1
Buffer == [Index -> Byte]

cb_capacity == Size - 1

\* The bytes in the buffer.
cb_used(h, t) ==
  IF h < t THEN Size - t + h ELSE h - t

\* The bytes that fit.  The mutated form fills the last place too.
FreeWithLastPlace(h, t) ==
  IF h < t THEN t - h ELSE Size - h + t
cb_free(h, t) ==
  IF h < t THEN t - h - 1 ELSE Size - h + t - 1

\* The bytes that fit from head on without wrapping, less one where nothing
\* follows tail, with a special case at the end.
cb_freeafterhead(h, t) ==
  IF h < t THEN t - h - 1
  ELSE IF h = Size - 1 /\ t # 0 THEN 1 ELSE Size - h - 1

\* The bytes from tail on without wrapping.
cb_sizeaftertail(h, t) ==
  IF h < t THEN Size - t ELSE h - t

\* Where pos is after n bytes.
Advance(pos, n) == (pos + n) % Size

\* cb_peek: the byte at offs from the tail.
cb_peek(b, t, offs) == b[Advance(t, offs)]

\* The n bytes from pos on.
Bytes(b, pos, n) == [i \in 1 .. n |-> cb_peek(b, pos, i - 1)]

\* The buffer as a queue.
Content(b, h, t) == Bytes(b, t, cb_used(h, t))

\* The buffer after the bytes were copied to the places from pos on.
Store(b, pos, bytes) ==
  [i \in Index |-> IF i \in pos .. pos + Len(bytes) - 1
                   THEN bytes[i - pos + 1] ELSE b[i]]
=============================================================================

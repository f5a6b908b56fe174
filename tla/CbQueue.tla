------------------------------- MODULE CbQueue -------------------------------
(***************************************************************************)
(* The ring buffer between a producer and a consumer that run concurrently *)
(* without a lock: "cannot write cb->tail" for one, "cannot write          *)
(* cb->head" for the other (circularbuffer.c:101-104, 188-191).  Each side *)
(* loads the index of the other once, copies bytes in one or two parts,    *)
(* and only then moves its own index.                                      *)
(***************************************************************************)
EXTENDS CircularBuffer

CONSTANTS Messages   \* what the producer writes or receives at once

ASSUME CbQueueAssumption == Messages \subseteq Seq(Byte)

VARIABLES
  flags,               \* CB_FLAGS_OVERFLOW is set
  \* The producer:
  wpc,                 \* whether it is writing
  src, copied,         \* what it writes, and how much of it is in the buffer
  newhead,             \* where the next byte goes
  \* The consumer:
  rpc,                 \* whether it is reading or flushing
  todo,                \* how many bytes it has yet to copy
  dst,                 \* what it has copied
  newtail,             \* where it reads the next byte
  taken                \* what its last call returned

producer == <<wpc, src, copied, newhead>>
consumer == <<rpc, todo, dst, newtail, taken>>
vars == <<head, tail, buffer, flags, producer, consumer>>

\* cb_initialise
Init ==
  /\ head = 0 /\ tail = 0
  /\ buffer = [i \in Index |-> Zero]
  /\ flags = FALSE
  /\ wpc = "idle" /\ src = << >> /\ copied = 0 /\ newhead = 0
  /\ rpc = "idle" /\ todo = 0 /\ dst = << >> /\ newtail = 0
  /\ taken = << >>

Smaller(m, n) == IF m < n THEN m ELSE n

-----------------------------------------------------------------------------
(* The producer.                                                           *)

\* cb_write: all of the message fits ...
cb_write(message) ==
  /\ wpc = "idle"
  /\ Len(message) <= cb_free(head, tail)
  /\ wpc' = "writing"
  /\ src' = message
  /\ copied' = 0
  /\ newhead' = head
  /\ UNCHANGED <<head, tail, buffer, flags, consumer>>

\* ... or none of it is written.
Refuse(message) ==
  /\ wpc = "idle"
  /\ Len(message) > cb_free(head, tail)
  /\ flags' = TRUE
  /\ UNCHANGED <<head, tail, buffer, producer, consumer>>

\* Copy up to the end of the buffer or of the message.  The mutated form
\* starts again at the first byte of the message.
CopyFirstAgain == SubSeq(src, 1, Smaller(Len(src) - copied, Size - newhead))
CopyPart == SubSeq(src, copied + 1,
                   copied + Smaller(Len(src) - copied, Size - newhead))

CopyIn ==
  /\ wpc = "writing"
  /\ copied < Len(src)
  /\ buffer' = Store(buffer, newhead, CopyPart)
  /\ copied' = copied + Len(CopyPart)
  /\ newhead' = Advance(newhead, Len(CopyPart))
  /\ UNCHANGED <<head, tail, flags, wpc, src, consumer>>

\* A store to the places from head on, by cb_putchar or by the read() of
\* perform_read.
StoreAtHead(message) ==
  /\ wpc' = "writing"
  /\ src' = message
  /\ copied' = Len(message)
  /\ buffer' = Store(buffer, head, message)
  /\ newhead' = Advance(head, Len(message))
  /\ UNCHANGED <<head, tail, flags, consumer>>

\* cb_putchar does not test for room: its caller must have done so.
cb_putchar(byte) ==
  /\ wpc = "idle"
  /\ cb_free(head, tail) # 0
  /\ StoreAtHead(<<byte>>)

\* perform_read: read() stores any number of bytes, up to cb_freeafterhead.
perform_read(message) ==
  /\ wpc = "idle"
  /\ Len(message) \in 1 .. cb_freeafterhead(head, tail)
  /\ StoreAtHead(message)

\* cb->head = newhead, the end of each of them.
PublishHead ==
  /\ wpc = "writing"
  /\ copied = Len(src)
  /\ head' = newhead
  /\ wpc' = "idle"
  /\ src' = << >> /\ copied' = 0 /\ newhead' = 0
  /\ UNCHANGED <<tail, buffer, flags, consumer>>

-----------------------------------------------------------------------------
(* The consumer.                                                           *)

\* cb_read: it returns 0, or as many bytes as there are.
cb_read(len) ==
  /\ rpc = "idle"
  /\ cb_used(head, tail) # 0
  /\ rpc' = "reading"
  /\ todo' = Smaller(len, cb_used(head, tail))
  /\ dst' = << >>
  /\ newtail' = tail
  /\ UNCHANGED <<head, tail, buffer, flags, producer, taken>>

CopyOut ==
  /\ rpc = "reading"
  /\ todo # 0
  /\ LET n == Smaller(todo, Size - newtail)
     IN  /\ dst' = dst \o Bytes(buffer, newtail, n)
         /\ todo' = todo - n
         /\ newtail' = Advance(newtail, n)
  /\ UNCHANGED <<head, tail, buffer, flags, producer, rpc, taken>>

\* A load from the n places from tail on.
LoadAtTail(n) ==
  /\ rpc' = "reading"
  /\ todo' = 0
  /\ dst' = Bytes(buffer, tail, n)
  /\ newtail' = Advance(tail, n)
  /\ UNCHANGED <<head, tail, buffer, flags, producer, taken>>

cb_getchar ==
  /\ rpc = "idle"
  /\ cb_used(head, tail) # 0
  /\ LoadAtTail(1)

\* perform_write: write() takes any number of bytes, up to cb_sizeaftertail.
perform_write(n) ==
  /\ rpc = "idle"
  /\ n \in 1 .. cb_sizeaftertail(head, tail)
  /\ LoadAtTail(n)

\* cb_flush loads head ...
cb_flush ==
  /\ rpc = "idle"
  /\ rpc' = "flushing"
  /\ newtail' = head
  /\ UNCHANGED <<head, tail, buffer, flags, producer, todo, dst, taken>>

\* ... and stores it in tail.
Flush ==
  /\ rpc = "flushing"
  /\ tail' = newtail
  /\ rpc' = "idle"
  /\ newtail' = 0
  /\ UNCHANGED <<head, buffer, flags, producer, todo, dst, taken>>

\* cb->tail = newtail, the end of the others.
PublishTail ==
  /\ rpc = "reading"
  /\ todo = 0
  /\ tail' = newtail
  /\ taken' = dst
  /\ rpc' = "idle"
  /\ dst' = << >> /\ newtail' = 0
  /\ UNCHANGED <<head, buffer, flags, producer, todo>>

-----------------------------------------------------------------------------
Produce ==
  \/ \E message \in Messages :
       cb_write(message) \/ Refuse(message) \/ perform_read(message)
  \/ \E byte \in Byte : cb_putchar(byte)
  \/ CopyIn \/ PublishHead

Consume ==
  \/ \E len \in 1 .. cb_capacity : cb_read(len) \/ perform_write(len)
  \/ cb_getchar \/ cb_flush
  \/ CopyOut \/ PublishTail \/ Flush

Next == Produce \/ Consume

Spec == Init /\ [][Next]_vars

-----------------------------------------------------------------------------
TypeOK ==
  /\ head \in Index /\ tail \in Index
  /\ buffer \in Buffer
  /\ flags \in BOOLEAN
  /\ wpc \in {"idle", "writing"}
  /\ src \in Seq(Byte)
  /\ copied \in 0 .. Len(src)
  /\ newhead \in Index
  /\ rpc \in {"idle", "reading", "flushing"}
  /\ todo \in Nat
  /\ dst \in Seq(Byte)
  /\ newtail \in Index
  /\ taken \in Seq(Byte)

\* There is room at head whenever there is room, and data at tail whenever
\* there is data, and neither goes beyond the end of the buffer: a program
\* that only reads and writes in place never waits for ever
\* (circularbuffer.c:60-75, 158-169).
InPlaceSuffices ==
  /\ cb_freeafterhead(head, tail) = 0 <=> cb_free(head, tail) = 0
  /\ cb_freeafterhead(head, tail) <= cb_free(head, tail)
  /\ head + cb_freeafterhead(head, tail) <= Size
  /\ cb_sizeaftertail(head, tail) = 0 <=> cb_used(head, tail) = 0
  /\ cb_sizeaftertail(head, tail) <= cb_used(head, tail)
  /\ tail + cb_sizeaftertail(head, tail) <= Size

\* The two sides share no place: what the producer may overwrite holds no
\* byte the consumer has yet to copy (circularbuffer.c:105-156, 192-244).
Writes == {Advance(newhead, i) : i \in 0 .. Len(src) - copied - 1}
Reads  == {Advance(newtail, i) : i \in 0 .. todo - 1}

NoOverlap ==
  wpc = "writing" /\ rpc = "reading" => Writes \cap Reads = {}

\* The ring buffer implements the queue: bytes come out once, in order, and
\* unchanged, whatever the two sides do meanwhile.
Queue == INSTANCE ByteQueue
           WITH Messages <- Messages \cup {<<byte>> : byte \in Byte},
                Capacity <- cb_capacity,
                offered <- src,
                queue <- Content(buffer, head, tail)
QueueSpec == Queue!Spec
=============================================================================

-------------------------------- MODULE Usc --------------------------------
(***************************************************************************)
(* The serial receiver of the clock firmware (ledclocksw/usc.c) and the    *)
(* part of the main loop that consumes its lines (ledclocksw/main.c).      *)
(*                                                                         *)
(* The receive interrupt writes the bytes of a line into one of two line   *)
(* buffers; at the end of the line it terminates the string, swaps the     *)
(* buffers and raises HWUART_HASRECEIVED.  The main loop polls that flag,  *)
(* clears it, takes the buffer the interrupt is not writing and parses it  *)
(* in place, without a lock.  Interrupts do not nest, so one interrupt is  *)
(* one step; the main loop can be interrupted between any two of its.      *)
(***************************************************************************)
EXTENDS Naturals, Sequences

CONSTANTS
  LastPos,     \* the last index of a line buffer: 27 in the firmware
  Chars,       \* the payload bytes
  Eol,         \* '\r' and '\n', which the code does not tell apart
  Nul,         \* the byte that terminates a C string
  PowerUp,     \* what a line buffer may hold when the program starts
  ParseBytes,  \* how many bytes can arrive while the main loop parses a line
  MaxWire      \* bound on the length of a line, for model checking

Byte == Chars \cup {Nul}
Buffers == {"a", "b"}
Content == [0 .. LastPos -> Byte]

ASSUME UscAssumption ==
  /\ LastPos \in Nat \ {0}
  /\ Eol \notin Byte
  /\ Nul \notin Chars
  /\ PowerUp \subseteq Content
  /\ ParseBytes \in Nat
  /\ MaxWire \in Nat

VARIABLES
  hwuart_flags,    \* HWUART_HASRECEIVED is set
  hwuart_pos,      \* where the next byte goes
  hwuart_linebuf,  \* the buffer the interrupt writes
  linebuf,         \* the contents of hwuart_linebuf_a and hwuart_linebuf_b
  pc,              \* where the main loop is
  lb,              \* the buffer the main loop took
  arrived,         \* bytes received since then
  \* History variables, read by no action of the firmware:
  wire,            \* the bytes received since the last end of line
  newest,          \* the string of the last line that was completed
  fetches,         \* how often the main loop has fetched it
  got              \* the string the main loop fetched last

isr  == <<hwuart_pos, hwuart_linebuf, linebuf>>
main == <<pc, lb>>
vars == <<hwuart_flags, isr, main, arrived, wire, newest, fetches, got>>

\* The C string at the start of a buffer.
CString(buf) ==
  LET len == CHOOSE n \in 0 .. LastPos + 1 :
               /\ \A i \in 0 .. n - 1 : buf[i] # Nul
               /\ n <= LastPos => buf[n] = Nul
  IN  [i \in 1 .. len |-> buf[i - 1]]

\* The buffer that is not buf.  The mutated form always answers "b".
StuckOther(buf) == "b"
Other(buf) == IF buf = "b" THEN "a" ELSE "b"

-----------------------------------------------------------------------------
(* startup.S jumps to main without clearing RAM, and hwuart_init sets only *)
(* hwuart_linebuf and hwuart_pos: the flag and the buffers start with      *)
(* whatever the RAM holds.                                                 *)

hwuart_init ==
  /\ hwuart_linebuf = "a"
  /\ hwuart_pos = 0

Init ==
  /\ hwuart_init
  /\ hwuart_flags \in BOOLEAN
  /\ linebuf \in [Buffers -> PowerUp]
  /\ pc = "poll"
  /\ lb = "b"
  /\ arrived = 0
  /\ wire = << >>
  /\ newest = CString(linebuf["b"])
  /\ fetches = IF hwuart_flags THEN 0 ELSE 2
  /\ got = << >>

-----------------------------------------------------------------------------
(* USCI0RX_ISR, one definition per path through it.                        *)

Write(byte) ==
  linebuf' = [linebuf EXCEPT ![hwuart_linebuf][hwuart_pos] = byte]

\* hwuart_linebuf[hwuart_pos] = '\0'
Unterminated == UNCHANGED linebuf
Terminate == Write(Nul)

NoSwap == UNCHANGED hwuart_linebuf
SwapBuffers == hwuart_linebuf' = Other(hwuart_linebuf)

SilentEol == UNCHANGED hwuart_flags
RaiseFlag == hwuart_flags' = TRUE

\* The end of a line that has at least one byte.
CompleteLine(byte) ==
  /\ byte = Eol
  /\ hwuart_pos \in 1 .. LastPos
  /\ Terminate
  /\ SwapBuffers
  /\ hwuart_pos' = 0
  /\ RaiseFlag
  /\ newest' = CString(linebuf'[hwuart_linebuf])
  /\ fetches' = 0

\* The end of an empty line, as between '\r' and '\n'.
SkipEol(byte) ==
  /\ byte = Eol
  /\ hwuart_pos = 0
  /\ UNCHANGED <<hwuart_flags, isr, newest, fetches>>

\* hwuart_pos <= 27.
Room == hwuart_pos <= LastPos

StoreByte(byte) ==
  /\ byte # Eol
  /\ Room
  /\ Write(byte)
  /\ hwuart_pos' = hwuart_pos + 1
  /\ UNCHANGED <<hwuart_flags, hwuart_linebuf, newest, fetches>>

\* The buffer is full: the byte is dropped, an end of line too, and the
\* next byte starts a line.  The mutated form counts the byte that it drops.
RestartAtOne == hwuart_pos' = 1
RestartLine == hwuart_pos' = 0

DropByte(byte) ==
  /\ ~Room
  /\ RestartLine
  /\ UNCHANGED <<hwuart_flags, hwuart_linebuf, linebuf, newest, fetches>>

\* A byte arrives.  ParseBytes is the timing assumption: at 9600 baud a byte
\* takes 1.04 ms, more than the main loop needs to parse a line.
USCI0RX_ISR(byte) ==
  /\ pc = "parse" => arrived < ParseBytes
  /\ byte # Eol => Len(wire) < MaxWire
  /\ \/ CompleteLine(byte)
     \/ SkipEol(byte)
     \/ StoreByte(byte)
     \/ DropByte(byte)
  /\ wire' = IF byte = Eol THEN << >> ELSE Append(wire, byte)
  /\ arrived' = IF pc = "parse" THEN arrived + 1 ELSE arrived
  /\ UNCHANGED <<main, got>>

-----------------------------------------------------------------------------
(* The main loop.  What it does between two polls and without the line     *)
(* buffers is in module LedClock.                                          *)

\* if (hwuart_flags & HWUART_HASRECEIVED)
TestFlag ==
  /\ pc = "poll"
  /\ hwuart_flags
  /\ pc' = "clear"
  /\ UNCHANGED <<hwuart_flags, isr, lb, arrived, wire, newest, fetches, got>>

\* hwuart_flags &= ~HWUART_HASRECEIVED.  No other bit is in use, so the
\* store writes 0 whatever the load saw: the store is the step.
ClearFlag ==
  /\ pc = "clear"
  /\ hwuart_flags' = FALSE
  /\ pc' = "getline"
  /\ UNCHANGED <<isr, lb, arrived, wire, newest, fetches, got>>

\* lb = hwuart_getlinebuf()
GetLine ==
  /\ pc = "getline"
  /\ lb' = Other(hwuart_linebuf)
  /\ got' = CString(linebuf[lb'])
  /\ fetches' = fetches + 1
  /\ arrived' = 0
  /\ pc' = "parse"
  /\ UNCHANGED <<hwuart_flags, isr, wire, newest>>

\* The last read of *lb.
ParseDone ==
  /\ pc = "parse"
  /\ pc' = "poll"
  /\ arrived' = 0
  /\ UNCHANGED <<hwuart_flags, isr, lb, wire, newest, fetches, got>>

Main == TestFlag \/ ClearFlag \/ GetLine \/ ParseDone

Next == Main \/ \E byte \in Chars \cup {Eol} : USCI0RX_ISR(byte)

Spec == Init /\ [][Next]_vars

\* The main loop never sleeps and no interrupt lasts: it keeps running.
FairSpec == Spec /\ WF_vars(Main)

-----------------------------------------------------------------------------
TypeOK ==
  /\ hwuart_flags \in BOOLEAN
  /\ hwuart_pos \in 0 .. LastPos + 1
  /\ hwuart_linebuf \in Buffers
  /\ linebuf \in [Buffers -> Content]
  /\ pc \in {"poll", "clear", "getline", "parse"}
  /\ lb \in Buffers
  /\ arrived \in Nat
  /\ wire \in Seq(Chars)
  /\ newest \in Seq(Chars)
  /\ fetches \in 0 .. 2
  /\ got \in Seq(Chars)

\* The buffer the interrupt is not writing holds the newest line, whole:
\* no byte of the line that follows reaches it (usc.c:47-53).
NewestIntact == CString(linebuf[Other(hwuart_linebuf)]) = newest

\* While the main loop parses a line in place, the line does not change
\* under it, although the interrupt may finish the next line and swap the
\* buffers meanwhile (main.c:183-190 against usc.c:44-61).
NoTornRead == pc = "parse" => CString(linebuf[lb]) = got

\* A line that has not been fetched is still announced, or about to be
\* fetched: clearing the flag before taking the buffer loses no line that
\* is not replaced by a newer one (main.c:182-183).
UnreadIsAnnounced == fetches = 0 => hwuart_flags \/ pc = "getline"

\* A line that fits is received exactly as it was sent, whatever came
\* before it on the wire: overlong lines, empty lines or a reset
\* (usc.c:44-64).
FittingLineIsDelivered ==
  [][wire # << >> /\ wire' = << >> /\ Len(wire) <= LastPos
       => newest' = wire /\ fetches' = 0]_vars

\* The newest line is fetched in the end (main.c:178-183).
LineIsFetched == fetches = 0 ~> fetches # 0

\* The receiver and its poll implement the mailbox for one line.
Mailbox == INSTANCE LineMailbox
             WITH Lines <- {l \in Seq(Chars) : Len(l) \in 1 .. LastPos}
MailboxSpec == Mailbox!Spec
=============================================================================

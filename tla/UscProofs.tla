----------------------------- MODULE UscProofs -----------------------------
(***************************************************************************)
(* Proofs about module Usc.  All but the torn-read theorem hold for every  *)
(* value of the constants; that one needs the timing assumption that at    *)
(* most one byte arrives while a line is parsed.                           *)
(***************************************************************************)
EXTENDS Usc, TLAPS, SequenceTheorems, WellFoundedInduction

-----------------------------------------------------------------------------
(* C strings.                                                              *)

\* A set of naturals that is not empty has a least element.
LEMMA LeastNat ==
  ASSUME NEW T, T \subseteq Nat, T # {}
  PROVE  \E x \in T : \A y \in T : x <= y
<1> DEFINE R == {ss \in Nat \X Nat : ss[1] < ss[2]}
<1>0. OpToRel(<, Nat) = R
  BY Zenon DEF OpToRel
<1>1. IsWellFoundedOn(R, Nat)
  BY <1>0, NatLessThanWellFounded, Zenon
<1>2. PICK x \in T : \A y \in T : ~ (<<y, x>> \in R)
  <2> HIDE DEF R
  <2>. QED BY <1>1, WFMin, Zenon
<1>3. \A y \in T : x <= y
  <2>1. SUFFICES ASSUME NEW y \in T
                 PROVE  ~ (y < x)
    OBVIOUS
  <2>2. <<y, x>> \in Nat \X Nat
    OBVIOUS
  <2>3. y < x => <<y, x>> \in R
    BY <2>2
  <2>. QED BY <1>2, <2>3
<1>. QED BY <1>3

\* The bytes before the first Nul of a buffer are its string.
LEMMA CStringIs ==
  ASSUME NEW buf \in Content, NEW p \in 0 .. LastPos + 1,
         \A i \in 0 .. p - 1 : buf[i] # Nul,
         p <= LastPos => buf[p] = Nul
  PROVE  CString(buf) = [i \in 1 .. p |-> buf[i - 1]]
<1> DEFINE IsLen(n) == /\ \A i \in 0 .. n - 1 : buf[i] # Nul
                       /\ n <= LastPos => buf[n] = Nul
<1>1. ASSUME NEW n \in 0 .. LastPos + 1, IsLen(n)
      PROVE  n = p
  BY <1>1, UscAssumption
<1>2. IsLen(p)
  OBVIOUS
<1> HIDE DEF IsLen
<1>3. (CHOOSE n \in 0 .. LastPos + 1 : IsLen(n)) = p
  BY <1>1, <1>2
<1>. QED BY <1>3, Zenon DEF CString, IsLen

\* Every buffer holds a string of payload bytes, terminated or not.
LEMMA CStringType ==
  ASSUME NEW buf \in Content
  PROVE  CString(buf) \in Seq(Chars)
<1> DEFINE T == {n \in 0 .. LastPos + 1 : n <= LastPos => buf[n] = Nul}
<1>1. LastPos + 1 \in T /\ T \subseteq Nat
  BY UscAssumption
<1>2. PICK p \in T : \A n \in T : p <= n
  <2> HIDE DEF T
  <2>. QED BY <1>1, LeastNat
<1>3. p \in 0 .. LastPos + 1 /\ (p <= LastPos => buf[p] = Nul)
  OBVIOUS
<1>4. \A i \in 0 .. p - 1 : buf[i] # Nul
  BY <1>2, UscAssumption
<1>5. CString(buf) = [i \in 1 .. p |-> buf[i - 1]]
  BY <1>3, <1>4, CStringIs
<1>6. \A i \in 1 .. p : buf[i - 1] \in Chars
  BY <1>3, <1>4, UscAssumption DEF Content, Byte
<1>. QED BY <1>3, <1>5, <1>6, IsASeq, UscAssumption

-----------------------------------------------------------------------------
(* The inductive invariant.                                                *)

\* The bytes stored so far are payload, and as long as they fit they are
\* the bytes on the wire: pos and wire restart together.
LineSoFar ==
  /\ \A i \in 0 .. hwuart_pos - 1 : linebuf[hwuart_linebuf][i] \in Chars
  /\ Len(wire) <= LastPos =>
       /\ hwuart_pos = Len(wire)
       /\ \A i \in 1 .. hwuart_pos : linebuf[hwuart_linebuf][i - 1] = wire[i]

\* How the flag and the place of the main loop bound the number of times
\* the newest line has been fetched.
FetchCount ==
  /\ pc = "clear" => hwuart_flags
  /\ hwuart_flags => fetches <= 1
  /\ pc = "getline" => fetches <= 1
  /\ pc = "getline" /\ hwuart_flags => fetches = 0

IInv == TypeOK /\ NewestIntact /\ UnreadIsAnnounced /\ LineSoFar /\ FetchCount

LEMMA InitIInv == Init => IInv
<1> SUFFICES ASSUME Init
             PROVE  IInv
  OBVIOUS
<1> USE UscAssumption DEF Init, hwuart_init
<1>1. linebuf \in [Buffers -> Content]
  OBVIOUS
<1>2. Other(hwuart_linebuf) = "b"
  BY DEF Other
<1>3. newest \in Seq(Chars)
  BY <1>1, CStringType DEF Buffers
<1>4. TypeOK
  BY <1>1, <1>3 DEF TypeOK, Buffers
<1>5. NewestIntact
  BY <1>2 DEF NewestIntact
<1>6. UnreadIsAnnounced /\ LineSoFar /\ FetchCount
  BY DEF UnreadIsAnnounced, LineSoFar, FetchCount
<1>. QED BY <1>4, <1>5, <1>6 DEF IInv

\* What a completed line does to the buffers.
LEMMA CompleteLineEffect ==
  ASSUME IInv, NEW byte, CompleteLine(byte)
  PROVE  /\ linebuf' \in [Buffers -> Content]
         /\ newest' = [i \in 1 .. hwuart_pos |->
                        linebuf[hwuart_linebuf][i - 1]]
         /\ newest' \in Seq(Chars)
         /\ Len(newest') = hwuart_pos
         /\ CString(linebuf'[hwuart_linebuf]) = newest'
<1> USE UscAssumption
<1> DEFINE buf == linebuf'[hwuart_linebuf]
<1>1. /\ hwuart_pos \in 1 .. LastPos
      /\ linebuf \in [Buffers -> Content]
      /\ hwuart_linebuf \in Buffers
      /\ linebuf' = [linebuf EXCEPT ![hwuart_linebuf][hwuart_pos] = Nul]
      /\ newest' = CString(buf)
  BY DEF IInv, TypeOK, CompleteLine, Terminate, Write
<1>2. /\ linebuf' \in [Buffers -> Content]
      /\ buf \in Content
      /\ buf[hwuart_pos] = Nul
      /\ \A i \in 0 .. hwuart_pos - 1 : buf[i] = linebuf[hwuart_linebuf][i]
  BY <1>1 DEF Content, Byte
<1>3. \A i \in 0 .. hwuart_pos - 1 : linebuf[hwuart_linebuf][i] \in Chars
  BY DEF IInv, LineSoFar
<1>4. \A i \in 0 .. hwuart_pos - 1 : buf[i] # Nul
  BY <1>2, <1>3
<1>5. CString(buf) = [i \in 1 .. hwuart_pos |-> buf[i - 1]]
  <2>1. hwuart_pos \in 0 .. LastPos + 1
    BY <1>1
  <2> HIDE DEF buf
  <2>. QED BY <1>2, <1>4, <2>1, CStringIs
<1>6. \A i \in 1 .. hwuart_pos : buf[i - 1] = linebuf[hwuart_linebuf][i - 1]
  BY <1>1, <1>2
<1>7. newest' = [i \in 1 .. hwuart_pos |-> linebuf[hwuart_linebuf][i - 1]]
  BY <1>1, <1>5, <1>6
<1>8. \A i \in 1 .. hwuart_pos : linebuf[hwuart_linebuf][i - 1] \in Chars
  BY <1>1, <1>3
<1>9. newest' \in Seq(Chars) /\ Len(newest') = hwuart_pos
  <2>1. hwuart_pos \in Nat
    BY <1>1
  <2>. QED BY <1>7, <1>8, <2>1, IsASeq
<1>. QED BY <1>1, <1>2, <1>7, <1>9

\* One step per path through the interrupt, one per step of the main loop.
LEMMA NextIInv == IInv /\ [Next]_vars => IInv'
<1> SUFFICES ASSUME IInv, [Next]_vars
             PROVE  IInv'
  OBVIOUS
<1> USE UscAssumption
<1>1. ASSUME NEW byte \in Chars \cup {Eol}, USCI0RX_ISR(byte)
      PROVE  IInv'
  <2>0. /\ TypeOK
        /\ UNCHANGED <<pc, lb, got>>
        /\ wire' = IF byte = Eol THEN << >> ELSE Append(wire, byte)
        /\ arrived' \in Nat
    BY <1>1 DEF IInv, TypeOK, USCI0RX_ISR, main
  <2>1. CASE CompleteLine(byte)
    <3>1. /\ linebuf' \in [Buffers -> Content]
          /\ newest' \in Seq(Chars)
          /\ CString(linebuf'[hwuart_linebuf]) = newest'
      BY <2>1, CompleteLineEffect
    <3>2. /\ byte = Eol
          /\ hwuart_linebuf' = Other(hwuart_linebuf)
          /\ Other(hwuart_linebuf') = hwuart_linebuf
          /\ hwuart_linebuf' \in Buffers
          /\ hwuart_pos' = 0
          /\ hwuart_flags' = TRUE
          /\ fetches' = 0
      BY <2>0, <2>1
      DEF TypeOK, CompleteLine, SwapBuffers, RaiseFlag, Other, Buffers
    <3>3. TypeOK'
      BY <2>0, <3>1, <3>2 DEF TypeOK
    <3>4. NewestIntact'
      BY <3>1, <3>2 DEF NewestIntact
    <3>5. UnreadIsAnnounced' /\ LineSoFar' /\ FetchCount'
      BY <2>0, <3>2 DEF UnreadIsAnnounced, LineSoFar, FetchCount
    <3>. QED BY <3>3, <3>4, <3>5 DEF IInv
  <2>2. CASE SkipEol(byte)
    <3>1. TypeOK'
      BY <2>0, <2>2 DEF TypeOK, SkipEol, isr
    <3>2. NewestIntact'
      BY <2>2 DEF IInv, NewestIntact, SkipEol, isr
    <3>3. UnreadIsAnnounced' /\ LineSoFar' /\ FetchCount'
      BY <2>0, <2>2
      DEF IInv, UnreadIsAnnounced, LineSoFar, FetchCount, SkipEol, isr
    <3>. QED BY <3>1, <3>2, <3>3 DEF IInv
  <2>3. CASE StoreByte(byte)
    <3>1. /\ byte \in Chars
          /\ hwuart_pos \in 0 .. LastPos
          /\ hwuart_pos' = hwuart_pos + 1
          /\ linebuf' = [linebuf EXCEPT
                           ![hwuart_linebuf][hwuart_pos] = byte]
          /\ wire' = Append(wire, byte)
          /\ UNCHANGED <<hwuart_flags, hwuart_linebuf, newest, fetches>>
      BY <1>1, <2>0, <2>3 DEF StoreByte, Room, Write, TypeOK
    <3>2. linebuf' \in [Buffers -> Content]
      BY <2>0, <3>1 DEF TypeOK, Content, Byte
    <3>3. wire' \in Seq(Chars) /\ Len(wire') = Len(wire) + 1
      BY <2>0, <3>1 DEF TypeOK
    <3>4. TypeOK'
      BY <2>0, <3>1, <3>2, <3>3 DEF TypeOK
    <3>5. NewestIntact'
      <4>1. Other(hwuart_linebuf) # hwuart_linebuf
        BY <2>0 DEF TypeOK, Other, Buffers
      <4>2. linebuf'[Other(hwuart_linebuf)] = linebuf[Other(hwuart_linebuf)]
        BY <2>0, <3>1, <4>1 DEF TypeOK, Other, Buffers
      <4>. QED BY <3>1, <4>2 DEF IInv, NewestIntact
    <3>6. LineSoFar'
      <4> DEFINE old == linebuf[hwuart_linebuf]
                 new == linebuf'[hwuart_linebuf]
      <4>1. /\ new[hwuart_pos] = byte
            /\ \A i \in 0 .. hwuart_pos - 1 : new[i] = old[i]
        BY <2>0, <3>1 DEF TypeOK, Content
      <4>2. \A i \in 0 .. hwuart_pos' - 1 : new[i] \in Chars
        BY <3>1, <4>1 DEF IInv, LineSoFar
      <4>3. ASSUME Len(wire') <= LastPos
            PROVE  /\ hwuart_pos' = Len(wire')
                   /\ \A i \in 1 .. hwuart_pos' : new[i - 1] = wire'[i]
        <5>1. /\ hwuart_pos = Len(wire)
              /\ \A i \in 1 .. hwuart_pos : old[i - 1] = wire[i]
          BY <2>0, <3>3, <4>3 DEF TypeOK, IInv, LineSoFar
        <5>2. /\ wire'[hwuart_pos + 1] = byte
              /\ \A i \in 1 .. hwuart_pos : wire'[i] = wire[i]
          BY <2>0, <3>1, <5>1 DEF TypeOK
        <5>. QED BY <3>1, <3>3, <4>1, <5>1, <5>2
      <4>. QED BY <3>1, <4>2, <4>3 DEF LineSoFar
    <3>7. UnreadIsAnnounced' /\ FetchCount'
      BY <2>0, <3>1 DEF IInv, UnreadIsAnnounced, FetchCount
    <3>. QED BY <3>4, <3>5, <3>6, <3>7 DEF IInv
  <2>4. CASE DropByte(byte)
    <3>1. /\ hwuart_pos = LastPos + 1
          /\ hwuart_pos' = 0
          /\ UNCHANGED <<hwuart_flags, hwuart_linebuf, linebuf, newest, fetches>>
      BY <2>0, <2>4 DEF DropByte, Room, RestartLine, TypeOK
    <3>2. Len(wire) > LastPos
      BY <2>0, <3>1 DEF IInv, LineSoFar, TypeOK
    <3>3. wire' \in Seq(Chars)
      BY <1>1, <2>0 DEF TypeOK
    <3>4. TypeOK'
      BY <2>0, <3>1, <3>3 DEF TypeOK
    <3>5. NewestIntact'
      BY <3>1 DEF IInv, NewestIntact
    <3>6. LineSoFar'
      <4>1. Len(wire') = 0 \/ Len(wire') > LastPos
        BY <1>1, <2>0, <3>2 DEF TypeOK
      <4>. QED BY <3>1, <4>1 DEF LineSoFar
    <3>7. UnreadIsAnnounced' /\ FetchCount'
      BY <2>0, <3>1 DEF IInv, UnreadIsAnnounced, FetchCount
    <3>. QED BY <3>4, <3>5, <3>6, <3>7 DEF IInv
  <2>. QED BY <1>1, <2>1, <2>2, <2>3, <2>4 DEF USCI0RX_ISR
<1>2. CASE TestFlag
  <2> USE <1>2 DEF TestFlag, isr
  <2>1. TypeOK'
    BY DEF IInv, TypeOK
  <2>. QED
    BY <2>1 DEF IInv, NewestIntact, UnreadIsAnnounced, LineSoFar, FetchCount
<1>3. CASE ClearFlag
  <2> USE <1>3 DEF ClearFlag, isr
  <2>1. TypeOK'
    BY DEF IInv, TypeOK
  <2>. QED
    BY <2>1 DEF IInv, NewestIntact, UnreadIsAnnounced, LineSoFar, FetchCount
<1>4. CASE GetLine
  <2>1. /\ lb' = Other(hwuart_linebuf)
        /\ lb' \in Buffers
        /\ got' = CString(linebuf[lb'])
        /\ fetches' = fetches + 1
        /\ fetches' \in 1 .. 2
        /\ arrived' = 0
        /\ pc = "getline" /\ pc' = "parse"
        /\ UNCHANGED <<hwuart_flags, hwuart_pos, hwuart_linebuf, linebuf, wire,
                       newest>>
    BY <1>4 DEF GetLine, isr, IInv, TypeOK, FetchCount, Other, Buffers
  <2>2. got' \in Seq(Chars)
    BY <2>1, CStringType DEF IInv, TypeOK
  <2>3. TypeOK'
    BY <2>1, <2>2 DEF IInv, TypeOK
  <2>4. NewestIntact' /\ LineSoFar'
    BY <2>1 DEF IInv, NewestIntact, LineSoFar
  <2>5. UnreadIsAnnounced' /\ FetchCount'
    BY <2>1 DEF IInv, TypeOK, UnreadIsAnnounced, FetchCount
  <2>. QED BY <2>3, <2>4, <2>5 DEF IInv
<1>5. CASE ParseDone
  <2> USE <1>5 DEF ParseDone, isr
  <2>1. TypeOK'
    BY DEF IInv, TypeOK
  <2>. QED
    BY <2>1 DEF IInv, NewestIntact, UnreadIsAnnounced, LineSoFar, FetchCount
<1>6. CASE UNCHANGED vars
  BY <1>6 DEF vars, isr, main, IInv, TypeOK, NewestIntact, UnreadIsAnnounced,
              LineSoFar, FetchCount
<1>. QED BY <1>1, <1>2, <1>3, <1>4, <1>5, <1>6 DEF Next, Main

LEMMA IInvInvariant == Spec => []IInv
BY InitIInv, NextIInv, PTL DEF Spec

-----------------------------------------------------------------------------
(* The properties.                                                         *)

\* Every variable keeps its type; in particular hwuart_pos never leaves
\* 0 .. LastPos + 1, so the interrupt writes inside its buffer.
THEOREM TypeCorrect == Spec => []TypeOK
BY IInvInvariant, PTL DEF IInv

\* The buffer the interrupt is not writing always holds the newest line.
THEOREM NewestStaysIntact == Spec => []NewestIntact
BY IInvInvariant, PTL DEF IInv

\* A line that has not been fetched is announced or about to be fetched.
THEOREM UnreadStaysAnnounced == Spec => []UnreadIsAnnounced
BY IInvInvariant, PTL DEF IInv

\* The main loop parses a buffer that the interrupt can only start to
\* write after another byte has arrived.
ParsesBackground == pc = "parse" /\ arrived = 0 => lb # hwuart_linebuf

\* If at most one byte arrives while a line is parsed, the line does not
\* change under the main loop.
THEOREM LineIsNotTorn ==
  ASSUME ParseBytes <= 1
  PROVE  Spec => []NoTornRead
<1> DEFINE TInv == IInv /\ ParsesBackground /\ NoTornRead
<1>1. Init => TInv
  BY InitIInv DEF Init, ParsesBackground, NoTornRead
<1>2. TInv /\ [Next]_vars => TInv'
  <2> SUFFICES ASSUME TInv, [Next]_vars
               PROVE  ParsesBackground' /\ NoTornRead'
    BY NextIInv
  <2> USE UscAssumption
  <2>1. ASSUME NEW byte \in Chars \cup {Eol}, USCI0RX_ISR(byte)
        PROVE  ParsesBackground' /\ NoTornRead'
    <3>1. CASE pc = "parse"
      <4>1. /\ arrived = 0 /\ arrived' = 1
            /\ lb # hwuart_linebuf
            /\ UNCHANGED <<pc, lb, got>>
        BY <2>1, <3>1
        DEF IInv, TypeOK, USCI0RX_ISR, ParsesBackground, main
      <4>2. linebuf'[lb] = linebuf[lb]
        <5>1. \A b \in Byte :
                [linebuf EXCEPT ![hwuart_linebuf][hwuart_pos] = b][lb]
                  = linebuf[lb]
          BY <4>1 DEF IInv, TypeOK
        <5>2. CASE CompleteLine(byte)
          BY <5>1, <5>2 DEF CompleteLine, Terminate, Write, Byte
        <5>3. CASE StoreByte(byte)
          BY <2>1, <5>1, <5>3 DEF StoreByte, Write, Byte
        <5>4. CASE SkipEol(byte) \/ DropByte(byte)
          BY <5>4 DEF SkipEol, DropByte, isr
        <5>. QED BY <2>1, <5>2, <5>3, <5>4 DEF USCI0RX_ISR
      <4>. QED BY <4>1, <4>2 DEF ParsesBackground, NoTornRead
    <3>2. CASE pc # "parse"
      BY <2>1, <3>2 DEF USCI0RX_ISR, main, ParsesBackground, NoTornRead
    <3>. QED BY <3>1, <3>2
  <2>2. CASE GetLine
    BY <2>2 DEF GetLine, isr, Other, Buffers, IInv, TypeOK,
                ParsesBackground, NoTornRead
  <2>3. CASE TestFlag \/ ClearFlag \/ ParseDone
    BY <2>3 DEF TestFlag, ClearFlag, ParseDone, ParsesBackground, NoTornRead
  <2>4. CASE UNCHANGED vars
    BY <2>4 DEF vars, isr, main, ParsesBackground, NoTornRead
  <2>. QED BY <2>1, <2>2, <2>3, <2>4 DEF Next, Main
<1>. QED BY <1>1, <1>2, PTL DEF Spec

\* A completed line that fits is the one that was sent: the inductive
\* invariant relates the buffer to the wire.
LEMMA FittingLineStep ==
  ASSUME IInv, [Next]_vars,
         wire # << >>, wire' = << >>, Len(wire) <= LastPos
  PROVE  newest' = wire /\ fetches' = 0
<1> USE UscAssumption
<1>1. /\ wire \in Seq(Chars)
      /\ hwuart_pos = Len(wire)
      /\ \A i \in 1 .. hwuart_pos : linebuf[hwuart_linebuf][i - 1] = wire[i]
  BY DEF IInv, TypeOK, LineSoFar
<1>2. hwuart_pos \in 1 .. LastPos
  BY <1>1, EmptySeq
<1>3. PICK byte \in Chars \cup {Eol} : USCI0RX_ISR(byte)
  BY DEF Next, Main, vars, isr, main, TestFlag, ClearFlag, GetLine, ParseDone
<1>4. byte = Eol
  BY <1>1, <1>3 DEF USCI0RX_ISR
<1>5. CompleteLine(byte)
  BY <1>2, <1>3, <1>4
  DEF USCI0RX_ISR, SkipEol, StoreByte, DropByte, Room
<1>6. newest' = [i \in 1 .. hwuart_pos |-> linebuf[hwuart_linebuf][i - 1]]
  BY <1>5, CompleteLineEffect
<1>7. newest' = [i \in 1 .. Len(wire) |-> wire[i]]
  BY <1>1, <1>6
<1>8. newest' = wire
  BY <1>1, <1>7
<1>. QED BY <1>5, <1>8 DEF CompleteLine

\* A line that fits is received exactly as it was sent.
THEOREM FittingLineArrives == Spec => FittingLineIsDelivered
<1>1. IInv /\ [Next]_vars =>
        [wire # << >> /\ wire' = << >> /\ Len(wire) <= LastPos
           => newest' = wire /\ fetches' = 0]_vars
  BY FittingLineStep
<1>. QED BY <1>1, IInvInvariant, PTL DEF Spec, FittingLineIsDelivered

-----------------------------------------------------------------------------
(* The receiver implements the mailbox.                                    *)

\* Every step of the receiver is a step of the mailbox or a stutter.
LEMMA MailboxStep == IInv /\ [Next]_vars => [Mailbox!Next]_(Mailbox!vars)
<1> SUFFICES ASSUME IInv, [Next]_vars
             PROVE  [Mailbox!Next]_(Mailbox!vars)
  OBVIOUS
<1>1. ASSUME NEW byte \in Chars \cup {Eol}, USCI0RX_ISR(byte)
      PROVE  [Mailbox!Next]_(Mailbox!vars)
  <2>1. CASE CompleteLine(byte)
    <3>1. newest' \in {l \in Seq(Chars) : Len(l) \in 1 .. LastPos}
      BY <2>1, CompleteLineEffect DEF CompleteLine
    <3>. QED BY <1>1, <2>1, <3>1
         DEF CompleteLine, USCI0RX_ISR, Mailbox!Next, Mailbox!Deliver
  <2>2. CASE SkipEol(byte) \/ StoreByte(byte) \/ DropByte(byte)
    BY <1>1, <2>2
    DEF SkipEol, StoreByte, DropByte, USCI0RX_ISR, Mailbox!vars
  <2>. QED BY <1>1, <2>1, <2>2 DEF USCI0RX_ISR
<1>2. CASE GetLine
  BY <1>2 DEF GetLine, isr, IInv, TypeOK, NewestIntact, FetchCount,
              Mailbox!Next, Mailbox!Fetch
<1>3. CASE TestFlag \/ ClearFlag \/ ParseDone
  BY <1>3 DEF TestFlag, ClearFlag, ParseDone, Mailbox!vars
<1>4. CASE UNCHANGED vars
  BY <1>4 DEF vars, Mailbox!vars
<1>. QED BY <1>1, <1>2, <1>3, <1>4 DEF Next, Main

\* For every buffer size, alphabet and power-up contents, the two buffers
\* and the flag implement a mailbox for one line.
THEOREM ImplementsMailbox == Spec => MailboxSpec
<1>1. Init => Mailbox!Init
  BY DEF Init, Mailbox!Init
<1>. QED BY <1>1, MailboxStep, IInvInvariant, PTL
     DEF Spec, MailboxSpec, Mailbox!Spec
=============================================================================

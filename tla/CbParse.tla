------------------------------- MODULE CbParse -------------------------------
(***************************************************************************)
(* The functions of the ring buffer that look into it and parse it         *)
(* (esp8266simulator/src/circularbuffer.c), called one after the other by  *)
(* a program that fills the buffer with cb_putchar.  A byte is a character *)
(* of a small alphabet: digits of the two bases, signs and blanks are what *)
(* the functions tell apart.                                               *)
(***************************************************************************)
EXTENDS CircularBuffer, Integers

CONSTANTS
  Chars,       \* what is put into the buffer
  WordSize,    \* one more than the largest size_t
  Digits, HexDigits, ValueOf,  \* ValueOf: the value of a digit of either base
  Minus, Plus, Blanks,
  Wildcard,    \* '?', which cb_match takes for any byte
  Patterns     \* what is matched and searched for

ASSUME CbParseAssumption ==
  /\ Chars \subseteq Byte
  /\ WordSize \in Nat \ {0}
  /\ Digits \subseteq HexDigits
  /\ HexDigits \cup {Minus, Plus} \cup Blanks \subseteq Byte
  /\ ValueOf \in [HexDigits -> 0 .. 15] /\ \A d \in Digits : ValueOf[d] < 10
  /\ Patterns \subseteq Seq(Byte \cup {Wildcard}) \ {<< >>}

VARIABLE call     \* the last call: what was called, with what, and its result

parsevars == <<head, tail, buffer, call>>

Text == Content(buffer, head, tail)
Used == cb_used(head, tail)
PeekAt(offs) == cb_peek(buffer, tail, offs)

Result(fn, arg, ret) == call' = [fn |-> fn, arg |-> arg, ret |-> ret]
Skip(n) == tail' = Advance(tail, n) /\ UNCHANGED <<head, buffer>>
Unmoved == UNCHANGED <<head, tail, buffer>>

\* The least and the greatest of a set of numbers, or what to take if there
\* is none.
FirstOf(S, else) == IF S = {} THEN else ELSE CHOOSE x \in S : \A y \in S : x <= y
LastOf(S, else) == IF S = {} THEN else ELSE CHOOSE x \in S : \A y \in S : x >= y

ParseInit ==
  /\ head = 0 /\ tail = 0
  /\ buffer = [i \in Index |-> Zero]
  /\ call = [fn |-> "initialise", arg |-> << >>, ret |-> 0]

-----------------------------------------------------------------------------
(* Single bytes.                                                           *)

\* It does not test for room; its caller must have done so.
Putchar(c) ==
  /\ cb_free(head, tail) # 0
  /\ buffer' = [buffer EXCEPT ![head] = c]
  /\ head' = Advance(head, 1)
  /\ UNCHANGED tail
  /\ Result("putchar", <<c>>, 0)

Getchar ==
  /\ Used # 0
  /\ Skip(1)
  /\ Result("getchar", << >>, PeekAt(0))

\* (tail - 1) % cb->size, in the arithmetic of size_t.  The mutated form
\* does without the modulus.
BackNoModulus(pos) == (pos + WordSize - 1) % WordSize
Back(pos) == ((pos + WordSize - 1) % WordSize) % Size

\* The tail goes back one place, and c is stored there.
PutBack(from, c) ==
  /\ tail' = Back(from)
  /\ buffer' = [i \in Index |-> IF i = tail' THEN c ELSE buffer[i]]
  /\ UNCHANGED head

\* The last byte read is put back.
cb_ungetchar ==
  /\ call.fn = "getchar"
  /\ PutBack(tail, call.ret)
  /\ Result("ungetchar", <<call.ret>>, 0)

-----------------------------------------------------------------------------
(* Sequences of bytes.                                                     *)

\* The loop goes from the last byte of the pattern to the first, stops at one
\* that does not match, and takes a stop at the first for success: the first
\* byte is not compared, other than circularbuffer.h:73 says.
Matches(pattern, i) == pattern[i + 1] \in {PeekAt(i), Wildcard}

cb_match(pattern) ==
  LET stop == LastOf({i \in 0 .. Len(pattern) - 1 : ~Matches(pattern, i)}, 0)
      found == Used >= Len(pattern) /\ stop = 0
  IN  /\ IF found THEN Skip(Len(pattern)) ELSE Unmoved
      /\ Result("match", pattern, found)

\* len is tested after each copy, and before it is decremented: one byte more
\* is copied than circularbuffer.h:85 says.
cb_peek_ex(offs, len) ==
  LET n == IF offs >= Used THEN 0
           ELSE IF len + 1 < Used - offs THEN len + 1 ELSE Used - offs
  IN  /\ Unmoved
      /\ Result("peek_ex", <<offs, len>>,
                Bytes(buffer, Advance(tail, offs), n))

\* The search stops at the first place where the sequence is, or where its
\* first byte is too near the end.  The mutated form stops one place early.
TooNearOffByOne(i, seq) == i + Len(seq) >= Used
TooNear(i, seq) == i + Len(seq) > Used

cb_findbyteseq(seq) ==
  LET Rest(i) == \A j \in 1 .. Len(seq) - 1 : PeekAt(i + j) = seq[j + 1]
      Stops == {i \in 0 .. Used - 1 :
                  PeekAt(i) = seq[1] /\ (TooNear(i, seq) \/ Rest(i))}
      stop == FirstOf(Stops, Used)
  IN  /\ Unmoved
      /\ Result("findbyteseq", seq,
                IF stop = Used \/ TooNear(stop, seq) THEN -1 ELSE stop)

-----------------------------------------------------------------------------
(* Numbers.                                                                *)

\* The first byte of the queue from the i-th on that is not in S.
FirstNot(S, i) ==
  FirstOf({k \in i .. Used : Text[k] \notin S}, Used + 1)

\* The bytes before the stop-th are read, and that one is read and put back.
\* The mutated form keeps it.
ReadAll(stop) == Skip(IF stop <= Used THEN stop ELSE Used)
ReadUpTo(stop) ==
  IF stop <= Used THEN PutBack(Advance(tail, stop), Text[stop])
                  ELSE Skip(Used)

\* The number that the digits from the first-th on are, however large.
NumberOf(first, stop) ==
  LET value[i \in first - 1 .. stop - 1] ==
        IF i = first - 1 THEN 0 ELSE value[i - 1] * 10 + ValueOf[Text[i]]
  IN  value[stop - 1]

cb_atoi ==
  LET start == FirstNot(Blanks, 1)
      signed == start <= Used /\ Text[start] \in {Minus, Plus}
      first == IF signed THEN start + 1 ELSE start
      stop == FirstNot(Digits, first)
  IN  /\ ReadUpTo(stop)
      /\ Result("atoi", << >>,
                IF signed /\ Text[start] = Minus THEN - NumberOf(first, stop)
                                                 ELSE NumberOf(first, stop))

\* Two digits make a byte; one that is left over makes one of its own.
cb_hextob ==
  LET stop == FirstNot(HexDigits, 1)
      digit == [i \in 1 .. stop - 1 |-> ValueOf[Text[i]]]
  IN  /\ ReadUpTo(stop)
      /\ Result("hextob", << >>,
                [k \in 1 .. stop \div 2 |->
                   IF 2 * k < stop THEN 16 * digit[2 * k - 1] + digit[2 * k]
                                   ELSE digit[2 * k - 1]])

-----------------------------------------------------------------------------
ParseNext ==
  \/ \E c \in Chars : Putchar(c)
  \/ Getchar \/ cb_ungetchar
  \/ \E pattern \in Patterns : cb_match(pattern)
  \/ \E seq \in Patterns : cb_findbyteseq(seq)
  \/ \E offs \in 0 .. cb_capacity, len \in 1 .. cb_capacity :
       cb_peek_ex(offs, len)
  \/ cb_atoi \/ cb_hextob

ParseSpec == ParseInit /\ [][ParseNext]_parsevars

-----------------------------------------------------------------------------
Calls(fn) == call'.fn = fn
Suffix(n) == SubSeq(Text, n, Len(Text))

\* The search finds the first place where the sequence is, wherever the
\* buffer wraps, and does not give up too early (circularbuffer.c:246-278).
FindIsFirst ==
  [][\A seq \in Patterns :
       Calls("findbyteseq") /\ call'.arg = seq =>
         LET Places == {i \in 0 .. Used - Len(seq) :
                          SubSeq(Text, i + 1, i + Len(seq)) = seq}
         IN  /\ call'.ret = -1 <=> Places = {}
             /\ call'.ret # -1 => /\ call'.ret \in Places
                                  /\ \A i \in Places : call'.ret <= i]_parsevars

\* What is left of a number of n digits when the last n - i are taken off.
Quotients(number, n) ==
  LET quotient[i \in 0 .. n] == IF i = n THEN number ELSE quotient[i + 1] \div 10
  IN  quotient

\* Blanks, a sign or none, and the digits of the number: all of them, for
\* nothing is left when they are taken off.
IsNumber(text, value) ==
  \E start \in 0 .. Len(text), sign \in 0 .. 1 :
    LET digits == SubSeq(text, start + sign + 1, Len(text))
        left == Quotients(IF value < 0 THEN - value ELSE value, Len(digits))
    IN  /\ start + sign <= Len(text)
        /\ \A i \in 1 .. start : text[i] \in Blanks
        /\ sign = 1 => text[start + 1] \in {Minus, Plus}
        /\ value < 0 => sign = 1 /\ text[start + 1] = Minus
        /\ value > 0 => sign = 0 \/ text[start + 1] = Plus
        /\ left[0] = 0
        /\ \A i \in 1 .. Len(digits) :
             digits[i] \in Digits /\ left[i] % 10 = ValueOf[digits[i]]

\* cb_atoi takes blanks, a sign and the longest row of digits, returns the
\* number that they are, and leaves what follows as it was, although it has
\* read one byte of it (circularbuffer.c:417-442, 389-396).  Where there are no
\* digits it returns 0, and a byte that is none, no blank and no sign is left
\* too, as the comment on the function says (circularbuffer.c:415-416); the
\* header has it that a single value is read then (circularbuffer.h:96-97).
NumberIsTaken ==
  [][Calls("atoi") =>
       \E n \in 0 .. Len(Text) :
         /\ Text' = Suffix(n + 1)
         /\ IsNumber(SubSeq(Text, 1, n), call'.ret)
         /\ n < Len(Text) => Text[n + 1] \notin Digits]_parsevars

\* cb_hextob takes the longest row of hexadecimal digits, two for each byte
\* but perhaps the last, and leaves what follows as it was
\* (circularbuffer.c:464-492).
HexIsTaken ==
  [][Calls("hextob") =>
       LET n == Len(Text) - Len(Text')
           bytes == call'.ret
       IN  /\ Text' = Suffix(n + 1)
           /\ Text' # << >> => Text'[1] \notin HexDigits
           /\ Len(bytes) = (n + 1) \div 2
           /\ \A i \in 1 .. n :
                LET byte == bytes[(i + 1) \div 2]
                IN  ValueOf[Text[i]] =
                      IF i % 2 = 1 /\ i < n THEN byte \div 16
                                            ELSE byte % 16]_parsevars
=============================================================================

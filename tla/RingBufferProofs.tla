--------------------------- MODULE RingBufferProofs ---------------------------
(***************************************************************************)
(* Proofs about the ring buffer of the simulator, for every size and       *)
(* alphabet.  About module CbQueue, for every set of messages: the         *)
(* producer and the consumer never touch the same place, and the ring      *)
(* buffer implements the queue of module ByteQueue.  About module CbParse: *)
(* what is searched is found where it is first, and a number is taken as a *)
(* whole.                                                                  *)
(***************************************************************************)
EXTENDS CbQueue, CbParse, TLAPS, SequenceTheorems, WellFoundedInduction

-----------------------------------------------------------------------------
(* The arithmetic of the indices.                                          *)

\* A position wraps at most once, since nobody goes further than one round.
LEMMA AdvanceIs ==
  ASSUME NEW p \in Index, NEW n \in 0 .. Size
  PROVE  /\ Advance(p, n) = IF p + n < Size THEN p + n ELSE p + n - Size
         /\ Advance(p, n) \in Index
<1> USE CircularBufferAssumption DEF Index
<1>1. CASE p + n < Size
  <2>1. (p + n) % Size = p + n
    BY <1>1
  <2>. QED BY <1>1, <2>1 DEF Advance
<1>2. CASE p + n >= Size
  <2>1. p + n < 2 * Size
    OBVIOUS
  <2>2. (p + n) % Size = p + n - Size
    BY <1>2, <2>1
  <2>. QED BY <1>2, <2>1, <2>2 DEF Advance
<1>. QED BY <1>1, <1>2

LEMMA AdvanceAdds ==
  ASSUME NEW p \in Index, NEW m \in Nat, NEW n \in Nat, m + n <= Size
  PROVE  Advance(Advance(p, m), n) = Advance(p, m + n)
<1> USE CircularBufferAssumption
<1>1. m \in 0 .. Size /\ n \in 0 .. Size /\ m + n \in 0 .. Size
  OBVIOUS
<1>2. /\ Advance(p, m) = IF p + m < Size THEN p + m ELSE p + m - Size
      /\ Advance(p, m) \in Index
  BY <1>1, AdvanceIs
<1>3. Advance(Advance(p, m), n) =
        IF Advance(p, m) + n < Size THEN Advance(p, m) + n
                                    ELSE Advance(p, m) + n - Size
  BY <1>1, <1>2, AdvanceIs
<1>4. Advance(p, m + n) =
        IF p + (m + n) < Size THEN p + (m + n) ELSE p + (m + n) - Size
  BY <1>1, AdvanceIs
<1>. QED BY <1>1, <1>2, <1>3, <1>4 DEF Index

\* Within one round every position comes once.
LEMMA AdvanceInjective ==
  ASSUME NEW p \in Index, NEW m \in 0 .. Size - 1, NEW n \in 0 .. Size - 1,
         Advance(p, m) = Advance(p, n)
  PROVE  m = n
<1>0. m \in 0 .. Size /\ n \in 0 .. Size
  BY CircularBufferAssumption
<1>1. Advance(p, m) = IF p + m < Size THEN p + m ELSE p + m - Size
  BY <1>0, AdvanceIs
<1>2. Advance(p, n) = IF p + n < Size THEN p + n ELSE p + n - Size
  BY <1>0, AdvanceIs
<1>3. p \in Int /\ m \in Int /\ n \in Int /\ p < Size
  BY CircularBufferAssumption DEF Index
<1>4. (IF p + m < Size THEN p + m ELSE p + m - Size) =
        (IF p + n < Size THEN p + n ELSE p + n - Size)
  BY <1>1, <1>2
<1>5. CASE p + m < Size /\ p + n >= Size
  BY <1>3, <1>4, <1>5, CircularBufferAssumption
<1>6. CASE p + m >= Size /\ p + n < Size
  BY <1>3, <1>4, <1>6, CircularBufferAssumption
<1>7. CASE (p + m < Size) = (p + n < Size)
  BY <1>3, <1>4, <1>7, CircularBufferAssumption
<1>. QED BY <1>3, <1>5, <1>6, <1>7, CircularBufferAssumption

LEMMA AdvanceZero ==
  ASSUME NEW p \in Index
  PROVE  Advance(p, 0) = p
BY AdvanceIs, CircularBufferAssumption DEF Index

\* What is used and what is free is the capacity; the head is where the
\* used bytes end.
LEMMA UsedAndFree ==
  ASSUME NEW h \in Index, NEW t \in Index
  PROVE  /\ cb_used(h, t) \in 0 .. Size - 1
         /\ cb_free(h, t) = Size - 1 - cb_used(h, t)
         /\ cb_free(h, t) \in 0 .. Size - 1
         /\ Advance(t, cb_used(h, t)) = h
<1> USE CircularBufferAssumption
<1>1. cb_used(h, t) \in 0 .. Size - 1
  BY DEF cb_used, Index
<1>2. cb_free(h, t) = Size - 1 - cb_used(h, t)
  BY DEF cb_used, cb_free, Index
<1>3. Advance(t, cb_used(h, t)) =
        IF t + cb_used(h, t) < Size THEN t + cb_used(h, t)
                                    ELSE t + cb_used(h, t) - Size
  BY <1>1, AdvanceIs
<1>4. Advance(t, cb_used(h, t)) = h
  BY <1>3 DEF cb_used, Index
<1>. QED BY <1>1, <1>2, <1>4

\* Moving the head adds to the bytes that are used ...
LEMMA UsedAfterPut ==
  ASSUME NEW h \in Index, NEW t \in Index, NEW n \in 0 .. cb_free(h, t)
  PROVE  cb_used(Advance(h, n), t) = cb_used(h, t) + n
<1> USE CircularBufferAssumption
<1>1. cb_free(h, t) \in 0 .. Size - 1
  BY UsedAndFree
<1>2. Advance(h, n) = IF h + n < Size THEN h + n ELSE h + n - Size
  BY <1>1, AdvanceIs
<1>. QED BY <1>1, <1>2 DEF cb_used, cb_free, Index

\* ... and moving the tail takes from them.
LEMMA UsedAfterTake ==
  ASSUME NEW h \in Index, NEW t \in Index, NEW n \in 0 .. cb_used(h, t)
  PROVE  cb_used(h, Advance(t, n)) = cb_used(h, t) - n
<1> USE CircularBufferAssumption
<1>1. cb_used(h, t) \in 0 .. Size - 1
  BY UsedAndFree
<1>2. Advance(t, n) = IF t + n < Size THEN t + n ELSE t + n - Size
  BY <1>1, AdvanceIs
<1>. QED BY <1>1, <1>2 DEF cb_used, Index

\* No free place is a used one.
LEMMA FreeIsNotUsed ==
  ASSUME NEW h \in Index, NEW t \in Index,
         NEW i \in 0 .. cb_free(h, t) - 1, NEW j \in 0 .. cb_used(h, t) - 1
  PROVE  Advance(h, i) # Advance(t, j)
<1> USE CircularBufferAssumption
<1>1. /\ cb_used(h, t) \in 0 .. Size - 1
      /\ cb_free(h, t) = Size - 1 - cb_used(h, t)
      /\ Advance(t, cb_used(h, t)) = h
  BY UsedAndFree
<1>2. Advance(h, i) = Advance(t, cb_used(h, t) + i)
  <2>1. cb_used(h, t) \in Nat /\ i \in Nat /\ cb_used(h, t) + i <= Size
    BY <1>1
  <2>2. Advance(Advance(t, cb_used(h, t)), i) = Advance(t, cb_used(h, t) + i)
    BY <2>1, AdvanceAdds
  <2>. QED BY <1>1, <2>2
<1>3. cb_used(h, t) + i # j
  BY <1>1
<1>4. cb_used(h, t) + i \in 0 .. Size - 1 /\ j \in 0 .. Size - 1
  BY <1>1
<1>5. SUFFICES ASSUME Advance(t, cb_used(h, t) + i) = Advance(t, j)
               PROVE  FALSE
  BY <1>2
<1>. QED BY <1>3, <1>4, <1>5, AdvanceInjective

\* What can be used in place is within the buffer, within what can be used
\* at all, and there when anything is.
LEMMA InPlaceLemma ==
  ASSUME head \in Index, tail \in Index
  PROVE  InPlaceSuffices
BY CircularBufferAssumption
   DEF InPlaceSuffices, Index, cb_freeafterhead, cb_sizeaftertail, cb_free,
       cb_used

-----------------------------------------------------------------------------
(* The bytes in the buffer.                                                *)

LEMMA BytesType ==
  ASSUME NEW b \in Buffer, NEW p \in Index, NEW n \in 0 .. Size
  PROVE  /\ Bytes(b, p, n) \in Seq(Byte)
         /\ Len(Bytes(b, p, n)) = n
         /\ \A i \in 1 .. n : Bytes(b, p, n)[i] = b[Advance(p, i - 1)]
<1>1. \A i \in 1 .. n : b[Advance(p, i - 1)] \in Byte
  <2> TAKE i \in 1 .. n
  <2>1. i - 1 \in 0 .. Size
    BY CircularBufferAssumption
  <2>2. Advance(p, i - 1) \in Index
    BY <2>1, AdvanceIs
  <2>. QED BY <2>2 DEF Buffer
<1>2. n \in Nat
  BY CircularBufferAssumption
<1>3. Bytes(b, p, n) = [i \in 1 .. n |-> b[Advance(p, i - 1)]]
  BY DEF Bytes, cb_peek
<1>4. Bytes(b, p, n) \in Seq(Byte)
  BY <1>1, <1>2, <1>3, IsASeq
<1>. QED BY <1>2, <1>3, <1>4

LEMMA BytesEqual ==
  ASSUME NEW b \in Buffer, NEW c \in Buffer, NEW p \in Index,
         NEW n \in 0 .. Size,
         \A i \in 0 .. n - 1 : b[Advance(p, i)] = c[Advance(p, i)]
  PROVE  Bytes(b, p, n) = Bytes(c, p, n)
<1>1. \A i \in 1 .. n : b[Advance(p, i - 1)] = c[Advance(p, i - 1)]
  <2> TAKE i \in 1 .. n
  <2>1. i - 1 \in 0 .. n - 1
    BY CircularBufferAssumption
  <2>. QED BY <2>1
<1>. QED BY <1>1 DEF Bytes, cb_peek

LEMMA BytesConcat ==
  ASSUME NEW b \in Buffer, NEW p \in Index, NEW m \in Nat, NEW n \in Nat,
         m + n <= Size
  PROVE  Bytes(b, p, m) \o Bytes(b, Advance(p, m), n) = Bytes(b, p, m + n)
<1> DEFINE s == Bytes(b, p, m)
           t == Bytes(b, Advance(p, m), n)
           u == Bytes(b, p, m + n)
<1>1. /\ m \in 0 .. Size /\ n \in 0 .. Size /\ m + n \in 0 .. Size
      /\ Advance(p, m) \in Index
  BY CircularBufferAssumption, AdvanceIs
<1>2. /\ s \in Seq(Byte) /\ Len(s) = m
      /\ \A i \in 1 .. m : s[i] = b[Advance(p, i - 1)]
  BY <1>1, BytesType
<1>3. /\ t \in Seq(Byte) /\ Len(t) = n
      /\ \A i \in 1 .. n : t[i] = b[Advance(Advance(p, m), i - 1)]
  BY <1>1, BytesType
<1>4. /\ u \in Seq(Byte) /\ Len(u) = m + n
      /\ \A i \in 1 .. m + n : u[i] = b[Advance(p, i - 1)]
  BY <1>1, BytesType
<1> HIDE DEF s, t, u
<1>5. /\ s \o t \in Seq(Byte) /\ Len(s \o t) = m + n
      /\ \A i \in 1 .. m + n :
           (s \o t)[i] = IF i <= m THEN s[i] ELSE t[i - m]
  <2>1. s \o t \in Seq(Byte) /\ Len(s \o t) = Len(s) + Len(t)
    BY <1>2, <1>3, ConcatProperties, Zenon
  <2>2. \A i \in 1 .. Len(s) + Len(t) :
           (s \o t)[i] = IF i <= Len(s) THEN s[i] ELSE t[i - Len(s)]
    BY <1>2, <1>3, ConcatProperties, Zenon
  <2>. QED BY <1>2, <1>3, <2>1, <2>2
<1>6. \A i \in 1 .. m + n : (s \o t)[i] = u[i]
  <2> TAKE i \in 1 .. m + n
  <2>1. CASE i <= m
    <3>1. i \in 1 .. m
      BY <2>1
    <3>2. (s \o t)[i] = s[i]
      BY <2>1, <1>5
    <3>. QED BY <3>1, <3>2, <1>2, <1>4
  <2>2. CASE i > m
    <3>1. i - m \in 1 .. n /\ i - m - 1 \in Nat /\ m + (i - m - 1) <= Size
      BY <2>2, CircularBufferAssumption
    <3>2. Advance(Advance(p, m), i - m - 1) = Advance(p, m + (i - m - 1))
      BY <3>1, AdvanceAdds
    <3>3. m + (i - m - 1) = i - 1
      OBVIOUS
    <3>4. t[i - m] = b[Advance(p, i - 1)]
      BY <3>1, <3>2, <3>3, <1>3
    <3>. QED BY <2>2, <3>4, <1>4, <1>5
  <2>3. i <= m \/ i > m
    OBVIOUS
  <2>. QED BY <2>1, <2>2, <2>3, Zenon
<1>7. s \o t = u
  <2>1. /\ s \o t \in Seq(Byte) /\ u \in Seq(Byte)
        /\ Len(s \o t) = Len(u)
        /\ \A i \in 1 .. Len(s \o t) : (s \o t)[i] = u[i]
    BY <1>4, <1>5, <1>6
  <2>. QED BY <2>1, SeqEqual, Zenon
<1>. QED BY <1>7 DEF s, t, u

\* The same, seen from the whole.
LEMMA BytesSplit ==
  ASSUME NEW b \in Buffer, NEW p \in Index, NEW m \in Nat, NEW n \in Nat,
         m + n <= Size
  PROVE  /\ SubSeq(Bytes(b, p, m + n), 1, m) = Bytes(b, p, m)
         /\ SubSeq(Bytes(b, p, m + n), m + 1, m + n)
              = Bytes(b, Advance(p, m), n)
<1> DEFINE s == Bytes(b, p, m)
           t == Bytes(b, Advance(p, m), n)
           u == Bytes(b, p, m + n)
<1>1. /\ m \in 0 .. Size /\ n \in 0 .. Size /\ m + n \in 0 .. Size
      /\ Advance(p, m) \in Index
  BY CircularBufferAssumption, AdvanceIs
<1>2. s \in Seq(Byte) /\ Len(s) = m /\ t \in Seq(Byte) /\ Len(t) = n
  BY <1>1, BytesType
<1>3. u \in Seq(Byte) /\ Len(u) = m + n
  BY <1>1, BytesType
<1>4. u = s \o t
  BY BytesConcat
<1> HIDE DEF s, t, u
<1>5. /\ \A i \in 1 .. m + n : u[i] = IF i <= m THEN s[i] ELSE t[i - m]
      /\ \A i \in 1 .. m + n : u[i] \in Byte
  BY <1>2, <1>3, <1>4, ConcatProperties, ElementOfSeq
<1>6. SubSeq(u, 1, m) = s
  <2>1. /\ SubSeq(u, 1, m) \in Seq(Byte)
        /\ Len(SubSeq(u, 1, m)) = IF 1 <= m THEN m - 1 + 1 ELSE 0
        /\ \A i \in 1 .. m - 1 + 1 : SubSeq(u, 1, m)[i] = u[1 + i - 1]
    <3>1. \A i \in 1 .. m : u[i] \in Byte
      BY <1>5
    <3>. QED BY <3>1, SubSeqProperties
  <2>2. Len(SubSeq(u, 1, m)) = m /\ \A i \in 1 .. m : SubSeq(u, 1, m)[i] = s[i]
    BY <2>1, <1>5
  <2>. QED BY <2>1, <2>2, <1>2, SeqEqual
<1>7. SubSeq(u, m + 1, m + n) = t
  <2>1. /\ SubSeq(u, m + 1, m + n) \in Seq(Byte)
        /\ Len(SubSeq(u, m + 1, m + n)) =
             IF m + 1 <= m + n THEN m + n - (m + 1) + 1 ELSE 0
        /\ \A i \in 1 .. m + n - (m + 1) + 1 :
             SubSeq(u, m + 1, m + n)[i] = u[m + 1 + i - 1]
    <3>1. \A i \in m + 1 .. m + n : u[i] \in Byte
      BY <1>5
    <3>. QED BY <3>1, SubSeqProperties
  <2>2. /\ Len(SubSeq(u, m + 1, m + n)) = n
        /\ \A i \in 1 .. n : SubSeq(u, m + 1, m + n)[i] = t[i]
    BY <2>1, <1>5
  <2>. QED BY <2>1, <2>2, <1>2, SeqEqual
<1>. QED BY <1>6, <1>7 DEF s, t, u

\* A store to free places, c of them past the head, follows the bytes that
\* were stored there before and leaves the used places alone.
LEMMA StoreToFree ==
  ASSUME NEW b \in Buffer, NEW h \in Index, NEW t \in Index,
         NEW c \in Nat, NEW s \in Seq(Byte),
         c + Len(s) <= cb_free(h, t), Advance(h, c) + Len(s) <= Size
  PROVE  /\ Store(b, Advance(h, c), s) \in Buffer
         /\ \A n \in 0 .. cb_used(h, t) :
              Bytes(Store(b, Advance(h, c), s), t, n) = Bytes(b, t, n)
         /\ Bytes(Store(b, Advance(h, c), s), h, c + Len(s))
              = Bytes(b, h, c) \o s
<1> DEFINE p == Advance(h, c)
           b2 == Store(b, p, s)
<1>1. /\ cb_used(h, t) \in 0 .. Size - 1
      /\ cb_free(h, t) \in 0 .. Size - 1
      /\ cb_free(h, t) = Size - 1 - cb_used(h, t)
  BY UsedAndFree
<1>2. /\ Len(s) \in Nat /\ c + Len(s) < Size
      /\ c \in 0 .. Size /\ Len(s) \in 0 .. Size
      /\ Size \in Nat \ {0}
  BY <1>1, CircularBufferAssumption
<1>3. p \in Index /\ p \in Nat /\ p + Len(s) <= Size
  BY <1>2, AdvanceIs DEF Index
<1>4. \A i \in 0 .. Len(s) - 1 : p + i = Advance(h, c + i)
  <2> TAKE i \in 0 .. Len(s) - 1
  <2>1. i \in Nat /\ i \in 0 .. Size /\ c + i <= Size /\ p + i < Size
    BY <1>2, <1>3
  <2>2. Advance(p, i) = Advance(h, c + i)
    BY <2>1, AdvanceAdds
  <2>. QED BY <1>3, <2>1, <2>2, AdvanceIs
<1>5. b2 = [j \in Index |-> IF j \in p .. p + Len(s) - 1
                            THEN s[j - p + 1] ELSE b[j]]
  BY DEF Store
<1>6. b2 \in Buffer
  <2>1. ASSUME NEW j \in Index, j \in p .. p + Len(s) - 1
        PROVE  s[j - p + 1] \in Byte
    <3>1. j - p + 1 \in 1 .. Len(s)
      BY <2>1, <1>2, <1>3 DEF Index
    <3>. QED BY <3>1, ElementOfSeq
  <2>. QED BY <2>1, <1>5 DEF Buffer
\* A place that is none of those written keeps its byte.
<1>7. ASSUME NEW j \in Index,
             \A i \in 0 .. Len(s) - 1 : Advance(h, c + i) # j
      PROVE  b2[j] = b[j]
  <2>1. j \notin p .. p + Len(s) - 1
    <3>1. SUFFICES ASSUME j \in p .. p + Len(s) - 1 PROVE FALSE
      OBVIOUS
    <3>2. j - p \in 0 .. Len(s) - 1 /\ p + (j - p) = j
      BY <3>1, <1>2, <1>3 DEF Index
    <3>. QED BY <3>2, <1>4, <1>7
  <2>. QED BY <2>1, <1>5
<1> HIDE DEF p, b2
<1>8. ASSUME NEW n \in 0 .. cb_used(h, t)
      PROVE  Bytes(b2, t, n) = Bytes(b, t, n)
  <2>1. \A i \in 0 .. n - 1 : b2[Advance(t, i)] = b[Advance(t, i)]
    <3> TAKE i \in 0 .. n - 1
    <3>1. i \in 0 .. cb_used(h, t) - 1 /\ i \in 0 .. Size
      BY <1>1, <1>2
    <3>2. Advance(t, i) \in Index
      BY <3>1, AdvanceIs
    <3>3. \A k \in 0 .. Len(s) - 1 : Advance(h, c + k) # Advance(t, i)
      <4> TAKE k \in 0 .. Len(s) - 1
      <4>1. c + k \in 0 .. cb_free(h, t) - 1
        BY <1>1, <1>2
      <4>. QED BY <3>1, <4>1, FreeIsNotUsed
    <3>. QED BY <3>2, <3>3, <1>7
  <2>2. n \in 0 .. Size
    BY <1>1, <1>2
  <2>. QED BY <2>1, <2>2, <1>6, BytesEqual
<1>9. Bytes(b2, h, c) = Bytes(b, h, c)
  <2>1. \A i \in 0 .. c - 1 : b2[Advance(h, i)] = b[Advance(h, i)]
    <3> TAKE i \in 0 .. c - 1
    <3>1. i \in 0 .. Size - 1 /\ i \in 0 .. Size
      BY <1>2
    <3>2. Advance(h, i) \in Index
      BY <3>1, AdvanceIs
    <3>3. \A k \in 0 .. Len(s) - 1 : Advance(h, c + k) # Advance(h, i)
      <4> TAKE k \in 0 .. Len(s) - 1
      <4>1. c + k \in 0 .. Size - 1 /\ c + k # i
        BY <1>2
      <4>. QED BY <3>1, <4>1, AdvanceInjective
    <3>. QED BY <3>2, <3>3, <1>7
  <2>. QED BY <2>1, <1>2, <1>6, BytesEqual
<1>10. Bytes(b2, p, Len(s)) = s
  <2>1. /\ Bytes(b2, p, Len(s)) \in Seq(Byte)
        /\ Len(Bytes(b2, p, Len(s))) = Len(s)
        /\ \A i \in 1 .. Len(s) :
             Bytes(b2, p, Len(s))[i] = b2[Advance(p, i - 1)]
    BY <1>2, <1>3, <1>6, BytesType
  <2>2. \A i \in 1 .. Len(s) : b2[Advance(p, i - 1)] = s[i]
    <3> TAKE i \in 1 .. Len(s)
    <3> DEFINE j == p + (i - 1)
    <3>1. /\ i - 1 \in 0 .. Size /\ j < Size
          /\ j \in p .. p + Len(s) - 1
          /\ j \in Index /\ j - p + 1 = i
      BY <1>2, <1>3 DEF Index
    <3>2. Advance(p, i - 1) = j
      BY <3>1, <1>3, AdvanceIs
    <3> HIDE DEF j
    <3>3. b2[j] = s[j - p + 1]
      BY <3>1, <1>5
    <3>. QED BY <3>1, <3>2, <3>3
  <2>. QED BY <2>1, <2>2, SeqEqual
<1>11. Bytes(b2, h, c) \o Bytes(b2, p, Len(s)) = Bytes(b2, h, c + Len(s))
  BY <1>2, <1>6, BytesConcat DEF p
<1>. QED BY <1>6, <1>8, <1>9, <1>10, <1>11 DEF p, b2

-----------------------------------------------------------------------------
(* The inductive invariant.                                                *)

Puts == Messages \cup {<<byte>> : byte \in Byte}

\* What the producer has copied lies from the head on, in places that are
\* free, and the rest of its message fits too.
WInv ==
  wpc = "writing" =>
    /\ src \in Puts
    /\ Len(src) <= cb_free(head, tail)
    /\ newhead = Advance(head, copied)
    /\ Bytes(buffer, head, copied) = SubSeq(src, 1, copied)

\* What the consumer has copied is what lies from the tail on, and what it
\* has yet to copy is there.
RInv ==
  /\ rpc = "reading" =>
       /\ Len(dst) + todo <= cb_used(head, tail)
       /\ newtail = Advance(tail, Len(dst))
       /\ dst = Bytes(buffer, tail, Len(dst))
  /\ rpc = "flushing" =>
       \E n \in 0 .. cb_used(head, tail) : newtail = Advance(tail, n)

IInv == TypeOK /\ WInv /\ RInv

LEMMA PutsType == Puts \subseteq Seq(Byte)
<1>1. ASSUME NEW byte \in Byte PROVE <<byte>> \in Seq(Byte)
  OBVIOUS
<1>. QED BY <1>1, CbQueueAssumption DEF Puts

LEMMA SmallerIs ==
  ASSUME NEW m \in Int, NEW n \in Int
  PROVE  /\ Smaller(m, n) \in {m, n}
         /\ Smaller(m, n) <= m /\ Smaller(m, n) <= n
BY DEF Smaller

\* Both sides keep to their places, so what one does is invisible to the
\* other.  A copy into free places leaves the queue and the bytes that the
\* consumer has copied as they are.
LEMMA FreeCopyKeepsRInv ==
  ASSUME TypeOK, RInv, buffer' \in Buffer,
         UNCHANGED <<head, tail, consumer>>,
         \A n \in 0 .. cb_used(head, tail) :
           Bytes(buffer', tail, n) = Bytes(buffer, tail, n)
  PROVE  RInv'
<1>1. UNCHANGED <<rpc, todo, dst, newtail>>
  BY DEF consumer
<1>2. Len(dst) \in Nat /\ todo \in Nat /\ cb_used(head, tail) \in Nat
  BY UsedAndFree, CircularBufferAssumption DEF TypeOK
<1>3. rpc = "reading" => Len(dst) \in 0 .. cb_used(head, tail)
  BY <1>2 DEF RInv
<1>4. rpc = "reading" =>
        Bytes(buffer', tail, Len(dst)) = Bytes(buffer, tail, Len(dst))
  BY <1>3
<1>. QED BY <1>1, <1>4 DEF RInv

LEMMA InitInv == Init => IInv
<1> SUFFICES ASSUME Init PROVE IInv
  OBVIOUS
<1>1. TypeOK
  BY CircularBufferAssumption DEF Init, TypeOK, Index, Buffer
<1>. QED BY <1>1 DEF Init, IInv, WInv, RInv

\* What CopyPart takes from the message.
LEMMA CopyPartIs ==
  ASSUME TypeOK, copied < Len(src)
  PROVE  /\ CopyPart \in Seq(Byte)
         /\ Len(CopyPart) = Smaller(Len(src) - copied, Size - newhead)
         /\ copied + Len(CopyPart) <= Len(src)
         /\ newhead + Len(CopyPart) <= Size
         /\ SubSeq(src, 1, copied) \o CopyPart
              = SubSeq(src, 1, copied + Len(CopyPart))
<1> DEFINE n == Smaller(Len(src) - copied, Size - newhead)
<1>1. /\ src \in Seq(Byte) /\ Len(src) \in Nat /\ copied \in Nat
      /\ newhead \in Nat /\ Size - newhead \in Nat \ {0}
  BY CircularBufferAssumption DEF TypeOK, Index
<1>2. n \in Nat \ {0} /\ copied + n <= Len(src) /\ newhead + n <= Size
  BY <1>1, CircularBufferAssumption DEF Smaller
<1>3. CopyPart = SubSeq(src, copied + 1, copied + n)
  BY DEF CopyPart
<1> HIDE DEF n
<1>4. /\ CopyPart \in Seq(Byte) /\ Len(CopyPart) = n
  <2>1. \A i \in copied + 1 .. copied + n : src[i] \in Byte
    <3> TAKE i \in copied + 1 .. copied + n
    <3>1. i \in 1 .. Len(src)
      BY <1>1, <1>2
    <3>. QED BY <3>1, <1>1, ElementOfSeq
  <2>2. /\ SubSeq(src, copied + 1, copied + n) \in Seq(Byte)
        /\ Len(SubSeq(src, copied + 1, copied + n)) =
             IF copied + 1 <= copied + n
             THEN copied + n - (copied + 1) + 1 ELSE 0
    BY <1>1, <1>2, <2>1, SubSeqProperties
  <2>. QED BY <1>1, <1>2, <1>3, <2>2
<1>5. SubSeq(src, 1, copied) \o SubSeq(src, copied + 1, copied + n)
        = SubSeq(src, 1, copied + n)
  <2>1. /\ 1 \in 1 .. Len(src) + 1
        /\ copied \in 1 - 1 .. Len(src)
        /\ copied + n \in copied .. Len(src)
    BY <1>1, <1>2
  <2>. QED BY <1>1, <2>1, ConcatAdjacentSubSeq
<1>. QED BY <1>2, <1>3, <1>4, <1>5 DEF n

\* A message stored at the head, where it fits without wrapping.
LEMMA StoreAtHeadKeeps ==
  ASSUME IInv, NEW message \in Puts, StoreAtHead(message),
         Len(message) <= cb_free(head, tail), head + Len(message) <= Size
  PROVE  /\ IInv'
         /\ \A n \in 0 .. cb_used(head, tail) :
              Bytes(buffer', tail, n) = Bytes(buffer, tail, n)
<1> USE DEF IInv
<1>1. /\ head \in Index /\ tail \in Index /\ buffer \in Buffer
      /\ message \in Seq(Byte) /\ Len(message) \in Nat
  BY PutsType DEF TypeOK
<1>2. Advance(head, 0) = head /\ Bytes(buffer, head, 0) = << >>
  BY <1>1, AdvanceZero DEF Bytes
<1>3. /\ buffer' = Store(buffer, head, message)
      /\ buffer' \in Buffer
      /\ \A n \in 0 .. cb_used(head, tail) :
           Bytes(buffer', tail, n) = Bytes(buffer, tail, n)
      /\ Bytes(buffer', head, Len(message)) = message
  <2> DEFINE b2 == Store(buffer, Advance(head, 0), message)
  <2>1. 0 + Len(message) <= cb_free(head, tail)
        /\ Advance(head, 0) + Len(message) <= Size
    BY <1>1, <1>2
  <2>2. /\ b2 \in Buffer
        /\ \A n \in 0 .. cb_used(head, tail) :
             Bytes(b2, tail, n) = Bytes(buffer, tail, n)
        /\ Bytes(b2, head, 0 + Len(message))
             = Bytes(buffer, head, 0) \o message
    BY <1>1, <2>1, StoreToFree
  <2>3. b2 = buffer'
    BY <1>2 DEF StoreAtHead
  <2>4. Bytes(buffer, head, 0) \o message = message
    BY <1>1, <1>2, ConcatEmptySeq
  <2>5. 0 + Len(message) = Len(message)
    BY <1>1
  <2> HIDE DEF b2
  <2>. QED BY <2>2, <2>3, <2>4, <2>5 DEF StoreAtHead
<1>4. Len(message) \in 0 .. Size /\ newhead' \in Index
  <2>1. Len(message) \in 0 .. Size
    BY <1>1, CircularBufferAssumption, UsedAndFree DEF Index
  <2>. QED BY <1>1, <2>1, AdvanceIs DEF StoreAtHead
<1>5. TypeOK'
  BY <1>1, <1>3, <1>4 DEF StoreAtHead, TypeOK, consumer
<1>6. WInv'
  <2>1. SubSeq(message, 1, Len(message)) = message
    BY <1>1, SubSeqFull
  <2>. QED BY <1>1, <1>3, <2>1 DEF StoreAtHead, WInv
<1>7. RInv'
  BY <1>3, FreeCopyKeepsRInv DEF StoreAtHead
<1>. QED BY <1>3, <1>5, <1>6, <1>7

LEMMA CopyInKeeps ==
  ASSUME IInv, CopyIn
  PROVE  /\ IInv'
         /\ \A n \in 0 .. cb_used(head, tail) :
              Bytes(buffer', tail, n) = Bytes(buffer, tail, n)
<1> USE DEF IInv
<1>1. /\ head \in Index /\ tail \in Index /\ buffer \in Buffer
      /\ src \in Seq(Byte) /\ Len(src) \in Nat /\ copied \in Nat
      /\ newhead \in Index /\ Size \in Nat
  BY CircularBufferAssumption DEF TypeOK
<1>2. /\ wpc = "writing" /\ copied < Len(src)
      /\ Len(src) <= cb_free(head, tail)
      /\ newhead = Advance(head, copied)
      /\ Bytes(buffer, head, copied) = SubSeq(src, 1, copied)
  BY DEF CopyIn, WInv
<1>3. /\ CopyPart \in Seq(Byte)
      /\ copied + Len(CopyPart) <= Len(src)
      /\ newhead + Len(CopyPart) <= Size
      /\ SubSeq(src, 1, copied) \o CopyPart
           = SubSeq(src, 1, copied + Len(CopyPart))
  BY <1>2, CopyPartIs
<1>4. Len(CopyPart) \in Nat
  BY <1>3
<1>5. cb_free(head, tail) \in 0 .. Size - 1
  BY <1>1, UsedAndFree
<1>6. /\ buffer' \in Buffer
      /\ \A n \in 0 .. cb_used(head, tail) :
           Bytes(buffer', tail, n) = Bytes(buffer, tail, n)
      /\ Bytes(buffer', head, copied + Len(CopyPart))
           = SubSeq(src, 1, copied + Len(CopyPart))
  <2>1. /\ copied + Len(CopyPart) <= cb_free(head, tail)
        /\ Advance(head, copied) + Len(CopyPart) <= Size
    BY <1>1, <1>2, <1>3, <1>4, <1>5
  <2> DEFINE b2 == Store(buffer, Advance(head, copied), CopyPart)
  <2>2. /\ b2 \in Buffer
        /\ \A n \in 0 .. cb_used(head, tail) :
             Bytes(b2, tail, n) = Bytes(buffer, tail, n)
        /\ Bytes(b2, head, copied + Len(CopyPart))
             = Bytes(buffer, head, copied) \o CopyPart
    BY <1>1, <1>3, <2>1, StoreToFree
  <2>3. b2 = buffer'
    BY <1>2 DEF CopyIn
  <2> HIDE DEF b2
  <2>. QED BY <1>2, <1>3, <2>2, <2>3
<1>7. newhead' = Advance(head, copied + Len(CopyPart)) /\ newhead' \in Index
  <2>1. /\ copied + Len(CopyPart) <= Size
        /\ Len(CopyPart) \in 0 .. Size
    BY <1>1, <1>2, <1>3, <1>4, <1>5
  <2>2. newhead' = Advance(Advance(head, copied), Len(CopyPart))
    BY <1>2 DEF CopyIn
  <2>3. newhead' = Advance(head, copied + Len(CopyPart))
    BY <1>1, <1>4, <2>1, <2>2, AdvanceAdds
  <2>4. newhead' \in Index
    BY <1>1, <2>1, AdvanceIs DEF CopyIn
  <2>. QED BY <2>3, <2>4
<1>8. TypeOK'
  BY <1>1, <1>3, <1>4, <1>6, <1>7 DEF CopyIn, TypeOK, consumer
<1>9. WInv'
  BY <1>2, <1>6, <1>7 DEF CopyIn, WInv
<1>10. RInv'
  BY <1>6, FreeCopyKeepsRInv DEF CopyIn
<1>. QED BY <1>6, <1>8, <1>9, <1>10

\* The message joins the queue.
LEMMA PublishHeadKeeps ==
  ASSUME IInv, PublishHead
  PROVE  /\ IInv'
         /\ src \in Puts
         /\ cb_used(head, tail) + Len(src) <= cb_capacity
         /\ Content(buffer, head, tail)' = Content(buffer, head, tail) \o src
<1> USE DEF IInv
<1>1. /\ head \in Index /\ tail \in Index /\ buffer \in Buffer
      /\ src \in Seq(Byte) /\ Len(src) \in Nat
      /\ newhead \in Index /\ Size \in Nat
  BY CircularBufferAssumption DEF TypeOK
<1>2. /\ src \in Puts /\ Len(src) <= cb_free(head, tail)
      /\ newhead = Advance(head, Len(src))
      /\ Bytes(buffer, head, Len(src)) = src
  <2>1. SubSeq(src, 1, Len(src)) = src
    BY <1>1, SubSeqFull
  <2>. QED BY <2>1 DEF PublishHead, WInv
<1>3. /\ cb_used(head, tail) \in 0 .. Size - 1
      /\ cb_free(head, tail) = Size - 1 - cb_used(head, tail)
      /\ Advance(tail, cb_used(head, tail)) = head
  BY <1>1, UsedAndFree
<1>4. cb_used(newhead, tail) = cb_used(head, tail) + Len(src)
  <2>1. Len(src) \in 0 .. cb_free(head, tail)
    BY <1>1, <1>2, <1>3
  <2>. QED BY <1>1, <1>2, <2>1, UsedAfterPut
<1>5. /\ UNCHANGED <<tail, buffer, rpc, todo, dst, newtail, taken>>
      /\ head' = newhead
  BY DEF PublishHead, consumer
<1>6. Content(buffer, head, tail)' = Content(buffer, head, tail) \o src
  <2>1. /\ cb_used(head, tail) \in Nat
        /\ cb_used(head, tail) + Len(src) <= Size
    BY <1>1, <1>2, <1>3
  <2>2. Bytes(buffer, tail, cb_used(head, tail)) \o
          Bytes(buffer, Advance(tail, cb_used(head, tail)), Len(src))
        = Bytes(buffer, tail, cb_used(head, tail) + Len(src))
    BY <1>1, <2>1, BytesConcat
  <2>3. Content(buffer, head, tail)'
          = Bytes(buffer, tail, cb_used(newhead, tail))
    BY <1>5 DEF Content
  <2>. QED BY <1>2, <1>3, <1>4, <2>2, <2>3 DEF Content
<1>7. TypeOK'
  BY <1>1, <1>5, CircularBufferAssumption
     DEF PublishHead, TypeOK, Index, consumer
<1>8. WInv'
  BY DEF PublishHead, WInv
<1>9. RInv'
  <2>1. cb_used(head', tail') \in Nat
        /\ cb_used(head, tail) <= cb_used(head', tail')
    BY <1>1, <1>3, <1>4, <1>5
  <2>2. rpc = "reading" => Len(dst) + todo <= cb_used(head', tail')
    BY <1>3, <2>1 DEF RInv, TypeOK
  <2>3. \A n \in 0 .. cb_used(head, tail) : n \in 0 .. cb_used(head', tail')
    BY <1>3, <2>1
  <2>. QED BY <1>5, <2>2, <2>3 DEF RInv
<1>10. cb_used(head, tail) + Len(src) <= cb_capacity
  BY <1>1, <1>2, <1>3 DEF cb_capacity
<1>. QED BY <1>2, <1>6, <1>7, <1>8, <1>9, <1>10

\* More is free when the tail moves, and what the producer has copied stays.
LEMMA TakeKeepsWInv ==
  ASSUME TypeOK, WInv, NEW n \in 0 .. cb_used(head, tail),
         tail' = Advance(tail, n), UNCHANGED <<head, buffer, producer>>
  PROVE  /\ WInv'
         /\ tail' \in Index
         /\ cb_used(head, tail)' = cb_used(head, tail) - n
<1>1. head \in Index /\ tail \in Index /\ Size \in Nat
  BY CircularBufferAssumption DEF TypeOK
<1>2. /\ cb_used(head, tail) \in 0 .. Size - 1
      /\ cb_free(head, tail) = Size - 1 - cb_used(head, tail)
  BY <1>1, UsedAndFree
<1>3. tail' \in Index
  <2>1. n \in 0 .. Size
    BY <1>1, <1>2
  <2>. QED BY <1>1, <2>1, AdvanceIs
<1>4. cb_used(head, tail') = cb_used(head, tail) - n
  BY <1>1, UsedAfterTake
<1>5. cb_free(head, tail') = Size - 1 - cb_used(head, tail')
  BY <1>1, <1>3, UsedAndFree
<1>6. cb_free(head, tail) <= cb_free(head, tail')
  BY <1>1, <1>2, <1>4, <1>5
<1>7. UNCHANGED <<head, buffer, wpc, src, copied, newhead>>
  BY DEF producer
<1>8. wpc = "writing" => Len(src) <= cb_free(head, tail')
  <2>1. cb_free(head, tail) \in Int /\ cb_free(head, tail') \in Int
    BY <1>1, <1>2, <1>4, <1>5
  <2>2. Len(src) \in Nat
    BY DEF TypeOK
  <2>. QED BY <1>6, <2>1, <2>2 DEF WInv
<1>. QED BY <1>3, <1>4, <1>7, <1>8 DEF WInv

LEMMA LoadAtTailKeeps ==
  ASSUME IInv, NEW n \in 0 .. cb_used(head, tail), LoadAtTail(n)
  PROVE  IInv'
<1> USE DEF IInv
<1>1. head \in Index /\ tail \in Index /\ buffer \in Buffer /\ Size \in Nat
  BY CircularBufferAssumption DEF TypeOK
<1>2. cb_used(head, tail) \in 0 .. Size - 1 /\ n \in 0 .. Size /\ n \in Nat
  BY <1>1, UsedAndFree
<1>3. /\ Bytes(buffer, tail, n) \in Seq(Byte)
      /\ Len(Bytes(buffer, tail, n)) = n
      /\ Advance(tail, n) \in Index
  BY <1>1, <1>2, BytesType, AdvanceIs
<1>4. TypeOK'
  BY <1>3 DEF LoadAtTail, TypeOK, producer
<1>5. WInv'
  BY DEF LoadAtTail, WInv, producer
<1>6. RInv'
  BY <1>2, <1>3 DEF LoadAtTail, RInv
<1>. QED BY <1>4, <1>5, <1>6

LEMMA CbReadKeeps ==
  ASSUME IInv, NEW len \in Nat, cb_read(len)
  PROVE  IInv'
<1> USE DEF IInv
<1>1. head \in Index /\ tail \in Index /\ buffer \in Buffer
  BY DEF TypeOK
<1>2. cb_used(head, tail) \in Nat
  BY <1>1, UsedAndFree, CircularBufferAssumption
<1>3. todo' \in Nat /\ todo' <= cb_used(head, tail)
  BY <1>2 DEF cb_read, Smaller
<1>4. Advance(tail, 0) = tail /\ Bytes(buffer, tail, 0) = << >>
  BY <1>1, AdvanceZero DEF Bytes
<1>5. TypeOK'
  BY <1>3 DEF cb_read, TypeOK, producer
<1>6. WInv'
  BY DEF cb_read, WInv, producer
<1>7. RInv'
  BY <1>3, <1>4 DEF cb_read, RInv
<1>. QED BY <1>5, <1>6, <1>7

LEMMA CopyOutKeeps ==
  ASSUME IInv, CopyOut
  PROVE  IInv'
<1> USE DEF IInv
<1> DEFINE n == Smaller(todo, Size - newtail)
<1>1. /\ head \in Index /\ tail \in Index /\ buffer \in Buffer
      /\ Size \in Nat /\ todo \in Nat /\ dst \in Seq(Byte)
      /\ Len(dst) \in Nat /\ newtail \in Index
  BY CircularBufferAssumption DEF TypeOK
<1>2. cb_used(head, tail) \in 0 .. Size - 1
  BY <1>1, UsedAndFree
<1>3. /\ Len(dst) + todo <= cb_used(head, tail)
      /\ newtail = Advance(tail, Len(dst))
      /\ dst = Bytes(buffer, tail, Len(dst))
  BY DEF CopyOut, RInv
<1>4. n \in Nat /\ n <= todo /\ n \in 0 .. Size
  BY <1>1, CircularBufferAssumption DEF Smaller, Index
<1>5. /\ dst' = dst \o Bytes(buffer, newtail, n)
      /\ todo' = todo - n
      /\ newtail' = Advance(newtail, n)
      /\ UNCHANGED <<head, tail, buffer, flags, producer, rpc, taken>>
  BY DEF CopyOut
<1> HIDE DEF n
<1>6. /\ Bytes(buffer, newtail, n) \in Seq(Byte)
      /\ Len(Bytes(buffer, newtail, n)) = n
      /\ newtail' \in Index
  BY <1>1, <1>4, <1>5, BytesType, AdvanceIs
<1>7. dst' \in Seq(Byte) /\ Len(dst') = Len(dst) + n
  BY <1>1, <1>5, <1>6, ConcatProperties
<1>8. Len(dst) + n <= Size
  BY <1>1, <1>2, <1>3, <1>4
<1>9. /\ dst' = Bytes(buffer, tail, Len(dst'))
      /\ newtail' = Advance(tail, Len(dst'))
  <2>1. Bytes(buffer, tail, Len(dst)) \o
          Bytes(buffer, Advance(tail, Len(dst)), n)
        = Bytes(buffer, tail, Len(dst) + n)
    BY <1>1, <1>4, <1>8, BytesConcat
  <2>2. Advance(Advance(tail, Len(dst)), n) = Advance(tail, Len(dst) + n)
    BY <1>1, <1>4, <1>8, AdvanceAdds
  <2>. QED BY <1>3, <1>5, <1>7, <2>1, <2>2
<1>10. TypeOK'
  BY <1>1, <1>4, <1>5, <1>6, <1>7 DEF TypeOK, producer
<1>11. WInv'
  BY <1>5 DEF WInv, producer
<1>12. RInv'
  <2>1. Len(dst') + todo' <= cb_used(head, tail)
    BY <1>1, <1>2, <1>3, <1>4, <1>5, <1>7
  <2>2. rpc' = "reading"
    BY <1>5 DEF CopyOut
  <2>. QED BY <1>5, <1>9, <2>1, <2>2 DEF RInv
<1>. QED BY <1>10, <1>11, <1>12

\* The tail moves by n bytes, which leave the queue.
LEMMA TakeFromQueue ==
  ASSUME TypeOK, NEW n \in 0 .. cb_used(head, tail),
         tail' = Advance(tail, n), UNCHANGED <<head, buffer>>
  PROVE  /\ Bytes(buffer, tail, n) = SubSeq(Content(buffer, head, tail), 1, n)
         /\ Content(buffer, head, tail)' =
              SubSeq(Content(buffer, head, tail), n + 1, cb_used(head, tail))
         /\ Len(Content(buffer, head, tail)) = cb_used(head, tail)
<1>1. head \in Index /\ tail \in Index /\ buffer \in Buffer /\ Size \in Nat
  BY CircularBufferAssumption DEF TypeOK
<1>2. cb_used(head, tail) \in 0 .. Size - 1
  BY <1>1, UsedAndFree
<1> DEFINE m == cb_used(head, tail) - n
<1>3. /\ n \in Nat /\ m \in Nat /\ n + m = cb_used(head, tail)
      /\ n + m <= Size /\ cb_used(head, tail) \in 0 .. Size
  BY <1>1, <1>2
<1>4. cb_used(head, tail') = m
  BY <1>1, UsedAfterTake
<1> HIDE DEF m
<1>5. /\ SubSeq(Bytes(buffer, tail, n + m), 1, n) = Bytes(buffer, tail, n)
      /\ SubSeq(Bytes(buffer, tail, n + m), n + 1, n + m)
           = Bytes(buffer, Advance(tail, n), m)
  BY <1>1, <1>3, BytesSplit
<1>6. Content(buffer, head, tail)' = Bytes(buffer, Advance(tail, n), m)
  BY <1>4 DEF Content
<1>7. Len(Bytes(buffer, tail, cb_used(head, tail))) = cb_used(head, tail)
  BY <1>1, <1>3, BytesType
<1>. QED BY <1>3, <1>5, <1>6, <1>7 DEF Content

LEMMA FlushKeeps ==
  ASSUME IInv, Flush
  PROVE  /\ IInv'
         /\ \E n \in 0 .. cb_used(head, tail) : tail' = Advance(tail, n)
<1> USE DEF IInv
<1>1. PICK n \in 0 .. cb_used(head, tail) : tail' = Advance(tail, n)
  BY DEF Flush, RInv
<1>2. WInv' /\ tail' \in Index
  BY <1>1, TakeKeepsWInv DEF Flush
<1>3. TypeOK'
  BY <1>2, CircularBufferAssumption DEF Flush, TypeOK, Index, producer
<1>4. RInv'
  BY DEF Flush, RInv
<1>. QED BY <1>1, <1>2, <1>3, <1>4

LEMMA PublishTailKeeps ==
  ASSUME IInv, PublishTail
  PROVE  /\ IInv'
         /\ Len(dst) \in 0 .. cb_used(head, tail)
         /\ tail' = Advance(tail, Len(dst))
         /\ dst = Bytes(buffer, tail, Len(dst))
<1> USE DEF IInv
<1>1. /\ Len(dst) <= cb_used(head, tail)
      /\ tail' = Advance(tail, Len(dst))
      /\ dst = Bytes(buffer, tail, Len(dst))
  BY DEF PublishTail, RInv, TypeOK
<1>2. Len(dst) \in 0 .. cb_used(head, tail)
  <2>1. Len(dst) \in Nat /\ cb_used(head, tail) \in Nat
    BY UsedAndFree, CircularBufferAssumption DEF TypeOK
  <2>. QED BY <1>1, <2>1
<1>3. WInv' /\ tail' \in Index
  BY <1>1, <1>2, TakeKeepsWInv DEF PublishTail
<1>4. TypeOK'
  BY <1>3, CircularBufferAssumption DEF PublishTail, TypeOK, Index, producer
<1>5. RInv'
  BY DEF PublishTail, RInv
<1>. QED BY <1>1, <1>2, <1>3, <1>4, <1>5

LEMMA CbWriteKeeps ==
  ASSUME IInv, NEW message \in Messages, cb_write(message)
  PROVE  IInv'
<1> USE DEF IInv
<1>1. /\ head \in Index /\ buffer \in Buffer
      /\ message \in Puts /\ message \in Seq(Byte) /\ Len(message) \in Nat
  BY PutsType DEF TypeOK, Puts
<1>2. /\ Advance(head, 0) = head /\ Bytes(buffer, head, 0) = << >>
      /\ SubSeq(message, 1, 0) = << >>
  BY <1>1, AdvanceZero, SubSeqEmpty DEF Bytes
<1>3. TypeOK'
  BY <1>1 DEF cb_write, TypeOK, consumer
<1>4. WInv'
  BY <1>1, <1>2 DEF cb_write, WInv
<1>5. RInv'
  BY DEF cb_write, RInv, consumer
<1>. QED BY <1>3, <1>4, <1>5

\* What cb_putchar and perform_read store fits at the head.
LEMMA FitsAtHead ==
  ASSUME TypeOK
  PROVE  /\ \A byte \in Byte : cb_putchar(byte) =>
              /\ <<byte>> \in Puts
              /\ Len(<<byte>>) <= cb_free(head, tail)
              /\ head + Len(<<byte>>) <= Size
         /\ \A message \in Messages : perform_read(message) =>
              /\ message \in Puts
              /\ Len(message) <= cb_free(head, tail)
              /\ head + Len(message) <= Size
<1>1. /\ head \in Nat /\ head < Size /\ tail \in Index /\ head \in Index
      /\ Size \in Nat
  BY CircularBufferAssumption DEF TypeOK, Index
<1>2. cb_free(head, tail) \in Nat
  BY <1>1, UsedAndFree
<1>3. ASSUME NEW byte \in Byte, cb_putchar(byte)
      PROVE  /\ <<byte>> \in Puts
             /\ Len(<<byte>>) <= cb_free(head, tail)
             /\ head + Len(<<byte>>) <= Size
  <2>1. Len(<<byte>>) = 1 /\ <<byte>> \in Puts
    BY DEF Puts
  <2>2. cb_free(head, tail) # 0
    BY <1>3 DEF cb_putchar
  <2>. QED BY <1>1, <1>2, <2>1, <2>2
<1>4. ASSUME NEW message \in Messages, perform_read(message)
      PROVE  /\ message \in Puts
             /\ Len(message) <= cb_free(head, tail)
             /\ head + Len(message) <= Size
  <2>1. /\ cb_freeafterhead(head, tail) <= cb_free(head, tail)
        /\ head + cb_freeafterhead(head, tail) <= Size
    BY <1>1, InPlaceLemma DEF InPlaceSuffices
  <2>2. cb_freeafterhead(head, tail) \in Int
    BY <1>1 DEF cb_freeafterhead, Index
  <2>3. Len(message) \in Nat /\ Len(message) <= cb_freeafterhead(head, tail)
    BY <1>4, <2>2 DEF perform_read
  <2>. QED BY <1>1, <1>2, <2>1, <2>2, <2>3 DEF Puts
<1>. QED BY <1>3, <1>4

\* What perform_write and cb_getchar load is there.
LEMMA ThereAtTail ==
  ASSUME TypeOK
  PROVE  /\ cb_getchar => 1 \in 0 .. cb_used(head, tail)
         /\ \A n \in Nat :
              perform_write(n) => n \in 0 .. cb_used(head, tail)
<1>1. head \in Index /\ tail \in Index
  BY DEF TypeOK
<1>2. cb_used(head, tail) \in Nat
  BY <1>1, UsedAndFree, CircularBufferAssumption
<1>3. cb_sizeaftertail(head, tail) <= cb_used(head, tail)
      /\ cb_sizeaftertail(head, tail) \in Int
  BY <1>1, InPlaceLemma, CircularBufferAssumption
     DEF InPlaceSuffices, cb_sizeaftertail, Index
<1>. QED BY <1>2, <1>3 DEF cb_getchar, perform_write

\* A step that is not a copy or the move of an index changes neither.
LEMMA CbFlushKeeps ==
  ASSUME IInv, cb_flush
  PROVE  IInv'
<1> USE DEF IInv
<1>1. head \in Index /\ tail \in Index
  BY DEF TypeOK
<1>2. /\ cb_used(head, tail) \in 0 .. cb_used(head, tail)
      /\ newtail' = Advance(tail, cb_used(head, tail))
  <2>1. cb_used(head, tail) \in Nat /\ Advance(tail, cb_used(head, tail)) = head
    BY <1>1, UsedAndFree, CircularBufferAssumption
  <2>. QED BY <2>1 DEF cb_flush
<1>3. TypeOK'
  BY <1>1 DEF cb_flush, TypeOK, producer
<1>4. WInv'
  BY DEF cb_flush, WInv, producer
<1>5. RInv'
  BY <1>2 DEF cb_flush, RInv
<1>. QED BY <1>3, <1>4, <1>5

LEMMA RefuseKeeps ==
  ASSUME IInv, NEW message \in Messages, Refuse(message)
  PROVE  IInv'
BY DEF IInv, Refuse, TypeOK, WInv, RInv, producer, consumer

LEMMA StutterKeeps ==
  ASSUME IInv, UNCHANGED vars
  PROVE  IInv'
BY DEF IInv, vars, TypeOK, WInv, RInv, producer, consumer

LEMMA NextInv == IInv /\ [Next]_vars => IInv'
<1> SUFFICES ASSUME IInv, [Next]_vars PROVE IInv'
  OBVIOUS
<1>0. TypeOK
  BY DEF IInv
<1>1. ASSUME NEW message \in Messages, cb_write(message) PROVE IInv'
  BY <1>1, CbWriteKeeps
<1>2. ASSUME NEW message \in Messages, Refuse(message) PROVE IInv'
  BY <1>2, RefuseKeeps
<1>3. ASSUME NEW message \in Messages, perform_read(message) PROVE IInv'
  <2>1. /\ message \in Puts /\ Len(message) <= cb_free(head, tail)
        /\ head + Len(message) <= Size /\ StoreAtHead(message)
    BY <1>0, <1>3, FitsAtHead DEF perform_read
  <2>. QED BY <2>1, StoreAtHeadKeeps
<1>4. ASSUME NEW byte \in Byte, cb_putchar(byte) PROVE IInv'
  <2> DEFINE message == <<byte>>
  <2>1. /\ message \in Puts /\ Len(message) <= cb_free(head, tail)
        /\ head + Len(message) <= Size /\ StoreAtHead(message)
    BY <1>0, <1>4, FitsAtHead DEF cb_putchar
  <2> HIDE DEF message
  <2>. QED BY <2>1, StoreAtHeadKeeps
<1>5. CASE CopyIn
  BY <1>5, CopyInKeeps
<1>6. CASE PublishHead
  BY <1>6, PublishHeadKeeps
<1>7. ASSUME NEW len \in 1 .. cb_capacity, cb_read(len) PROVE IInv'
  <2>1. len \in Nat
    BY CircularBufferAssumption DEF cb_capacity
  <2>. QED BY <1>7, <2>1, CbReadKeeps
<1>8. ASSUME NEW n \in 1 .. cb_capacity, perform_write(n) PROVE IInv'
  <2>1. n \in Nat
    BY CircularBufferAssumption DEF cb_capacity
  <2>2. n \in 0 .. cb_used(head, tail) /\ LoadAtTail(n)
    BY <1>0, <1>8, <2>1, ThereAtTail DEF perform_write
  <2>. QED BY <2>2, LoadAtTailKeeps
<1>9. CASE cb_getchar
  <2>1. 1 \in 0 .. cb_used(head, tail) /\ LoadAtTail(1)
    BY <1>0, <1>9, ThereAtTail DEF cb_getchar
  <2>. QED BY <2>1, LoadAtTailKeeps
<1>10. CASE cb_flush
  BY <1>10, CbFlushKeeps
<1>11. CASE CopyOut
  BY <1>11, CopyOutKeeps
<1>12. CASE PublishTail
  BY <1>12, PublishTailKeeps
<1>13. CASE Flush
  BY <1>13, FlushKeeps
<1>14. CASE UNCHANGED vars
  BY <1>14, StutterKeeps
<1>. QED BY <1>1, <1>2, <1>3, <1>4, <1>5, <1>6, <1>7, <1>8, <1>9, <1>10,
            <1>11, <1>12, <1>13, <1>14 DEF Next, Produce, Consume

-----------------------------------------------------------------------------
(* The theorems.                                                           *)

LEMMA Invariance == Spec => []IInv
BY InitInv, NextInv, PTL DEF Spec

\* Every variable keeps its type: no index ever leaves the buffer
\* (circularbuffer.c:105-156, 192-244).
THEOREM TypeCorrect == Spec => []TypeOK
<1>1. IInv => TypeOK
  BY DEF IInv
<1>. QED BY <1>1, Invariance, PTL

\* Using the buffer in place never strands room or data
\* (circularbuffer.c:60-75, 158-169).
THEOREM InPlaceAlwaysSuffices == Spec => []InPlaceSuffices
<1>1. TypeOK => InPlaceSuffices
  BY InPlaceLemma DEF TypeOK
<1>. QED BY <1>1, TypeCorrect, PTL

\* The producer never writes a place that the consumer has yet to read,
\* though each knows only an old index of the other
\* (circularbuffer.c:105-156 against 192-244).
THEOREM SidesKeepApart == Spec => []NoOverlap
<1>1. IInv => NoOverlap
  <2> SUFFICES ASSUME IInv, wpc = "writing", rpc = "reading",
                      NEW i \in 0 .. Len(src) - copied - 1,
                      NEW j \in 0 .. todo - 1,
                      Advance(newhead, i) = Advance(newtail, j)
               PROVE  FALSE
    BY DEF NoOverlap, Writes, Reads
  <2>1. /\ head \in Index /\ tail \in Index /\ Size \in Nat
        /\ Len(src) \in Nat /\ copied \in Nat /\ Len(dst) \in Nat
        /\ todo \in Nat
    BY CircularBufferAssumption DEF IInv, TypeOK
  <2>2. /\ Len(src) <= cb_free(head, tail)
        /\ newhead = Advance(head, copied)
        /\ Len(dst) + todo <= cb_used(head, tail)
        /\ newtail = Advance(tail, Len(dst))
    BY DEF IInv, WInv, RInv
  <2>3. /\ cb_free(head, tail) \in 0 .. Size - 1
        /\ cb_used(head, tail) \in 0 .. Size - 1
    BY <2>1, UsedAndFree
  <2>4. /\ copied + i \in 0 .. cb_free(head, tail) - 1
        /\ Len(dst) + j \in 0 .. cb_used(head, tail) - 1
        /\ i \in Nat /\ j \in Nat
        /\ copied + i <= Size /\ Len(dst) + j <= Size
    BY <2>1, <2>2, <2>3
  <2>5. /\ Advance(newhead, i) = Advance(head, copied + i)
        /\ Advance(newtail, j) = Advance(tail, Len(dst) + j)
    BY <2>1, <2>2, <2>4, AdvanceAdds
  <2>. QED BY <2>1, <2>4, <2>5, FreeIsNotUsed
<1>. QED BY <1>1, Invariance, PTL

\* Between its calls the producer offers no message.
Idle == wpc = "idle" => src = << >>

LEMMA IdleInvariance == Spec => []Idle
<1>1. Init => Idle
  BY DEF Init, Idle
<1>2. Idle /\ [Next]_vars => Idle'
  BY DEF Idle, Next, Produce, Consume, vars, producer, consumer, cb_write,
         Refuse, perform_read, cb_putchar, StoreAtHead, CopyIn, PublishHead,
         cb_read, perform_write, cb_getchar, LoadAtTail, cb_flush, CopyOut,
         PublishTail, Flush
<1>. QED BY <1>1, <1>2, PTL DEF Spec

\* A step of the ring buffer is a step of the queue or none: a call of the
\* producer offers a message, the move of the head puts it, the move of the
\* tail takes or drops.
LEMMA QueueStep ==
  ASSUME IInv, Idle, [Next]_vars
  PROVE  [Queue!Next]_(Queue!vars)
<1> DEFINE q == Content(buffer, head, tail)
<1>0. /\ TypeOK /\ head \in Index /\ tail \in Index /\ buffer \in Buffer
      /\ cb_used(head, tail) \in 0 .. Size
      /\ Len(q) = cb_used(head, tail)
  <2>1. TypeOK /\ head \in Index /\ tail \in Index /\ buffer \in Buffer
    BY DEF IInv, TypeOK
  <2>2. cb_used(head, tail) \in 0 .. Size
    BY <2>1, UsedAndFree, CircularBufferAssumption
  <2>. QED BY <2>1, <2>2, BytesType DEF Content
\* The queue does not see what happens in places that are free.
<1>1. ASSUME UNCHANGED <<head, tail, src, taken>>,
             Bytes(buffer', tail, cb_used(head, tail)) =
               Bytes(buffer, tail, cb_used(head, tail))
      PROVE  UNCHANGED Queue!vars
  BY <1>1 DEF Queue!vars, Content
<1>2. ASSUME UNCHANGED <<head, tail, buffer, src, taken>>
      PROVE  UNCHANGED Queue!vars
  BY <1>2 DEF Queue!vars, Content
<1>3. cb_used(head, tail) \in 0 .. cb_used(head, tail)
  BY <1>0, CircularBufferAssumption
<1>4. ASSUME NEW message \in Messages,
             cb_write(message) \/ Refuse(message)
      PROVE  [Queue!Next]_(Queue!vars)
  <2>1. CASE cb_write(message)
    <3>1. /\ src = << >> /\ src' = message
          /\ UNCHANGED <<head, tail, buffer, taken>>
      BY <2>1 DEF cb_write, Idle, consumer
    <3>. QED BY <3>1 DEF Queue!Next, Queue!Offer, Content
  <2>2. CASE Refuse(message)
    BY <1>2, <2>2 DEF Refuse, producer, consumer
  <2>. QED BY <1>4, <2>1, <2>2
<1>5. ASSUME NEW message \in Messages, perform_read(message)
      PROVE  [Queue!Next]_(Queue!vars)
  <2>1. /\ message \in Puts /\ Len(message) <= cb_free(head, tail)
        /\ head + Len(message) <= Size /\ StoreAtHead(message)
    BY <1>0, <1>5, FitsAtHead DEF perform_read
  <2>2. Bytes(buffer', tail, cb_used(head, tail)) = q
    BY <2>1, <1>3, StoreAtHeadKeeps DEF Content
  <2>3. /\ src = << >> /\ src' = message /\ UNCHANGED <<head, tail, taken>>
    BY <1>5 DEF perform_read, StoreAtHead, Idle, consumer
  <2>. QED BY <2>2, <2>3 DEF Queue!Next, Queue!Offer, Content
<1>6. ASSUME NEW byte \in Byte, cb_putchar(byte)
      PROVE  [Queue!Next]_(Queue!vars)
  <2> DEFINE message == <<byte>>
  <2>1. /\ message \in Puts /\ Len(message) <= cb_free(head, tail)
        /\ head + Len(message) <= Size /\ StoreAtHead(message)
    BY <1>0, <1>6, FitsAtHead DEF cb_putchar
  <2>2. message \in Messages \cup {<<c>> : c \in Byte}
    OBVIOUS
  <2>3. src = << >> /\ src' = message /\ UNCHANGED <<head, tail, taken>>
    BY <1>6 DEF cb_putchar, StoreAtHead, Idle, consumer
  <2> HIDE DEF message
  <2>4. Bytes(buffer', tail, cb_used(head, tail)) = q
    BY <2>1, <1>3, StoreAtHeadKeeps DEF Content
  <2>. QED BY <2>2, <2>3, <2>4 DEF Queue!Next, Queue!Offer, Content
<1>7. CASE CopyIn
  BY <1>7, <1>1, <1>3, CopyInKeeps DEF CopyIn, consumer
<1>8. CASE PublishHead
  <2>1. /\ src \in Puts /\ cb_used(head, tail) + Len(src) <= cb_capacity
        /\ q' = q \o src
    BY <1>8, PublishHeadKeeps
  <2>2. taken' = taken /\ src' = << >>
    BY <1>8 DEF PublishHead, consumer
  <2> HIDE DEF q
  <2>3. Len(q) + Len(src) <= cb_capacity
    BY <1>0, <2>1
  <2>. QED BY <2>1, <2>2, <2>3 DEF Queue!Next, Queue!Put, Puts, q
<1>9. ASSUME NEW n \in 1 .. cb_capacity, cb_read(n) \/ perform_write(n)
      PROVE  UNCHANGED Queue!vars
  BY <1>2, <1>9 DEF cb_read, perform_write, LoadAtTail, producer
<1>10. CASE cb_getchar \/ cb_flush \/ CopyOut
  BY <1>2, <1>10 DEF cb_getchar, LoadAtTail, cb_flush, CopyOut, producer
<1>11. CASE PublishTail
  <2>1. /\ Len(dst) \in 0 .. cb_used(head, tail)
        /\ tail' = Advance(tail, Len(dst))
        /\ dst = Bytes(buffer, tail, Len(dst))
        /\ UNCHANGED <<head, buffer, src>> /\ taken' = dst
    BY <1>11, PublishTailKeeps DEF PublishTail, producer
  <2>2. /\ Bytes(buffer, tail, Len(dst)) = SubSeq(q, 1, Len(dst))
        /\ q' = SubSeq(q, Len(dst) + 1, cb_used(head, tail))
    BY <1>0, <2>1, TakeFromQueue
  <2> HIDE DEF q
  <2>3. Len(dst) \in 0 .. Len(q) /\ taken' = SubSeq(q, 1, Len(dst))
        /\ q' = SubSeq(q, Len(dst) + 1, Len(q))
    BY <1>0, <2>1, <2>2
  <2>. QED BY <2>1, <2>3 DEF Queue!Next, Queue!Take, q
<1>12. CASE Flush
  <2>1. PICK n \in 0 .. cb_used(head, tail) : tail' = Advance(tail, n)
    BY <1>12, FlushKeeps
  <2>2. UNCHANGED <<head, buffer, src, taken>>
    BY <1>12 DEF Flush, producer
  <2>3. q' = SubSeq(q, n + 1, cb_used(head, tail))
    BY <1>0, <2>1, <2>2, TakeFromQueue
  <2> HIDE DEF q
  <2>4. n \in 0 .. Len(q) /\ q' = SubSeq(q, n + 1, Len(q))
    BY <1>0, <2>1, <2>3
  <2>. QED BY <2>2, <2>4 DEF Queue!Next, Queue!Drop, q
<1>13. CASE UNCHANGED vars
  BY <1>2, <1>13 DEF vars, producer, consumer
<1>. QED BY <1>4, <1>5, <1>6, <1>7, <1>8, <1>9, <1>10, <1>11, <1>12, <1>13
         DEF Next, Produce, Consume

\* The ring buffer implements the queue: bytes come out once, in order and
\* unchanged, and a message joins them whole (circularbuffer.c:60-244).
THEOREM ImplementsQueue == Spec => QueueSpec
<1>1. Init => Queue!Init
  <2> SUFFICES ASSUME Init PROVE Content(buffer, head, tail) = << >>
    BY DEF Init, Queue!Init
  <2>1. cb_used(head, tail) = 0
    BY DEF Init, cb_used
  <2>. QED BY <2>1 DEF Content, Bytes
<1>2. IInv /\ Idle /\ [Next]_vars => [Queue!Next]_(Queue!vars)
  BY QueueStep
<1>. QED BY <1>1, <1>2, Invariance, IdleInvariance, PTL DEF Spec, QueueSpec, Queue!Spec

-----------------------------------------------------------------------------
(* The functions that look into the buffer and parse it (module CbParse).  *)

\* A set of naturals that is not empty has a least element.
LEMMA LeastNat ==
  ASSUME NEW T, T \subseteq Nat, T # {}
  PROVE  \E x \in T : \A y \in T : x <= y
<1> DEFINE R == {ss \in Nat \X Nat : ss[1] < ss[2]}
<1>1. IsWellFoundedOn(R, Nat)
  <2>1. OpToRel(<, Nat) = R
    BY Zenon DEF OpToRel
  <2>. QED BY <2>1, NatLessThanWellFounded, Zenon
<1>2. PICK x \in T : \A y \in T : ~ (<<y, x>> \in R)
  <2> HIDE DEF R
  <2>. QED BY <1>1, WFMin, Zenon
<1>3. ASSUME NEW y \in T, y < x PROVE FALSE
  <2>1. <<y, x>> \in Nat \X Nat /\ <<y, x>> \in R
    BY <1>3
  <2>. QED BY <1>2, <2>1
<1>. QED BY <1>3

LEMMA FirstOfIs ==
  ASSUME NEW T, T \subseteq Nat, T # {}, NEW else
  PROVE  FirstOf(T, else) \in T /\ \A y \in T : FirstOf(T, else) <= y
<1>1. PICK x \in T : \A y \in T : x <= y
  BY LeastNat
<1>. QED BY <1>1 DEF FirstOf

-----------------------------------------------------------------------------
\* What a call leaves: ungetchar puts back what getchar returned.
ParseInv ==
  /\ head \in Index /\ tail \in Index /\ buffer \in Buffer
  /\ call.fn = "getchar" => call.ret \in Byte

LEMMA AdvanceType ==
  ASSUME NEW p \in Index, NEW n \in Nat
  PROVE  Advance(p, n) \in Index
BY CircularBufferAssumption DEF Advance, Index

LEMMA TextIs ==
  ASSUME ParseInv
  PROVE  /\ Used \in 0 .. Size - 1 /\ Used \in Nat
         /\ Text \in Seq(Byte) /\ Len(Text) = Used
         /\ \A i \in 1 .. Used : /\ Text[i] = buffer[Advance(tail, i - 1)]
                                 /\ Text[i] = PeekAt(i - 1) /\ Text[i] \in Byte
<1>1. Used \in 0 .. Size - 1
  BY UsedAndFree DEF ParseInv, Used
<1>2. Used \in 0 .. Size /\ Used \in Nat
  BY <1>1, CircularBufferAssumption
<1>3. /\ Text \in Seq(Byte) /\ Len(Text) = Used
      /\ \A i \in 1 .. Used : Text[i] = buffer[Advance(tail, i - 1)]
  BY <1>2, BytesType DEF Text, Content, ParseInv, Used
<1>. QED BY <1>1, <1>2, <1>3, ElementOfSeq DEF PeekAt, cb_peek

\* The search for the end of a row of bytes.
LEMMA FirstNotIs ==
  ASSUME ParseInv, NEW S, NEW i \in 1 .. Used + 1
  PROVE  /\ FirstNot(S, i) \in i .. Used + 1
         /\ FirstNot(S, i) <= Used => Text[FirstNot(S, i)] \notin S
         /\ \A j \in i .. FirstNot(S, i) - 1 : Text[j] \in S
<1> DEFINE T == {k \in i .. Used : Text[k] \notin S}
<1>1. Used \in Nat
  BY TextIs
<1>2. FirstNot(S, i) = FirstOf(T, Used + 1)
  BY DEF FirstNot
<1>3. CASE T = {}
  <2>1. FirstNot(S, i) = Used + 1
    BY <1>2, <1>3 DEF FirstOf
  <2>2. \A j \in i .. Used : Text[j] \in S
    BY <1>3
  <2>3. Used + 1 \in i .. Used + 1 /\ ~ (Used + 1 <= Used)
    BY <1>1
  <2>4. \A j \in i .. (Used + 1) - 1 : Text[j] \in S
    BY <1>1, <2>2
  <2>. QED BY <2>1, <2>3, <2>4, Zenon
<1>4. CASE T # {}
  <2>1. T \subseteq Nat
    BY <1>1
  <2>2. FirstNot(S, i) \in T /\ \A y \in T : FirstNot(S, i) <= y
    <3> HIDE DEF T
    <3>1. FirstOf(T, Used + 1) \in T /\ \A y \in T : FirstOf(T, Used + 1) <= y
      BY <1>4, <2>1, FirstOfIs, Zenon
    <3>. QED BY <1>2, <3>1, Zenon
  <2>3. PICK k \in i .. Used : k = FirstNot(S, i) /\ Text[k] \notin S
    BY <2>2
  <2>4. \A j \in i .. k - 1 : Text[j] \in S
    <3> SUFFICES ASSUME NEW j \in i .. k - 1, Text[j] \notin S PROVE FALSE
      OBVIOUS
    <3>1. j \in T /\ j < k
      BY <1>1
    <3>. QED BY <1>1, <2>2, <2>3, <3>1
  <2>. QED BY <1>1, <2>3, <2>4
<1>. QED BY <1>3, <1>4

\* Reading up to a byte and keeping the types.
LEMMA PutBackType ==
  ASSUME ParseInv, NEW p \in Index, NEW c \in Byte, PutBack(p, c)
  PROVE  head' \in Index /\ tail' \in Index /\ buffer' \in Buffer
<1>1. (p + WordSize - 1) % WordSize \in Nat
  BY CbParseAssumption, CircularBufferAssumption DEF Index
<1>2. Back(p) \in Index
  <2>1. PICK x \in Nat : x = (p + WordSize - 1) % WordSize
    BY <1>1
  <2>. QED BY <2>1, CircularBufferAssumption DEF Back, Index
<1>. QED BY <1>2 DEF PutBack, ParseInv, Buffer

LEMMA ReadUpToType ==
  ASSUME ParseInv, NEW stop \in 1 .. Used + 1, ReadUpTo(stop)
  PROVE  head' \in Index /\ tail' \in Index /\ buffer' \in Buffer
<1>1. Used \in Nat /\ \A i \in 1 .. Used : Text[i] \in Byte
  BY TextIs
<1>2. CASE stop <= Used
  <2>1. stop \in 1 .. Used /\ stop \in Nat
    BY <1>1, <1>2
  <2>2. PutBack(Advance(tail, stop), Text[stop])
    BY <1>2 DEF ReadUpTo
  <2>3. Advance(tail, stop) \in Index
    BY <2>1, AdvanceType DEF ParseInv
  <2>. QED BY <1>1, <2>1, <2>2, <2>3, PutBackType
<1>3. CASE ~ (stop <= Used)
  BY <1>1, <1>3, AdvanceType DEF ReadUpTo, Skip, ParseInv
<1>. QED BY <1>2, <1>3

-----------------------------------------------------------------------------
\* Where a number ends: after the blanks, a sign and the digits.
AtoiStart == FirstNot(Blanks, 1)
AtoiSigned == AtoiStart <= Used /\ Text[AtoiStart] \in {Minus, Plus}
AtoiFirst == IF AtoiSigned THEN AtoiStart + 1 ELSE AtoiStart
AtoiStop == FirstNot(Digits, AtoiFirst)

LEMMA AtoiPlaces ==
  ASSUME ParseInv
  PROVE  /\ AtoiStart \in 1 .. Used + 1 /\ \A i \in 1 .. AtoiStart - 1 : Text[i] \in Blanks
         /\ AtoiFirst \in 1 .. Used + 1
         /\ AtoiStop \in AtoiFirst .. Used + 1
         /\ AtoiStop <= Used => Text[AtoiStop] \notin Digits
         /\ \A i \in AtoiFirst .. AtoiStop - 1 : Text[i] \in Digits
<1>1. Used \in Nat /\ 1 \in 1 .. Used + 1
  BY TextIs
<1>2. AtoiStart \in 1 .. Used + 1 /\ \A i \in 1 .. AtoiStart - 1 : Text[i] \in Blanks
  BY <1>1, FirstNotIs DEF AtoiStart
<1>3. AtoiFirst \in 1 .. Used + 1
  BY <1>1, <1>2 DEF AtoiFirst, AtoiSigned
<1>. QED BY <1>2, <1>3, FirstNotIs DEF AtoiStop

LEMMA AtoiReads == cb_atoi => ReadUpTo(AtoiStop) /\ call'.fn = "atoi"
BY DEF cb_atoi, AtoiStop, AtoiFirst, AtoiSigned, AtoiStart, Result

LEMMA HextobReads == cb_hextob => ReadUpTo(FirstNot(HexDigits, 1)) /\ call'.fn = "hextob"
BY DEF cb_hextob, Result

LEMMA ParseInitInv == ParseInit => ParseInv
BY CircularBufferAssumption DEF ParseInit, ParseInv, Buffer, Index

LEMMA ParseKeeps == ParseInv /\ [ParseNext]_parsevars => ParseInv'
<1> SUFFICES ASSUME ParseInv, [ParseNext]_parsevars PROVE ParseInv'
  OBVIOUS
<1>1. ASSUME NEW c \in Chars, Putchar(c) PROVE ParseInv'
  <2>1. Advance(head, 1) \in Index /\ c \in Byte
    BY AdvanceType, CbParseAssumption DEF ParseInv
  <2>. QED BY <1>1, <2>1 DEF Putchar, ParseInv, Buffer, Result
<1>2. CASE Getchar
  <2>1. Advance(tail, 1) \in Index /\ Advance(tail, 0) \in Index
    BY AdvanceType DEF ParseInv
  <2>2. PeekAt(0) \in Byte
    BY <2>1 DEF PeekAt, cb_peek, ParseInv, Buffer
  <2>. QED BY <1>2, <2>1, <2>2 DEF Getchar, Skip, ParseInv, Result
<1>3. CASE cb_ungetchar
  <2>1. head' \in Index /\ tail' \in Index /\ buffer' \in Buffer
    BY <1>3, PutBackType DEF cb_ungetchar, ParseInv
  <2>2. call'.fn = "ungetchar"
    BY <1>3 DEF cb_ungetchar, Result
  <2>. QED BY <2>1, <2>2 DEF ParseInv
<1>4. ASSUME NEW pattern \in Patterns, cb_match(pattern) PROVE ParseInv'
  <2>1. Len(pattern) \in Nat
    BY CbParseAssumption
  <2>2. Advance(tail, Len(pattern)) \in Index
    BY <2>1, AdvanceType DEF ParseInv
  <2>3. Skip(Len(pattern)) \/ Unmoved
    BY <1>4 DEF cb_match
  <2>4. call'.fn = "match"
    BY <1>4 DEF cb_match, Result
  <2>. QED BY <2>2, <2>3, <2>4 DEF Skip, Unmoved, ParseInv
<1>5. ASSUME NEW seq \in Patterns, cb_findbyteseq(seq) PROVE ParseInv'
  <2>1. Unmoved /\ call'.fn = "findbyteseq"
    BY <1>5 DEF cb_findbyteseq, Result
  <2>. QED BY <2>1 DEF Unmoved, ParseInv
<1>6. ASSUME NEW offs, NEW len, cb_peek_ex(offs, len) PROVE ParseInv'
  <2>1. Unmoved /\ call'.fn = "peek_ex"
    BY <1>6 DEF cb_peek_ex, Result
  <2>. QED BY <2>1 DEF Unmoved, ParseInv
<1>7. CASE cb_atoi
  <2>1. AtoiStop \in 1 .. Used + 1
    BY AtoiPlaces, TextIs
  <2>. QED BY <1>7, <2>1, AtoiReads, ReadUpToType DEF ParseInv
<1>8. CASE cb_hextob
  <2>1. FirstNot(HexDigits, 1) \in 1 .. Used + 1
    BY TextIs, FirstNotIs
  <2>. QED BY <1>8, <2>1, HextobReads, ReadUpToType DEF ParseInv
<1>9. CASE UNCHANGED parsevars
  BY <1>9 DEF parsevars, ParseInv
<1>. QED BY <1>1, <1>2, <1>3, <1>4, <1>5, <1>6, <1>7, <1>8, <1>9 DEF ParseNext

LEMMA ParseInvariance == ParseSpec => []ParseInv
BY ParseInitInv, ParseKeeps, PTL DEF ParseSpec

-----------------------------------------------------------------------------
\* Which call a step makes is what the call says it was.
LEMMA CallIs ==
  ASSUME ParseNext
  PROVE  \/ call'.fn \in {"putchar", "getchar", "ungetchar", "match", "peek_ex"}
         \/ call'.fn = "findbyteseq" /\ \E seq \in Patterns : cb_findbyteseq(seq)
         \/ call'.fn = "atoi" /\ cb_atoi
         \/ call'.fn = "hextob" /\ cb_hextob
<1>1. \A c : Putchar(c) => call'.fn = "putchar"
  BY DEF Putchar, Result
<1>2. Getchar => call'.fn = "getchar"
  BY DEF Getchar, Result
<1>3. cb_ungetchar => call'.fn = "ungetchar"
  BY DEF cb_ungetchar, Result
<1>4. \A pattern : cb_match(pattern) => call'.fn = "match"
  BY DEF cb_match, Result
<1>5. \A seq : cb_findbyteseq(seq) => call'.fn = "findbyteseq"
  BY DEF cb_findbyteseq, Result
<1>6. \A offs, len : cb_peek_ex(offs, len) => call'.fn = "peek_ex"
  BY DEF cb_peek_ex, Result
<1>. QED BY <1>1, <1>2, <1>3, <1>4, <1>5, <1>6, AtoiReads, HextobReads, Zenon DEF ParseNext

LEMMA FindCalled ==
  ASSUME ParseNext, call'.fn = "findbyteseq"
  PROVE  \E seq \in Patterns : cb_findbyteseq(seq)
<1>1. /\ "findbyteseq" \notin {"putchar", "getchar", "ungetchar", "match", "peek_ex"}
      /\ "findbyteseq" # "atoi" /\ "findbyteseq" # "hextob"
  OBVIOUS
<1>. QED BY <1>1, CallIs, Zenon

LEMMA AtoiCalled == ASSUME ParseNext, call'.fn = "atoi" PROVE cb_atoi
<1>1. /\ "atoi" \notin {"putchar", "getchar", "ungetchar", "match", "peek_ex"}
      /\ "atoi" # "findbyteseq" /\ "atoi" # "hextob"
  OBVIOUS
<1>. QED BY <1>1, CallIs, Zenon

LEMMA HextobCalled == ASSUME ParseNext, call'.fn = "hextob" PROVE cb_hextob
<1>1. /\ "hextob" \notin {"putchar", "getchar", "ungetchar", "match", "peek_ex"}
      /\ "hextob" # "findbyteseq" /\ "hextob" # "atoi"
  OBVIOUS
<1>. QED BY <1>1, CallIs, Zenon

\* A sequence is at a place if its bytes are.
LEMMA PlaceIs ==
  ASSUME ParseInv, NEW seq \in Patterns, NEW i \in 0 .. Used - Len(seq)
  PROVE  SubSeq(Text, i + 1, i + Len(seq)) = seq
           <=> \A j \in 0 .. Len(seq) - 1 : PeekAt(i + j) = seq[j + 1]
<1> DEFINE n == Len(seq)
           s == SubSeq(Text, i + 1, i + n)
<1>1. /\ Used \in Nat /\ Text \in Seq(Byte) /\ Len(Text) = Used
      /\ \A k \in 1 .. Used : Text[k] = PeekAt(k - 1) /\ Text[k] \in Byte
  BY TextIs
<1>2. seq \in Seq(Byte \cup {Wildcard}) /\ n \in Nat
  BY CbParseAssumption
<1>3. i \in Nat /\ i + n <= Used
  BY <1>1, <1>2
<1>4. /\ s \in Seq(Byte) /\ Len(s) = n
      /\ \A k \in 1 .. n : s[k] = Text[i + k]
  <2> HIDE DEF n
  <2>1. \A k \in i + 1 .. i + n : Text[k] \in Byte
    BY <1>1, <1>2, <1>3
  <2>2. /\ s \in Seq(Byte)
        /\ Len(s) = IF i + 1 <= i + n THEN i + n - (i + 1) + 1 ELSE 0
        /\ \A k \in 1 .. i + n - (i + 1) + 1 : s[k] = Text[i + 1 + k - 1]
    BY <1>2, <1>3, <2>1, SubSeqProperties
  <2>3. i + n - (i + 1) + 1 = n /\ \A k \in Int : i + 1 + k - 1 = i + k
    BY <1>2, <1>3
  <2> HIDE DEF s
  <2>. QED BY <1>2, <1>3, <2>2, <2>3
<1>5. s = seq <=> \A k \in 1 .. n : s[k] = seq[k]
  <2> HIDE DEF s
  <2>1. s \in Seq(Byte \cup {Wildcard})
    BY <1>4
  <2>. QED BY <1>2, <1>4, <2>1, SeqEqual
<1>6. \A k \in 1 .. n : s[k] = PeekAt(i + (k - 1))
  <2> HIDE DEF s, n
  <2> TAKE k \in 1 .. n
  <2>1. i + k \in 1 .. Used /\ i + k - 1 = i + (k - 1)
    BY <1>1, <1>2, <1>3
  <2>. QED BY <1>1, <1>4, <2>1
<1>7. (\A k \in 1 .. n : PeekAt(i + (k - 1)) = seq[k])
        <=> \A j \in 0 .. n - 1 : PeekAt(i + j) = seq[j + 1]
  <2> HIDE DEF n
  <2>1. ASSUME \A k \in 1 .. n : PeekAt(i + (k - 1)) = seq[k], NEW j \in 0 .. n - 1
        PROVE  PeekAt(i + j) = seq[j + 1]
    <3>1. j + 1 \in 1 .. n /\ (j + 1) - 1 = j
      BY <1>2
    <3>. QED BY <2>1, <3>1
  <2>2. ASSUME \A j \in 0 .. n - 1 : PeekAt(i + j) = seq[j + 1], NEW k \in 1 .. n
        PROVE  PeekAt(i + (k - 1)) = seq[k]
    <3>1. k - 1 \in 0 .. n - 1 /\ (k - 1) + 1 = k
      BY <1>2
    <3>. QED BY <2>2, <3>1
  <2>. QED BY <2>1, <2>2
<1>. QED BY <1>5, <1>6, <1>7

\* What the search returns: the first of the places, or -1.
FindResult(seq, ret) ==
  LET Places == {i \in 0 .. Used - Len(seq) : SubSeq(Text, i + 1, i + Len(seq)) = seq}
  IN  /\ ret = -1 <=> Places = {}
      /\ ret # -1 => ret \in Places /\ \A i \in Places : ret <= i

LEMMA FindStops ==
  ASSUME ParseInv, NEW seq \in Patterns, cb_findbyteseq(seq)
  PROVE  call'.arg = seq /\ FindResult(seq, call'.ret)
<1> DEFINE n == Len(seq)
           Rest(i) == \A j \in 1 .. n - 1 : PeekAt(i + j) = seq[j + 1]
           Stops == {i \in 0 .. Used - 1 : PeekAt(i) = seq[1] /\ (TooNear(i, seq) \/ Rest(i))}
           stop == FirstOf(Stops, Used)
           Places == {i \in 0 .. Used - n : SubSeq(Text, i + 1, i + n) = seq}
<1>1. /\ call'.arg = seq
      /\ call'.ret = IF stop = Used \/ TooNear(stop, seq) THEN -1 ELSE stop
  BY DEF cb_findbyteseq, Result
<1>2. Used \in Nat /\ n \in Nat \ {0}
  <2>1. seq \in Seq(Byte \cup {Wildcard}) /\ seq # <<>>
    BY CbParseAssumption
  <2>2. Len(seq) \in Nat \ {0}
    BY <2>1, EmptySeq, Zenon
  <2>. QED BY <2>2, TextIs
<1>3. \A i \in Places : /\ i \in 0 .. Used - 1 /\ i + n <= Used
                        /\ PeekAt(i) = seq[1] /\ Rest(i)
  <2> SUFFICES ASSUME NEW i \in 0 .. Used - n, SubSeq(Text, i + 1, i + n) = seq
               PROVE  /\ i \in 0 .. Used - 1 /\ i + n <= Used
                      /\ PeekAt(i) = seq[1] /\ Rest(i)
    OBVIOUS
  <2>1. \A j \in 0 .. n - 1 : PeekAt(i + j) = seq[j + 1]
    BY PlaceIs
  <2> HIDE DEF n
  <2>2. 0 \in 0 .. n - 1 /\ i + 0 = i /\ 0 + 1 = 1
    BY <1>2
  <2>3. PeekAt(i) = seq[1]
    BY <2>1, <2>2, Zenon
  <2>4. Rest(i)
    <3> SUFFICES ASSUME NEW j \in 1 .. n - 1 PROVE PeekAt(i + j) = seq[j + 1]
      OBVIOUS
    <3>1. j \in 0 .. n - 1
      BY <1>2
    <3>. QED BY <2>1, <3>1, Zenon
  <2>5. i \in 0 .. Used - 1 /\ i + n <= Used
    BY <1>2
  <2> HIDE DEF Rest
  <2>. QED BY <2>3, <2>4, <2>5, Zenon
<1>4. ASSUME NEW i \in 0 .. Used - 1, PeekAt(i) = seq[1], Rest(i), i + n <= Used
      PROVE  i \in Places
  <2>1. i \in 0 .. Used - n
    BY <1>2, <1>4
  <2>2. \A j \in 0 .. n - 1 : PeekAt(i + j) = seq[j + 1]
    <3> SUFFICES ASSUME NEW j \in 0 .. n - 1 PROVE PeekAt(i + j) = seq[j + 1]
      OBVIOUS
    <3> HIDE DEF n
    <3>1. CASE j = 0
      BY <1>4, <3>1
    <3>2. CASE j # 0
      <4>1. j \in 1 .. n - 1
        BY <1>2, <3>2
      <4>. QED BY <1>4, <4>1
    <3>. QED BY <3>1, <3>2
  <2>3. SubSeq(Text, i + 1, i + n) = seq
    BY <2>1, <2>2, PlaceIs
  <2>. QED BY <2>1, <2>3
<1>5. Places \subseteq Stops /\ Stops \subseteq Nat
  <2>1. ASSUME NEW i \in Places PROVE i \in Stops
    <3>1. i \in 0 .. Used - 1 /\ PeekAt(i) = seq[1] /\ Rest(i)
      <4> HIDE DEF Places, Rest, n
      <4>. QED BY <1>3
    <3> HIDE DEF Places, Rest
    <3>. QED BY <3>1
  <2>2. Stops \subseteq Nat
    BY <1>2
  <2>. QED BY <2>1, <2>2
<1>6. CASE Stops = {}
  <2>1. call'.ret = -1 /\ Places = {}
    BY <1>1, <1>5, <1>6 DEF FirstOf
  <2>. QED BY <1>1, <2>1 DEF FindResult
<1>7. CASE Stops # {}
  <2>1. stop \in Stops /\ \A i \in Stops : stop <= i
    <3> HIDE DEF Stops
    <3>. QED BY <1>5, <1>7, FirstOfIs
  <2>2. /\ stop \in 0 .. Used - 1 /\ PeekAt(stop) = seq[1]
        /\ TooNear(stop, seq) \/ Rest(stop)
    <3> HIDE DEF stop, Rest
    <3>. QED BY <2>1
  <2>3. \A i \in Places : stop <= i
    <3> HIDE DEF Stops, Places, stop
    <3>. QED BY <1>5, <2>1
  <2>4. CASE TooNear(stop, seq)
    <3>1. Places = {}
      <4> SUFFICES ASSUME NEW i \in Places PROVE FALSE
        OBVIOUS
      <4>1. stop <= i /\ i + n <= Used /\ i \in Nat
        BY <1>2, <1>3, <2>3
      <4>2. stop + n > Used /\ stop \in Nat
        BY <1>2, <2>2, <2>4 DEF TooNear
      <4> HIDE DEF n, stop, Places
      <4>. QED BY <1>2, <4>1, <4>2
    <3>2. call'.ret = -1
      BY <1>1, <2>4
    <3>. QED BY <1>1, <3>1, <3>2 DEF FindResult
  <2>5. CASE ~TooNear(stop, seq)
    <3>1. stop + n <= Used /\ stop # Used /\ stop # -1
      <4> HIDE DEF stop
      <4>. QED BY <1>2, <2>2, <2>5 DEF TooNear
    <3>2. stop \in Places
      <4> HIDE DEF stop, Places, Rest
      <4>. QED BY <1>4, <2>2, <2>5, <3>1
    <3>3. call'.ret = stop
      BY <1>1, <2>5, <3>1
    <3> HIDE DEF stop, Stops
    <3>. QED BY <1>1, <2>3, <3>1, <3>2, <3>3 DEF FindResult
  <2>. QED BY <2>4, <2>5
<1>. QED BY <1>6, <1>7

\* For any size of the buffer and any sequences, the search finds the first
\* place where the sequence is (circularbuffer.c:246-278).
THEOREM SearchFindsFirst == ParseSpec => FindIsFirst
<1>1. ParseInv /\ [ParseNext]_parsevars =>
        [\A seq \in Patterns :
           Calls("findbyteseq") /\ call'.arg = seq =>
             LET Places == {i \in 0 .. Used - Len(seq) :
                              SubSeq(Text, i + 1, i + Len(seq)) = seq}
             IN  /\ call'.ret = -1 <=> Places = {}
                 /\ call'.ret # -1 => /\ call'.ret \in Places
                                      /\ \A i \in Places : call'.ret <= i]_parsevars
  <2> SUFFICES ASSUME ParseInv, ParseNext, NEW seq \in Patterns,
                      Calls("findbyteseq"), call'.arg = seq
               PROVE  FindResult(seq, call'.ret)
    BY DEF FindResult
  <2>1. PICK seq0 \in Patterns : cb_findbyteseq(seq0)
    BY FindCalled DEF Calls
  <2>. QED BY <2>1, FindStops
<1>. QED BY <1>1, ParseInvariance, PTL DEF ParseSpec, FindIsFirst

-----------------------------------------------------------------------------
\* If the range of size_t is a multiple of the size, as it is for powers of
\* two, going back from a place undoes the last step to it.
LEMMA BackIs ==
  ASSUME WordSize % Size = 0, NEW p \in Index, NEW n \in 1 .. Size - 1
  PROVE  Back(Advance(p, n)) = Advance(p, n - 1)
<1> DEFINE q == Advance(p, n)
<1>1. /\ Size \in Nat \ {0} /\ WordSize \in Nat \ {0} /\ n \in 0 .. Size /\ n - 1 \in 0 .. Size
      /\ p \in Nat /\ p < Size /\ n \in Nat \ {0} /\ n < Size
  BY CircularBufferAssumption, CbParseAssumption DEF Index
<1>2. WordSize >= Size /\ (WordSize - 1) % Size = Size - 1
  <2>1. PICK k \in Int : k = WordSize \div Size
    BY <1>1
  <2>2. WordSize = k * Size
    BY <1>1, <2>1
  <2>3. k >= 1
    BY <1>1, <2>1, <2>2
  <2>4. WordSize - 1 = (k - 1) * Size + (Size - 1) /\ k - 1 \in Nat
    BY <1>1, <2>2, <2>3
  <2>5. WordSize >= Size
    BY <1>1, <2>4
  <2>6. ((k - 1) * Size + (Size - 1)) % Size = Size - 1
    BY <1>1, <2>4
  <2>. QED BY <2>4, <2>5, <2>6
<1>3. q = (IF p + n < Size THEN p + n ELSE p + n - Size) /\ q \in Index
  BY <1>1, AdvanceIs
<1>4. Advance(p, n - 1) = IF p + (n - 1) < Size THEN p + (n - 1) ELSE p + (n - 1) - Size
  BY <1>1, AdvanceIs
<1>5. q \in Nat /\ q < Size
  BY <1>1, <1>3
<1> HIDE DEF q
<1>6. CASE q = 0
  <2>1. p + n = Size
    BY <1>1, <1>3, <1>6
  <2>2. Advance(p, n - 1) = Size - 1
    BY <1>1, <1>4, <2>1
  <2>3. (q + WordSize - 1) % WordSize = WordSize - 1
    BY <1>1, <1>6
  <2>. QED BY <1>2, <2>2, <2>3 DEF Back, q
<1>7. CASE q # 0
  <2>1. Advance(p, n - 1) = q - 1
    BY <1>1, <1>3, <1>4, <1>5, <1>7
  <2>2. (q + WordSize - 1) % WordSize = q - 1
    <3>1. q + WordSize - 1 = 1 * WordSize + (q - 1) /\ q - 1 \in 0 .. WordSize - 1
      BY <1>1, <1>2, <1>5, <1>7
    <3>. QED BY <1>1, <3>1
  <2>3. (q - 1) % Size = q - 1
    BY <1>1, <1>5, <1>7
  <2>. QED BY <2>1, <2>2, <2>3 DEF Back, q
<1>. QED BY <1>6, <1>7

\* What was read up to the stop-th byte leaves that one and what follows it as
\* it was.
LEMMA ReadUpToIs ==
  ASSUME ParseInv, WordSize % Size = 0, NEW stop \in 1 .. Used + 1, ReadUpTo(stop)
  PROVE  /\ Text' = Suffix(stop) /\ Text' \in Seq(Byte)
         /\ Len(Text') = Used - (stop - 1)
         /\ stop <= Used => Text'[1] = Text[stop]
<1> DEFINE m == stop - 1
           r == Used - m
<1>1. /\ Used \in 0 .. Size - 1 /\ Used \in Nat /\ Len(Text) = Used
      /\ \A i \in 1 .. Used : Text[i] = buffer[Advance(tail, i - 1)]
  BY TextIs
<1>2. /\ m \in Nat /\ r \in Nat /\ m + r = Used /\ m + r <= Size /\ m \in 0 .. Used
      /\ m + 1 = stop /\ stop - 1 = m /\ m \in 0 .. Size /\ r \in 0 .. Size
  BY <1>1, CircularBufferAssumption
<1>3. head \in Index /\ tail \in Index /\ buffer \in Buffer
  BY DEF ParseInv
<1>4. head' = head /\ tail' = Advance(tail, m) /\ buffer' = buffer
  <2>1. CASE stop <= Used
    <3>1. /\ stop \in 1 .. Used /\ stop \in 1 .. Size - 1
      BY <1>1, <2>1, CircularBufferAssumption
    <3>2. /\ tail' = Back(Advance(tail, stop)) /\ head' = head
          /\ buffer' = [i \in Index |-> IF i = tail' THEN Text[stop] ELSE buffer[i]]
      BY <2>1 DEF ReadUpTo, PutBack
    <3>3. tail' = Advance(tail, m)
      BY <1>3, <3>1, <3>2, BackIs
    <3>4. Text[stop] = buffer[tail']
      BY <1>1, <3>1, <3>3
    <3>. QED BY <1>3, <3>2, <3>3, <3>4 DEF Buffer
  <2>2. CASE ~ (stop <= Used)
    <3>1. m = Used
      BY <1>1, <2>2
    <3>. QED BY <2>2, <3>1 DEF ReadUpTo, Skip
  <2>. QED BY <2>1, <2>2
<1> HIDE DEF m, r
<1>5. Used' = r
  <2>1. cb_used(head, Advance(tail, m)) = cb_used(head, tail) - m
    BY <1>2, <1>3, UsedAfterTake DEF Used
  <2>. QED BY <1>2, <1>4, <2>1 DEF Used, r
<1>6. Text' = Bytes(buffer, Advance(tail, m), r) /\ Text = Bytes(buffer, tail, m + r)
  <2>1. Text' = Bytes(buffer', tail', Used')
    BY DEF Text, Content, Used
  <2>2. Text = Bytes(buffer, tail, Used)
    BY DEF Text, Content, Used
  <2>. QED BY <1>2, <1>4, <1>5, <2>1, <2>2, Zenon
<1>7. SubSeq(Text, m + 1, m + r) = Text'
  BY <1>2, <1>3, <1>6, BytesSplit
<1>8. Text' = Suffix(stop)
  BY <1>1, <1>2, <1>7 DEF Suffix
<1>9. Advance(tail, m) \in Index
  BY <1>2, <1>3, AdvanceType
<1>10. /\ Text' \in Seq(Byte) /\ Len(Text') = r
       /\ \A i \in 1 .. r : Text'[i] = buffer[Advance(Advance(tail, m), i - 1)]
  BY <1>2, <1>3, <1>6, <1>9, BytesType
<1>11. ASSUME stop <= Used PROVE Text'[1] = Text[stop]
  <2>1. 1 \in 1 .. r /\ 1 - 1 = 0 /\ stop \in 1 .. Used
    BY <1>1, <1>2, <1>11
  <2>2. Advance(Advance(tail, m), 0) = Advance(tail, m)
    BY <1>9, AdvanceZero
  <2>. QED BY <1>1, <1>2, <1>10, <2>1, <2>2
<1>. QED BY <1>8, <1>10, <1>11 DEF m, r

-----------------------------------------------------------------------------
\* Two digits make a byte, and come out of it again.
LEMMA TwoDigits ==
  ASSUME NEW a \in 0 .. 15, NEW b \in 0 .. 15
  PROVE  /\ (16 * a + b) \div 16 = a /\ (16 * a + b) % 16 = b
         /\ a % 16 = a
OBVIOUS

\* Where the i-th of n digits goes.
LEMMA DigitPlace ==
  ASSUME NEW n \in Nat, NEW i \in 1 .. n
  PROVE  /\ (i + 1) \div 2 \in 1 .. (n + 1) \div 2
         /\ i % 2 = 1 /\ i < n => 2 * ((i + 1) \div 2) - 1 = i /\ 2 * ((i + 1) \div 2) < n + 1
         /\ i % 2 = 1 /\ i = n => 2 * ((i + 1) \div 2) - 1 = i /\ 2 * ((i + 1) \div 2) = n + 1
         /\ i % 2 # 1 => 2 * ((i + 1) \div 2) = i /\ 2 * ((i + 1) \div 2) < n + 1
OBVIOUS

LEMMA HextobIs ==
  ASSUME ParseInv, WordSize % Size = 0, cb_hextob
  PROVE  LET n == Len(Text) - Len(Text')
             bytes == call'.ret
         IN  /\ Text' = Suffix(n + 1)
             /\ Text' # << >> => Text'[1] \notin HexDigits
             /\ Len(bytes) = (n + 1) \div 2
             /\ \A i \in 1 .. n :
                  LET byte == bytes[(i + 1) \div 2]
                  IN  ValueOf[Text[i]] =
                        IF i % 2 = 1 /\ i < n THEN byte \div 16
                                              ELSE byte % 16
<1> DEFINE stop == FirstNot(HexDigits, 1)
           n == Len(Text) - Len(Text')
           digit == [i \in 1 .. stop - 1 |-> ValueOf[Text[i]]]
           bytes == call'.ret
<1>1. Used \in Nat /\ Len(Text) = Used /\ 1 \in 1 .. Used + 1
  BY TextIs
<1>2. /\ stop \in 1 .. Used + 1
      /\ stop <= Used => Text[stop] \notin HexDigits
      /\ \A i \in 1 .. stop - 1 : Text[i] \in HexDigits
  BY <1>1, FirstNotIs
<1>3. /\ ReadUpTo(stop)
      /\ bytes = [k \in 1 .. stop \div 2 |->
                    IF 2 * k < stop THEN 16 * digit[2 * k - 1] + digit[2 * k]
                                    ELSE digit[2 * k - 1]]
  BY DEF cb_hextob, Result
<1> HIDE DEF stop
<1>4. /\ Text' = Suffix(stop) /\ Text' \in Seq(Byte) /\ Len(Text') = Used - (stop - 1)
      /\ stop <= Used => Text'[1] = Text[stop]
  BY <1>2, <1>3, ReadUpToIs
<1>5. n = stop - 1 /\ n + 1 = stop /\ n \in Nat
  BY <1>1, <1>2, <1>4
<1> HIDE DEF n, bytes
<1>6. Text' # << >> => Text'[1] \notin HexDigits
  <2>1. ASSUME Text' # << >> PROVE stop <= Used
    <3>1. Len(Text') \in Nat \ {0}
      BY <1>4, <2>1, EmptySeq, Zenon
    <3>. QED BY <1>1, <1>2, <1>4, <3>1
  <2>. QED BY <1>2, <1>4, <2>1
<1>7. Len(bytes) = (n + 1) \div 2
  <2>1. stop \div 2 \in Nat
    BY <1>1, <1>2
  <2>. QED BY <1>3, <1>5, <2>1
<1>8. \A i \in 1 .. n : digit[i] = ValueOf[Text[i]] /\ digit[i] \in 0 .. 15
  BY <1>2, <1>5, CbParseAssumption
<1> HIDE DEF digit
<1>9. ASSUME NEW i \in 1 .. n
      PROVE  ValueOf[Text[i]] =
               IF i % 2 = 1 /\ i < n THEN bytes[(i + 1) \div 2] \div 16
                                     ELSE bytes[(i + 1) \div 2] % 16
  <2> DEFINE k == (i + 1) \div 2
  <2>1. /\ k \in 1 .. (n + 1) \div 2
        /\ i % 2 = 1 /\ i < n => 2 * k - 1 = i /\ 2 * k < n + 1
        /\ i % 2 = 1 /\ i = n => 2 * k - 1 = i /\ 2 * k = n + 1
        /\ i % 2 # 1 => 2 * k = i /\ 2 * k < n + 1
    BY <1>5, DigitPlace
  <2> HIDE DEF k
  <2>2. bytes[k] = IF 2 * k < n + 1 THEN 16 * digit[2 * k - 1] + digit[2 * k]
                                    ELSE digit[2 * k - 1]
    BY <1>3, <1>5, <2>1
  <2>3. CASE i % 2 = 1 /\ i < n
    <3>1. i + 1 \in 1 .. n /\ 2 * k = i + 1 /\ 2 * k - 1 = i
      BY <1>5, <2>1, <2>3
    <3>2. bytes[k] = 16 * digit[i] + digit[i + 1]
      BY <2>1, <2>2, <2>3, <3>1
    <3>. QED BY <1>8, <2>3, <3>1, <3>2, TwoDigits DEF k
  <2>4. CASE i % 2 = 1 /\ i = n
    <3>1. 2 * k - 1 = i /\ ~ (2 * k < n + 1)
      BY <1>5, <2>1, <2>4
    <3>2. bytes[k] = digit[i]
      BY <2>2, <3>1, Zenon
    <3>. QED BY <1>5, <1>8, <2>4, <3>2, TwoDigits DEF k
  <2>5. CASE i % 2 # 1
    <3>1. i - 1 \in 1 .. n /\ 2 * k = i /\ 2 * k - 1 = i - 1
      BY <1>5, <2>1, <2>5
    <3>2. bytes[k] = 16 * digit[i - 1] + digit[i]
      BY <2>1, <2>2, <2>5, <3>1
    <3>. QED BY <1>8, <2>5, <3>1, <3>2, TwoDigits DEF k
  <2>. QED BY <1>5, <2>3, <2>4, <2>5
<1>. QED BY <1>4, <1>5, <1>6, <1>7, <1>9 DEF n, bytes

\* For any size that divides the range of size_t, cb_hextob takes the longest
\* row of digits, and the byte it has read too much is put back where it was
\* (circularbuffer.c:389-396, 464-492).
THEOREM HexIsTakenWhole ==
  ASSUME WordSize % Size = 0
  PROVE  ParseSpec => HexIsTaken
<1>1. ParseInv /\ [ParseNext]_parsevars =>
        [Calls("hextob") =>
           LET n == Len(Text) - Len(Text')
               bytes == call'.ret
           IN  /\ Text' = Suffix(n + 1)
               /\ Text' # << >> => Text'[1] \notin HexDigits
               /\ Len(bytes) = (n + 1) \div 2
               /\ \A i \in 1 .. n :
                    LET byte == bytes[(i + 1) \div 2]
                    IN  ValueOf[Text[i]] =
                          IF i % 2 = 1 /\ i < n THEN byte \div 16
                                                ELSE byte % 16]_parsevars
  BY HextobIs, HextobCalled DEF Calls
<1>. QED BY <1>1, ParseInvariance, PTL DEF ParseSpec, HexIsTaken

-----------------------------------------------------------------------------
\* A function that takes up the digits of a number from the first to the last,
\* and one that takes them off again.
TakesUp(f, d, low, n) ==
  f = [i \in low .. low + n |-> IF i = low THEN 0 ELSE f[i - 1] * 10 + d[i]]
TakesOff(f, number, n) ==
  f = [i \in 0 .. n |-> IF i = n THEN number ELSE f[i + 1] \div 10]

\* The first of the two exists.
LEMMA NumberExists ==
  ASSUME NEW low \in Int, NEW n \in Nat, NEW d
  PROVE  \E f : TakesUp(f, d, low, n)
<1> DEFINE Fits(f, k) == TakesUp(f, d, low, k)
           T == {k \in Nat : ~ \E f : Fits(f, k)}
<1>1. T = {}
  <2> SUFFICES ASSUME T # {} PROVE FALSE
    OBVIOUS
  <2>1. PICK k \in T : \A y \in T : k <= y
    <3>1. T \subseteq Nat
      OBVIOUS
    <3> HIDE DEF T
    <3>. QED BY <3>1, LeastNat, Zenon
  <2>2. k \in Nat /\ ~ \E f : Fits(f, k)
    BY <2>1
  <2>3. CASE k = 0
    <3> DEFINE f0 == [i \in low .. low |-> 0]
    <3>1. Fits(f0, 0)
      <4>1. low + 0 = low /\ \A i \in low .. low : i = low
        OBVIOUS
      <4>. QED BY <4>1 DEF TakesUp
    <3> HIDE DEF Fits
    <3>. QED BY <2>2, <2>3, <3>1
  <2>4. CASE k # 0
    <3>1. k - 1 \in Nat /\ k - 1 \notin T
      <4>1. k - 1 \in Nat /\ ~ (k <= k - 1)
        BY <2>2, <2>4
      <4> HIDE DEF T
      <4>. QED BY <2>1, <4>1, Zenon
    <3>2. PICK f : Fits(f, k - 1)
      BY <3>1
    <3> DEFINE g == [i \in low .. low + k |->
                       IF i = low + k THEN f[i - 1] * 10 + d[i] ELSE f[i]]
    <3>3. low + (k - 1) = low + k - 1 /\ low + k # low /\ low + k \in Int /\ low <= low + k - 1
      BY <2>2, <2>4
    <3>4. ASSUME NEW i \in low .. low + k
          PROVE  g[i] = IF i = low THEN 0 ELSE g[i - 1] * 10 + d[i]
      <4>1. CASE i = low
        <5>1. i # low + k /\ i \in low .. low + (k - 1)
          BY <3>3, <4>1
        <5>2. f[i] = 0
          BY <3>2, <4>1, <5>1 DEF TakesUp
        <5>. QED BY <4>1, <5>1, <5>2
      <4>2. CASE i # low /\ i # low + k
        <5>1. /\ i \in low .. low + (k - 1) /\ i - 1 \in low .. low + k /\ i - 1 # low + k
          BY <2>2, <3>3, <4>2
        <5>2. f[i] = f[i - 1] * 10 + d[i]
          BY <3>2, <4>2, <5>1 DEF TakesUp
        <5>3. g[i] = f[i] /\ g[i - 1] = f[i - 1]
          BY <4>2, <5>1
        <5> HIDE DEF g
        <5>. QED BY <4>2, <5>2, <5>3, Zenon
      <4>3. CASE i = low + k
        <5>1. i - 1 \in low .. low + k /\ i - 1 # low + k
          BY <2>2, <3>3, <4>3
        <5>2. g[i] = f[i - 1] * 10 + d[i] /\ g[i - 1] = f[i - 1]
          BY <4>3, <5>1
        <5> HIDE DEF g
        <5>. QED BY <3>3, <4>3, <5>2, Zenon
      <4>. QED BY <4>1, <4>2, <4>3
    <3>5. Fits(g, k)
      BY <3>4 DEF TakesUp
    <3> HIDE DEF Fits, g
    <3>. QED BY <2>2, <3>5
  <2>. QED BY <2>3, <2>4
<1>2. \E f : Fits(f, n)
  <2> HIDE DEF Fits
  <2>. QED BY <1>1
<1>. QED BY <1>2

\* A number with one digit more, and that digit taken off again.
LEMMA OneDigit ==
  ASSUME NEW v \in Nat, NEW d \in 0 .. 9
  PROVE  v * 10 + d \in Nat /\ (v * 10 + d) \div 10 = v /\ (v * 10 + d) % 10 = d
OBVIOUS

\* The values of a recursive function that takes up digit after digit.
LEMMA NumberType ==
  ASSUME NEW low \in Int, NEW n \in Nat, NEW d, NEW f,
         \A i \in low + 1 .. low + n : d[i] \in 0 .. 9, TakesUp(f, d, low, n)
  PROVE  /\ f[low] = 0
         /\ \A i \in low .. low + n : f[i] \in Nat
         /\ \A i \in low + 1 .. low + n :
              f[i] \div 10 = f[i - 1] /\ f[i] % 10 = d[i]
<1>1. f[low] = 0
  <2>1. low \in low .. low + n
    OBVIOUS
  <2>. QED BY <2>1 DEF TakesUp
<1>2. ASSUME NEW i \in low + 1 .. low + n PROVE f[i] = f[i - 1] * 10 + d[i]
  <2>1. i \in low .. low + n /\ i # low
    OBVIOUS
  <2>. QED BY <2>1 DEF TakesUp
<1> DEFINE T == {k \in 0 .. n : f[low + k] \notin Nat}
<1>3. T = {}
  <2> SUFFICES ASSUME T # {} PROVE FALSE
    OBVIOUS
  <2>1. PICK k \in T : \A y \in T : k <= y
    <3>1. T \subseteq Nat
      OBVIOUS
    <3> HIDE DEF T
    <3>. QED BY <3>1, LeastNat, Zenon
  <2>2. k \in 0 .. n /\ f[low + k] \notin Nat
    BY <2>1
  <2>3. k # 0
    <3>1. low + 0 = low
      OBVIOUS
    <3>. QED BY <1>1, <2>2, <3>1
  <2>4. k - 1 \in 0 .. n /\ ~ (k <= k - 1)
    BY <2>2, <2>3
  <2>5. f[low + (k - 1)] \in Nat
    BY <2>1, <2>4
  <2>6. low + k \in low + 1 .. low + n /\ low + k - 1 = low + (k - 1)
    BY <2>2, <2>3
  <2>7. f[low + k] = f[low + (k - 1)] * 10 + d[low + k] /\ d[low + k] \in 0 .. 9
    BY <1>2, <2>6
  <2>8. f[low + (k - 1)] * 10 + d[low + k] \in Nat
    BY <2>5, <2>7, OneDigit, Zenon
  <2>. QED BY <2>2, <2>7, <2>8
<1>4. ASSUME NEW i \in low .. low + n PROVE f[i] \in Nat
  <2>1. i - low \in 0 .. n /\ low + (i - low) = i
    OBVIOUS
  <2>. QED BY <1>3, <2>1
<1>5. ASSUME NEW i \in low + 1 .. low + n
      PROVE  f[i] \div 10 = f[i - 1] /\ f[i] % 10 = d[i]
  <2>1. i - 1 \in low .. low + n
    OBVIOUS
  <2>2. f[i - 1] \in Nat /\ d[i] \in 0 .. 9 /\ f[i] = f[i - 1] * 10 + d[i]
    BY <1>2, <1>4, <2>1
  <2>3. /\ (f[i - 1] * 10 + d[i]) \div 10 = f[i - 1]
        /\ (f[i - 1] * 10 + d[i]) % 10 = d[i]
    BY <2>2, OneDigit, Zenon
  <2>. QED BY <2>2, <2>3, Zenon
<1>. QED BY <1>1, <1>4, <1>5

\* What is left of a number is determined by the number: if a function has
\* the number at its end and each value is the next one without its last
\* digit, it is what Quotients returns.
LEMMA QuotientsAre ==
  ASSUME NEW n \in Nat, NEW number, NEW w, TakesOff(w, number, n)
  PROVE  \A i \in 0 .. n : Quotients(number, n)[i] = w[i]
<1> DEFINE q == Quotients(number, n)
           T == {k \in 0 .. n : q[n - k] # w[n - k]}
<1>1. TakesOff(q, number, n)
  <2>1. \E f : f = [i \in 0 .. n |-> IF i = n THEN number ELSE f[i + 1] \div 10]
    BY DEF TakesOff
  <2>. QED BY <2>1 DEF Quotients, TakesOff
<1> HIDE DEF q
<1>2. T = {}
  <2> SUFFICES ASSUME T # {} PROVE FALSE
    OBVIOUS
  <2>1. PICK k \in T : \A y \in T : k <= y
    <3>1. T \subseteq Nat
      OBVIOUS
    <3> HIDE DEF T
    <3>. QED BY <3>1, LeastNat, Zenon
  <2>2. k \in 0 .. n /\ q[n - k] # w[n - k]
    BY <2>1
  <2>3. k # 0
    <3> SUFFICES ASSUME k = 0 PROVE FALSE
      OBVIOUS
    <3>1. n - k = n /\ n \in 0 .. n
      OBVIOUS
    <3>2. q[n] = number /\ w[n] = number
      BY <1>1, <3>1 DEF TakesOff
    <3>. QED BY <2>2, <3>1, <3>2
  <2>4. k - 1 \in 0 .. n /\ ~ (k <= k - 1)
    BY <2>2, <2>3
  <2>5. q[n - (k - 1)] = w[n - (k - 1)]
    BY <2>1, <2>4
  <2>6. n - k \in 0 .. n /\ n - k # n /\ (n - k) + 1 = n - (k - 1)
    BY <2>2, <2>3
  <2>7. q[n - k] = q[(n - k) + 1] \div 10 /\ w[n - k] = w[(n - k) + 1] \div 10
    BY <1>1, <2>6 DEF TakesOff
  <2>. QED BY <2>2, <2>5, <2>6, <2>7, Zenon
<1>3. ASSUME NEW i \in 0 .. n PROVE q[i] = w[i]
  <2>1. n - i \in 0 .. n /\ n - (n - i) = i
    OBVIOUS
  <2>. QED BY <1>2, <2>1
<1>. QED BY <1>3 DEF q

\* The number of a row of digits, and what is left of it.
LEMMA NumberOfIs ==
  ASSUME ParseInv, NEW first \in 1 .. Used + 1, NEW stop \in first .. Used + 1,
         \A i \in first .. stop - 1 : Text[i] \in Digits
  PROVE  LET number == NumberOf(first, stop)
             left == Quotients(number, stop - first)
         IN  /\ number \in Nat /\ left[0] = 0
             /\ \A i \in 1 .. stop - first :
                  left[i] % 10 = ValueOf[Text[first + i - 1]]
<1> DEFINE low == first - 1
           n == stop - first
           d == [i \in low .. low + n |-> ValueOf[Text[i]]]
           number == NumberOf(first, stop)
<1>1. /\ low \in Int /\ n \in Nat /\ low + n = stop - 1 /\ low + 1 = first
      /\ first \in Int /\ stop \in Int
  BY TextIs
<1> HIDE DEF low, n
<1>2. PICK f : TakesUp(f, d, low, n)
  <2> HIDE DEF d
  <2>. QED BY <1>1, NumberExists
<1>3. \A i \in low + 1 .. low + n : d[i] \in 0 .. 9 /\ d[i] = ValueOf[Text[i]]
  <2> TAKE i \in low + 1 .. low + n
  <2>1. i \in first .. stop - 1 /\ i \in low .. low + n
    BY <1>1
  <2>2. Text[i] \in Digits /\ d[i] = ValueOf[Text[i]]
    BY <2>1
  <2>3. ValueOf[Text[i]] \in 0 .. 15 /\ ValueOf[Text[i]] < 10
    BY <2>2, CbParseAssumption
  <2>4. ValueOf[Text[i]] \in 0 .. 9
    BY <2>3
  <2>. QED BY <2>2, <2>4, Zenon
<1>4. PICK v : TakesUp(v, d, low, n) /\ number = v[low + n]
  <2> DEFINE F(g) == [i \in first - 1 .. stop - 1 |->
                        IF i = first - 1 THEN 0 ELSE g[i - 1] * 10 + ValueOf[Text[i]]]
             v == CHOOSE g : g = F(g)
  <2>1. \A g : TakesUp(g, d, low, n) <=> g = F(g)
    BY <1>1 DEF low, TakesUp
  <2>2. v = F(v)
    <3> HIDE DEF F
    <3>1. \E g : g = F(g)
      BY <1>2, <2>1
    <3>. QED BY <3>1
  <2>3. number = v[stop - 1]
    BY DEF NumberOf
  <2> HIDE DEF F, v
  <2>. QED BY <1>1, <2>1, <2>2, <2>3
<1> HIDE DEF d, number
<1>5. /\ v[low] = 0 /\ \A i \in low .. low + n : v[i] \in Nat
      /\ \A i \in low + 1 .. low + n : v[i] \div 10 = v[i - 1] /\ v[i] % 10 = d[i]
  BY <1>1, <1>3, <1>4, NumberType
<1> DEFINE w == [i \in 0 .. n |-> v[low + i]]
<1>6. TakesOff(w, number, n)
  <2>1. ASSUME NEW i \in 0 .. n, i # n PROVE w[i] = w[i + 1] \div 10
    <3>1. /\ i + 1 \in 0 .. n /\ low + (i + 1) \in low + 1 .. low + n
          /\ low + (i + 1) - 1 = low + i
      BY <1>1, <2>1
    <3>2. PICK j \in low + 1 .. low + n : j = low + (i + 1) /\ j - 1 = low + i
      BY <1>1, <3>1
    <3>3. v[j] \div 10 = v[j - 1]
      BY <1>5
    <3>4. v[low + (i + 1)] \div 10 = v[low + i]
      BY <3>2, <3>3, Zenon
    <3>5. w[i] = v[low + i] /\ w[i + 1] = v[low + (i + 1)]
      BY <3>1
    <3> HIDE DEF w
    <3>. QED BY <3>4, <3>5, Zenon
  <2>2. w[n] = number
    BY <1>1, <1>4
  <2>3. w = [i \in 0 .. n |-> w[i]]
    OBVIOUS
  <2> HIDE DEF w
  <2>. QED BY <2>1, <2>2, <2>3 DEF TakesOff
<1>7. \A i \in 0 .. n : Quotients(number, n)[i] = v[low + i]
  <2>1. \A i \in 0 .. n : Quotients(number, n)[i] = w[i]
    <3> HIDE DEF w
    <3>. QED BY <1>1, <1>6, QuotientsAre
  <2>. QED BY <2>1
<1>8. number \in Nat
  <2>1. low + n \in low .. low + n
    BY <1>1
  <2>. QED BY <1>4, <1>5, <2>1
<1>9. Quotients(number, n)[0] = 0
  <2>1. 0 \in 0 .. n /\ low + 0 = low
    BY <1>1
  <2>. QED BY <1>5, <1>7, <2>1
<1>10. ASSUME NEW i \in 1 .. n
       PROVE  Quotients(number, n)[i] % 10 = ValueOf[Text[first + i - 1]]
  <2>1. i \in 0 .. n /\ low + i \in low + 1 .. low + n /\ low + i = first + i - 1
    BY <1>1
  <2>. QED BY <1>3, <1>5, <1>7, <2>1
<1>. QED BY <1>8, <1>9, <1>10 DEF n, number

LEMMA AtoiIs ==
  ASSUME ParseInv, WordSize % Size = 0, cb_atoi
  PROVE  \E n \in 0 .. Len(Text) :
           /\ Text' = Suffix(n + 1)
           /\ IsNumber(SubSeq(Text, 1, n), call'.ret)
           /\ n < Len(Text) => Text[n + 1] \notin Digits
<1> DEFINE n == AtoiStop - 1
           start == AtoiStart - 1
           sign == IF AtoiSigned THEN 1 ELSE 0
           number == NumberOf(AtoiFirst, AtoiStop)
           value == call'.ret
           text == SubSeq(Text, 1, n)
           digits == SubSeq(text, start + sign + 1, Len(text))
<1>1. /\ Used \in Nat /\ Text \in Seq(Byte) /\ Len(Text) = Used
  BY TextIs
<1>2. /\ AtoiStart \in 1 .. Used + 1 /\ \A i \in 1 .. AtoiStart - 1 : Text[i] \in Blanks
      /\ AtoiFirst \in 1 .. Used + 1
      /\ AtoiStop \in AtoiFirst .. Used + 1
      /\ AtoiStop <= Used => Text[AtoiStop] \notin Digits
      /\ \A i \in AtoiFirst .. AtoiStop - 1 : Text[i] \in Digits
  BY AtoiPlaces
<1>3. /\ ReadUpTo(AtoiStop)
      /\ value = IF AtoiSigned /\ Text[AtoiStart] = Minus THEN - number ELSE number
  BY DEF cb_atoi, Result, AtoiStop, AtoiFirst, AtoiSigned, AtoiStart
<1>4. /\ AtoiFirst = start + sign + 1 /\ sign \in 0 .. 1
      /\ sign = 1 <=> AtoiSigned
  BY <1>2 DEF AtoiFirst
<1>5. AtoiSigned => Text[AtoiStart] \in {Minus, Plus}
  BY DEF AtoiSigned
<1>6. /\ number \in Nat
      /\ Quotients(number, AtoiStop - AtoiFirst)[0] = 0
      /\ \A i \in 1 .. AtoiStop - AtoiFirst :
           Quotients(number, AtoiStop - AtoiFirst)[i] % 10 = ValueOf[Text[AtoiFirst + i - 1]]
  BY <1>2, NumberOfIs
<1>7. Text' = Suffix(AtoiStop)
  <2>1. AtoiStop \in 1 .. Used + 1
    BY <1>1, <1>2
  <2>. QED BY <1>3, <2>1, ReadUpToIs
<1> HIDE DEF number, value, sign
<1>8. /\ n \in 0 .. Used /\ n + 1 = AtoiStop /\ start \in 0 .. n /\ start + 1 = AtoiStart
      /\ start + sign <= n
      /\ AtoiStop - AtoiFirst = n - (start + sign) /\ n - (start + sign) \in Nat
      /\ start + sign \in Nat /\ AtoiFirst = (start + sign) + 1
  BY <1>1, <1>2, <1>4
<1>9. value < 0 => sign = 1 /\ Text[start + 1] = Minus
  BY <1>3, <1>4, <1>6, <1>8
<1>10. value > 0 => sign = 0 \/ Text[start + 1] = Plus
  BY <1>3, <1>4, <1>5, <1>6, <1>8
<1>11. (IF value < 0 THEN - value ELSE value) = number
  BY <1>3, <1>6
<1> HIDE DEF n, start
<1>12. text \in Seq(Byte) /\ Len(text) = n /\ \A i \in 1 .. n : text[i] = Text[i]
  <2>1. \A i \in 1 .. n : Text[i] \in Byte
    BY <1>1, <1>8, TextIs
  <2>2. /\ text \in Seq(Byte)
        /\ Len(text) = IF 1 <= n THEN n - 1 + 1 ELSE 0
        /\ \A i \in 1 .. n - 1 + 1 : text[i] = Text[1 + i - 1]
    BY <1>1, <1>8, <2>1, SubSeqProperties
  <2> HIDE DEF text
  <2>. QED BY <1>1, <1>8, <2>2
<1> HIDE DEF text
<1>13. /\ Len(digits) = n - (start + sign)
       /\ \A i \in 1 .. n - (start + sign) : digits[i] = Text[AtoiFirst + i - 1]
  <2> DEFINE m == start + sign
  <2>1. m \in Nat /\ m <= n /\ n \in Nat /\ AtoiFirst = m + 1 /\ AtoiFirst \in Int
    BY <1>1, <1>8
  <2> HIDE DEF m
  <2>2. \A i \in m + 1 .. n : text[i] \in Byte
    BY <1>12, <2>1, ElementOfSeq
  <2>3. /\ Len(SubSeq(text, m + 1, n)) = IF m + 1 <= n THEN n - (m + 1) + 1 ELSE 0
        /\ \A i \in 1 .. n - (m + 1) + 1 : SubSeq(text, m + 1, n)[i] = text[m + 1 + i - 1]
    BY <1>12, <2>1, <2>2, SubSeqProperties
  <2>4. digits = SubSeq(text, m + 1, n)
    BY <1>12 DEF m
  <2> HIDE DEF digits
  <2>5. Len(digits) = n - m
    BY <2>1, <2>3, <2>4
  <2>6. \A i \in 1 .. n - m : digits[i] = Text[AtoiFirst + i - 1]
    <3> TAKE i \in 1 .. n - m
    <3>1. i \in 1 .. n - (m + 1) + 1 /\ m + 1 + i - 1 \in 1 .. n
      BY <2>1
    <3>2. digits[i] = text[m + 1 + i - 1]
      BY <2>3, <2>4, <3>1
    <3>. QED BY <1>12, <2>1, <3>1, <3>2
  <2>. QED BY <2>5, <2>6 DEF m
<1> DEFINE left == Quotients(IF value < 0 THEN - value ELSE value, Len(digits))
<1> HIDE DEF digits
<1>14. left = Quotients(number, AtoiStop - AtoiFirst)
  BY <1>8, <1>11, <1>13, Zenon
<1> HIDE DEF left
<1>15. \A i \in 1 .. Len(digits) : digits[i] \in Digits /\ left[i] % 10 = ValueOf[digits[i]]
  <2> TAKE i \in 1 .. Len(digits)
  <2>1. i \in 1 .. n - (start + sign) /\ i \in 1 .. AtoiStop - AtoiFirst
    BY <1>8, <1>13, Zenon
  <2>2. AtoiFirst \in Int /\ AtoiStop \in Int
    BY <1>1, <1>2
  <2>3. AtoiFirst + i - 1 \in AtoiFirst .. AtoiStop - 1
    BY <2>1, <2>2
  <2>4. digits[i] = Text[AtoiFirst + i - 1] /\ digits[i] \in Digits
    BY <1>2, <1>13, <2>1, <2>3, Zenon
  <2>5. left[i] % 10 = ValueOf[Text[AtoiFirst + i - 1]]
    BY <1>6, <1>14, <2>1, Zenon
  <2>. QED BY <2>4, <2>5, Zenon
<1>16. IsNumber(text, value)
  <2>1. /\ start \in 0 .. Len(text) /\ start + sign <= Len(text)
        /\ \A i \in 1 .. start : text[i] \in Blanks
    <3>1. ASSUME NEW i \in 1 .. start PROVE text[i] \in Blanks
      <4>1. i \in 1 .. n /\ i \in 1 .. AtoiStart - 1
        BY <1>2, <1>8
      <4>. QED BY <1>2, <1>12, <4>1
    <3>. QED BY <1>8, <1>12, <3>1
  <2>2. sign = 1 => text[start + 1] = Text[start + 1]
    BY <1>8, <1>12
  <2>3. /\ sign = 1 => text[start + 1] \in {Minus, Plus}
        /\ value < 0 => sign = 1 /\ text[start + 1] = Minus
        /\ value > 0 => sign = 0 \/ text[start + 1] = Plus
    BY <1>4, <1>5, <1>8, <1>9, <1>10, <2>2
  <2>4. left[0] = 0
    BY <1>6, <1>14
  <2>. QED BY <1>4, <1>15, <2>1, <2>3, <2>4 DEF IsNumber, left, digits
<1>17. n < Len(Text) => Text[n + 1] \notin Digits
  BY <1>1, <1>2, <1>8
<1>. QED BY <1>1, <1>7, <1>8, <1>16, <1>17 DEF text, value

\* For any size that divides the range of size_t, cb_atoi takes blanks, a sign
\* and the longest row of digits, returns the number that they are, and leaves
\* what follows as it was (circularbuffer.c:417-442, 389-396); where there is no
\* digit it takes the blanks and the sign, and nothing of what follows.  The number
\* is not bounded here: that an int overflows is not part of the statement.
THEOREM NumberIsTakenWhole ==
  ASSUME WordSize % Size = 0
  PROVE  ParseSpec => NumberIsTaken
<1>1. ParseInv /\ [ParseNext]_parsevars =>
        [Calls("atoi") =>
           \E n \in 0 .. Len(Text) :
             /\ Text' = Suffix(n + 1)
             /\ IsNumber(SubSeq(Text, 1, n), call'.ret)
             /\ n < Len(Text) => Text[n + 1] \notin Digits]_parsevars
  BY AtoiIs, AtoiCalled DEF Calls
<1>. QED BY <1>1, ParseInvariance, PTL DEF ParseSpec, NumberIsTaken
===============================================================================

--------------------------- MODULE DisplayProofs ---------------------------
(***************************************************************************)
(* Proofs about module Display, for a day of any length whose hours and    *)
(* minutes have two digits to any base.                                    *)
(***************************************************************************)
EXTENDS Display, RtcProofs

\* The digits of a number of two digits are numerals.
LEMMA TwoDigits ==
  ASSUME NEW limit \in Nat, limit <= Base * Base, NEW x \in 0 .. limit - 1
  PROVE  x \div Base \in Numerals /\ x % Base \in Numerals
<1>1. /\ Base \in Nat /\ Base > 0 /\ x \in Nat /\ x < Base * Base
      /\ x % Base \in 0 .. Base - 1
  BY DisplayAssumption
<1>2. x \div Base \in Nat /\ x \div Base < Base
  BY <1>1, Z3
<1>. QED BY <1>1, <1>2 DEF Numerals

LEMMA NumeralIsNumeral ==
  ASSUME InRange(hours, minutes, seconds), NEW k \in Digits
  PROVE  Numeral(k) \in Numerals
<1>1. /\ hours \div Base \in Numerals /\ hours % Base \in Numerals
      /\ minutes \div Base \in Numerals /\ minutes % Base \in Numerals
  BY TwoDigits, RtcAssumption, DisplayAssumption DEF InRange
<1>2. (minutes \div Base) % Base \in Numerals
  BY <1>1, DisplayAssumption DEF Numerals
<1>. QED BY <1>1, <1>2 DEF Numeral, Digits

LEMMA InitType == Init => TypeOK
<1> SUFFICES ASSUME Init PROVE TypeOK
  OBVIOUS
<1>1. RtcTypeOK
  BY RtcInit DEF Init
<1>2. frame \in [Digits -> Numerals]
  BY <1>1, NumeralIsNumeral DEF Init, RtcTypeOK
<1>3. begun \in BOOLEAN
  BY DEF Init
<1>. QED BY <1>1, <1>2, <1>3 DEF TypeOK, Init, Digits, RtcTypeOK, InRange

LEMMA NextType == TypeOK /\ [Next]_vars => TypeOK'
<1> SUFFICES ASSUME TypeOK, [Next]_vars PROVE TypeOK'
  OBVIOUS
<1>0. InRange(hours, minutes, seconds)
  BY DEF TypeOK, RtcTypeOK
<1>1. ASSUME UNCHANGED rtcctx PROVE RtcTypeOK'
  BY <1>1, RtcNext DEF TypeOK
<1>2. CASE TimerEvent
  BY <1>1, <1>2 DEF TimerEvent, TypeOK, ports, history
<1>3. CASE ShowSegments
  <2>1. /\ Numeral(digit_idx) \in Numerals
        /\ NextDigit(digit_idx) \in Digits
    BY NumeralIsNumeral, <1>0 DEF TypeOK, NextDigit, Digits
  <2>2. /\ start' \in (0 .. HoursPerDay - 1) \X (0 .. MinutesPerHour - 1)
        /\ ticked' \in 0 .. 1
    BY <1>0, <1>3 DEF ShowSegments, TypeOK, InRange
  <2>. QED BY <1>1, <1>3, <2>1, <2>2 DEF ShowSegments, TypeOK
<1>4. CASE LightDigit
  BY <1>1, <1>4 DEF LightDigit, TypeOK, timer, history
<1>5. CASE PeriodEnds
  BY <1>1, <1>5 DEF PeriodEnds, TypeOK, Blank, history
<1>6. CASE Tick
  <2>1. RtcTypeOK'
    BY <1>6, RtcNext DEF Tick, TypeOK
  <2>. QED BY <1>6, <2>1 DEF Tick, TypeOK, ports, timer
<1>7. CASE UNCHANGED vars
  BY <1>1, <1>7 DEF vars, TypeOK, ports, timer, history
<1>. QED BY <1>2, <1>3, <1>4, <1>5, <1>6, <1>7 DEF Next, Timer1_A1

\* Every variable keeps its type: the table of segments is read at a numeral
\* (main.c:48-91).
THEOREM TypeCorrect == Spec => []TypeOK
BY InitType, NextType, PTL DEF Spec

-----------------------------------------------------------------------------
(* The timer matches only after it has overflowed, so no digit is lit when *)
(* the interrupt changes the segments, and the first interrupt after main  *)
(* has enabled them is for a match.                                        *)

Dark == begun => P2OUT = {}

DarkInv ==
  /\ "match" \in pending \/ isr = "match" => Dark
  /\ pending = {} /\ phase = "match" /\ isr = "idle" => Dark
  /\ pending = {"match"} => phase = "period"
  /\ isr = "match" => pending = {"period"} \/ (pending = {} /\ phase = "period")
  /\ isr = "match" => P3OUT = frame[p2val]
  /\ ~begun => isr = "match" \/ (pending = {"match", "period"} /\ P3OUT = Off)

IInv == TypeOK /\ DarkInv /\ NoGhost

LEMMA InitIInv == Init => IInv
<1> SUFFICES ASSUME Init PROVE DarkInv /\ NoGhost
  BY InitType DEF IInv
<1>. QED BY DEF Init, DarkInv, NoGhost, Dark

LEMMA NextIInv == IInv /\ [Next]_vars => IInv'
<1> SUFFICES ASSUME IInv, [Next]_vars PROVE DarkInv' /\ NoGhost'
  BY NextType DEF IInv
<1>1. CASE TimerEvent
  BY <1>1 DEF TimerEvent, IInv, TypeOK, DarkInv, NoGhost, Dark, ports, history
<1>2. CASE ShowSegments
  <2>1. Dark /\ P2OUT' = P2OUT
    BY <1>2 DEF ShowSegments, IInv, DarkInv
  <2>2. P3OUT' = frame'[p2val']
    BY <1>2 DEF ShowSegments, IInv, TypeOK
  <2>3. /\ pending' = {} \/ pending' = {"period"}
        /\ pending' = {} => phase' = "period"
    BY <1>2 DEF ShowSegments, IInv, DarkInv, TypeOK
  <2>4. begun' = begun /\ isr' = "match"
    BY <1>2 DEF ShowSegments
  <2>. QED BY <2>1, <2>2, <2>3, <2>4 DEF DarkInv, NoGhost, Dark
<1>3. CASE LightDigit
  BY <1>3 DEF LightDigit, IInv, TypeOK, DarkInv, NoGhost, Dark, timer, history
<1>4. CASE PeriodEnds
  BY <1>4 DEF PeriodEnds, Blank, IInv, TypeOK, DarkInv, NoGhost, Dark, history
<1>5. CASE Tick
  BY <1>5 DEF Tick, IInv, DarkInv, NoGhost, Dark, ports, timer
<1>6. CASE UNCHANGED vars
  BY <1>6 DEF vars, IInv, DarkInv, NoGhost, Dark, ports, timer, history
<1>. QED BY <1>1, <1>2, <1>3, <1>4, <1>5, <1>6 DEF Next, Timer1_A1

\* From the first digit that the interrupt lights, every lit digit shows its
\* own numeral, although the ports are written one after the other
\* (main.c:91-101); until then the selected digits are dark, but for the moment
\* between the two writes of the first interrupt (main.c:157).
THEOREM NoDigitGhosts == Spec => []NoGhost
<1>1. IInv => NoGhost
  BY DEF IInv
<1>. QED BY <1>1, InitIInv, NextIInv, PTL DEF Spec

-----------------------------------------------------------------------------
(* The digits from some place on are those of the clock as it is, and      *)
(* those before it are those it had when the leftmost was shown; in        *)
(* between the clock has ticked, and its fields are at most a carry apart. *)

NumeralOf(h, m, k) ==
  CASE k = 0 -> h \div Base
    [] k = 1 -> h % Base
    [] k = 2 -> (m \div Base) % Base
    [] k = 3 -> m % Base

Follows ==
  \/ hours = start[1] /\ (minutes = start[2] \/ minutes = start[2] + 1)
  \/ minutes = 0 /\ (hours = 0 \/ hours = start[1] + 1)

MixedFrom(c) ==
  \A k \in Digits : k < digit_idx \/ digit_idx = 0 =>
    frame[k] = IF k < c THEN NumeralOf(start[1], start[2], k)
                        ELSE NumeralOf(hours, minutes, k)

FrameInv ==
  /\ ticked = 0 => hours = start[1] /\ minutes = start[2]
  /\ Follows
  /\ \E c \in 0 .. 4 : (digit_idx # 0 => c <= digit_idx) /\ MixedFrom(c)

LEMMA NumeralNow == \A k \in Digits : Numeral(k) = NumeralOf(hours, minutes, k)
BY DEF Numeral, NumeralOf

\* A number is made up of its digits.
LEMMA DigitsMakeUp ==
  ASSUME NEW x \in Nat, NEW d \in Nat \ {0}
  PROVE  x \div d \in Nat /\ x % d \in 0 .. d - 1 /\ x = (x \div d) * d + (x % d)
<1>1. x \div d \in Nat /\ x % d \in 0 .. d - 1
  OBVIOUS
<1>2. x - (x \div d) * d = x % d
  OBVIOUS
<1>3. (x \div d) * d \in Int
  BY <1>1
<1>. QED BY <1>1, <1>2, <1>3

\* The tens of a number of two digits are a numeral.
LEMMA TensOfMinutes ==
  ASSUME NEW x \in Nat, x < Base * Base
  PROVE  (x \div Base) % Base = x \div Base
<1>1. Base \in Nat /\ Base * Base \in Nat
  BY DisplayAssumption
<1>2. x \div Base \in 0 .. Base - 1
  BY <1>1, TwoDigits DEF Numerals
<1>. QED BY <1>1, <1>2

\* Of two numbers of which one follows the other, the tens follow too.
LEMMA TensFollow ==
  ASSUME NEW d \in Nat, NEW q \in Nat, NEW p \in Nat,
         NEW s \in 0 .. d - 1, NEW r \in 0 .. d - 1,
         q * d + s + 1 = p * d + r
  PROVE  q * d \in Nat /\ p * d \in Nat /\ q * d <= p * d
<1>1. q * d \in Nat /\ p * d \in Nat
  OBVIOUS
<1>2. q <= p
  <2>. SUFFICES ASSUME p + 1 <= q PROVE FALSE
    OBVIOUS
  <2>1. (p + 1) * d <= q * d /\ (p + 1) * d = p * d + d
    BY TimesMono, TimesSucc
  <2> DEFINE new == p * d
             old == q * d
  <2>2. new + d <= old /\ old + s + 1 = new + r /\ old \in Nat /\ new \in Nat
    BY <1>1, <2>1
  <2>. HIDE DEF new, old
  <2>. QED BY <2>2
<1>. QED BY <1>1, <1>2, TimesMono

\* Old tens and new ones are not ahead of the number they become.
LEMMA OldTens ==
  ASSUME NEW x \in Nat
  PROVE  /\ (x \div Base) * Base + ((x + 1) % Base) \in Nat
         /\ (x \div Base) * Base + ((x + 1) % Base) <= x + 1
<1> DEFINE q == x \div Base
           s == x % Base
           p == (x + 1) \div Base
           r == (x + 1) % Base
<1>. SUFFICES q * Base + r \in Nat /\ q * Base + r <= x + 1
  OBVIOUS
<1>1. Base \in Nat \ {0} /\ x + 1 \in Nat
  BY DisplayAssumption
<1>2. q \in Nat /\ s \in 0 .. Base - 1 /\ x = q * Base + s
  BY <1>1, DigitsMakeUp
<1>3. p \in Nat /\ r \in 0 .. Base - 1 /\ x + 1 = p * Base + r
  BY <1>1, DigitsMakeUp
<1> HIDE DEF q, p, r, s
<1>4. q * Base \in Nat /\ p * Base \in Nat /\ q * Base <= p * Base
  BY <1>1, <1>2, <1>3, TensFollow
<1>5. q * Base + r \in Nat /\ q * Base + r <= p * Base + r
  BY <1>1, <1>3, <1>4
<1>6. q * Base + r <= x + 1
  BY <1>3, <1>5
<1>. QED BY <1>5, <1>6

LEMMA MinuteMono ==
  ASSUME NEW h \in Nat, NEW i \in Nat, NEW m \in Nat, NEW n \in Nat, h <= i, m <= n
  PROVE  Minute(h, m) <= Minute(i, n) /\ Minute(h, m) \in Nat /\ Minute(i, n) \in Nat
<1>1. MinutesPerHour \in Nat
  BY RtcAssumption
<1>2. h * MinutesPerHour <= i * MinutesPerHour
  BY <1>1, TimesMono
<1>3. h * MinutesPerHour \in Nat /\ i * MinutesPerHour \in Nat
  BY <1>1
<1>. QED BY <1>2, <1>3 DEF Minute

-----------------------------------------------------------------------------
FrameIInv == TypeOK /\ FrameInv

LEMMA InitFrame == Init => FrameIInv
<1> SUFFICES ASSUME Init PROVE FrameInv
  BY InitType DEF FrameIInv
<1>1. \A k \in Digits : frame[k] = NumeralOf(hours, minutes, k)
  BY NumeralNow DEF Init
<1>2. MixedFrom(0)
  BY <1>1 DEF MixedFrom, Digits
<1>. QED BY <1>2 DEF Init, FrameInv, Follows

\* What is shown is the digit of the clock as it is.
LEMMA ShowKeepsFrame ==
  ASSUME FrameIInv, TypeOK', ShowSegments
  PROVE  FrameInv'
<1>1. /\ digit_idx \in Digits /\ frame \in [Digits -> Numerals]
      /\ hours' = hours /\ minutes' = minutes
      /\ frame' = [frame EXCEPT ![digit_idx] = NumeralOf(hours, minutes, digit_idx)]
      /\ digit_idx' = NextDigit(digit_idx)
  BY NumeralNow DEF FrameIInv, TypeOK, ShowSegments, rtcctx
<1>2. CASE digit_idx = 0
  <2>1. digit_idx' = 1 /\ start' = <<hours, minutes>> /\ ticked' = 0
    BY <1>1, <1>2 DEF ShowSegments, NextDigit
  <2>2. MixedFrom(0)'
    BY <1>1, <1>2, <2>1 DEF MixedFrom, Digits
  <2>3. FrameInv' <=> /\ ticked' = 0 => hours' = start'[1] /\ minutes' = start'[2]
                      /\ Follows'
                      /\ \E c \in 0 .. 4 : (digit_idx' # 0 => c <= digit_idx') /\ MixedFrom(c)'
    BY DEF FrameInv
  <2>4. 0 \in 0 .. 4 /\ 0 <= digit_idx'
    BY <2>1
  <2>. QED BY <1>1, <2>1, <2>2, <2>3, <2>4 DEF Follows
<1>3. CASE digit_idx # 0
  <2>1. start' = start /\ ticked' = ticked
    BY <1>3 DEF ShowSegments
  <2>2. PICK c \in 0 .. 4 : c <= digit_idx /\ MixedFrom(c)
    BY <1>3 DEF FrameIInv, FrameInv
  <2>3. MixedFrom(c)'
    <3>1. \A k \in Digits : k < digit_idx' \/ digit_idx' = 0 => k < digit_idx \/ k = digit_idx
      BY <1>1, <1>3 DEF NextDigit, Digits
    <3>2. \A k \in Digits : k < digit_idx => frame'[k] = frame[k]
      BY <1>1 DEF Digits
    <3>3. frame'[digit_idx] = NumeralOf(hours, minutes, digit_idx) /\ ~(digit_idx < c)
      BY <1>1, <2>2 DEF Digits
    <3>. QED BY <1>1, <2>1, <2>2, <3>1, <3>2, <3>3 DEF MixedFrom
  <2>4. digit_idx' # 0 => c <= digit_idx'
    BY <1>1, <1>3, <2>2 DEF NextDigit, Digits
  <2>5. (ticked' = 0 => hours' = start'[1] /\ minutes' = start'[2]) /\ Follows'
    BY <1>1, <2>1 DEF FrameIInv, FrameInv, Follows
  <2>. QED BY <2>3, <2>4, <2>5 DEF FrameInv
<1>. QED BY <1>2, <1>3

\* What was shown before a tick is the time from before it.
LEMMA TickKeepsFrame ==
  ASSUME FrameIInv, Tick
  PROVE  FrameInv'
<1> DEFINE c == IF digit_idx = 0 THEN 4 ELSE digit_idx
<1>1. /\ ticked = 0 /\ ticked' = 1 /\ digit_idx' = digit_idx
      /\ frame' = frame /\ start' = start /\ Timer0_A0
  BY DEF Tick
<1>2. InRange(hours, minutes, seconds) /\ digit_idx \in Digits
  BY DEF FrameIInv, TypeOK, RtcTypeOK
<1>3. hours = start[1] /\ minutes = start[2]
  BY <1>1 DEF FrameIInv, FrameInv
<1>4. \A k \in Digits : k < digit_idx \/ digit_idx = 0 =>
        frame[k] = NumeralOf(start[1], start[2], k)
  BY <1>3 DEF FrameIInv, FrameInv, MixedFrom
<1>5. c \in 0 .. 4 /\ (digit_idx' # 0 => c <= digit_idx')
  BY <1>1, <1>2 DEF Digits
<1>6. MixedFrom(c)'
  <2>1. \A k \in Digits : k < digit_idx \/ digit_idx = 0 => k < c
    BY <1>2 DEF Digits
  <2>. QED BY <1>1, <1>4, <2>1 DEF MixedFrom
<1>7. Follows'
  <2>1. /\ Carry(minutes, MinutesPerHour) = IF Incr(minutes) = MinutesPerHour THEN 0 ELSE minutes + 1
        /\ Carry(hours, HoursPerDay) \in {0, hours + 1}
    BY <1>2, CarryInRange, RtcAssumption DEF InRange, Carry
  <2>2. /\ minutes' = IF MinuteIsOver THEN Carry(minutes, MinutesPerHour) ELSE minutes
        /\ hours' = IF HourIsOver THEN Carry(hours, HoursPerDay) ELSE hours
    BY <1>1 DEF Timer0_A0
  <2>. QED BY <1>1, <1>3, <2>1, <2>2 DEF Follows, HourIsOver
<1>. QED BY <1>1, <1>5, <1>6, <1>7 DEF FrameInv

LEMMA NextFrame == FrameIInv /\ [Next]_vars => FrameIInv'
<1> SUFFICES ASSUME FrameIInv, [Next]_vars PROVE FrameInv'
  BY NextType DEF FrameIInv
<1>1. TypeOK'
  BY NextType DEF FrameIInv
<1>2. CASE ShowSegments
  BY <1>1, <1>2, ShowKeepsFrame
<1>3. CASE Tick
  BY <1>3, TickKeepsFrame
<1>4. ASSUME UNCHANGED <<rtcctx, digit_idx, frame, start, ticked>> PROVE FrameInv'
  <2>1. /\ hours' = hours /\ minutes' = minutes /\ digit_idx' = digit_idx
        /\ frame' = frame /\ start' = start /\ ticked' = ticked
    BY <1>4 DEF rtcctx
  <2>. QED BY <2>1 DEF FrameIInv, FrameInv, Follows, MixedFrom
<1>5. CASE TimerEvent \/ LightDigit \/ PeriodEnds \/ UNCHANGED vars
  BY <1>4, <1>5 DEF TimerEvent, LightDigit, PeriodEnds, vars, history
<1>. QED BY <1>2, <1>3, <1>5 DEF Next, Timer1_A1

-----------------------------------------------------------------------------
\* What the digits from place c on make of the time when the leftmost was
\* shown and the time now, hours and minutes apart.
HoursFrom(c) ==
  CASE c = 0 -> hours
    [] c = 1 -> (start[1] \div Base) * Base + (hours % Base)
    [] c > 1 -> start[1]
MinutesFrom(c) ==
  CASE c < 3 -> minutes
    [] c = 3 -> (start[2] \div Base) * Base + (minutes % Base)
    [] c = 4 -> start[2]

LEMMA ShownFrom ==
  ASSUME TypeOK, digit_idx = 0, NEW c \in 0 .. 4, MixedFrom(c)
  PROVE  Shown = Minute(HoursFrom(c), MinutesFrom(c))
<1>1. /\ hours \in Nat /\ start[1] \in Nat
      /\ minutes \in Nat /\ minutes < Base * Base
      /\ start[2] \in Nat /\ start[2] < Base * Base
  BY DisplayAssumption, RtcAssumption DEF TypeOK, RtcTypeOK, InRange
<1>2. /\ (minutes \div Base) % Base = minutes \div Base
      /\ (start[2] \div Base) % Base = start[2] \div Base
  BY <1>1, TensOfMinutes
<1>3. \A k \in Digits :
        frame[k] = IF k < c THEN NumeralOf(start[1], start[2], k)
                            ELSE NumeralOf(hours, minutes, k)
  BY DEF MixedFrom
<1>4. /\ frame[0] = IF c > 0 THEN start[1] \div Base ELSE hours \div Base
      /\ frame[1] = IF c > 1 THEN start[1] % Base ELSE hours % Base
      /\ frame[2] = IF c > 2 THEN start[2] \div Base ELSE minutes \div Base
      /\ frame[3] = IF c > 3 THEN start[2] % Base ELSE minutes % Base
  BY <1>2, <1>3 DEF NumeralOf, Digits
<1>5. \A x \in {hours, minutes, start[1], start[2]} : (x \div Base) * Base + (x % Base) = x
  BY <1>1, DigitsMakeUp, DisplayAssumption
<1>6. frame[0] * Base + frame[1] = HoursFrom(c)
  <2>1. CASE c = 0
    BY <1>4, <1>5, <2>1 DEF HoursFrom
  <2>2. CASE c = 1
    BY <1>4, <2>2 DEF HoursFrom
  <2>3. CASE c > 1
    BY <1>4, <1>5, <2>3 DEF HoursFrom
  <2>. QED BY <2>1, <2>2, <2>3
<1>7. frame[2] * Base + frame[3] = MinutesFrom(c)
  <2>1. CASE c < 3
    BY <1>4, <1>5, <2>1 DEF MinutesFrom
  <2>2. CASE c = 3
    BY <1>4, <2>2 DEF MinutesFrom
  <2>3. CASE c = 4
    BY <1>4, <1>5, <2>3 DEF MinutesFrom
  <2>. QED BY <2>1, <2>2, <2>3
<1>. QED BY <1>6, <1>7 DEF Shown

LEMMA MixedIsNat ==
  ASSUME TypeOK, NEW c \in 0 .. 4
  PROVE  /\ hours \in Nat /\ minutes \in Nat /\ start[1] \in Nat /\ start[2] \in Nat
         /\ HoursFrom(c) \in Nat /\ MinutesFrom(c) \in Nat
         /\ Minute(hours, minutes) \in Nat /\ Minute(start[1], start[2]) \in Nat
         /\ Minute(HoursFrom(c), MinutesFrom(c)) \in Nat
<1>1. hours \in Nat /\ minutes \in Nat /\ start[1] \in Nat /\ start[2] \in Nat
  BY RtcAssumption DEF TypeOK, RtcTypeOK, InRange
<1>2. \A x, y \in Nat : (x \div Base) * Base + (y % Base) \in Nat
  <2>. TAKE x, y \in Nat
  <2>1. Base \in Nat \ {0}
    BY DisplayAssumption
  <2>2. x \div Base \in Nat /\ y % Base \in 0 .. Base - 1
    BY <2>1
  <2>. QED BY <2>1, <2>2
<1>3. HoursFrom(c) \in Nat
  BY <1>1, <1>2 DEF HoursFrom
<1>4. MinutesFrom(c) \in Nat
  BY <1>1, <1>2 DEF MinutesFrom
<1>5. \A h, m \in Nat : Minute(h, m) \in Nat
  <2>. TAKE h, m \in Nat
  <2>. QED BY MinuteMono
<1>. QED BY <1>1, <1>3, <1>4, <1>5

\* Old tens with the ones of the same number, of the next, and of none.
LEMMA NewOnes ==
  ASSUME NEW x \in Nat, NEW y \in {x, x + 1}
  PROVE  (x \div Base) * Base + (y % Base) <= y
<1>1. CASE y = x
  BY <1>1, DigitsMakeUp, DisplayAssumption
<1>2. CASE y = x + 1
  BY <1>2, OldTens
<1>. QED BY <1>1, <1>2

LEMMA NewZero ==
  ASSUME NEW x \in Nat
  PROVE  (x \div Base) * Base + (0 % Base) <= x
<1> DEFINE q == (x \div Base) * Base
<1>1. 0 % Base = 0
  BY DisplayAssumption
<1>2. x % Base \in Nat /\ q \in Nat /\ x = q + (x % Base)
  <2>1. /\ x \div Base \in Nat /\ Base \in Nat
        /\ x % Base \in 0 .. Base - 1 /\ x = (x \div Base) * Base + (x % Base)
    BY DigitsMakeUp, DisplayAssumption
  <2>. QED BY <2>1
<1>3. q <= x
  <2>. HIDE DEF q
  <2>. QED BY <1>2
<1>. QED BY <1>1, <1>2, <1>3

\* Mixing old digits with new ones gives a time that is not ahead.
LEMMA MixtureIsNotAhead ==
  ASSUME TypeOK, Follows, NEW c \in 0 .. 4
  PROVE  LET now == Minute(hours, minutes)
             was == Minute(start[1], start[2])
             mixed == Minute(HoursFrom(c), MinutesFrom(c))
         IN  mixed <= IF now < was THEN was ELSE now
<1> DEFINE now == Minute(hours, minutes)
           was == Minute(start[1], start[2])
           mixed == Minute(HoursFrom(c), MinutesFrom(c))
<1>. SUFFICES mixed <= IF now < was THEN was ELSE now
  OBVIOUS
<1>. SUFFICES mixed <= now \/ mixed <= was
  <2>1. now \in Nat /\ was \in Nat /\ mixed \in Nat
    BY MixedIsNat
  <2>. HIDE DEF now, was, mixed
  <2>. QED BY <2>1
<1>1. /\ hours \in Nat /\ minutes \in Nat
      /\ start[1] \in Nat /\ start[2] \in Nat
      /\ HoursFrom(c) \in Nat /\ MinutesFrom(c) \in Nat
  BY MixedIsNat
<1>2. CASE hours = start[1] /\ (minutes = start[2] \/ minutes = start[2] + 1)
  <2>1. HoursFrom(c) <= hours
    BY <1>1, <1>2, NewOnes DEF HoursFrom
  <2>2. MinutesFrom(c) <= minutes
    BY <1>1, <1>2, NewOnes DEF MinutesFrom
  <2>. QED BY <1>1, <2>1, <2>2, MinuteMono
<1>3. CASE minutes = 0 /\ hours = start[1] + 1
  <2>1. CASE c < 3
    <3>1. HoursFrom(c) <= hours /\ MinutesFrom(c) <= minutes
      BY <1>1, <1>3, <2>1, NewOnes DEF HoursFrom, MinutesFrom
    <3>. QED BY <1>1, <3>1, MinuteMono
  <2>2. CASE c >= 3
    <3>1. HoursFrom(c) <= start[1] /\ MinutesFrom(c) <= start[2]
      BY <1>1, <1>3, <2>2, NewZero DEF HoursFrom, MinutesFrom
    <3>. QED BY <1>1, <3>1, MinuteMono
  <2>. QED BY <2>1, <2>2
<1>4. CASE minutes = 0 /\ hours = 0
  <2>1. HoursFrom(c) <= start[1] /\ MinutesFrom(c) <= start[2]
    BY <1>1, <1>4, NewZero DEF HoursFrom, MinutesFrom
  <2>. QED BY <1>1, <2>1, MinuteMono
<1>. QED BY <1>2, <1>3, <1>4 DEF Follows

\* Four digits shown one after the other while the clock ticks are the time,
\* or not ahead of it (main.c:48-90 against rtc.c:19-32).
THEOREM FrameNotAhead == Spec => []FrameIsNotAhead
<1>1. FrameIInv => FrameIsNotAhead
  <2>. SUFFICES ASSUME FrameIInv, digit_idx = 0
                PROVE  /\ ticked = 0 => Shown = Minute(hours, minutes)
                       /\ LET now == Minute(hours, minutes)
                              was == Minute(start[1], start[2])
                          IN  Shown <= IF now < was THEN was ELSE now
    BY DEF FrameIsNotAhead
  <2>1. PICK c \in 0 .. 4 : MixedFrom(c)
    BY DEF FrameIInv, FrameInv
  <2>2. ASSUME ticked = 0 PROVE Shown = Minute(hours, minutes)
    <3>1. hours = start[1] /\ minutes = start[2]
      BY <2>2 DEF FrameIInv, FrameInv
    <3>2. MixedFrom(0)
      BY <2>1, <3>1 DEF MixedFrom
    <3>3. Shown = Minute(HoursFrom(0), MinutesFrom(0))
      BY <3>2, ShownFrom DEF FrameIInv
    <3>. QED BY <3>3 DEF HoursFrom, MinutesFrom
  <2>3. Shown = Minute(HoursFrom(c), MinutesFrom(c))
    BY <2>1, ShownFrom DEF FrameIInv
  <2>. QED BY <2>2, <2>3, MixtureIsNotAhead DEF FrameIInv, FrameInv
<1>. QED BY <1>1, InitType, InitFrame, NextFrame, PTL DEF Spec, FrameIInv
=============================================================================

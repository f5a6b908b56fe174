-------------------------- MODULE ClockSyncProofs --------------------------
(***************************************************************************)
(* Proofs about modules NtpTime, ClockSync and LastSunday: the line is     *)
(* right for every instant, not only for those a run walks through, the    *)
(* clock that reads it keeps the time through every second there may be,   *)
(* and the generator takes the last Sunday in every year of its calendar.  *)
(***************************************************************************)
EXTENDS ClockSync, RtcProofs, WellFoundedInduction

\* What the repeated subtraction computes.
LEMMA Quotient ==
  ASSUME NEW x \in Nat \ {0}, NEW d \in Nat \ {0}
  PROVE  /\ simpledivide(x, d) = (x - 1) \div d
         /\ simplemod(x, d) = ((x - 1) % d) + 1
<1>1. simpledivide(x, d) = (x - 1) \div d
  BY DEF simpledivide
<1>2. x - 1 \in Nat
  OBVIOUS
<1>3. (x - 1) - ((x - 1) \div d) * d = (x - 1) % d
  BY <1>2
<1>4. ((x - 1) \div d) * d \in Int
  BY <1>2
<1>. QED BY <1>1, <1>3, <1>4 DEF simplemod

\* A quotient and a remainder make up the number.
LEMMA Division ==
  ASSUME NEW x \in Nat, NEW d \in Nat \ {0}
  PROVE  x \div d \in Nat /\ x % d \in 0 .. d - 1 /\ x = (x \div d) * d + (x % d)
<1>1. x \div d \in Nat /\ x % d \in 0 .. d - 1
  OBVIOUS
<1>2. x - (x \div d) * d = x % d
  OBVIOUS
<1>3. (x \div d) * d \in Int
  BY <1>1
<1>. QED BY <1>1, <1>2, <1>3

\* Whole days do not change the time of day.
LEMMA WholeDays ==
  ASSUME NEW x \in Int, NEW k \in Int
  PROVE  (x + k * DayLength) % DayLength = x % DayLength
BY SMT DEF DayLength

LEMMA DayAndYear == DayLength \in Nat \ {0} /\ Year \in Nat \ {0}
BY SMT DEF DayLength, Year

LEMMA OfDay ==
  ASSUME NEW x \in Int
  PROVE  x % DayLength \in 0 .. DayLength - 1
BY DayAndYear

LEMMA AddInDay ==
  ASSUME NEW x \in Nat, NEW y \in Int
  PROVE  ((x % DayLength) + y) % DayLength = (x + y) % DayLength
<1>1. x \div DayLength \in Nat /\ x % DayLength \in Nat /\ x = (x \div DayLength) * DayLength + (x % DayLength)
  BY Division, DayAndYear
<1>2. x + y = ((x % DayLength) + y) + (x \div DayLength) * DayLength
  BY <1>1, DayAndYear
<1>3. (x % DayLength) + y \in Int
  BY <1>1
<1>. QED BY <1>1, <1>2, <1>3, WholeDays

\* The second of the day that ends with the answer.
LEMMA OfTheDay ==
  ASSUME NEW x \in Nat \ {0}
  PROVE  simplemod(SinceNewYear(x), DayLength) = ((x - 1) % DayLength) + 1
<1> DEFINE y == SinceNewYear(x)
           k == (x - 1) \div Year
<1>1. y = ((x - 1) % Year) + 1 /\ x - 1 \in Nat
  BY Quotient, DayAndYear DEF SinceNewYear
<1>2. /\ k \in Nat /\ (x - 1) % Year \in Nat
      /\ x - 1 = k * Year + ((x - 1) % Year)
  <2> DEFINE z == x - 1
  <2>1. z \in Nat
    OBVIOUS
  <2> HIDE DEF z
  <2>2. /\ z \div Year \in Nat /\ z % Year \in 0 .. Year - 1
        /\ z = (z \div Year) * Year + (z % Year)
    BY <2>1, Division, DayAndYear
  <2>. QED BY <2>2, DayAndYear DEF z
<1> HIDE DEF k, y
<1>3. y \in Nat \ {0} /\ x - 1 = (y - 1) + (365 * k) * DayLength
  <2>1. Year = 365 * DayLength
    BY SMT DEF Year, DayLength
  <2>2. k * Year = (365 * k) * DayLength
    BY <1>2, <2>1, DayAndYear
  <2>. QED BY <1>1, <1>2, <2>2, DayAndYear
<1>4. (y - 1) % DayLength = (x - 1) % DayLength
  BY <1>2, <1>3, WholeDays
<1>5. simplemod(y, DayLength) = ((y - 1) % DayLength) + 1
  BY <1>3, Quotient, DayAndYear
<1>. QED BY <1>4, <1>5 DEF y

LEMMA AddIsABit == \A x : tz_shouldaddanhour(x) \in {0, 1}
BY DEF tz_shouldaddanhour

\* Hour and the rest of it, and minute and second.
LEMMA ClockFields ==
  ASSUME NEW s \in 0 .. DayLength - 1
  PROVE  LET r == s % Hour
         IN /\ s \div Hour \in 0 .. 23 /\ r \in 0 .. 3599
            /\ r \div 60 \in 0 .. 59 /\ r % 60 \in 0 .. 59
            /\ (s \div Hour) * Hour + (r \div 60) * 60 + (r % 60) = s
<1> DEFINE q == s \div Hour
           r == s % Hour
<1>1. s \in Nat /\ s < 86400
  BY SMT DEF DayLength
<1>2. q \in Nat /\ r \in 0 .. 3599 /\ s = q * 3600 + r
  BY <1>1, Division, SMT DEF Hour
<1>3. q \in 0 .. 23
  <2> HIDE DEF q, r
  <2>. QED BY <1>1, <1>2, SMT
<1>4. r \div 60 \in Nat /\ r % 60 \in 0 .. 59 /\ r = (r \div 60) * 60 + (r % 60)
  <2> HIDE DEF r
  <2>1. r \in Nat /\ 60 \in Nat \ {0}
    BY <1>2, SMT
  <2>2. r % 60 \in 0 .. 60 - 1
    BY <2>1, Division
  <2>. QED BY <2>1, <2>2, Division, SMT
<1>5. r \div 60 \in 0 .. 59
  <2> DEFINE m == r \div 60
             e == r % 60
  <2> SUFFICES m \in 0 .. 59
    OBVIOUS
  <2> HIDE DEF r, m, e
  <2>1. m \in Nat /\ e \in Nat /\ r \in Nat /\ r = (m * 60) + e /\ r <= 3599
    BY <1>2, <1>4 DEF m, e
  <2>2. m <= 59
    BY <2>1, SMT
  <2>. QED BY <2>1, <2>2, SMT
<1>. QED BY <1>2, <1>3, <1>4, <1>5, SMT DEF Hour

\* The three fields of what is printed for an instant.
LEMMA Fields ==
  ASSUME NEW x \in Nat \ {0}
  PROVE  LET s == (x - 1) % DayLength
             r == s % Hour
         IN ntp_udp_recv(x) = [hour |-> (s \div Hour) + tz_shouldaddanhour(x),
                               min |-> r \div 60, sec |-> r % 60]
<1> DEFINE s == (x - 1) % DayLength
           q == s \div Hour
           r == s % Hour
           add == tz_shouldaddanhour(x)
<1>1. s \in 0 .. DayLength - 1 /\ s \in Nat /\ simplemod(SinceNewYear(x), DayLength) = s + 1
  BY OfTheDay, OfDay, DayAndYear
<1> HIDE DEF s
<1>2. q \in 0 .. 23 /\ r \in 0 .. 3599 /\ r \in Nat
  <2>1. q \in 0 .. 23 /\ r \in 0 .. 3599
    BY <1>1, ClockFields
  <2> HIDE DEF q, r
  <2>. QED BY <2>1, SMT
<1>3. simpledivide(s + 1, Hour) = q /\ simplemod(s + 1, Hour) = r + 1
  <2>1. s + 1 \in Nat \ {0} /\ (s + 1) - 1 = s /\ Hour \in Nat \ {0}
    BY <1>1, SMT DEF Hour
  <2>. QED BY <2>1, Quotient
<1> HIDE DEF q, r
<1>4. simpledivide(r + 1, 60) = r \div 60 /\ simplemod(r + 1, 60) = (r % 60) + 1
  <2>1. r + 1 \in Nat \ {0} /\ (r + 1) - 1 = r /\ 60 \in Nat \ {0}
    BY <1>2, SMT
  <2>. QED BY <2>1, Quotient
<1>5. r % 60 \in Nat
  BY <1>2, SMT
<1>6. HourOf(s + 1, add) = q + add
  <2>1. add \in {0, 1} /\ HourOf(s + 1, add) = simplemod(q + add, 24)
    BY <1>3, AddIsABit DEF HourOf
  <2> HIDE DEF add
  <2>2. CASE q + add = 0
    BY <2>1, <2>2, SMT DEF simplemod, simpledivide
  <2>3. CASE q + add # 0
    <3> DEFINE h == q + add
    <3>1. h \in Nat \ {0} /\ h - 1 \in 0 .. 23 /\ 24 \in Nat \ {0}
      BY <1>2, <2>1, <2>3, SMT
    <3> HIDE DEF h
    <3>2. (h - 1) % 24 = h - 1
      BY <3>1, SMT
    <3>3. simplemod(h, 24) = ((h - 1) % 24) + 1
      BY <3>1, Quotient
    <3>4. simplemod(h, 24) = h
      BY <3>1, <3>2, <3>3, SMT
    <3>. QED BY <2>1, <3>4 DEF h
  <2>. QED BY <2>2, <2>3
<1>7. SecOf(r + 1) = r % 60
  BY <1>4, <1>5, SMT DEF SecOf
<1>. QED BY <1>1, <1>3, <1>4, <1>6, <1>7 DEF ntp_udp_recv, s, q, r, add

LEMMA ShownIs ==
  ASSUME NEW x \in Nat \ {0}
  PROVE  Shown(ntp_udp_recv(x)) = ((x - 1) + tz_shouldaddanhour(x) * Hour) % DayLength
<1> DEFINE s == (x - 1) % DayLength
           q == s \div Hour
           m == (s % Hour) \div 60
           c == (s % Hour) % 60
           add == tz_shouldaddanhour(x)
<1>1. ntp_udp_recv(x) = [hour |-> q + add, min |-> m, sec |-> c]
  BY Fields
<1>2. /\ q \in 0 .. 23 /\ m \in 0 .. 59 /\ c \in 0 .. 59 /\ add \in {0, 1}
      /\ q * Hour + m * 60 + c = s
  BY OfDay, ClockFields, AddIsABit
<1>3. s \in Nat
  BY OfDay, DayAndYear
<1>4. (s + add * Hour) % DayLength = ((x - 1) + add * Hour) % DayLength
  <2>1. x - 1 \in Nat /\ add * Hour \in Int
    BY <1>2, SMT DEF Hour
  <2>. QED BY <2>1, AddInDay
<1> HIDE DEF s, q, m, c, add
<1>5. (q + add) * Hour + m * 60 + c = s + add * Hour
  BY <1>2, <1>3, SMT DEF Hour
<1>. QED BY <1>1, <1>4, <1>5 DEF Shown, add

\* The rows of the table are in order, so the lookup does not stop too early.
LEMMA RowsInOrder ==
  \A i \in 1 .. 17 : \A j \in 1 .. i - 1 :
    /\ timezonechanges[j].startsat # 0
    /\ timezonechanges[j].startsat < timezonechanges[i].startsat
    /\ timezonechanges[j].endsat < timezonechanges[i].startsat
BY SMT DEF timezonechanges, Row

LEMMA TableType ==
  /\ Len(timezonechanges) = 18 /\ DOMAIN timezonechanges = 1 .. 18
  /\ \A i \in 1 .. 18 : /\ timezonechanges[i].startsat \in Nat
                        /\ timezonechanges[i].endsat \in Nat
  /\ timezonechanges[18] = [startsat |-> 0, endsat |-> 0]
BY SMT DEF timezonechanges, Row

\* An hour is added in summer time only, and in all of it but its first second.
LEMMA LookupIsSummer ==
  ASSUME NEW x \in Nat \ {0}
  PROVE  /\ tz_shouldaddanhour(x) = 1 => Summer(x)
         /\ tz_shouldaddanhour(x) = 1 => Summer(x - 1)
         /\ Summer(x - 1) /\ Summer(x) => tz_shouldaddanhour(x) = 1
<1>1. tz_shouldaddanhour(x) = 1 => Summer(x) /\ Summer(x - 1)
  <2> SUFFICES ASSUME tz_shouldaddanhour(x) = 1 PROVE Summer(x) /\ Summer(x - 1)
    OBVIOUS
  <2>1. PICK i \in 1 .. 18 : Inside(x, timezonechanges[i])
    BY TableType DEF tz_shouldaddanhour
  <2>2. i # 18
    BY <2>1, TableType DEF Inside
  <2>3. /\ i \in 1 .. 17
        /\ timezonechanges[i].startsat \in Nat /\ timezonechanges[i].endsat \in Nat
    BY <2>1, <2>2, TableType, SMT
  <2>. QED BY <2>1, <2>3, TableType DEF Inside, Summer
<1>2. Summer(x - 1) /\ Summer(x) => tz_shouldaddanhour(x) = 1
  <2> SUFFICES ASSUME Summer(x - 1), Summer(x) PROVE tz_shouldaddanhour(x) = 1
    OBVIOUS
  <2>1. PICK i \in 1 .. 17 : /\ x - 1 >= timezonechanges[i].startsat
                             /\ x - 1 < timezonechanges[i].endsat
    BY TableType DEF Summer
  <2>2. PICK k \in 1 .. 17 : /\ x >= timezonechanges[k].startsat
                             /\ x < timezonechanges[k].endsat
    BY TableType DEF Summer
  <2>3. /\ timezonechanges[i].startsat \in Nat /\ timezonechanges[i].endsat \in Nat
        /\ timezonechanges[k].startsat \in Nat /\ timezonechanges[k].endsat \in Nat
        /\ i < k => timezonechanges[i].endsat < timezonechanges[k].startsat
        /\ k < i => timezonechanges[k].endsat < timezonechanges[i].startsat
    BY TableType, RowsInOrder, SMT
  <2>4. i = k
    BY <2>1, <2>2, <2>3, SMT
  <2>5. i \in DOMAIN timezonechanges /\ Inside(x, timezonechanges[i])
    BY <2>1, <2>2, <2>3, <2>4, TableType, SMT DEF Inside
  <2>6. ASSUME NEW j \in 1 .. i - 1
        PROVE  GoesOn(x, timezonechanges[j])
    <3>1. /\ timezonechanges[j].startsat \in Nat /\ timezonechanges[j].startsat # 0
          /\ timezonechanges[j].startsat < timezonechanges[i].startsat
      BY TableType, RowsInOrder, SMT
    <3>. QED BY <2>3, <2>5, <3>1, SMT DEF Inside, GoesOn
  <2>. QED BY <2>5, <2>6 DEF tz_shouldaddanhour
<1>. QED BY <1>1, <1>2

-----------------------------------------------------------------------------
\* The state is an instant and its line.
Inv == timestamp \in Nat \ {0} /\ time = ntp_udp_recv(timestamp)

LEMMA NextKeepsLine == Inv /\ Next => Inv'
<1> SUFFICES ASSUME Inv, NEW w \in Windows, timestamp + 1 \in w.first .. w.last,
                    Answer(timestamp + 1)
             PROVE  Inv'
  BY DEF Next
<1>. QED BY DEF Inv, Answer

LEMMA Invariance == Spec => []Inv
<1>1. Init => Inv
  BY WindowsAssumption DEF Init, Inv
<1>2. Inv /\ [Next]_vars => Inv'
  BY NextKeepsLine DEF Inv, vars
<1>. QED BY <1>1, <1>2, PTL DEF Spec

LEMMA LineFields ==
  ASSUME NEW x \in Nat \ {0}
  PROVE  ntp_udp_recv(x) \in [hour : 0 .. 24, min : 0 .. 59, sec : 0 .. 59]
<1> DEFINE s == (x - 1) % DayLength
           add == tz_shouldaddanhour(x)
<1>1. ntp_udp_recv(x) = [hour |-> (s \div Hour) + add, min |-> (s % Hour) \div 60,
                         sec |-> (s % Hour) % 60]
  BY Fields
<1>2. /\ s \div Hour \in 0 .. 23 /\ (s % Hour) \div 60 \in 0 .. 59
      /\ (s % Hour) % 60 \in 0 .. 59 /\ add \in {0, 1}
  BY OfDay, ClockFields, AddIsABit
<1> HIDE DEF s, add
<1>3. (s \div Hour) + add \in 0 .. 24
  <2> DEFINE q == s \div Hour
  <2> HIDE DEF q
  <2>1. q \in 0 .. 23
    BY <1>2 DEF q
  <2>2. q + add \in 0 .. 24
    BY <1>2, <2>1, SMT
  <2>. QED BY <2>2 DEF q
<1>. QED BY <1>1, <1>2, <1>3

LEMMA LineType ==
  ASSUME Inv
  PROVE  TypeOK
BY LineFields DEF Inv, TypeOK

\* Minutes and seconds are in range; the hour is one too many at most.
THEOREM TypeCorrect == Spec => []TypeOK
BY LineType, Invariance, PTL

LEMMA LineIsBehind ==
  ASSUME Inv
  PROVE  ASecondBehind
<1> DEFINE x == timestamp
           add == tz_shouldaddanhour(x)
<1>1. x \in Nat \ {0} /\ Shown(time) = ((x - 1) + add * Hour) % DayLength
  BY ShownIs DEF Inv
<1>2. add \in {0, 1} /\ 0 * Hour = 0 /\ 1 * Hour = Hour /\ Hour \in Nat
  BY AddIsABit, SMT DEF Hour
<1>3. CASE add = 1
  BY <1>1, <1>2, <1>3, LookupIsSummer DEF ASecondBehind, LocalTime
<1>4. CASE add = 0 /\ ~Summer(x - 1)
  BY <1>1, <1>2, <1>4 DEF ASecondBehind, LocalTime
<1>5. CASE add = 0 /\ ~Summer(x)
  <2>1. Before(LocalTime(x)) = ((x % DayLength) - 1) % DayLength
    BY <1>1, <1>5 DEF Before, LocalTime
  <2>2. ((x % DayLength) + (-1)) % DayLength = (x + (-1)) % DayLength
    BY <1>1, AddInDay
  <2>3. (x % DayLength) - 1 = (x % DayLength) + (-1) /\ x + (-1) = (x - 1) + 0 * Hour
    BY <1>1, <1>2, OfDay, DayAndYear
  <2>. QED BY <1>1, <1>5, <2>1, <2>2, <2>3 DEF ASecondBehind
<1>. QED BY <1>1, <1>2, <1>3, <1>4, <1>5, LookupIsSummer

\* The line is the local time of the second before the answer, whatever the
\* instant (ntp.c:92-107).
THEOREM LineIsASecondBehind == Spec => []ASecondBehind
BY LineIsBehind, Invariance, PTL

LEMMA DifferenceInDay ==
  ASSUME NEW a \in Nat, NEW b \in Nat
  PROVE  ((a % DayLength) - (b % DayLength)) % DayLength = (a - b) % DayLength
<1> DEFINE k == (a \div DayLength) - (b \div DayLength)
           r == a % DayLength
           t == b % DayLength
<1>1. /\ a \div DayLength \in Nat /\ r \in Nat /\ a = (a \div DayLength) * DayLength + r
      /\ b \div DayLength \in Nat /\ t \in Nat /\ b = (b \div DayLength) * DayLength + t
  BY Division, DayAndYear
<1>2. k \in Int /\ k * DayLength = (a \div DayLength) * DayLength - (b \div DayLength) * DayLength
  BY <1>1, DayAndYear
<1> HIDE DEF k, r, t
<1>3. a - b = (r - t) + k * DayLength /\ r - t \in Int
  BY <1>1, <1>2, DayAndYear
<1>4. (a - b) % DayLength = (r - t) % DayLength
  BY <1>2, <1>3, WholeDays
<1>. QED BY <1>4 DEF r, t

\* Answers a second apart print times a second apart but for the hour.
THEOREM TimesFollow == Spec => SecondBySecond
<1> DEFINE x == timestamp
           a == tz_shouldaddanhour(x)
           b == tz_shouldaddanhour(x + 1)
<1>1. ASSUME Inv, Next
      PROVE  (Shown(time') - Shown(time)) % DayLength = (1 + (b - a) * Hour) % DayLength
  <2>1. x \in Nat \ {0} /\ time = ntp_udp_recv(x) /\ time' = ntp_udp_recv(x + 1)
    BY <1>1 DEF Inv, Next, Answer
  <2>2. /\ Shown(time) = ((x - 1) + a * Hour) % DayLength
        /\ Shown(time') = (((x + 1) - 1) + b * Hour) % DayLength
    BY <2>1, ShownIs
  <2>3. /\ a \in {0, 1} /\ b \in {0, 1}
        /\ (x - 1) + a * Hour \in Nat /\ ((x + 1) - 1) + b * Hour \in Nat
        /\ (((x + 1) - 1) + b * Hour) - ((x - 1) + a * Hour) = 1 + (b - a) * Hour
    <3>1. a \in {0, 1} /\ b \in {0, 1}
      BY AddIsABit
    <3> HIDE DEF a, b
    <3>. QED BY <2>1, <3>1, SMT DEF Hour
  <2>. QED BY <2>2, <2>3, DifferenceInDay
<1>2. Inv /\ [Next]_vars => [
        LET jump == tz_shouldaddanhour(timestamp + 1) - tz_shouldaddanhour(timestamp)
        IN (Shown(time') - Shown(time)) % DayLength = (1 + jump * Hour) % DayLength]_vars
  BY <1>1
<1>. QED BY <1>2, Invariance, PTL DEF Spec, SecondBySecond

LEMMA HourOfLine ==
  ASSUME NEW x \in Nat \ {0}
  PROVE  ntp_udp_recv(x).hour = 24 <=> /\ tz_shouldaddanhour(x) = 1
                                       /\ (x - 1) % DayLength >= DayLength - Hour
<1> DEFINE line == ntp_udp_recv(x)
           s == (x - 1) % DayLength
           q == s \div Hour
           add == tz_shouldaddanhour(x)
<1>1. line.hour = q + add /\ s \in 0 .. DayLength - 1
  BY Fields, OfDay
<1>2. /\ q \in 0 .. 23 /\ add \in {0, 1} /\ s \in Nat
      /\ s % Hour \in Nat /\ s % Hour <= 3599 /\ s = q * Hour + (s % Hour)
  <2>1. q \in 0 .. 23 /\ add \in {0, 1}
    BY <1>1, ClockFields, AddIsABit
  <2>2. s \in Nat /\ Hour \in Nat \ {0}
    BY <1>1, DayAndYear, SMT DEF Hour
  <2> HIDE DEF s, add
  <2>3. s = q * Hour + (s % Hour) /\ s % Hour \in 0 .. Hour - 1
    BY <2>2, Division
  <2>. QED BY <2>1, <2>2, <2>3, SMT DEF Hour
<1> DEFINE r == s % Hour
<1> HIDE DEF line, s, q, add, r
<1>3. q \in Nat /\ q <= 23 /\ r \in Nat /\ r <= 3599 /\ s = q * 3600 + r
  BY <1>2, SMT DEF r, Hour
<1>4. q = 23 <=> s >= 82800
  BY <1>3, SMT
<1>5. line.hour = 24 <=> add = 1 /\ q = 23
  BY <1>1, <1>2, <1>3, SMT
<1>6. DayLength - Hour = 82800
  BY SMT DEF DayLength, Hour
<1>. QED BY <1>4, <1>5, <1>6 DEF line, s, add

LEMMA LineHour ==
  ASSUME Inv
  PROVE  MidnightIs24
BY HourOfLine DEF Inv, MidnightIs24

\* The hour is 24 in one hour of a summer day and at no other time.
THEOREM OneHourIsOutOfRange == Spec => []MidnightIs24
BY LineHour, Invariance, PTL

-----------------------------------------------------------------------------
(* The clock that is set from these lines.                                 *)

Exchanges == [sent : Nat, stamp : Nat]

\* No answer is stamped after now.
Arriving ==
  /\ exchanges \subseteq Exchanges
  /\ \A x \in exchanges : x.stamp <= timestamp
  /\ transit \in Nat /\ transit < timestamp

FieldsInv ==
  /\ minutes \in 0 .. 59 /\ seconds \in 0 .. 59
  /\ hours \in -(IntMax + 1) .. IntMax
  /\ unanswered \in Nat
  /\ IsSet \/ hours \in 0 .. 23

SyncInv == Inv /\ Arriving /\ FieldsInv /\ OutOfRangeByRequests

\* What is printed: 24 is the only hour out of range, and only in the last
\* hour of a day (UTC) in summer.
LEMMA LineInRange ==
  ASSUME NEW t \in Nat \ {0}
  PROVE  LET line == ntp_udp_recv(t) IN
         /\ line.hour \in 0 .. 24 /\ line.min \in 0 .. 59 /\ line.sec \in 0 .. 59
         /\ line.hour = 24 => Season(t) = "night"
<1> DEFINE line == ntp_udp_recv(t)
<1>1. line \in [hour : 0 .. 24, min : 0 .. 59, sec : 0 .. 59]
  BY LineFields
<1>2. line.hour = 24 => Season(t) = "night"
  BY HourOfLine DEF Season
<1> HIDE DEF line
<1>3. line.hour \in 0 .. 24 /\ line.min \in 0 .. 59 /\ line.sec \in 0 .. 59
  BY <1>1
<1>. QED BY <1>2, <1>3 DEF line

\* One tick of a clock whose hours may be out of range.
LEMMA TickFields ==
  ASSUME FieldsInv, Timer0_A0
  PROVE  /\ minutes' \in 0 .. 59 /\ seconds' \in 0 .. 59
         /\ hours' \in -(IntMax + 1) .. IntMax
         /\ \/ hours' = hours
            \/ "UPDATETIME" \in flags' /\ hours' = IF hours = 23 THEN 0 ELSE Incr(hours)
         /\ IsSet' <=> IsSet
<1>1. /\ IntMax \in Nat /\ 60 \in 1 .. IntMax /\ 24 \in 1 .. IntMax
      /\ SecondsPerMinute = 60 /\ MinutesPerHour = 60 /\ HoursPerDay = 24
  BY RtcAssumption, ClockSyncAssumption
<1>2. minutes' \in 0 .. 59 /\ seconds' \in 0 .. 59
  BY <1>1 DEF Timer0_A0, FieldsInv, Carry, Incr
<1>3. hours' \in -(IntMax + 1) .. IntMax
  BY <1>1 DEF Timer0_A0, FieldsInv, Carry, Incr
<1>4. Carry(hours, 24) = IF hours = 23 THEN 0 ELSE Incr(hours)
  BY <1>1 DEF FieldsInv, Carry, Incr
<1>5. HourIsOver => "UPDATETIME" \in flags'
  BY DEF Timer0_A0, RequestIsDue, HourIsOver
<1>6. IsSet' <=> IsSet
  BY DEF Timer0_A0, IsSet
<1>. QED BY <1>1, <1>2, <1>3, <1>4, <1>5, <1>6 DEF Timer0_A0

LEMMA SyncInvInit == SyncInit => SyncInv
<1> SUFFICES ASSUME SyncInit PROVE SyncInv
  OBVIOUS
<1>1. Inv
  BY WindowsAssumption DEF SyncInit, Init, Inv
<1>2. FieldsInv /\ hours = 23
  BY RtcAssumption, ClockSyncAssumption DEF SyncInit, rtc_initialise, FieldsInv
<1>3. Arriving
  BY <1>1 DEF SyncInit, Arriving, Inv
<1>. QED BY <1>1, <1>2, <1>3, ClockSyncAssumption DEF SyncInv, OutOfRangeByRequests

LEMMA SecondKeeps == SyncInv /\ Second => SyncInv'
<1> SUFFICES ASSUME SyncInv, Second PROVE SyncInv'
  OBVIOUS
<1>1. Inv'
  BY NextKeepsLine DEF Second, SyncInv
<1>2. /\ minutes' \in 0 .. 59 /\ seconds' \in 0 .. 59
      /\ hours' \in -(IntMax + 1) .. IntMax
      /\ \/ hours' = hours
         \/ "UPDATETIME" \in flags' /\ hours' = IF hours = 23 THEN 0 ELSE Incr(hours)
      /\ IsSet' <=> IsSet
  BY TickFields DEF SyncInv, Second
<1>3. /\ "UPDATETIME" \notin flags /\ season' = season /\ unanswered' = unanswered
      /\ IntMax \in Nat /\ 24 <= IntMax /\ HoursPerDay = 24
  BY RtcAssumption, ClockSyncAssumption DEF Second
<1>4. hours \in Int /\ (hours \in 0 .. 23 => hours' \in 0 .. 23)
  BY <1>2, <1>3 DEF SyncInv, FieldsInv, Incr
<1>5. FieldsInv'
  BY <1>2, <1>3, <1>4 DEF SyncInv, FieldsInv
<1>6. OutOfRangeByRequests'
  <2>1. unanswered \in Nat /\ (hours >= 24 => season = "night" /\ hours - 24 <= unanswered)
    BY <1>3 DEF SyncInv, FieldsInv, OutOfRangeByRequests
  <2>2. CASE hours' = hours
    BY <1>3, <1>4, <2>1, <2>2 DEF OutOfRangeByRequests
  <2>3. CASE "UPDATETIME" \in flags' /\ hours' = IF hours = 23 THEN 0 ELSE Incr(hours)
    <3>1. hours' >= 24 => hours >= 24 /\ hours' = hours + 1
      BY <1>3, <1>4, <2>3 DEF Incr
    <3>. QED BY <1>3, <1>4, <2>1, <2>3, <3>1 DEF OutOfRangeByRequests
  <2>. QED BY <1>2, <2>2, <2>3
<1>7. Arriving'
  <2>1. /\ exchanges' = exchanges /\ transit' = transit
        /\ timestamp \in Nat /\ timestamp' = timestamp + 1
    BY DEF Second, Next, Answer, SyncInv, Inv
  <2>. QED BY <2>1 DEF SyncInv, Arriving, Exchanges
<1>. QED BY <1>1, <1>5, <1>6, <1>7 DEF SyncInv

LEMMA RequestKeeps == SyncInv /\ Request => SyncInv'
<1> SUFFICES ASSUME SyncInv, Request PROVE SyncInv'
  OBVIOUS
<1>1. Inv'
  BY DEF SyncInv, Inv, Request, vars
<1>2. IsSet' <=> IsSet
  BY DEF Request, IsSet
<1>3. /\ unanswered' = IF IsSet THEN unanswered + 1 ELSE 0
      /\ "UPDATETIME" \in flags /\ "UPDATETIME" \notin flags'
      /\ hours' = hours /\ minutes' = minutes /\ seconds' = seconds /\ season' = season
  BY DEF Request
<1>4. FieldsInv'
  BY <1>2, <1>3 DEF SyncInv, FieldsInv
<1>5. OutOfRangeByRequests'
  BY <1>2, <1>3, ClockSyncAssumption DEF SyncInv, FieldsInv, OutOfRangeByRequests
<1>6. Arriving'
  BY DEF Request, vars, SyncInv, Inv, Arriving, Exchanges, NoStamp
<1>. QED BY <1>1, <1>4, <1>5, <1>6 DEF SyncInv

LEMMA ServeKeeps == SyncInv /\ Serve => SyncInv'
<1> SUFFICES ASSUME SyncInv, Serve PROVE SyncInv'
  OBVIOUS
<1>1. UNCHANGED <<vars, rtcctx, season, transit, unanswered>>
  BY DEF Serve
<1>2. Inv' /\ FieldsInv' /\ OutOfRangeByRequests'
  BY <1>1 DEF SyncInv, Inv, FieldsInv, OutOfRangeByRequests, IsSet, vars, rtcctx
<1>3. Arriving'
  <2>1. PICK x \in exchanges :
          exchanges' = (exchanges \ {x}) \cup {[x EXCEPT !.stamp = timestamp]}
    BY DEF Serve
  <2>2. timestamp' = timestamp /\ transit' = transit /\ timestamp \in Nat
    BY <1>1 DEF vars, SyncInv, Inv
  <2> DEFINE answer == [x EXCEPT !.stamp = timestamp]
  <2>3. answer \in Exchanges /\ answer.stamp = timestamp
    BY <2>1, <2>2 DEF SyncInv, Arriving, Exchanges
  <2>4. /\ \A y \in exchanges : y \in Exchanges /\ y.stamp <= timestamp
        /\ transit \in Nat /\ transit < timestamp
    BY DEF SyncInv, Arriving
  <2>5. \A y \in exchanges' : y \in exchanges \/ y = answer
    BY <2>1
  <2> HIDE DEF answer
  <2>6. \A y \in exchanges' : y \in Exchanges /\ y.stamp <= timestamp'
    BY <2>2, <2>3, <2>4, <2>5
  <2>. QED BY <2>2, <2>4, <2>6 DEF Arriving
<1>. QED BY <1>2, <1>3 DEF SyncInv

LEMMA SetKeeps == SyncInv /\ Set => SyncInv'
<1> SUFFICES ASSUME SyncInv, Set PROVE SyncInv'
  OBVIOUS
<1>1. Inv'
  BY DEF SyncInv, Inv, Set, vars
<1>2. PICK x \in exchanges :
        LET line == ntp_udp_recv(x.stamp) IN
        /\ x.stamp # NoStamp /\ exchanges' = exchanges \ {x}
        /\ hours' = line.hour /\ minutes' = line.min /\ seconds' = line.sec
        /\ season' = Season(x.stamp) /\ transit' = timestamp - x.stamp
        /\ unanswered' = 0 /\ IsSet' /\ timestamp' = timestamp
  BY DEF Set, IsSet, vars
<1>3. /\ x.stamp \in Nat \ {0} /\ x.stamp <= timestamp
      /\ hours' \in 0 .. 24 /\ minutes' \in 0 .. 59 /\ seconds' \in 0 .. 59
      /\ hours' = 24 => season' = "night"
  <2>1. x.stamp \in Nat \ {0} /\ x.stamp <= timestamp
    BY <1>2 DEF SyncInv, Arriving, Exchanges, NoStamp
  <2>. QED BY <1>2, <2>1, LineInRange
<1>4. IntMax \in Nat /\ 24 <= IntMax /\ HoursPerDay = 24
  BY RtcAssumption, ClockSyncAssumption
<1>5. FieldsInv'
  BY <1>2, <1>3, <1>4 DEF FieldsInv
<1>6. OutOfRangeByRequests'
  BY <1>2, <1>3, <1>4 DEF OutOfRangeByRequests
<1>7. Arriving'
  BY <1>2, <1>3 DEF SyncInv, Inv, Arriving
<1>. QED BY <1>1, <1>5, <1>6, <1>7 DEF SyncInv

LEMMA SyncInvariance == SyncSpec => []SyncInv
<1>1. SyncInv /\ [SyncNext]_syncvars => SyncInv'
  <2> SUFFICES ASSUME SyncInv, [SyncNext]_syncvars PROVE SyncInv'
    OBVIOUS
  <2>1. ASSUME UNCHANGED <<vars, rtcctx, season, transit, unanswered>>,
               exchanges' \subseteq exchanges
        PROVE  SyncInv'
    BY <2>1 DEF SyncInv, Inv, Arriving, FieldsInv, OutOfRangeByRequests, IsSet, vars, rtcctx
  <2>2. CASE Lose
    BY <2>1, <2>2 DEF Lose
  <2>3. CASE UNCHANGED syncvars
    BY <2>1, <2>3 DEF syncvars
  <2>. QED BY <2>2, <2>3, SecondKeeps, RequestKeeps, ServeKeeps, SetKeeps DEF SyncNext
<1>. QED BY <1>1, SyncInvInit, PTL DEF SyncSpec

\* Hours out of range come from hour 24 in a summer night, and are bounded by
\* the requests that were not answered since, for any windows, delays and
\* losses (ntp.c:96, rtc.c:28-31).
THEOREM OutOfRangeIsBounded == SyncSpec => []OutOfRangeByRequests
<1>1. SyncInv => OutOfRangeByRequests
  BY DEF SyncInv
<1>. QED BY <1>1, SyncInvariance, PTL

-----------------------------------------------------------------------------
\* Unless the hours overflow, which takes years without an answer, the clock
\* counts the same seconds as the day.

KeepsTime == hours \in Nat /\ StaysBehindByTransit
BehindInv == SyncInv /\ KeepsTime

\* A day apart is the same time of day, and what follows it is the same too.
LEMMA SameTimeNext ==
  ASSUME NEW a \in Nat, NEW b \in Nat, NEW c \in {a + 1, a + 1 - DayLength},
         a % DayLength = b % DayLength
  PROVE  c % DayLength = (b + 1) % DayLength
<1>1. (a + 1) % DayLength = (b + 1) % DayLength
  <2>1. ((a % DayLength) + 1) % DayLength = (a + 1) % DayLength
    BY AddInDay
  <2>2. ((b % DayLength) + 1) % DayLength = (b + 1) % DayLength
    BY AddInDay
  <2>. QED BY <2>1, <2>2
<1>2. (a + 1 + (-1) * DayLength) % DayLength = (a + 1) % DayLength
  BY WholeDays
<1>3. (-1) * DayLength = -DayLength /\ DayLength \in Nat
  BY SMT DEF DayLength
<1>4. a + 1 + (-1) * DayLength = a + 1 - DayLength
  BY <1>3
<1>. QED BY <1>1, <1>2, <1>4

LEMMA SecondOfDay ==
  ASSUME NEW h \in Nat, NEW m \in Nat, NEW s \in Nat
  PROVE  TimeVal(h, m, s) = h * Hour + m * 60 + s /\ TimeVal(h, m, s) \in Nat
BY ClockSyncAssumption, SMT DEF TimeVal, SecondsPerHour, Hour

\* A tick is a second more, or a day less but for a second.
LEMMA TickCounts ==
  ASSUME FieldsInv, hours \in Nat, hours < IntMax, Timer0_A0
  PROVE  /\ hours' \in Nat /\ TimeVal(hours, minutes, seconds) \in Nat
         /\ TimeVal(hours', minutes', seconds') \in
              {TimeVal(hours, minutes, seconds) + 1,
               TimeVal(hours, minutes, seconds) + 1 - DayLength}
<1>1. /\ IntMax \in Nat /\ 60 \in 1 .. IntMax
      /\ SecondsPerMinute = 60 /\ MinutesPerHour = 60 /\ HoursPerDay = 24
      /\ minutes \in 0 .. 59 /\ seconds \in 0 .. 59
  BY RtcAssumption, ClockSyncAssumption DEF FieldsInv
<1>2. /\ seconds' = IF seconds = 59 THEN 0 ELSE seconds + 1
      /\ minutes' = IF seconds = 59
                       THEN (IF minutes = 59 THEN 0 ELSE minutes + 1) ELSE minutes
      /\ hours' = IF seconds = 59 /\ minutes = 59
                     THEN (IF hours = 23 THEN 0 ELSE hours + 1) ELSE hours
  <2>1. /\ MinuteIsOver <=> seconds = 59
        /\ HourIsOver <=> seconds = 59 /\ minutes = 59
    BY <1>1 DEF MinuteIsOver, HourIsOver, Incr
  <2>2. /\ Carry(seconds, 60) = IF seconds = 59 THEN 0 ELSE seconds + 1
        /\ Carry(minutes, 60) = IF minutes = 59 THEN 0 ELSE minutes + 1
        /\ Carry(hours, 24) = IF hours = 23 THEN 0 ELSE hours + 1
    BY <1>1 DEF Carry, Incr
  <2>. QED BY <1>1, <2>1, <2>2 DEF Timer0_A0
<1>3. hours' \in Nat /\ minutes' \in Nat /\ seconds' \in Nat
  BY <1>1, <1>2
<1>4. /\ TimeVal(hours, minutes, seconds) = hours * 3600 + minutes * 60 + seconds
      /\ TimeVal(hours', minutes', seconds') = hours' * 3600 + minutes' * 60 + seconds'
      /\ TimeVal(hours, minutes, seconds) \in Nat
      /\ DayLength = 86400
  <2>1. hours \in Nat /\ minutes \in Nat /\ seconds \in Nat
    BY <1>1
  <2>2. /\ TimeVal(hours, minutes, seconds) = hours * Hour + minutes * 60 + seconds
        /\ TimeVal(hours, minutes, seconds) \in Nat
    BY <2>1, SecondOfDay
  <2>3. TimeVal(hours', minutes', seconds') = hours' * Hour + minutes' * 60 + seconds'
    BY <1>3, SecondOfDay
  <2>4. Hour = 3600 /\ DayLength = 86400
    BY SMT DEF Hour, DayLength
  <2>. QED BY <2>2, <2>3, <2>4
<1>5. \/ hours' * 3600 + minutes' * 60 + seconds' = hours * 3600 + minutes * 60 + seconds + 1
      \/ hours' * 3600 + minutes' * 60 + seconds' = hours * 3600 + minutes * 60 + seconds + 1 - 86400
  BY <1>1, <1>2, SMT
<1>. QED BY <1>3, <1>4, <1>5

LEMMA SecondKeepsBehind ==
  ASSUME BehindInv, hours < IntMax, Second
  PROVE  hours' \in Nat /\ StaysBehindByTransit'
<1> DEFINE add == IF season = "winter" THEN 0 ELSE Hour
           b == timestamp - transit - 1 + add
           a == TimeVal(hours, minutes, seconds)
           c == TimeVal(hours', minutes', seconds')
<1>1. hours' \in Nat /\ a \in Nat /\ c \in {a + 1, a + 1 - DayLength}
  BY TickCounts DEF BehindInv, KeepsTime, SyncInv, Second
<1>2. /\ timestamp \in Nat \ {0} /\ timestamp' = timestamp + 1
      /\ season' = season /\ transit' = transit
      /\ transit \in Nat /\ transit < timestamp
  BY DEF BehindInv, SyncInv, Inv, Arriving, Second, Next, Answer
<1>3. add \in Nat
  BY SMT DEF Hour
<1>4. IsSet' <=> IsSet
  BY TickFields DEF BehindInv, SyncInv, Second
<1>5. IsSet => a % DayLength = b % DayLength
  BY DEF BehindInv, KeepsTime, StaysBehindByTransit
<1> HIDE DEF a, c, add
<1>6. b \in Nat /\ timestamp' - transit' - 1 + add = b + 1
  BY <1>2, <1>3
<1>7. IsSet => c % DayLength = (timestamp' - transit' - 1 + add) % DayLength
  <2> HIDE DEF b
  <2>. QED BY <1>1, <1>5, <1>6, SameTimeNext
<1>. QED BY <1>1, <1>2, <1>4, <1>7 DEF StaysBehindByTransit, add, c

LEMMA SetKeepsBehind ==
  ASSUME BehindInv, Set
  PROVE  hours' \in Nat /\ StaysBehindByTransit'
<1>1. PICK x \in exchanges :
        /\ x.stamp # NoStamp
        /\ hours' = ntp_udp_recv(x.stamp).hour
        /\ minutes' = ntp_udp_recv(x.stamp).min
        /\ seconds' = ntp_udp_recv(x.stamp).sec
        /\ season' = Season(x.stamp) /\ transit' = timestamp - x.stamp
        /\ timestamp' = timestamp
  BY DEF Set, vars
<1> DEFINE t == x.stamp
           line == ntp_udp_recv(t)
<1>2. t \in Nat \ {0} /\ timestamp \in Nat
  BY <1>1 DEF BehindInv, SyncInv, Inv, Arriving, Exchanges, NoStamp
<1>3. line.hour \in Nat /\ line.min \in Nat /\ line.sec \in Nat
  BY <1>2, LineInRange
<1>4. TimeVal(line.hour, line.min, line.sec) % DayLength = Shown(line)
  BY <1>3, SecondOfDay DEF Shown
<1>5. Shown(line) = (t - 1 + tz_shouldaddanhour(t) * Hour) % DayLength
  BY <1>2, ShownIs
<1>6. tz_shouldaddanhour(t) * Hour = IF Season(t) = "winter" THEN 0 ELSE Hour
  BY AddIsABit, SMT DEF Season, Hour
<1>7. timestamp' - transit' - 1 = t - 1
  BY <1>1, <1>2
<1>. QED BY <1>1, <1>3, <1>4, <1>5, <1>6, <1>7 DEF StaysBehindByTransit

NoOverflow == hours < IntMax

\* A clock that was set stays behind the time by a second and by the way of the
\* last answer, for any windows, delays, losses and order of the answers, as
\* long as its hours do not overflow (ntp.c:79-101, rtc.c:18-33).
THEOREM StaysBehind == SyncSpec /\ []NoOverflow => []StaysBehindByTransit
<1>1. SyncInit => KeepsTime
  BY RtcAssumption DEF SyncInit, rtc_initialise, KeepsTime, StaysBehindByTransit, IsSet
<1>2. SyncInv /\ NoOverflow /\ KeepsTime /\ [SyncNext]_syncvars => KeepsTime'
  <2> SUFFICES ASSUME BehindInv, NoOverflow, [SyncNext]_syncvars
               PROVE  KeepsTime'
    BY DEF BehindInv
  <2>0. CASE Serve
    BY <2>0 DEF Serve, BehindInv, KeepsTime, StaysBehindByTransit, IsSet, vars, rtcctx
  <2>1. CASE Request
    BY <2>1 DEF Request, BehindInv, KeepsTime, StaysBehindByTransit, IsSet, vars
  <2>2. CASE Lose
    BY <2>2 DEF Lose, BehindInv, KeepsTime, StaysBehindByTransit, IsSet, vars, rtcctx
  <2>3. CASE UNCHANGED syncvars
    BY <2>3 DEF syncvars, BehindInv, KeepsTime, StaysBehindByTransit, IsSet, vars, rtcctx
  <2>. QED BY <2>0, <2>1, <2>2, <2>3, SecondKeepsBehind, SetKeepsBehind
           DEF SyncNext, KeepsTime, NoOverflow
<1>3. KeepsTime => StaysBehindByTransit
  BY DEF KeepsTime
<1>. QED BY <1>1, <1>2, <1>3, SyncInvariance, PTL DEF SyncSpec

-----------------------------------------------------------------------------
\* The generator of the table.  The calendar is counted by recursion; its closed
\* form is proved from the least year for which it would fail.

\* Some naturals have a least.
LEMMA LeastNat ==
  ASSUME NEW T, T \subseteq Nat, T # {}
  PROVE  \E x \in T : \A y \in T : x <= y
<1> DEFINE R == {ss \in Nat \X Nat : ss[1] < ss[2]}
<1>0. OpToRel(<, Nat) = R
  BY Zenon DEF OpToRel
<1>1. IsWellFoundedOn(R, Nat)
  BY <1>0, NatLessThanWellFounded, Zenon
<1>2. PICK x \in T : \A y \in T : ~ (<<y, x>> \in R)
  <2> HIDE DEF R
  <2>. QED BY <1>1, WFMin, Zenon
<1>3. \A y \in T : x <= y
  <2>1. SUFFICES ASSUME NEW y \in T
                 PROVE  ~ (y < x)
    OBVIOUS
  <2>2. <<y, x>> \in Nat \X Nat
    OBVIOUS
  <2>3. y < x => <<y, x>> \in R
    BY <2>2
  <2>. QED BY <1>2, <2>3
<1>. QED BY <1>3

\* Between 1970 and 2034 no hundredth year departs from the rule of four.
LEMMA LeapYears == \A y \in CalendarYears : IsLeap(y) <=> y % 4 = 0
BY DEF IsLeap, CalendarYears

\* A function that is defined by recursion fulfils its equation, for there is one
\* that does.
LEMMA YearEquation ==
  \A y \in CalendarYears :
    DaysToYear[y] = IF y = 1970 THEN 0
                    ELSE DaysToYear[y - 1] + IF IsLeap(y - 1) THEN 366 ELSE 365
<1> DEFINE Step(f, y) == IF y = 1970 THEN 0
                         ELSE f[y - 1] + IF IsLeap(y - 1) THEN 366 ELSE 365
           Rec(f) == [y \in CalendarYears |-> Step(f, y)]
           G == [y \in CalendarYears |-> 365 * (y - 1970) + (y - 1969) \div 4]
<1>1. ASSUME NEW y \in CalendarYears PROVE G[y] = Step(G, y)
  <2>1. CASE y = 1970
    BY <2>1
  <2>2. CASE y # 1970
    <3>1. y - 1 \in CalendarYears /\ y \in Int /\ y \in 1971 .. 2034
      BY <2>2 DEF CalendarYears
    <3>2. G[y - 1] = 365 * (y - 1971) + (y - 1970) \div 4
      BY <3>1
    <3>3. G[y] = 365 * (y - 1970) + (y - 1969) \div 4
      OBVIOUS
    <3>4. IsLeap(y - 1) <=> (y - 1) % 4 = 0
      BY <3>1, LeapYears
    <3>5. (y - 1969) \div 4 = (y - 1970) \div 4 + IF (y - 1) % 4 = 0 THEN 1 ELSE 0
      BY <3>1
    <3>6. Step(G, y) = G[y - 1] + IF IsLeap(y - 1) THEN 366 ELSE 365
      BY <2>2
    <3>. QED BY <3>1, <3>2, <3>3, <3>4, <3>5, <3>6
  <2>. QED BY <2>1, <2>2
<1>2. G = Rec(G)
  <2> HIDE DEF Step
  <2>. QED BY <1>1
<1>3. DaysToYear = CHOOSE f : f = Rec(f)
  BY Zenon DEF DaysToYear
<1> HIDE DEF Rec, G
<1>4. DaysToYear = Rec(DaysToYear)
  BY <1>2, <1>3, Zenon
<1>5. ASSUME NEW y \in CalendarYears PROVE DaysToYear[y] = Step(DaysToYear, y)
  <2> HIDE DEF Step
  <2>. QED BY <1>4 DEF Rec
<1>. QED BY <1>5

\* The days before a year, without recursion.
LEMMA YearsAre ==
  \A y \in CalendarYears : DaysToYear[y] = 365 * (y - 1970) + (y - 1969) \div 4
<1> USE DEF CalendarYears
<1> DEFINE G(y) == 365 * (y - 1970) + (y - 1969) \div 4
           T == {y \in CalendarYears : DaysToYear[y] # G(y)}
<1> SUFFICES ASSUME T # {} PROVE FALSE
  OBVIOUS
<1>1. PICK y \in T : \A z \in T : y <= z
  <2>1. T \subseteq Nat
    OBVIOUS
  <2> HIDE DEF T
  <2>. QED BY <2>1, LeastNat
<1>2. y \in CalendarYears /\ DaysToYear[y] # G(y)
  OBVIOUS
<1>3. y # 1970
  <2> SUFFICES ASSUME y = 1970 PROVE FALSE
    OBVIOUS
  <2>1. DaysToYear[1970] = 0
    BY YearEquation
  <2>. QED BY <1>2, <2>1
<1>4. y - 1 \in CalendarYears /\ y - 1 < y
  BY <1>2, <1>3
<1>5. DaysToYear[y - 1] = G(y - 1)
  <2>1. y - 1 \notin T
    BY <1>1, <1>4
  <2>. QED BY <1>4, <2>1
<1>6. DaysToYear[y] = DaysToYear[y - 1] + IF IsLeap(y - 1) THEN 366 ELSE 365
  BY <1>2, <1>3, YearEquation
<1>7. IsLeap(y - 1) <=> (y - 1) % 4 = 0
  BY <1>4, LeapYears
<1>8. (y - 1969) \div 4 = (y - 1970) \div 4 + IF (y - 1) % 4 = 0 THEN 1 ELSE 0
  BY <1>4
<1>. QED BY <1>2, <1>5, <1>6, <1>7, <1>8

\* The days before a month fulfil their equation too.
LEMMA MonthsAre ==
  DaysToMonth =
    [mon \in 1 .. 12 |->
       [y \in CalendarYears |->
          IF mon = 1 THEN DaysToYear[y]
          ELSE DaysToMonth[mon - 1][y] + DaysIn(y, mon - 1)]]
<1> DEFINE Step(f, mon) ==
             [y \in CalendarYears |->
                IF mon = 1 THEN DaysToYear[y] ELSE f[mon - 1][y] + DaysIn(y, mon - 1)]
           Rec(f) == [mon \in 1 .. 12 |-> Step(f, mon)]
           cum == <<0, 31, 60, 91, 121, 152, 182, 213, 244, 274, 305, 335>>
           Sum(mon, y) == DaysToYear[y] + cum[mon] - (IF mon > 2 /\ ~IsLeap(y) THEN 1 ELSE 0)
           H == [mon \in 1 .. 12 |-> [y \in CalendarYears |-> Sum(mon, y)]]
<1>1. ASSUME NEW mon \in 1 .. 12 PROVE H[mon] = Step(H, mon)
  <2>1. ASSUME NEW y \in CalendarYears
        PROVE  Sum(mon, y) = IF mon = 1 THEN DaysToYear[y]
                             ELSE Sum(mon - 1, y) + DaysIn(y, mon - 1)
    <3>1. DaysToYear[y] \in Int
      BY YearsAre DEF CalendarYears
    <3>2. CASE mon = 1
      BY <3>1, <3>2
    <3>3. CASE mon # 1
      <4>1. /\ mon - 1 \in 1 .. 11 /\ cum[mon] \in Int /\ cum[mon - 1] \in Int
            /\ monthdays[mon - 1] = cum[mon] - cum[mon - 1]
            /\ mon = 3 => monthdays[mon - 1] = 29
        BY <3>3 DEF monthdays
      <4> HIDE DEF cum
      <4>. QED BY <3>1, <3>3, <4>1 DEF DaysIn
    <3>. QED BY <3>2, <3>3
  <2> HIDE DEF Sum
  <2>2. H[mon] = [y \in CalendarYears |-> Sum(mon, y)]
    OBVIOUS
  <2>3. CASE mon = 1
    BY <2>1, <2>2, <2>3
  <2>4. CASE mon # 1
    <3>1. mon - 1 \in 1 .. 12
      BY <2>4
    <3>2. H[mon - 1] = [y \in CalendarYears |-> Sum(mon - 1, y)]
      BY <3>1
    <3> HIDE DEF H
    <3>. QED BY <2>1, <2>2, <2>4, <3>2
  <2>. QED BY <2>3, <2>4
<1>2. H = Rec(H)
  <2>1. H = [mon \in 1 .. 12 |-> H[mon]]
    OBVIOUS
  <2> HIDE DEF Step, H
  <2>. QED BY <1>1, <2>1
<1>3. DaysToMonth = CHOOSE f : f = Rec(f)
  BY Zenon DEF DaysToMonth
<1> HIDE DEF Rec, H
<1>4. DaysToMonth = Rec(DaysToMonth)
  BY <1>2, <1>3, Zenon
<1>. QED BY <1>4, Zenon DEF Rec

\* The same for one month of one year.
LEMMA MonthEquation ==
  ASSUME NEW m \in 1 .. 12, NEW year \in CalendarYears
  PROVE  DaysToMonth[m][year] =
           IF m = 1 THEN DaysToYear[year] ELSE DaysToMonth[m - 1][year] + DaysIn(year, m - 1)
<1>1. DaysToMonth[m] =
        [y \in CalendarYears |->
           IF m = 1 THEN DaysToYear[y] ELSE DaysToMonth[m - 1][y] + DaysIn(y, m - 1)]
  BY MonthsAre, Zenon
<1>. QED BY <1>1, Zenon

\* The number of the last day of March, or of October.
LastDay(y, mon) == 365 * (y - 1970) + y \div 4 - 492 + IF mon = 3 THEN 89 ELSE 303

\* The number of its last Sunday.
LastSundayOf(y, mon) == LastDay(y, mon) - ((LastDay(y, mon) + 4) % 7)

\* What the generator starts from: the number of the last day and its weekday.
LEMMA LastDayIs ==
  ASSUME NEW y \in CalendarYears, NEW mon \in {3, 10}
  PROVE  /\ DaysToMonth[mon][y] + 30 = LastDay(y, mon)
         /\ weekday(y, mon, 31) = (LastDay(y, mon) + 3) % 7
         /\ LastDay(y, mon) \in Nat /\ DaysToMonth[mon][y] \in Int
<1> DEFINE leap == IF y % 4 = 0 THEN 1 ELSE 0
           d == DaysToYear[y]
<1>1. \A m \in 1 .. 12 : DaysToMonth[m][y] =
        IF m = 1 THEN d ELSE DaysToMonth[m - 1][y] + DaysIn(y, m - 1)
  <2> HIDE DEF d, leap
  <2> TAKE m \in 1 .. 12
  <2>1. DaysToMonth[m][y] =
          IF m = 1 THEN DaysToYear[y] ELSE DaysToMonth[m - 1][y] + DaysIn(y, m - 1)
    BY MonthEquation, Zenon
  <2>. QED BY <2>1 DEF d
<1> USE DEF CalendarYears
<1>2. /\ DaysIn(y, 1) = 31 /\ DaysIn(y, 2) = 28 + leap /\ DaysIn(y, 3) = 31
      /\ DaysIn(y, 4) = 30 /\ DaysIn(y, 5) = 31 /\ DaysIn(y, 6) = 30
      /\ DaysIn(y, 7) = 31 /\ DaysIn(y, 8) = 31 /\ DaysIn(y, 9) = 30
  BY LeapYears DEF DaysIn, monthdays
<1>3. d + leap = 365 * (y - 1970) + y \div 4 - 492
  <2>1. (y - 1969) \div 4 + leap = y \div 4 - 492
    OBVIOUS
  <2>. QED BY <2>1, YearsAre
<1>4. d \in Int /\ leap \in Int
  BY YearsAre
<1> HIDE DEF d, leap
<1>5. DaysToMonth[3][y] = d + 59 + leap
  <2>1. DaysToMonth[1][y] = d
    BY <1>1
  <2>2. DaysToMonth[2][y] = d + 31
    BY <1>1, <1>2, <2>1
  <2>. QED BY <1>1, <1>2, <1>4, <2>2
<1>6. DaysToMonth[10][y] = d + 273 + leap
  <2>1. DaysToMonth[4][y] = d + 90 + leap
    BY <1>1, <1>2, <1>4, <1>5
  <2>2. DaysToMonth[5][y] = d + 120 + leap
    BY <1>1, <1>2, <1>4, <2>1
  <2>3. DaysToMonth[6][y] = d + 151 + leap
    BY <1>1, <1>2, <1>4, <2>2
  <2>4. DaysToMonth[7][y] = d + 181 + leap
    BY <1>1, <1>2, <1>4, <2>3
  <2>5. DaysToMonth[8][y] = d + 212 + leap
    BY <1>1, <1>2, <1>4, <2>4
  <2>6. DaysToMonth[9][y] = d + 243 + leap
    BY <1>1, <1>2, <1>4, <2>5
  <2>. QED BY <1>1, <1>2, <1>4, <2>6
<1>7. DaysToMonth[mon][y] + 30 = LastDay(y, mon)
  BY <1>3, <1>4, <1>5, <1>6 DEF LastDay
<1>8. weekday(y, mon, 31) = (LastDay(y, mon) + 3) % 7
  <2> DEFINE n == y + 4800
             k == IF mon = 3 THEN 0 ELSE 214
             x == 31 + k + 365 * n + n \div 4 - n \div 100 + n \div 400 - 32045
  <2>1. n = YearsBefore(y, mon) /\ k = (153 * FromMarch(mon) + 2) \div 5
    BY DEF YearsBefore, FromMarch
  <2>2. n \div 4 = y \div 4 + 1200 /\ n \div 100 - n \div 400 = 51
    OBVIOUS
  <2>3. x = LastDay(y, mon) + 3 + 7 * 348655
    BY <2>2 DEF LastDay
  <2>4. x % 7 = (LastDay(y, mon) + 3) % 7
    BY <2>3 DEF LastDay
  <2>5. weekday(y, mon, 31) = x % 7
    BY <2>1 DEF weekday
  <2>. QED BY <2>4, <2>5
<1>9. LastDay(y, mon) \in Nat
  BY DEF LastDay
<1>10. DaysToMonth[mon][y] \in Int
  BY <1>4, <1>5, <1>6
<1>. QED BY <1>7, <1>8, <1>9, <1>10

\* In every year the date that the generator takes is the last Sunday of the month.
LEMMA SundayIs ==
  ASSUME NEW y \in CalendarYears, NEW mon \in {3, 10}
  PROVE  LET t == epochfordate(y, mon, getlastsundaydate(y, mon), 1)
         IN  t = LastSundayOf(y, mon) * 86400 + 3600 /\ IsLastSunday(t, y, mon)
<1> DEFINE last == LastDay(y, mon)
           w == (last + 3) % 7
           back == (last + 4) % 7
           t == epochfordate(y, mon, getlastsundaydate(y, mon), 1)
<1>1. /\ last \in Nat /\ DaysToMonth[mon][y] + 30 = last /\ weekday(y, mon, 31) = w
      /\ monthdays[mon] = 31 /\ DaysToMonth[mon][y] = last - 30
  <2>1. /\ last \in Nat /\ DaysToMonth[mon][y] + 30 = last /\ weekday(y, mon, 31) = w
        /\ DaysToMonth[mon][y] \in Int
    BY LastDayIs
  <2>2. monthdays[mon] = 31
    BY DEF monthdays
  <2> HIDE DEF w, last
  <2>. QED BY <2>1, <2>2
<1>2. w \in 0 .. 6 /\ back = (IF w < 6 THEN w + 1 ELSE 0) /\ (last - back + 3) % 7 = 6
  BY <1>1
<1>3. getlastsundaydate(y, mon) = 31 - back
  BY <1>1, <1>2 DEF getlastsundaydate, BackToSunday
<1>4. t = epochfordate(y, mon, 31 - back, 1) /\ t = (last - back) * 86400 + 3600
  BY <1>1, <1>2, <1>3 DEF epochfordate
<1>5. t \div 86400 = last - back
  BY <1>1, <1>2, <1>4
<1>6. 31 - back \in 25 .. 31
  BY <1>1, <1>2
<1>7. IsLastSunday(t, y, mon)
  <2> HIDE DEF t, back, last
  <2>. QED BY <1>1, <1>2, <1>4, <1>5, <1>6 DEF IsLastSunday
<1>8. last - back = LastSundayOf(y, mon)
  BY DEF LastSundayOf
<1> HIDE DEF t, back, last
<1>9. t = LastSundayOf(y, mon) * 86400 + 3600
  BY <1>4, <1>8
<1>. QED BY <1>7, <1>9 DEF t

\* Every row of the table is the row that the generator makes for its year.
LEMMA TableRow ==
  ASSUME NEW y \in TableYears
  PROVE  timezonechanges[y - 2017] = RowOf(y)
<1> DEFINE T(mon) == LastSundayOf(y, mon) * 86400 + 3600
<1>1. RowOf(y) = Row(T(3), T(10))
  BY SundayIs DEF RowOf, TableYears, CalendarYears
<1>2. timezonechanges[y - 2017] = Row(T(3), T(10))
  BY SMT DEF timezonechanges, Row, TableYears, LastDay, LastSundayOf
<1>. QED BY <1>1, <1>2

\* For every year of the calendar, not only those that are in the table, the date
\* that the generator takes is that of the last Sunday of March or of October
\* (dow.c:18-54).
THEOREM GeneratorFindsSundays ==
  \A y \in CalendarYears, mon \in {3, 10} :
    IsLastSunday(epochfordate(y, mon, getlastsundaydate(y, mon), 1), y, mon)
BY SundayIs

\* At any time the table is what the generator makes, and summer time starts and
\* ends on last Sundays (dow.c:18-88, londontzstruct.c:3-22).
THEOREM TableIsGenerated == SyncSpec => []IsTheTable
<1>1. IsTheTable
  <2> SUFFICES ASSUME NEW y \in TableYears
               PROVE  LET row == timezonechanges[y - 2017] IN
                      /\ row = RowOf(y)
                      /\ IsLastSunday(row.startsat, y, 3) /\ IsLastSunday(row.endsat, y, 10)
    BY DEF IsTheTable
  <2>1. timezonechanges[y - 2017] = RowOf(y)
    BY TableRow
  <2>2. y \in CalendarYears
    BY DEF TableYears, CalendarYears
  <2>3. /\ RowOf(y).startsat = epochfordate(y, 3, getlastsundaydate(y, 3), 1)
        /\ RowOf(y).endsat = epochfordate(y, 10, getlastsundaydate(y, 10), 1)
    BY DEF RowOf, Row
  <2>4. IsLastSunday(RowOf(y).startsat, y, 3) /\ IsLastSunday(RowOf(y).endsat, y, 10)
    BY <2>2, <2>3, GeneratorFindsSundays, Zenon
  <2>. QED BY <2>1, <2>4
<1>. QED BY <1>1, PTL
=============================================================================

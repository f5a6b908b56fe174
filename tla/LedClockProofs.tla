--------------------------- MODULE LedClockProofs ---------------------------
(***************************************************************************)
(* Proofs about module LedClock, for every length of the day and every set *)
(* of times that lines may carry, in range or not.                         *)
(***************************************************************************)
EXTENDS LedClock, RtcProofs

TimeLines == {TimeLine(t) : t \in Times}

\* The fields of a line.
LEMMA LineFields ==
  /\ PrintLine \in Lines /\ PrintLine.kind = "print"
  /\ OtherLine \in Lines /\ OtherLine.kind = "other"
  /\ TimeLines \subseteq Lines
  /\ \A l \in TimeLines : /\ l.kind = "time"
                          /\ l.hours \in Int16
                          /\ l.minutes \in Int16
                          /\ l.seconds \in Int16
  /\ \A l \in Lines : l = PrintLine \/ l = OtherLine \/ l \in TimeLines
BY LedClockAssumption DEF Lines, TimeLines, PrintLine, OtherLine, TimeLine

\* Where a line sends the main loop.
LEMMA DispatchPlace ==
  ASSUME NEW l \in Lines
  PROVE  /\ Dispatch(l) \in {"print_hours", "set_hours", "request"}
         /\ Dispatch(l) = "set_hours" => l \in TimeLines
<1>1. CASE l = PrintLine
  BY <1>1, LineFields DEF Dispatch
<1>2. CASE l = OtherLine
  BY <1>2, LineFields DEF Dispatch
<1>3. CASE l \in TimeLines
  BY <1>3, LineFields DEF Dispatch
<1>. QED BY <1>1, <1>2, <1>3, LineFields

\* An int stays an int, and carries happen only at the limit.
LEMMA CarryIsInt ==
  ASSUME NEW limit \in 1 .. IntMax, NEW x \in Int16
  PROVE  Incr(x) \in Int16 /\ Carry(x, limit) \in Int16
BY RtcAssumption DEF Int16, Incr, Carry

LEMMA DayIsPositive == SecondsPerHour \in Nat \ {0} /\ Day \in Nat \ {0}
<1>1. InRange(0, 0, 0)
  BY RtcAssumption DEF InRange
<1>2. SecondsPerHour \in Nat \ {0} /\ TimeVal(0, 0, 0) \in 0 .. Day - 1
  BY <1>1, TimeValBounds
<1>3. Day \in Nat
  BY <1>2, TimesSucc, RtcAssumption DEF Day
<1>. QED BY <1>2, <1>3

\* A remainder is smaller than the divisor.
LEMMA ModDay ==
  ASSUME NEW x \in Int
  PROVE  x % Day \in 0 .. Day - 1
BY DayIsPositive

-----------------------------------------------------------------------------
(* Types.                                                                  *)

SettingTime == pc \in {"set_hours", "set_minutes", "set_seconds"}

TInv == TypeOK /\ (SettingTime => lb \in TimeLines)

LEMMA InitTInv == Init => TInv
<1> SUFFICES ASSUME Init
             PROVE  TInv
  OBVIOUS
<1>1. InRange(hours, minutes, seconds) /\ flags \in SUBSET RTCFLAGS
  BY RtcInit DEF Init, RtcTypeOK
<1>2. hours \in Int16 /\ minutes \in Int16 /\ seconds \in Int16
  BY <1>1, RtcAssumption DEF InRange, Int16
<1>3. ideal \in 0 .. Day - 1
  BY <1>1, TimeValBounds DEF Init, Now, InRange
<1>4. <<0, 0>> \in Int16 \X Int16
  BY RtcAssumption DEF Int16
<1>. QED BY <1>1, <1>2, <1>3, <1>4 DEF Init, TInv, TypeOK, SettingTime, RTCFLAGS

LEMMA NextTInv == TInv /\ [Next]_vars => TInv'
<1> SUFFICES ASSUME TInv, [Next]_vars
             PROVE  TInv'
  OBVIOUS
<1> USE DEF TInv, TypeOK, SettingTime
<1>1. CASE Tick
  <2>1. hours' \in Int16 /\ minutes' \in Int16 /\ seconds' \in Int16
    BY <1>1, CarryIsInt, RtcAssumption DEF Tick, Timer0_A0
  <2>2. flags' \in SUBSET RTCFLAGS
    BY <1>1 DEF Tick, Timer0_A0, RTCFLAGS
  <2>3. ideal' \in 0 .. Day - 1
    <3>1. ideal + 1 \in Int
      BY DayIsPositive
    <3>2. (ideal + 1) % Day \in 0 .. Day - 1
      BY <3>1, ModDay
    <3>3. ideal' = (ideal + 1) % Day \/ ideal' = ideal
      BY <1>1 DEF Tick
    <3>. QED BY <3>2, <3>3
  <2>4. quiet' \in Nat /\ ticked' \in 0 .. 1
    BY <1>1 DEF Tick
  <2>5. UNCHANGED <<newest, fetches, lb, pc, loaded, printed, sane>>
    BY <1>1 DEF Tick, mail
  <2>. QED BY <2>1, <2>2, <2>3, <2>4, <2>5
<1>2. CASE Receive
  BY <1>2 DEF Receive, Mailbox!Deliver, rtcctx, history
<1>3. CASE FetchLine
  <2>1. /\ lb' \in Lines /\ lb' = newest
        /\ fetches' \in 0 .. 2
        /\ pc' = Dispatch(newest)
        /\ UNCHANGED <<rtcctx, newest, loaded, printed, ticked, history>>
    BY <1>3 DEF FetchLine, Mailbox!Fetch
  <2>. QED BY <2>1, DispatchPlace DEF rtcctx, history
<1>4. CASE NoLine
  BY <1>4 DEF NoLine, rtcctx, mail, history
<1>5. CASE SetHours \/ SetMinutes
  BY <1>5, LineFields DEF SetHours, SetMinutes, mail, history
<1>6. CASE SetSeconds
  <2>1. InRange(lb.hours, lb.minutes, lb.seconds)
          => TimeVal(lb.hours, lb.minutes, lb.seconds) \in 0 .. Day - 1
    BY TimeValBounds DEF InRange
  <2>2. sane' \in BOOLEAN /\ ideal' \in 0 .. Day - 1
    BY <1>6, <2>1 DEF SetSeconds, InRange
  <2>3. seconds' \in Int16 /\ pc' = "load_flags"
    BY <1>6, LineFields DEF SetSeconds
  <2>4. UNCHANGED <<flags, hours, minutes, newest, fetches, lb, loaded,
                    printed, ticked, quiet>>
    BY <1>6 DEF SetSeconds, mail
  <2>. QED BY <2>2, <2>3, <2>4
<1>7. CASE LoadFlags \/ StoreFlags
  <2>1. CASE LoadFlags
    BY <2>1 DEF LoadFlags, rtcctx, mail, history
  <2>2. CASE StoreFlags
    <3>1. flags' \in SUBSET RTCFLAGS /\ loaded' \in SUBSET RTCFLAGS
      BY <2>2 DEF StoreFlags, RTCFLAGS
    <3>. QED BY <2>2, <3>1 DEF StoreFlags, mail
  <2>. QED BY <1>7, <2>1, <2>2
<1>8. CASE PrintHours \/ PrintMinutes \/ PrintSeconds
  <2>1. 0 \in Int16
    BY RtcAssumption DEF Int16
  <2>. QED BY <1>8, <2>1
       DEF PrintHours, PrintMinutes, PrintSeconds, rtcctx, mail, history
<1>9. CASE NoRequest \/ SendRequest \/ ClearRequest
  BY <1>9 DEF NoRequest, SendRequest, ClearRequest, rtcctx, mail, history
<1>10. CASE UNCHANGED vars
  BY <1>10 DEF vars, rtcctx, mail, history
<1>. QED BY <1>1, <1>2, <1>3, <1>4, <1>5, <1>6, <1>7, <1>8, <1>9, <1>10
     DEF Next, Main

LEMMA TInvInvariant == Spec => []TInv
BY InitTInv, NextTInv, PTL DEF Spec

\* Every variable keeps its type; the fields of the clock stay ints even if
\* a line sets them out of range.
THEOREM TypeCorrect == Spec => []TypeOK
BY TInvInvariant, PTL DEF TInv

-----------------------------------------------------------------------------
(* The range of the fields.                                                *)

HourRange == 0 .. HoursPerDay - 1
MinuteRange == 0 .. MinutesPerHour - 1
SecondRange == 0 .. SecondsPerMinute - 1

\* The clock is in range after a time in range; while one is set, the fields
\* that are new already are in range if those of the line are.
RangeInv ==
  /\ sane /\ ~Setting => InRange(hours, minutes, seconds)
  /\ Setting /\ lb.hours \in HourRange => hours \in HourRange
  /\ pc = "set_seconds" /\ lb.minutes \in MinuteRange
       => minutes \in MinuteRange

\* A tick keeps each field in range on its own.
LEMMA TickFields ==
  ASSUME Timer0_A0
  PROVE  /\ hours \in HourRange => hours' \in HourRange
         /\ minutes \in MinuteRange => minutes' \in MinuteRange
         /\ seconds \in SecondRange => seconds' \in SecondRange
BY CarryInRange, RtcAssumption
DEF Timer0_A0, HourRange, MinuteRange, SecondRange

LEMMA InitRangeInv == Init => RangeInv
BY RtcInit DEF Init, RangeInv, Setting, RtcTypeOK

LEMMA NextRangeInv == TInv /\ RangeInv /\ [Next]_vars => RangeInv'
<1> SUFFICES ASSUME TInv, RangeInv, [Next]_vars
             PROVE  RangeInv'
  OBVIOUS
<1> USE DEF RangeInv, Setting
<1>1. CASE Tick
  BY <1>1, TickFields
  DEF Tick, mail, InRange, HourRange, MinuteRange, SecondRange
<1>2. CASE Receive
  BY <1>2 DEF Receive, Mailbox!Deliver, rtcctx, history, InRange
<1>3. CASE FetchLine
  <2>1. pc' \notin {"set_minutes", "set_seconds"}
    BY <1>3, DispatchPlace DEF FetchLine, TInv, TypeOK
  <2>. QED BY <1>3, <2>1 DEF FetchLine, rtcctx, history, InRange
<1>4. CASE NoLine
  BY <1>4 DEF NoLine, rtcctx, mail, history, InRange
<1>5. CASE SetHours
  BY <1>5 DEF SetHours, mail, history
<1>6. CASE SetMinutes
  BY <1>6 DEF SetMinutes, mail, history
<1>7. CASE SetSeconds
  BY <1>7 DEF SetSeconds, InRange, HourRange, MinuteRange
<1>8. CASE LoadFlags \/ StoreFlags
  BY <1>8 DEF LoadFlags, StoreFlags, rtcctx, mail, history, InRange
<1>9. CASE PrintHours \/ PrintMinutes \/ PrintSeconds
  BY <1>9 DEF PrintHours, PrintMinutes, PrintSeconds, rtcctx, mail, history,
              InRange
<1>10. CASE NoRequest \/ SendRequest \/ ClearRequest
  BY <1>10 DEF NoRequest, SendRequest, ClearRequest, rtcctx, mail, history,
               InRange
<1>11. CASE UNCHANGED vars
  BY <1>11 DEF vars, rtcctx, mail, history, InRange
<1>. QED BY <1>1, <1>2, <1>3, <1>4, <1>5, <1>6, <1>7, <1>8, <1>9, <1>10, <1>11
     DEF Next, Main

-----------------------------------------------------------------------------
(* The requests for the time.                                              *)

\* The ticks the clock may go without asking, and those since the last
\* minute or hour was over, when it should have asked.
Limit == IF "TIMESET" \in flags THEN SecondsPerHour ELSE SecondsPerMinute
Elapsed == IF "TIMESET" \in flags THEN minutes * SecondsPerMinute + seconds
                                  ELSE seconds

\* The main loop is about to count quiet from 0.
Resetting == pc \in {"set_minutes", "set_seconds", "load_flags", "store_flags"}

\* A request comes due with a tick, and no other tick can fall between it
\* and the end of the iteration that sends it; without a request, the clock
\* has not been quiet for longer than the hour or minute has lasted.
SyncInv ==
  /\ "UPDATETIME" \in flags => ticked = 1
  /\ "UPDATETIME" \in loaded => pc = "store_flags" /\ "UPDATETIME" \in flags
  /\ quiet + (1 - ticked) <= Limit
  /\ sane /\ ~Resetting /\ "UPDATETIME" \notin flags => quiet <= Elapsed
  /\ ~sane /\ pc \notin {"load_flags", "store_flags"} => quiet = 0

\* What a tick that raises no request does to a clock in range.
LEMMA TickElapsed ==
  ASSUME InRange(hours, minutes, seconds), Timer0_A0,
         "UPDATETIME" \notin flags
  PROVE  /\ Elapsed \in 0 .. Limit - 1
         /\ "UPDATETIME" \notin flags' => Elapsed' = Elapsed + 1
         /\ Limit' = Limit
<1> USE RtcAssumption
<1> DEFINE S == SecondsPerMinute
<1>1. /\ minutes \in 0 .. MinutesPerHour - 1
      /\ seconds \in 0 .. S - 1
      /\ minutes * S + seconds \in 0 .. SecondsPerHour - 1
  BY TimeValBounds DEF InRange
<1>2. /\ MinuteIsOver <=> seconds + 1 = S
      /\ seconds' = IF seconds + 1 = S THEN 0 ELSE seconds + 1
  BY <1>1, CarryInRange DEF MinuteIsOver, Timer0_A0
<1>3. MinuteIsOver /\ ~HourIsOver => minutes' = minutes + 1
  BY <1>1, CarryInRange DEF MinuteIsOver, HourIsOver, Timer0_A0
<1>4. ~MinuteIsOver => minutes' = minutes
  BY DEF Timer0_A0
<1>5. "TIMESET" \in flags' <=> "TIMESET" \in flags
  BY DEF Timer0_A0
<1>6. "UPDATETIME" \notin flags' =>
        ~ (MinuteIsOver /\ (HourIsOver \/ "TIMESET" \notin flags))
  BY DEF Timer0_A0, RequestIsDue
<1>7. (minutes + 1) * S = minutes * S + S /\ minutes * S \in Nat
  BY <1>1, TimesSucc
<1>8. ASSUME "UPDATETIME" \notin flags'
      PROVE  Elapsed' = Elapsed + 1
  <2>1. CASE "TIMESET" \notin flags
    BY <1>2, <1>5, <1>6, <1>8, <2>1 DEF Elapsed
  <2>2. CASE "TIMESET" \in flags /\ ~MinuteIsOver
    BY <1>1, <1>2, <1>4, <1>5, <1>7, <2>2 DEF Elapsed
  <2>3. CASE "TIMESET" \in flags /\ MinuteIsOver
    <3>1. minutes' = minutes + 1 /\ seconds' = 0 /\ seconds + 1 = S
      BY <1>2, <1>3, <1>6, <1>8, <2>3
    <3>2. Elapsed' = (minutes + 1) * S + 0
      BY <1>5, <2>3, <3>1 DEF Elapsed
    <3>3. Elapsed = minutes * S + seconds
      BY <2>3 DEF Elapsed
    <3>. QED BY <1>1, <1>7, <3>1, <3>2, <3>3
  <2>. QED BY <2>1, <2>2, <2>3
<1>. QED BY <1>1, <1>5, <1>8 DEF Elapsed, Limit

LEMMA LimitIsPositive == Limit \in Nat \ {0}
BY DayIsPositive, RtcAssumption DEF Limit

LEMMA ElapsedInRange ==
  ASSUME InRange(hours, minutes, seconds)
  PROVE  Elapsed \in 0 .. Limit - 1
BY TimeValBounds DEF InRange, Elapsed, Limit

LEMMA InitSyncInv == Init => SyncInv
<1> SUFFICES ASSUME Init
             PROVE  SyncInv
  OBVIOUS
<1>1. Elapsed \in 0 .. Limit - 1
  BY RtcInit, ElapsedInRange DEF Init, RtcTypeOK
<1>. QED BY <1>1, LimitIsPositive DEF Init, rtc_initialise, SyncInv

LEMMA NextSyncInv == TInv /\ RangeInv /\ SyncInv /\ [Next]_vars => SyncInv'
<1> SUFFICES ASSUME TInv, RangeInv, SyncInv, [Next]_vars
             PROVE  SyncInv'
  OBVIOUS
<1>0. /\ quiet \in Nat /\ ticked \in 0 .. 1 /\ Limit \in Nat \ {0}
      /\ sane \in BOOLEAN
      /\ loaded \in SUBSET RTCFLAGS /\ flags \in SUBSET RTCFLAGS
      /\ sane /\ ~Resetting => /\ InRange(hours, minutes, seconds)
                               /\ Elapsed \in 0 .. Limit - 1
  BY LimitIsPositive, ElapsedInRange
  DEF TInv, TypeOK, RangeInv, Resetting, Setting
<1>1. CASE Tick
  <2>1. /\ ticked = 0 /\ ticked' = 1 /\ Timer0_A0
        /\ "UPDATETIME" \notin flags
        /\ quiet + 1 <= Limit
        /\ quiet' = IF sane THEN quiet + 1 ELSE 0
        /\ UNCHANGED <<pc, loaded, sane>>
    BY <1>0, <1>1 DEF Tick, SyncInv
  <2>2. Limit' = Limit
    BY <2>1 DEF Timer0_A0, Limit
  <2>3. ASSUME sane, ~Resetting, "UPDATETIME" \notin flags'
        PROVE  quiet' <= Elapsed'
    BY <1>0, <2>1, <2>3, TickElapsed DEF SyncInv
  <2>. QED BY <1>0, <2>1, <2>2, <2>3 DEF SyncInv, Resetting
<1>2. CASE Receive \/ NoLine \/ PrintHours \/ PrintMinutes \/ PrintSeconds
             \/ SendRequest
  BY <1>2
  DEF Receive, NoLine, PrintHours, PrintMinutes, PrintSeconds, SendRequest,
      rtcctx, history, SyncInv, Resetting, Elapsed, Limit
<1>3. CASE FetchLine
  <2>1. pc' \in {"print_hours", "set_hours", "request"}
    BY <1>3, DispatchPlace DEF FetchLine, TInv, TypeOK
  <2>. QED BY <1>3, <2>1
       DEF FetchLine, rtcctx, history, SyncInv, Resetting, Elapsed, Limit
<1>4. CASE SetHours \/ SetMinutes
  BY <1>4 DEF SetHours, SetMinutes, history, SyncInv, Resetting, Limit
<1>5. CASE SetSeconds
  BY <1>5 DEF SetSeconds, SyncInv, Resetting, Limit
<1>6. CASE LoadFlags
  BY <1>6 DEF LoadFlags, rtcctx, history, SyncInv, Resetting, Limit
<1>7. CASE StoreFlags
  <2>1. /\ "UPDATETIME" \in flags' => ticked' = 1
        /\ loaded' = {}
        /\ quiet' = 0 /\ ticked' = ticked
        /\ pc' = "request"
        /\ UNCHANGED <<hours, minutes, seconds, sane>>
    BY <1>7 DEF StoreFlags, SyncInv
  <2>2. Limit' \in Nat \ {0}
    BY DayIsPositive, RtcAssumption DEF Limit
  <2>3. sane => Elapsed' \in Nat
    <3>1. CASE sane
      <4>1. InRange(hours, minutes, seconds)
        BY <1>7, <3>1 DEF StoreFlags, RangeInv, Setting
      <4>2. /\ minutes * SecondsPerMinute + seconds \in 0 .. SecondsPerHour - 1
            /\ SecondsPerHour \in Nat
            /\ seconds \in 0 .. SecondsPerMinute - 1
        BY <4>1, TimeValBounds DEF InRange
      <4>. QED BY <2>1, <4>2 DEF Elapsed
    <3>. QED BY <3>1
  <2>. QED BY <1>0, <2>1, <2>2, <2>3 DEF SyncInv
<1>8. CASE NoRequest
  <2>1. /\ pc = "request" /\ pc' = "poll"
        /\ "UPDATETIME" \notin flags
        /\ ticked' = 0
        /\ UNCHANGED <<flags, hours, minutes, seconds, loaded, sane, quiet>>
    BY <1>8 DEF NoRequest, rtcctx, history
  <2>2. quiet + 1 <= Limit
    BY <1>0, <2>1 DEF SyncInv, Resetting
  <2>. QED BY <1>0, <2>1, <2>2 DEF SyncInv, Resetting, Elapsed, Limit
<1>9. CASE ClearRequest
  <2>1. /\ flags' = flags \ {"UPDATETIME"}
        /\ quiet' = 0 /\ ticked' = 0
        /\ pc = "clear_request" /\ pc' = "poll"
        /\ UNCHANGED <<hours, minutes, seconds, loaded, sane>>
    BY <1>9 DEF ClearRequest
  <2>2. Limit' = Limit /\ Elapsed' = Elapsed
    BY <2>1 DEF Limit, Elapsed
  <2>3. "UPDATETIME" \notin loaded
    BY <2>1 DEF SyncInv
  <2>. QED BY <1>0, <2>1, <2>2, <2>3 DEF SyncInv, Resetting
<1>10. CASE UNCHANGED vars
  BY <1>10 DEF vars, rtcctx, history, SyncInv, Resetting, Elapsed, Limit
<1>. QED BY <1>1, <1>2, <1>3, <1>4, <1>5, <1>6, <1>7, <1>8, <1>9, <1>10
     DEF Next, Main

\* As long as the time is in range, the clock asks for it, or is set, within
\* every hour (every minute before it was set for the first time).
THEOREM SyncInTime == Spec => []SyncIsNotOverdue
<1>1. TInv /\ SyncInv => SyncIsNotOverdue
  BY LimitIsPositive DEF TInv, TypeOK, SyncInv, SyncIsNotOverdue, Limit
<1>. QED BY <1>1, InitTInv, NextTInv, InitRangeInv, NextRangeInv, InitSyncInv,
            NextSyncInv, PTL DEF Spec

-----------------------------------------------------------------------------
(* Times that are set and printed field by field.                          *)

\* Remainders near zero.
LEMMA ModNearZero ==
  ASSUME NEW n \in Nat \ {0}, NEW x \in -n .. n - 1
  PROVE  x % n = IF x < 0 THEN x + n ELSE x
<1>1. CASE x >= 0
  BY <1>1
<1>2. CASE x < 0
  BY <1>2
<1>. QED BY <1>1, <1>2

LEMMA UnitsOfTheDay ==
  /\ SecondsPerMinute \in 1 .. SecondsPerHour
  /\ SecondsPerHour \in 1 .. Day
<1> USE RtcAssumption
<1>1. 1 * SecondsPerMinute <= SecondsPerHour
  BY TimesMono DEF SecondsPerHour
<1>2. 1 * SecondsPerHour <= Day
  BY DayIsPositive, TimesMono DEF Day
<1>3. /\ 1 * SecondsPerMinute = SecondsPerMinute
      /\ 1 * SecondsPerHour = SecondsPerHour
  BY DayIsPositive
<1>. QED BY <1>1, <1>2, <1>3, DayIsPositive

\* a is ahead of b by nothing, a minute or an hour, on a clock.
Ahead(a, b) ==
  \E d \in {0, SecondsPerMinute, SecondsPerHour} : a = b + d \/ a + Day = b + d

LEMMA AheadMod ==
  ASSUME NEW a \in 0 .. Day - 1, NEW b \in 0 .. Day - 1, Ahead(a, b)
  PROVE  (a - b) % Day \in {0, SecondsPerMinute, SecondsPerHour}
<1>1. PICK d \in {0, SecondsPerMinute, SecondsPerHour} :
             a = b + d \/ a + Day = b + d
  BY DEF Ahead
<1>2. d \in 0 .. Day
  BY UnitsOfTheDay, DayIsPositive
<1>3. a - b \in -Day .. Day - 1
  BY DayIsPositive
<1>4. (a - b) % Day = IF a - b < 0 THEN (a - b) + Day ELSE a - b
  BY <1>3, DayIsPositive, ModNearZero
<1>. QED BY <1>1, <1>2, <1>4, DayIsPositive

\* Both go on by one second.
LEMMA AheadTick ==
  ASSUME NEW a \in 0 .. Day - 1, NEW b \in 0 .. Day - 1, Ahead(a, b)
  PROVE  Ahead(IF a + 1 = Day THEN 0 ELSE a + 1, (b + 1) % Day)
<1>1. PICK d \in {0, SecondsPerMinute, SecondsPerHour} :
             a = b + d \/ a + Day = b + d
  BY DEF Ahead
<1>2. d \in 0 .. Day
  BY UnitsOfTheDay, DayIsPositive
<1>3. (b + 1) % Day = IF b + 1 = Day THEN 0 ELSE b + 1
  <2>1. CASE b + 1 = Day
    <3>1. Day % Day = 0
      BY DayIsPositive
    <3>. QED BY <2>1, <3>1
  <2>2. CASE b + 1 # Day
    <3>1. b + 1 \in -Day .. Day - 1 /\ ~ (b + 1 < 0)
      BY <2>2, DayIsPositive
    <3>. QED BY <2>2, <3>1, DayIsPositive, ModNearZero
  <2>. QED BY <2>1, <2>2
<1> DEFINE x == IF a + 1 = Day THEN 0 ELSE a + 1
           y == IF b + 1 = Day THEN 0 ELSE b + 1
<1>4. x = y + d \/ x + Day = y + d
  BY <1>1, <1>2, DayIsPositive
<1>. QED BY <1>3, <1>4 DEF Ahead

\* The fields h:m are h0:m0, or what a carry made of one of them since.
Carried(h0, m0, h, m) ==
  \/ m = m0 /\ h \in {h0, Carry(h0, HoursPerDay)}
  \/ /\ m = Carry(m0, MinutesPerHour)
     /\ h = IF Incr(m0) = MinutesPerHour THEN Carry(h0, HoursPerDay) ELSE h0

\* Such a carry puts the time a minute or an hour ahead.
LEMMA CarriedIsAhead ==
  ASSUME NEW h0, NEW m0, NEW s, InRange(h0, m0, s),
         NEW h, NEW m, Carried(h0, m0, h, m)
  PROVE  Ahead(TimeVal(h, m, s), TimeVal(h0, m0, s))
<1> USE RtcAssumption
<1> DEFINE S == SecondsPerMinute
           P == SecondsPerHour
           H == HoursPerDay
           M == MinutesPerHour
           t0 == TimeVal(h0, m0, s)
           t == TimeVal(h, m, s)
<1>1. /\ h0 \in 0 .. H - 1 /\ m0 \in 0 .. M - 1 /\ s \in 0 .. S - 1
      /\ t0 \in 0 .. Day - 1
      /\ P \in Nat \ {0}
  BY TimeValBounds DEF InRange
<1>2. /\ Incr(m0) = m0 + 1
      /\ Carry(h0, H) = IF h0 + 1 = H THEN 0 ELSE h0 + 1
      /\ Carry(m0, M) = IF m0 + 1 = M THEN 0 ELSE m0 + 1
  BY <1>1, CarryInRange
<1>3. /\ h0 * P \in Nat /\ (h0 + 1) * P = h0 * P + P
      /\ m0 * S \in Nat /\ (m0 + 1) * S = m0 * S + S
      /\ 0 * P = 0 /\ 0 * S = 0
  BY <1>1, TimesSucc
<1>4. M * S = P /\ H * P = Day /\ Day \in Nat /\ S \in Nat
  BY DayIsPositive DEF SecondsPerHour, Day
<1>5. t0 = h0 * P + m0 * S + s
  BY DEF TimeVal
<1>6. CASE h = h0 /\ m = m0
  <2>1. t = t0 + 0
    BY <1>1, <1>6
  <2>. QED BY <2>1 DEF Ahead
<1>7. CASE m = m0 /\ h = Carry(h0, H)
  <2>1. CASE h0 + 1 = H
    <3>1. t = 0 * P + m0 * S + s
      BY <1>2, <1>7, <2>1 DEF TimeVal
    <3>2. h0 * P + P = Day
      BY <1>3, <1>4, <2>1
    <3>3. t + Day = t0 + P
      <4> HIDE DEF t, t0, P
      <4>. QED BY <1>1, <1>3, <1>4, <1>5, <3>1, <3>2
    <3>. QED BY <3>3 DEF Ahead
  <2>2. CASE h0 + 1 # H
    <3>1. t = (h0 + 1) * P + m0 * S + s
      BY <1>2, <1>7, <2>2 DEF TimeVal
    <3>2. t = t0 + P
      <4> HIDE DEF t, t0, P
      <4>. QED BY <1>1, <1>3, <1>4, <1>5, <3>1
    <3>. QED BY <3>2 DEF Ahead
  <2>. QED BY <2>1, <2>2
<1>8. CASE /\ m = Carry(m0, M)
           /\ h = IF Incr(m0) = M THEN Carry(h0, H) ELSE h0
  <2>1. CASE m0 + 1 # M
    <3>1. t = h0 * P + (m0 + 1) * S + s
      BY <1>2, <1>8, <2>1 DEF TimeVal
    <3>2. t = t0 + S
      <4> HIDE DEF t, t0, P
      <4>. QED BY <1>1, <1>3, <1>4, <1>5, <3>1
    <3>. QED BY <3>2 DEF Ahead
  <2>2. CASE m0 + 1 = M /\ h0 + 1 # H
    <3>1. t = (h0 + 1) * P + 0 * S + s
      BY <1>2, <1>8, <2>2 DEF TimeVal
    <3>2. m0 * S + S = P
      BY <1>3, <1>4, <2>2
    <3>3. t = t0 + S
      <4> HIDE DEF t, t0, P
      <4>. QED BY <1>1, <1>3, <1>4, <1>5, <3>1, <3>2
    <3>. QED BY <3>3 DEF Ahead
  <2>3. CASE m0 + 1 = M /\ h0 + 1 = H
    <3>1. t = 0 * P + 0 * S + s
      BY <1>2, <1>8, <2>3 DEF TimeVal
    <3>2. m0 * S + S = P /\ h0 * P + P = Day
      BY <1>3, <1>4, <2>3
    <3>3. t + Day = t0 + S
      <4> HIDE DEF t, t0, P
      <4>. QED BY <1>1, <1>3, <1>4, <1>5, <3>1, <3>2
    <3>. QED BY <3>3 DEF Ahead
  <2>. QED BY <2>1, <2>2, <2>3
<1>. QED BY <1>6, <1>7, <1>8 DEF Carried

\* At most one carry hits the fields that have been set or read.
FieldInv ==
  /\ pc = "set_minutes" =>
       /\ hours \in {lb.hours, Carry(lb.hours, HoursPerDay)}
       /\ ticked = 0 => hours = lb.hours
  /\ pc = "set_seconds" =>
       /\ Carried(lb.hours, lb.minutes, hours, minutes)
       /\ ticked = 0 => hours = lb.hours /\ minutes = lb.minutes
  /\ pc = "print_minutes" =>
       /\ hours \in {printed[1], Carry(printed[1], HoursPerDay)}
       /\ ticked = 0 => hours = printed[1]
       /\ sane => printed[1] \in HourRange
  /\ pc = "print_seconds" =>
       /\ Carried(printed[1], printed[2], hours, minutes)
       /\ ticked = 0 => hours = printed[1] /\ minutes = printed[2]
       /\ sane => printed[1] \in HourRange /\ printed[2] \in MinuteRange

LEMMA InitFieldInv == Init => FieldInv
BY DEF Init, FieldInv

LEMMA NextFieldInv == TInv /\ RangeInv /\ FieldInv /\ [Next]_vars => FieldInv'
<1> SUFFICES ASSUME TInv, RangeInv, FieldInv, [Next]_vars
             PROVE  FieldInv'
  OBVIOUS
<1>1. CASE Tick
  <2>1. /\ ticked = 0 /\ ticked' = 1
        /\ UNCHANGED <<lb, pc, printed, sane>>
        /\ hours' \in {hours, Carry(hours, HoursPerDay)}
        /\ Carried(hours, minutes, hours', minutes')
    BY <1>1 DEF Tick, mail, Timer0_A0, HourIsOver, Carried
  <2>. QED BY <2>1 DEF FieldInv
<1>2. CASE Receive \/ NoLine \/ LoadFlags \/ SendRequest \/ UNCHANGED vars
  BY <1>2 DEF Receive, Mailbox!Deliver, NoLine, LoadFlags, SendRequest, vars,
              rtcctx, mail, history, FieldInv
<1>3. CASE FetchLine
  BY <1>3, DispatchPlace DEF FetchLine, FieldInv, TInv, TypeOK
<1>4. CASE SetHours
  BY <1>4 DEF SetHours, mail, FieldInv
<1>5. CASE SetMinutes
  BY <1>5 DEF SetMinutes, mail, FieldInv, Carried
<1>6. CASE SetSeconds \/ StoreFlags \/ NoRequest \/ ClearRequest
  BY <1>6 DEF SetSeconds, StoreFlags, NoRequest, ClearRequest, FieldInv
<1>7. CASE PrintHours
  <2>1. sane => hours \in HourRange
    BY <1>7 DEF PrintHours, RangeInv, Setting, InRange, HourRange
  <2>2. printed' = <<hours, 0>> /\ pc' = "print_minutes"
        /\ UNCHANGED <<hours, sane>>
    BY <1>7 DEF PrintHours, rtcctx, history
  <2>. QED BY <2>1, <2>2 DEF FieldInv
<1>8. CASE PrintMinutes
  <2>1. sane => minutes \in MinuteRange
    BY <1>8 DEF PrintMinutes, RangeInv, Setting, InRange, MinuteRange
  <2>2. printed' = <<printed[1], minutes>> /\ pc' = "print_seconds"
        /\ UNCHANGED <<hours, minutes, sane, ticked>>
    BY <1>8 DEF PrintMinutes, rtcctx, history
  <2>. QED BY <1>8, <2>1, <2>2 DEF PrintMinutes, FieldInv, Carried
<1>9. CASE PrintSeconds
  BY <1>9 DEF PrintSeconds, FieldInv
<1>. QED BY <1>1, <1>2, <1>3, <1>4, <1>5, <1>6, <1>7, <1>8, <1>9
     DEF Next, Main

\* The clock is ahead of the ideal one by at most one carry.
LeadInv == sane /\ ~Setting => Ahead(Now, ideal)

LEMMA InitLeadInv == Init => LeadInv
<1> SUFFICES ASSUME Init
             PROVE  LeadInv
  OBVIOUS
<1>1. Now \in 0 .. Day - 1
  BY RtcInit, TimeValBounds DEF Init, RtcTypeOK, Now, InRange
<1>2. Now = ideal + 0
  BY <1>1 DEF Init
<1>. QED BY <1>2 DEF LeadInv, Ahead

LEMMA NextLeadInv ==
  TInv /\ RangeInv /\ FieldInv /\ LeadInv /\ [Next]_vars => LeadInv'
<1> SUFFICES ASSUME TInv, RangeInv, FieldInv, LeadInv, [Next]_vars,
                    sane', ~Setting'
             PROVE  Ahead(Now, ideal)'
  BY DEF LeadInv
<1>1. CASE Tick
  <2>1. /\ sane /\ ~Setting
        /\ Timer0_A0
        /\ ideal' = (ideal + 1) % Day
    BY <1>1 DEF Tick, Setting
  <2>2. InRange(hours, minutes, seconds)
    BY <2>1 DEF RangeInv
  <2>3. /\ Now \in 0 .. Day - 1
        /\ ideal \in 0 .. Day - 1
        /\ Ahead(Now, ideal)
    BY <2>1, <2>2, TimeValBounds DEF LeadInv, Now, TInv, TypeOK, InRange
  <2>4. Now' = IF Now + 1 = Day THEN 0 ELSE Now + 1
    BY <2>1, <2>2, TickInRange DEF Now
  <2>. QED BY <2>1, <2>3, <2>4, AheadTick DEF Ahead
<1>2. CASE SetSeconds
  <2>1. /\ InRange(lb.hours, lb.minutes, lb.seconds)
        /\ ideal' = TimeVal(lb.hours, lb.minutes, lb.seconds)
        /\ seconds' = lb.seconds
        /\ Carried(lb.hours, lb.minutes, hours, minutes)
        /\ UNCHANGED <<hours, minutes>>
    BY <1>2 DEF SetSeconds, FieldInv
  <2>2. Ahead(TimeVal(hours, minutes, lb.seconds),
              TimeVal(lb.hours, lb.minutes, lb.seconds))
    BY <2>1, CarriedIsAhead
  <2>. QED BY <2>1, <2>2 DEF Now, Ahead
<1>3. CASE SetHours \/ SetMinutes
  BY <1>3 DEF SetHours, SetMinutes, Setting
<1>4. CASE FetchLine
  <2>1. ~Setting
    BY <1>4 DEF FetchLine, Setting
  <2>. QED BY <1>4, <2>1
       DEF FetchLine, rtcctx, history, LeadInv, Ahead, Now
<1>5. CASE \/ Receive \/ NoLine \/ LoadFlags \/ StoreFlags
           \/ PrintHours \/ PrintMinutes \/ PrintSeconds
           \/ NoRequest \/ SendRequest \/ ClearRequest \/ UNCHANGED vars
  <2>1. UNCHANGED <<hours, minutes, seconds, sane, ideal>>
    BY <1>5
    DEF Receive, NoLine, LoadFlags, StoreFlags, PrintHours, PrintMinutes,
        PrintSeconds, NoRequest, SendRequest, ClearRequest, vars, rtcctx,
        history
  <2>2. ~Setting
    BY <1>5
    DEF Receive, NoLine, LoadFlags, StoreFlags, PrintHours, PrintMinutes,
        PrintSeconds, NoRequest, SendRequest, ClearRequest, vars, Setting
  <2>. QED BY <2>1, <2>2 DEF LeadInv, Ahead, Now
<1>. QED BY <1>1, <1>2, <1>3, <1>4, <1>5 DEF Next, Main

\* A time that is set field by field is never behind and never ahead by more
\* than one carry.
THEOREM SetTimeNotBehind == Spec => []SetTimeIsNotBehind
<1>1. TInv /\ RangeInv /\ LeadInv => SetTimeIsNotBehind
  <2> SUFFICES ASSUME TInv, RangeInv, LeadInv, sane, ~Setting
               PROVE  /\ InRange(hours, minutes, seconds)
                      /\ (Now - ideal) % Day
                            \in {0, SecondsPerMinute, SecondsPerHour}
    BY DEF SetTimeIsNotBehind
  <2>1. InRange(hours, minutes, seconds)
    BY DEF RangeInv
  <2>2. /\ Now \in 0 .. Day - 1
        /\ ideal \in 0 .. Day - 1
        /\ Ahead(Now, ideal)
    BY <2>1, TimeValBounds DEF LeadInv, Now, TInv, TypeOK, InRange
  <2>. QED BY <2>1, <2>2, AheadMod
<1>. QED BY <1>1, InitTInv, NextTInv, InitRangeInv, NextRangeInv, InitFieldInv,
            NextFieldInv, InitLeadInv, NextLeadInv, PTL DEF Spec

\* A time that is printed field by field is never ahead and never behind by
\* more than one carry.
THEOREM PrintNotAhead == Spec => []PrintIsNotAhead
<1>1. TInv /\ RangeInv /\ FieldInv => PrintIsNotAhead
  <2> SUFFICES ASSUME TInv, RangeInv, FieldInv, sane, pc = "print_seconds"
               PROVE  (Now - PrintedTime) % Day
                        \in {0, SecondsPerMinute, SecondsPerHour}
    BY DEF PrintIsNotAhead
  <2>1. /\ InRange(hours, minutes, seconds)
        /\ InRange(printed[1], printed[2], seconds)
        /\ Carried(printed[1], printed[2], hours, minutes)
    BY DEF RangeInv, FieldInv, Setting, InRange, HourRange, MinuteRange
  <2>2. Now \in 0 .. Day - 1 /\ PrintedTime \in 0 .. Day - 1
    BY <2>1, TimeValBounds DEF Now, PrintedTime, InRange
  <2>3. Ahead(Now, PrintedTime)
    BY <2>1, CarriedIsAhead DEF Now, PrintedTime
  <2>. QED BY <2>2, <2>3, AheadMod
<1>. QED BY <1>1, InitTInv, NextTInv, InitRangeInv, NextRangeInv, InitFieldInv,
            NextFieldInv, PTL DEF Spec
=============================================================================

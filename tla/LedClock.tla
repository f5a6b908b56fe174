------------------------------ MODULE LedClock ------------------------------
(***************************************************************************)
(* The clock firmware: the main loop (ledclocksw/main.c) between the timer *)
(* interrupt of module Rtc and the receiver, which is present as the       *)
(* mailbox that module Usc implements.                                     *)
(*                                                                         *)
(* The main loop sets and prints the fields of rtcctx one by one while the *)
(* timer interrupt may advance them, and shares rtcctx.flags with it.      *)
(***************************************************************************)
EXTENDS Rtc

CONSTANTS
  Times    \* the times that TIME lines carry: records of three ints, not
           \* necessarily in range, since a line can lose bytes on the way

\* A line, as far as the main loop tells lines apart.
PrintLine == [kind |-> "print"]
OtherLine == [kind |-> "other"]
TimeLine(t) == [kind |-> "time", hours |-> t.hours,
                minutes |-> t.minutes, seconds |-> t.seconds]
Lines == {PrintLine, OtherLine} \cup {TimeLine(t) : t \in Times}

ASSUME LedClockAssumption ==
  Times \subseteq [hours : Int16, minutes : Int16, seconds : Int16]

VARIABLES
  newest, fetches, lb,  \* the mailbox; lb is the line the main loop took
  pc,                   \* where the main loop is
  loaded,               \* the flags that flags |= RTCFLAGS_TIMESET loaded
  printed,              \* the hours and minutes that printtime has read
  ticked,               \* ticks in this iteration of the main loop
  \* History variables, read by no action of the firmware:
  sane,                 \* the last time that was set is in range
  ideal,                \* the time if it had been set in one step
  quiet                 \* ticks since the clock was set or asked for the time

mail == <<newest, fetches, lb>>
history == <<sane, ideal, quiet>>
vars == <<rtcctx, mail, pc, loaded, printed, ticked, history>>

Mailbox == INSTANCE LineMailbox WITH got <- lb

Now == TimeVal(hours, minutes, seconds)

Init ==
  /\ rtc_initialise
  /\ newest \in Lines
  /\ fetches \in {0, 2}
  /\ lb = << >>
  /\ pc = "poll"
  /\ loaded = {}
  /\ printed = <<0, 0>>
  /\ ticked = 0
  /\ sane = TRUE
  /\ ideal = Now
  /\ quiet = 0

-----------------------------------------------------------------------------
(* Interrupts.                                                             *)

\* The timer interrupt.  At most one falls into an iteration of the main
\* loop: the longest sends 39 characters at 9600 baud, which takes 41 ms.
Tick ==
  /\ ticked = 0
  /\ Timer0_A0
  /\ ticked' = 1
  /\ ideal' = IF sane THEN (ideal + 1) % Day ELSE ideal
  /\ quiet' = IF sane THEN quiet + 1 ELSE 0
  /\ UNCHANGED <<mail, pc, loaded, printed, sane>>

\* The receive interrupt completes a line.
Receive ==
  /\ Mailbox!Deliver
  /\ UNCHANGED <<rtcctx, pc, loaded, printed, ticked, history>>

-----------------------------------------------------------------------------
(* The main loop: a line.                                                  *)

\* Where a line is handled.  The mutated forms forget to print the hours and
\* skip the test for a request after a line that is not known.
DispatchNoHours(line) ==
  CASE line.kind = "print" -> "print_minutes"
    [] line.kind = "time"  -> "set_hours"
    [] line.kind = "other" -> "request"
DispatchContinue(line) ==
  CASE line.kind = "print" -> "print_hours"
    [] line.kind = "time"  -> "set_hours"
    [] line.kind = "other" -> "poll"
Dispatch(line) ==
  CASE line.kind = "print" -> "print_hours"
    [] line.kind = "time"  -> "set_hours"
    [] line.kind = "other" -> "request"

\* A line is there: take it.
FetchLine ==
  /\ pc = "poll"
  /\ Mailbox!Fetch
  /\ pc' = Dispatch(newest)
  /\ UNCHANGED <<rtcctx, loaded, printed, ticked, history>>

\* No line is announced.
NoLine ==
  /\ pc = "poll"
  /\ fetches # 0
  /\ pc' = "request"
  /\ UNCHANGED <<rtcctx, mail, loaded, printed, ticked, history>>

\* The three assignments of a TIME line.
SetHours ==
  /\ pc = "set_hours"
  /\ hours' = lb.hours
  /\ pc' = "set_minutes"
  /\ UNCHANGED <<flags, minutes, seconds, mail, loaded, printed, ticked,
                 history>>

SetMinutes ==
  /\ pc = "set_minutes"
  /\ minutes' = lb.minutes
  /\ pc' = "set_seconds"
  /\ UNCHANGED <<flags, hours, seconds, mail, loaded, printed, ticked,
                 history>>

SetSeconds ==
  /\ pc = "set_seconds"
  /\ seconds' = lb.seconds
  /\ sane' = InRange(lb.hours, lb.minutes, lb.seconds)
  /\ ideal' = IF sane' THEN TimeVal(lb.hours, lb.minutes, lb.seconds)
                       ELSE ideal
  /\ pc' = "load_flags"
  /\ UNCHANGED <<flags, hours, minutes, mail, loaded, printed, ticked, quiet>>

\* flags |= RTCFLAGS_TIMESET: rtcctx is not volatile and not protected, so a
\* build may load and store in two instructions.
LoadFlags ==
  /\ pc = "load_flags"
  /\ loaded' = flags
  /\ pc' = "store_flags"
  /\ UNCHANGED <<rtcctx, mail, printed, ticked, history>>

StoreFlags ==
  /\ pc = "store_flags"
  /\ flags' = loaded \cup {"TIMESET"}
  /\ loaded' = {}
  /\ quiet' = 0
  /\ pc' = "request"
  /\ UNCHANGED <<hours, minutes, seconds, mail, printed, ticked, sane, ideal>>

\* printtime reads a field and sends it, three times.
PrintHours ==
  /\ pc = "print_hours"
  /\ printed' = <<hours, 0>>
  /\ pc' = "print_minutes"
  /\ UNCHANGED <<rtcctx, mail, loaded, ticked, history>>

PrintMinutes ==
  /\ pc = "print_minutes"
  /\ printed' = <<printed[1], minutes>>
  /\ pc' = "print_seconds"
  /\ UNCHANGED <<rtcctx, mail, loaded, ticked, history>>

PrintSeconds ==
  /\ pc = "print_seconds"
  /\ printed' = <<0, 0>>
  /\ pc' = "request"
  /\ UNCHANGED <<rtcctx, mail, loaded, ticked, history>>

-----------------------------------------------------------------------------
(* The main loop: the request for the time.                                *)

\* No request is due: the iteration is over.
NoRequest ==
  /\ pc = "request"
  /\ "UPDATETIME" \notin flags
  /\ pc' = "poll"
  /\ ticked' = 0
  /\ UNCHANGED <<rtcctx, mail, loaded, printed, history>>

\* hwuart_sendstr("\rtime sync beverly.bengreen.eu\r")
SendRequest ==
  /\ pc = "request"
  /\ "UPDATETIME" \in flags
  /\ pc' = "clear_request"
  /\ UNCHANGED <<rtcctx, mail, loaded, printed, ticked, history>>

\* flags &= ~RTCFLAGS_UPDATETIME.  Only the main loop sets or clears the
\* other bit, so it does not matter when flags is loaded.  A request that
\* has come due since SendRequest is cleared too: it has just been sent.
ClearRequest ==
  /\ pc = "clear_request"
  /\ flags' = flags \ {"UPDATETIME"}
  /\ quiet' = 0
  /\ pc' = "poll"
  /\ ticked' = 0
  /\ UNCHANGED <<hours, minutes, seconds, mail, loaded, printed, sane, ideal>>

-----------------------------------------------------------------------------
Main ==
  \/ FetchLine \/ NoLine
  \/ SetHours \/ SetMinutes \/ SetSeconds \/ LoadFlags \/ StoreFlags
  \/ PrintHours \/ PrintMinutes \/ PrintSeconds
  \/ NoRequest \/ SendRequest \/ ClearRequest

Next == Main \/ Tick \/ Receive

Spec == Init /\ [][Next]_vars

\* The main loop never sleeps, and the crystal never stops.
FairSpec == Spec /\ WF_vars(Main) /\ WF_vars(Tick)

-----------------------------------------------------------------------------
TypeOK ==
  /\ flags \in SUBSET RTCFLAGS
  /\ hours \in Int16
  /\ minutes \in Int16
  /\ seconds \in Int16
  /\ newest \in Lines
  /\ fetches \in 0 .. 2
  /\ lb \in Lines \cup {<< >>}
  /\ pc \in {"poll", "set_hours", "set_minutes", "set_seconds", "load_flags",
             "store_flags", "print_hours", "print_minutes", "print_seconds",
             "request", "clear_request"}
  /\ loaded \in SUBSET RTCFLAGS
  /\ printed \in Int16 \X Int16
  /\ ticked \in 0 .. 1
  /\ sane \in BOOLEAN
  /\ ideal \in 0 .. Day - 1
  /\ quiet \in Nat

\* A time that is set field by field while the clock ticks is exact, or a
\* minute or an hour ahead because a carry hit a field that was new already;
\* the clock is never behind, never further ahead, and stays in range
\* (main.c:188-190 against rtc.c:19-32).
Setting == pc \in {"set_minutes", "set_seconds"}

SetTimeIsNotBehind ==
  sane /\ ~Setting =>
    /\ InRange(hours, minutes, seconds)
    /\ (Now - ideal) % Day \in {0, SecondsPerMinute, SecondsPerHour}

\* The time that is printed field by field while the clock ticks is right
\* when its last field is read, or a minute or an hour behind, never ahead
\* (main.c:19-24 against rtc.c:19-32).
PrintedTime == TimeVal(printed[1], printed[2], seconds)

PrintIsNotAhead ==
  sane /\ pc = "print_seconds" =>
    (Now - PrintedTime) % Day \in {0, SecondsPerMinute, SecondsPerHour}

\* As long as the time is in range, the clock goes no longer than a minute
\* (until it is set for the first time) or an hour (from then on) without
\* being set or asking for the time, although a request that comes due while
\* a line is handled may be overwritten (rtc.c:23-33, main.c:192-198).
SyncIsNotOverdue ==
  quiet <= IF "TIMESET" \in flags THEN SecondsPerHour ELSE SecondsPerMinute

\* A request that is due is sent, or dropped because the time has just been
\* set, however many lines arrive (main.c:192-198).
RequestIsServed == "UPDATETIME" \in flags ~> "UPDATETIME" \notin flags

\* Unless lines keep arriving, the clock asks for the time again and again,
\* also after it was set to a time out of range (rtc.c:20-33).
KeepsAsking ==
  []<>(pc = "clear_request") \/ []<><<Receive>>_vars
=============================================================================

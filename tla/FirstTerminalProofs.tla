------------------------ MODULE FirstTerminalProofs ------------------------
(***************************************************************************)
(* Proofs about what the clock talks to: the requests of the first         *)
(* terminal, module NtpClient, for any number of them and any pool of      *)
(* connections, and the simulator of a terminal, module Esp8266Sim, for    *)
(* any alphabet, request, answer and buffer.                               *)
(***************************************************************************)
EXTENDS NtpClient, Esp8266Sim, FiniteSetTheorems, SequenceTheorems,
        WellFoundedInduction, TLAPS

(***************************************************************************)
(* The requests of the first terminal.                                     *)
(***************************************************************************)

\* Connections are numbered in the order of the requests, so a new one was
\* never answered; a timer that runs while a request is being sent is one of
\* an earlier request.
ConnInv ==
  /\ open \cup answered \subseteq 1 .. sent
  /\ open \cap answered = {}
  /\ armed /\ sender # "no" => "overlap" \in irregular

IInv == TypeOK /\ ConnInv /\ OneLineEach

LEMMA OneLess ==
  ASSUME NEW A, NEW B, NEW c \in A, c \notin B
  PROVE  A \ (A \ {c}) = (B \cup {c}) \ B
OBVIOUS

LEMMA NoneLess ==
  ASSUME NEW A, NEW B, NEW C, A \subseteq C
  PROVE  A \ C = B \ B
OBVIOUS

LEMMA InitInv == Init => IInv
<1> SUFFICES ASSUME Init PROVE IInv
  OBVIOUS
<1>1. Cardinality(answered) = 0
  BY FS_EmptySet DEF Init
<1>2. TypeOK
  <2>1. /\ lookups \in 0 .. MaxRequests /\ requests \in 0 .. MaxRequests
        /\ sent + lookups <= requests /\ sent \in Nat /\ errors \in Nat
    BY NtpClientAssumption DEF Init
  <2>2. /\ sender \in {"no", "command", "resolver"} /\ g_conn \in Conns \cup {NULL}
        /\ asked \subseteq open /\ open \subseteq Conns /\ answered \subseteq Conns
        /\ irregular \subseteq {"overlap", "early", "late"}
        /\ armed \in BOOLEAN /\ owed \in BOOLEAN
    BY DEF Init
  <2>. QED BY <2>1, <2>2 DEF TypeOK
<1>4. ConnInv
  BY DEF Init, ConnInv
<1>3. OneLineEach
  BY <1>1 DEF Init, OneLineEach, lines
<1>. QED BY <1>2, <1>3, <1>4 DEF IInv

LEMMA AnsweredFinite ==
  ASSUME TypeOK
  PROVE  IsFiniteSet(answered) /\ Cardinality(answered) \in Nat
<1>1. IsFiniteSet(Conns)
  BY NtpClientAssumption, FS_Interval DEF Conns
<1>. QED BY <1>1, FS_Subset, FS_CardinalityType DEF TypeOK

LEMMA SendKeeps ==
  ASSUME IInv, NEW task \in {"command", "resolver"}, NEW found \in BOOLEAN,
         OpenAndSend(task, found), sender = "no", sent < MaxRequests,
         UNCHANGED <<armed, answered, errors>>
  PROVE  /\ ConnInv' /\ OneLineEach'
         /\ sender' \in {"no", "command", "resolver"} /\ sent' = sent + 1
         /\ g_conn' \in Conns \cup {NULL} /\ asked' \subseteq open'
         /\ open' \subseteq Conns /\ irregular' \subseteq {"overlap", "early", "late"}
<1> USE DEF IInv
<1>1. /\ sender' = task /\ sent' = sent + 1 /\ sent \in Nat /\ sent' \in Conns
      /\ open' \ open \subseteq {sent + 1} /\ open \subseteq open'
      /\ g_conn' \in {sent + 1, NULL} /\ open' = open \cup ({g_conn'} \ {NULL})
  BY NtpClientAssumption DEF OpenAndSend, TypeOK, Conns
<1>2. ConnInv'
  <2>1. open' \cup answered' \subseteq 1 .. sent' /\ open' \cap answered' = {}
    BY <1>1 DEF ConnInv
  <2>2. armed' /\ sender' # "no" => "overlap" \in irregular'
    BY DEF OpenAndSend
  <2>. QED BY <2>1, <2>2 DEF ConnInv
<1>3. OneLineEach'
  <2>1. irregular' = {} => irregular = {} /\ ~armed
    BY DEF OpenAndSend
  <2>2. irregular' = {} => lines = sent
    BY <2>1, AnsweredFinite DEF OneLineEach, lines, TypeOK
  <2>3. lines' = lines /\ sender' # "no"
    BY <1>1 DEF lines
  <2>. QED BY <1>1, <2>2, <2>3, AnsweredFinite DEF OneLineEach
<1>4. asked' \subseteq open'
  BY <1>1 DEF OpenAndSend, TypeOK
<1>5. irregular' \subseteq {"overlap", "early", "late"}
  BY DEF OpenAndSend, TypeOK
<1>. QED BY <1>1, <1>2, <1>3, <1>4, <1>5 DEF TypeOK

LEMMA AskKnownKeeps == IInv /\ AskKnown => IInv'
<1> SUFFICES ASSUME IInv, AskKnown PROVE IInv'
  OBVIOUS
<1>1. sent < MaxRequests /\ sender = "no" /\ requests \in Nat
  BY NtpClientAssumption DEF IInv, TypeOK, AskKnown
<1>2. OpenAndSend("command", TRUE) /\ UNCHANGED <<lookups, armed, answered, errors>>
  BY DEF AskKnown
<1>3. /\ ConnInv' /\ OneLineEach'
      /\ sender' \in {"no", "command", "resolver"} /\ sent' = sent + 1
      /\ g_conn' \in Conns \cup {NULL} /\ asked' \subseteq open'
      /\ open' \subseteq Conns /\ irregular' \subseteq {"overlap", "early", "late"}
  BY <1>1, <1>2, SendKeeps
<1>. QED BY <1>1, <1>2, <1>3, NtpClientAssumption DEF IInv, TypeOK, AskKnown

LEMMA ResolveKeeps == IInv /\ Resolve => IInv'
<1> SUFFICES ASSUME IInv, NEW found \in BOOLEAN, receive_dns_response(found)
             PROVE  IInv'
  BY DEF Resolve
<1>1. sent < MaxRequests /\ sender = "no" /\ lookups - 1 \in 0 .. MaxRequests
  BY NtpClientAssumption DEF IInv, TypeOK, receive_dns_response
<1>2. /\ OpenAndSend("resolver", found) /\ UNCHANGED <<armed, answered, errors>>
      /\ UNCHANGED <<requests, owed>> /\ lookups' = lookups - 1
  BY DEF receive_dns_response
<1>3. /\ ConnInv' /\ OneLineEach'
      /\ sender' \in {"no", "command", "resolver"} /\ sent' = sent + 1
      /\ g_conn' \in Conns \cup {NULL} /\ asked' \subseteq open'
      /\ open' \subseteq Conns /\ irregular' \subseteq {"overlap", "early", "late"}
  BY <1>1, <1>2, SendKeeps
<1>. QED BY <1>1, <1>2, <1>3, NtpClientAssumption DEF IInv, TypeOK

LEMMA AskUnknownKeeps == IInv /\ AskUnknown => IInv'
BY NtpClientAssumption
   DEF IInv, TypeOK, ConnInv, OneLineEach, lines, AskUnknown

LEMMA AskRefusedKeeps == IInv /\ AskRefused => IInv'
BY NtpClientAssumption
   DEF IInv, TypeOK, ConnInv, OneLineEach, lines, AskRefused

LEMMA ArmKeeps == IInv /\ Arm => IInv'
BY DEF IInv, TypeOK, ConnInv, OneLineEach, lines, Arm, Waits

LEMMA CallbackKeeps ==
  ASSUME IInv, NEW conn \in Conns, netCallback(conn)
  PROVE  IInv'
<1> USE DEF IInv
<1>1. conn \notin answered /\ conn \in open /\ conn \in asked
  BY DEF netCallback, ConnInv
<1>2. TypeOK'
  BY <1>1 DEF TypeOK, netCallback, Release, Disarmed
<1>3. ConnInv'
  BY <1>1 DEF ConnInv, netCallback, Release, Disarmed
<1>4. lines' = lines + 1
  <2>1. answered' = answered \cup {conn} /\ errors' = errors /\ errors \in Nat
    BY DEF netCallback, TypeOK
  <2>2. Cardinality(answered \cup {conn}) = Cardinality(answered) + 1
    BY <1>1, AnsweredFinite, FS_AddElement
  <2>. QED BY <2>1, <2>2, AnsweredFinite DEF lines
<1>5. OneLineEach'
  <2>1. irregular' = {} => irregular = {} /\ sender = "no" /\ armed
    BY DEF netCallback, TypeOK
  <2>. QED BY <1>4, <2>1, AnsweredFinite
           DEF OneLineEach, netCallback, Disarmed, TypeOK, lines
<1>. QED BY <1>2, <1>3, <1>5

LEMMA TimeoutKeeps == IInv /\ ntp_udp_timeout => IInv'
<1> SUFFICES ASSUME IInv, ntp_udp_timeout PROVE IInv'
  OBVIOUS
<1> USE DEF IInv
<1>1. TypeOK' /\ ConnInv'
  <2>1. /\ UNCHANGED <<lookups, sender, g_conn, open, asked, requests, sent,
                       answered, irregular>>
        /\ armed' = FALSE /\ errors' \in Nat
    BY DEF TypeOK, ntp_udp_timeout
  <2>2. owed' \in BOOLEAN
    BY Zenon DEF TypeOK, ntp_udp_timeout
  <2>. QED BY <2>1, <2>2 DEF TypeOK, ConnInv
<1>2. lines' = lines + 1
  BY AnsweredFinite DEF lines, TypeOK, ntp_udp_timeout
<1>3. OneLineEach'
  BY <1>2, AnsweredFinite DEF OneLineEach, ConnInv, TypeOK, lines,
     ntp_udp_timeout
<1>. QED BY <1>1, <1>3

LEMMA Invariance == Spec => []IInv
<1>1. IInv /\ [Next]_vars => IInv'
  <2> SUFFICES ASSUME IInv, [Next]_vars PROVE IInv'
    OBVIOUS
  <2>1. CASE UNCHANGED vars
    BY <2>1 DEF vars, IInv, TypeOK, ConnInv, OneLineEach, lines
  <2>. QED BY <2>1, AskKnownKeeps, AskUnknownKeeps, AskRefusedKeeps,
              ResolveKeeps, ArmKeeps, CallbackKeeps, TimeoutKeeps DEF Next
<1>. QED BY <1>1, InitInv, PTL DEF Spec

\* Every variable keeps its type; answers arrive on connections that exist.
THEOREM TypeCorrect == Spec => []TypeOK
<1>1. IInv => TypeOK
  BY DEF IInv
<1>. QED BY <1>1, Invariance, PTL

\* A request that is neither overlapped nor answered early or late gets one
\* line, and the timer stands for the one that is still to come.
THEOREM RequestsGetOneLine == Spec => []OneLineEach
<1>1. IInv => OneLineEach
  BY DEF IInv
<1>. QED BY <1>1, Invariance, PTL

\* The connection whose answer is printed is released, and no other.
THEOREM ReleasesOnAnswer == Spec => ReleasedWithAnswer
<1>1. ASSUME IInv, Next
      PROVE  open \ open' = answered' \ answered /\ open' \cap answered' = {}
  <2>1. IInv'
    BY <1>1, AskKnownKeeps, AskUnknownKeeps, AskRefusedKeeps, ResolveKeeps,
       ArmKeeps, CallbackKeeps, TimeoutKeeps DEF Next
  <2>4. open' \cap answered' = {}
    BY <2>1 DEF IInv, ConnInv
  <2>2. CASE \/ AskKnown \/ AskUnknown \/ AskRefused \/ Resolve \/ Arm
             \/ ntp_udp_timeout
    <3>1. open \subseteq open' /\ answered' = answered
      BY <2>2 DEF AskKnown, AskUnknown, AskRefused, Resolve, receive_dns_response,
                  OpenAndSend, Arm, ntp_udp_timeout
    <3>. QED BY <2>4, <3>1, NoneLess
  <2>3. CASE \E conn \in Conns : netCallback(conn)
    <3>1. PICK conn \in Conns : netCallback(conn)
      BY <2>3
    <3>2. conn \notin answered /\ conn \in open
      BY <1>1, <3>1 DEF netCallback, IInv, ConnInv
    <3>3. open' = open \ {conn} /\ answered' = answered \cup {conn}
      BY <3>1 DEF netCallback, Release
    <3>. QED BY <2>4, <3>2, <3>3, OneLess
  <2>. QED BY <1>1, <2>2, <2>3, <2>4 DEF Next
<1>2. IInv /\ [Next]_vars => [/\ open \ open' = answered' \ answered
                              /\ open' \cap answered' = {}]_vars
  BY <1>1
<1>. QED BY <1>2, Invariance, PTL DEF Spec, ReleasedWithAnswer

(***************************************************************************)
(* The simulator.                                                          *)
(***************************************************************************)

\* A set of naturals that is not empty has a least element.
LEMMA LeastNat ==
  ASSUME NEW T, T \subseteq Nat, T # {}
  PROVE  \E x \in T : \A y \in T : x <= y
<1> DEFINE R == {ss \in Nat \X Nat : ss[1] < ss[2]}
<1>0. OpToRel(<, Nat) = R
  BY Zenon DEF OpToRel
<1>1. IsWellFoundedOn(R, Nat)
  BY <1>0, NatLessThanWellFounded, Zenon
<1>2. PICK x \in T : \A y \in T : ~ (<<y, x>> \in R)
  <2> HIDE DEF R
  <2>. QED BY <1>1, WFMin, Zenon
<1>3. \A y \in T : x <= y
  <2>1. SUFFICES ASSUME NEW y \in T
                 PROVE  ~ (y < x)
    OBVIOUS
  <2>2. <<y, x>> \in Nat \X Nat
    OBVIOUS
  <2>3. y < x => <<y, x>> \in R
    BY <2>2
  <2>. QED BY <1>2, <2>3
<1>. QED BY <1>3

\* The types of the simulator's variables, and the sizes of its buffers.
SimTypeOK ==
  /\ rd \in Seq(Byte) /\ Len(rd) <= RdCapacity
  /\ wr \in Seq(Byte) /\ Len(wr) <= WrCapacity
  /\ buf \in [0 .. BufSize - 1 -> Byte \cup {Nul}]
  /\ rd_idx \in 0 .. Len(rd)
  /\ pc \in {"select", "read", "parse", "write"}
  /\ longest \in LineLengths

\* What was searched before is copied, and has no end of line: that a search
\* resumes where the last one gave up loses nothing.
ResumeInv == \A i \in 1 .. rd_idx : buf[i - 1] = rd[i] /\ rd[i] # Cr

\* LinesFit bounds what waits, which is no line once the lines are taken.
SimInv ==
  /\ SimTypeOK /\ ResumeInv /\ LinesFit(rd)
  /\ pc # "parse" => ~ Contains(rd, Cr)

LEMMA SimInitInv == SimInit => SimInv
BY Esp8266SimAssumption DEF SimInit, SimInv, SimTypeOK, ResumeInv, LinesFit, Contains

\* A part of a sequence.
LEMMA PartIs ==
  ASSUME NEW S, NEW s \in Seq(S), NEW m \in 1 .. Len(s) + 1, NEW n \in m - 1 .. Len(s)
  PROVE  /\ SubSeq(s, m, n) \in Seq(S)
         /\ Len(SubSeq(s, m, n)) = n - m + 1
         /\ \A i \in 1 .. n - m + 1 : SubSeq(s, m, n)[i] = s[i + m - 1]
<1>1. Len(s) \in Nat /\ m \in Int /\ n \in Int
  OBVIOUS
<1>2. \A i \in m .. n : s[i] \in S
  BY <1>1, ElementOfSeq
<1>3. /\ SubSeq(s, m, n) \in Seq(S)
      /\ Len(SubSeq(s, m, n)) = IF m <= n THEN n - m + 1 ELSE 0
      /\ \A i \in 1 .. n - m + 1 : SubSeq(s, m, n)[i] = s[m + i - 1]
  BY <1>1, <1>2, SubSeqProperties
<1>4. \A i \in 1 .. n - m + 1 : m + i - 1 = i + m - 1
  BY <1>1
<1>. QED BY <1>1, <1>3, <1>4

\* Where the search stops: at the first end of a line, or behind the bytes.
LEMMA StopIs ==
  ASSUME SimInv
  PROVE  /\ EndOfLine = {} => Stop = Len(rd)
         /\ EndOfLine # {} => /\ Stop \in rd_idx .. Len(rd) - 1 /\ rd[Stop + 1] = Cr
                              /\ \A i \in 1 .. Stop : rd[i] # Cr
<1>1. CASE EndOfLine = {}
  BY <1>1 DEF Stop
<1>2. CASE EndOfLine # {}
  <2>1. EndOfLine \subseteq Nat
    BY DEF EndOfLine, SimInv, SimTypeOK
  <2>2. PICK m \in EndOfLine : \A j \in EndOfLine : m <= j
    BY <1>2, <2>1, LeastNat
  <2>3. Stop \in EndOfLine /\ \A j \in EndOfLine : Stop <= j
    BY <1>2, <2>2 DEF Stop
  <2>4. ASSUME NEW i \in 1 .. Stop PROVE rd[i] # Cr
    <3>1. CASE i <= rd_idx
      BY <3>1, <2>4 DEF SimInv, ResumeInv, SimTypeOK
    <3>2. CASE i > rd_idx
      <4>1. i - 1 \in rd_idx .. Len(rd) - 1 /\ ~ (Stop <= i - 1) /\ (i - 1) + 1 = i
        BY <2>1, <2>3, <2>4, <3>2 DEF EndOfLine, SimInv, SimTypeOK
      <4>2. i - 1 \notin EndOfLine
        BY <2>3, <4>1
      <4>. QED BY <4>1, <4>2 DEF EndOfLine
    <3>. QED BY <2>4, <3>1, <3>2 DEF SimInv, SimTypeOK
  <2>. QED BY <1>2, <2>3, <2>4 DEF EndOfLine
<1>. QED BY <1>1, <1>2

\* What is copied from rd_idx on completes what was copied before.
LEMMA CopyIs ==
  ASSUME SimInv, NEW last \in Int, last < Len(rd)
  PROVE  /\ CopyTo(last) \in [0 .. BufSize - 1 -> Byte \cup {Nul}]
         /\ \A i \in 1 .. last + 1 : CopyTo(last)[i - 1] = rd[i]
<1>1. /\ rd \in Seq(Byte) /\ Len(rd) \in Nat /\ Len(rd) < BufSize /\ BufSize \in Nat
      /\ rd_idx \in 0 .. Len(rd) /\ RdCapacity \in Nat
      /\ buf \in [0 .. BufSize - 1 -> Byte \cup {Nul}]
  BY Esp8266SimAssumption DEF SimInv, SimTypeOK
<1>2. ASSUME NEW i \in 0 .. BufSize - 1, i \in rd_idx .. last PROVE rd[i + 1] \in Byte
  BY <1>1, <1>2, ElementOfSeq
<1>3. CopyTo(last) \in [0 .. BufSize - 1 -> Byte \cup {Nul}]
  BY <1>1, <1>2 DEF CopyTo
<1>4. ASSUME NEW i \in 1 .. last + 1 PROVE CopyTo(last)[i - 1] = rd[i]
  <2>1. i - 1 \in 0 .. BufSize - 1 /\ (i - 1) + 1 = i
    BY <1>1, <1>4
  <2>2. CopyTo(last)[i - 1] = IF i - 1 \in rd_idx .. last THEN rd[i] ELSE buf[i - 1]
    BY <2>1 DEF CopyTo
  <2>3. i - 1 \notin rd_idx .. last => i \in 1 .. rd_idx
    BY <1>1, <1>4
  <2>. QED BY <2>2, <2>3 DEF SimInv, ResumeInv
<1>. QED BY <1>3, <1>4

-----------------------------------------------------------------------------
\* A line leaves, and what follows it still holds lines that fit.
LEMMA TakeKeeps ==
  ASSUME SimInv, TakeLine, UNCHANGED longest
  PROVE  SimInv'
<1>1. /\ rd \in Seq(Byte) /\ Len(rd) \in Nat /\ Len(rd) <= RdCapacity
      /\ RdCapacity \in Nat /\ BufSize \in Nat /\ Len(rd) < BufSize /\ longest \in Nat
      /\ Stop \in 0 .. Len(rd) - 1 /\ rd[Stop + 1] = Cr
      /\ wr \in Seq(Byte) /\ Len(wr) <= WrCapacity /\ WrCapacity \in Nat
      /\ Answer \in Seq(Byte)
  <2>1. /\ rd \in Seq(Byte) /\ Len(rd) <= RdCapacity /\ rd_idx \in 0 .. Len(rd)
        /\ wr \in Seq(Byte) /\ Len(wr) <= WrCapacity /\ longest \in LineLengths
    BY DEF SimInv, SimTypeOK
  <2>2. /\ RdCapacity \in Nat /\ WrCapacity \in Nat /\ LineLengths \subseteq Nat
        /\ BufSize \in Nat /\ BufSize > RdCapacity /\ Answer \in Seq(Byte)
    BY Esp8266SimAssumption
  <2>3. Stop \in rd_idx .. Len(rd) - 1 /\ rd[Stop + 1] = Cr
    BY StopIs DEF TakeLine
  <2>4. Len(rd) \in Nat
    BY <2>1
  <2>. QED BY <2>1, <2>2, <2>3, <2>4
<1>2. /\ rd' = SubSeq(rd, Stop + 2, Len(rd)) /\ rd_idx' = 0 /\ pc' = "parse"
      /\ wr' = wr \/ wr' = Put(Answer)
      /\ buf' = [CopyTo(Stop) EXCEPT ![Stop] = Nul]
  BY DEF TakeLine, Restart, CheckNextLine
<1>3. /\ rd' \in Seq(Byte) /\ Len(rd') = Len(rd) - (Stop + 1)
      /\ \A i \in 1 .. Len(rd) - (Stop + 1) : rd'[i] = rd[i + Stop + 1]
  <2>1. Stop + 2 \in 1 .. Len(rd) + 1 /\ Len(rd) \in (Stop + 2) - 1 .. Len(rd)
    BY <1>1
  <2>2. /\ rd' \in Seq(Byte) /\ Len(rd') = Len(rd) - (Stop + 2) + 1
        /\ \A i \in 1 .. Len(rd) - (Stop + 2) + 1 : rd'[i] = rd[i + (Stop + 2) - 1]
    BY <1>1, <1>2, <2>1, PartIs
  <2>3. /\ Len(rd) - (Stop + 2) + 1 = Len(rd) - (Stop + 1)
        /\ \A i \in Int : i + (Stop + 2) - 1 = i + Stop + 1
    BY <1>1
  <2>. QED BY <2>2, <2>3
<1>4. wr' \in Seq(Byte) /\ Len(wr') <= WrCapacity
  BY <1>1, <1>2, ConcatProperties DEF Put
<1>5. buf' \in [0 .. BufSize - 1 -> Byte \cup {Nul}]
  BY <1>1, <1>2, CopyIs
<1>6. LinesFit(rd)'
  <2> SUFFICES ASSUME NEW i \in 1 .. Len(rd') - longest
               PROVE  \E j \in i .. i + longest : rd'[j] = Cr
    BY DEF LinesFit
  <2>1. i + Stop + 1 \in 1 .. Len(rd) - longest
    BY <1>1, <1>3
  <2>2. PICK j \in i + Stop + 1 .. i + Stop + 1 + longest : rd[j] = Cr
    BY <2>1 DEF SimInv, LinesFit
  <2>3. /\ j - (Stop + 1) \in i .. i + longest
        /\ j - (Stop + 1) \in 1 .. Len(rd) - (Stop + 1)
        /\ (j - (Stop + 1)) + Stop + 1 = j
    BY <1>1, <1>3, <2>1
  <2>. QED BY <1>3, <2>2, <2>3
<1>7. ResumeInv'
  BY <1>2 DEF ResumeInv
<1>8. SimTypeOK'
  BY <1>1, <1>2, <1>3, <1>4, <1>5 DEF SimTypeOK, SimInv
<1>. QED BY <1>2, <1>6, <1>7, <1>8 DEF SimInv

\* No line is complete: everything was searched.
LEMMA NoLineKeeps ==
  ASSUME SimInv, NoLine, UNCHANGED longest
  PROVE  SimInv'
<1>1. /\ Len(rd) \in Nat /\ rd_idx \in 0 .. Len(rd) /\ Stop = Len(rd) /\ EndOfLine = {}
  BY StopIs DEF NoLine, SimInv, SimTypeOK
<1>2. ASSUME NEW i \in 1 .. Len(rd) PROVE rd[i] # Cr
  <2>1. CASE i <= rd_idx
    BY <1>1, <1>2, <2>1 DEF SimInv, ResumeInv
  <2>2. CASE i > rd_idx
    <3>1. i - 1 \in rd_idx .. Len(rd) - 1 /\ (i - 1) + 1 = i
      BY <1>1, <1>2, <2>2
    <3>. QED BY <1>1, <3>1 DEF EndOfLine
  <2>. QED BY <1>1, <1>2, <2>1, <2>2
<1>3. /\ rd' = rd /\ wr' = wr /\ rd_idx' = Len(rd) /\ pc' = "write"
      /\ buf' = CopyTo(Len(rd) - 1)
  BY <1>1 DEF NoLine, Resume
<1>4. /\ buf' \in [0 .. BufSize - 1 -> Byte \cup {Nul}]
      /\ \A i \in 1 .. Len(rd) : buf'[i - 1] = rd[i]
  <2>1. Len(rd) - 1 \in Int /\ Len(rd) - 1 < Len(rd) /\ (Len(rd) - 1) + 1 = Len(rd)
    BY <1>1
  <2>. QED BY <1>3, <2>1, CopyIs
<1>5. ResumeInv'
  BY <1>2, <1>3, <1>4 DEF ResumeInv
<1>6. SimTypeOK' /\ LinesFit(rd)'
  BY <1>1, <1>3, <1>4 DEF SimInv, SimTypeOK, LinesFit
<1>7. ~ Contains(rd, Cr)'
  BY <1>2, <1>3 DEF Contains
<1>. QED BY <1>5, <1>6, <1>7 DEF SimInv

\* Bytes join those that were not taken.
LEMMA ReadIs ==
  ASSUME SimInv, NEW n \in 0 .. RdCapacity - Len(rd), NEW chunk \in [1 .. n -> Byte],
         perform_read(chunk)
  PROVE  /\ rd' \in Seq(Byte) /\ Len(rd') = Len(rd) + n
         /\ \A i \in 1 .. Len(rd) : rd'[i] = rd[i]
<1>1. /\ chunk \in Seq(Byte) /\ Len(chunk) = n /\ rd \in Seq(Byte) /\ Len(rd) \in Nat
  BY Esp8266SimAssumption DEF SimInv, SimTypeOK
<1>2. rd' = rd \o chunk
  BY DEF perform_read
<1>. QED BY <1>1, <1>2, ConcatProperties

LEMMA ReadKeeps ==
  ASSUME SimInv, Read, UNCHANGED longest
  PROVE  SimInv'
<1>1. PICK n \in 0 .. RdCapacity - Len(rd) : \E chunk \in [1 .. n -> Byte] : perform_read(chunk)
  BY DEF Read
<1>0. PICK chunk \in [1 .. n -> Byte] : perform_read(chunk)
  BY <1>1
<1>2. /\ rd' \in Seq(Byte) /\ Len(rd') = Len(rd) + n
      /\ \A i \in 1 .. Len(rd) : rd'[i] = rd[i]
  BY <1>0, ReadIs
<1>3. /\ LinesFit(rd') /\ pc' = "parse" /\ UNCHANGED <<wr, buf, rd_idx, fds>>
  BY <1>0 DEF perform_read, LinesFit
<1>4. /\ Len(rd) \in Nat /\ n \in Nat /\ RdCapacity \in Nat /\ rd_idx \in 0 .. Len(rd)
  BY Esp8266SimAssumption DEF SimInv, SimTypeOK
<1>5. SimTypeOK'
  BY <1>2, <1>3, <1>4 DEF SimInv, SimTypeOK
<1>6. ResumeInv'
  <2>1. \A i \in 1 .. rd_idx : i \in 1 .. Len(rd)
    BY <1>4
  <2>2. \A i \in 1 .. rd_idx : buf[i - 1] = rd[i] /\ rd[i] # Cr
    BY DEF SimInv, ResumeInv
  <2>3. \A i \in 1 .. rd_idx : rd'[i] = rd[i]
    BY <1>2, <2>1
  <2>4. rd_idx' = rd_idx /\ buf' = buf
    BY <1>3
  <2>. QED BY <2>2, <2>3, <2>4 DEF ResumeInv
<1>7. LinesFit(rd)'
  BY <1>3 DEF LinesFit
<1>. QED BY <1>3, <1>5, <1>6, <1>7 DEF SimInv

\* What is sent leaves.
LEMMA SendIs ==
  ASSUME SimInv, NEW n \in 0 .. Len(wr)
  PROVE  /\ SubSeq(wr, n + 1, Len(wr)) \in Seq(Byte)
         /\ Len(SubSeq(wr, n + 1, Len(wr))) = Len(wr) - n
         /\ SubSeq(wr, 1, Len(wr)) = wr
<1>1. wr \in Seq(Byte) /\ Len(wr) \in Nat
  BY DEF SimInv, SimTypeOK
<1>2. \A i \in n + 1 .. Len(wr) : wr[i] \in Byte
  BY <1>1, ElementOfSeq
<1>. QED BY <1>1, <1>2, SubSeqProperties, SubSeqFull

LEMMA WriteKeeps ==
  ASSUME SimInv,
         \/ Write \/ NothingToWrite
         \/ \E ready \in SUBSET {"read", "write"} : Select(ready),
         UNCHANGED longest
  PROVE  SimInv'
<1> DEFINE Kept == /\ wr' \in Seq(Byte) /\ Len(wr') <= WrCapacity
                   /\ UNCHANGED <<rd, buf, rd_idx>>
                   /\ pc # "parse" /\ pc' \in {"select", "read", "write"}
<1>1. Kept
  <2>1. CASE Write
    <3>1. PICK n \in 0 .. Len(wr) : perform_write(n)
      BY <2>1 DEF Write
    <3>2. wr' \in Seq(Byte) /\ Len(wr') = Len(wr) - n
      BY <3>1, SendIs DEF perform_write
    <3>3. Len(wr) \in Nat /\ Len(wr) <= WrCapacity /\ WrCapacity \in Nat
      BY Esp8266SimAssumption DEF SimInv, SimTypeOK
    <3>. QED BY <3>1, <3>2, <3>3 DEF perform_write
  <2>2. CASE NothingToWrite
    BY <2>2 DEF NothingToWrite, SimInv, SimTypeOK
  <2>3. ASSUME NEW ready \in SUBSET {"read", "write"}, Select(ready)
        PROVE  Kept
    BY <2>3 DEF Select, SimInv, SimTypeOK
  <2>. QED BY <2>1, <2>2, <2>3
<1>. QED BY <1>1 DEF SimInv, SimTypeOK, ResumeInv, LinesFit, Contains

LEMMA SimInvariance == SimSpec => []SimInv
<1>1. SimInv /\ [SimNext]_simvars => SimInv'
  <2> SUFFICES ASSUME SimInv, [SimNext]_simvars PROVE SimInv'
    OBVIOUS
  <2>1. CASE UNCHANGED simvars
    BY <2>1 DEF simvars, SimInv, SimTypeOK, ResumeInv, LinesFit, Contains
  <2>2. CASE SimNext
    BY <2>2, ReadKeeps, TakeKeeps, NoLineKeeps, WriteKeeps DEF SimNext, Loop
  <2>. QED BY <2>1, <2>2
<1>. QED BY <1>1, SimInitInv, PTL DEF SimSpec

-----------------------------------------------------------------------------
\* For every alphabet, request, answer and every size of the buffers, no
\* complete line waits while the loop does (esp8266sim.c:89-121).
THEOREM NoLineIsLeft == SimSpec => []NothingIsLeftBehind
<1>1. SimInv => NothingIsLeftBehind
  BY DEF SimInv, NothingIsLeftBehind
<1>. QED BY <1>1, SimInvariance, PTL

\* Lines shorter than the ring buffer never fill it for good
\* (esp8266sim.c:25-28, 101-121).
THEOREM RoomForInput == SimSpec => []InputIsRead
<1>1. SimInv => InputIsRead
  <2> SUFFICES ASSUME SimInv, longest < RdCapacity, pc = "select"
               PROVE  Len(rd) < RdCapacity
    BY DEF InputIsRead
  <2>1. Len(rd) \in Nat /\ longest \in Nat /\ RdCapacity \in Nat
    BY Esp8266SimAssumption DEF SimInv, SimTypeOK
  <2>2. \A j \in 1 .. Len(rd) : rd[j] # Cr
    BY DEF SimInv, Contains
  <2>3. ~ (longest < Len(rd))
    <3> SUFFICES ASSUME longest < Len(rd) PROVE FALSE
      OBVIOUS
    <3>1. 1 \in 1 .. Len(rd) - longest
      BY <2>1
    <3>2. PICK j \in 1 .. 1 + longest : rd[j] = Cr
      BY <3>1 DEF SimInv, LinesFit
    <3>. QED BY <2>1, <2>2, <3>2
  <2>. QED BY <2>1, <2>3
<1>. QED BY <1>1, SimInvariance, PTL

-----------------------------------------------------------------------------
\* The line buffer holds a request exactly if the line is one: the end of the
\* string is no byte of a request.
LEMMA SameRequest ==
  ASSUME SimInv, EndOfLine # {}
  PROVE  IsRequest([CopyTo(Stop) EXCEPT ![Stop] = Nul])
           <=> IsPrefix(Request, SubSeq(rd, 1, Stop))
<1> DEFINE line == [CopyTo(Stop) EXCEPT ![Stop] = Nul]
           n == Len(Request)
<1>1. /\ rd \in Seq(Byte) /\ Len(rd) \in Nat /\ Stop \in 0 .. Len(rd) - 1
      /\ Len(rd) < BufSize /\ BufSize \in Nat /\ n \in Nat /\ n <= BufSize
      /\ Request \in Seq(Byte)
  BY StopIs, Esp8266SimAssumption, SeqMonotonic DEF SimInv, SimTypeOK
<1>2. /\ \A i \in 1 .. Stop : line[i - 1] = rd[i]
      /\ line[Stop] = Nul
  <2>1. Stop \in Int /\ Stop < Len(rd)
    BY <1>1
  <2>2. /\ CopyTo(Stop) \in [0 .. BufSize - 1 -> Byte \cup {Nul}]
        /\ \A i \in 1 .. Stop + 1 : CopyTo(Stop)[i - 1] = rd[i]
    BY <2>1, CopyIs
  <2>3. \A i \in 1 .. Stop : i \in 1 .. Stop + 1 /\ i - 1 # Stop /\ i - 1 \in 0 .. BufSize - 1
    BY <1>1
  <2>4. Stop \in 0 .. BufSize - 1
    BY <1>1
  <2> HIDE DEF n
  <2>. QED BY <2>2, <2>3, <2>4
<1>3. /\ Len(SubSeq(rd, 1, Stop)) = Stop
      /\ \A i \in 1 .. Stop : SubSeq(rd, 1, Stop)[i] = rd[i]
      /\ SubSeq(rd, 1, Stop) \in Seq(Byte)
  <2>1. 1 \in 1 .. Len(rd) + 1 /\ Stop \in 1 - 1 .. Len(rd)
        /\ Stop - 1 + 1 = Stop /\ \A i \in 1 .. Stop : i + 1 - 1 = i
    BY <1>1
  <2>. QED BY <1>1, <2>1, PartIs
<1> HIDE DEF line, n
<1>4. CASE n <= Stop
  <2>1. SubSeq(Request, 1, n) = Request
    BY <1>1, SubSeqFull DEF n
  <2>2. /\ SubSeq(SubSeq(rd, 1, Stop), 1, n) \in Seq(Byte)
        /\ Len(SubSeq(SubSeq(rd, 1, Stop), 1, n)) = n
        /\ \A i \in 1 .. n : SubSeq(SubSeq(rd, 1, Stop), 1, n)[i] = rd[i]
    <3>1. 1 \in 1 .. Stop + 1 /\ n \in 1 - 1 .. Stop
          /\ n - 1 + 1 = n /\ \A i \in 1 .. n : i + 1 - 1 = i /\ i \in 1 .. Stop
      BY <1>1, <1>4
    <3>. QED BY <1>3, <3>1, PartIs
  <2>3. IsPrefix(Request, SubSeq(rd, 1, Stop)) <=> \A i \in 1 .. n : Request[i] = rd[i]
    <3>1. IsPrefix(Request, SubSeq(rd, 1, Stop))
            <=> Request = SubSeq(SubSeq(rd, 1, Stop), 1, n)
      BY <1>3, <1>4, <2>1 DEF IsPrefix, n
    <3>. QED BY <1>1, <2>2, <3>1, SeqEqual DEF n
  <2>4. \A i \in 1 .. n : line[i - 1] = rd[i]
    BY <1>1, <1>2, <1>4
  <2>. QED BY <2>3, <2>4 DEF IsRequest, n, line
<1>5. CASE n > Stop
  <2>1. Stop + 1 \in 1 .. n /\ (Stop + 1) - 1 = Stop
    BY <1>1, <1>5
  <2>2. Request[Stop + 1] # Nul
    BY <1>1, <2>1, ElementOfSeq, Esp8266SimAssumption DEF n
  <2>3. ~ IsRequest(line)
    BY <1>2, <2>1, <2>2 DEF IsRequest, n
  <2>. QED BY <1>1, <1>3, <1>5, <2>3 DEF IsPrefix, n, line
<1>. QED BY <1>1, <1>4, <1>5

LEMMA ServerStep ==
  ASSUME SimInv, [SimNext]_simvars
  PROVE  [Server!Next]_(Server!vars)
<1>1. CASE TakeLine
  <2>1. /\ Stop \in 0 .. Len(rd) - 1 /\ rd[Stop + 1] = Cr /\ Len(rd) \in Nat
        /\ \A i \in 1 .. Stop : rd[i] # Cr
        /\ EndOfLine # {}
    BY <1>1, StopIs DEF SimInv, SimTypeOK, TakeLine
  <2>2. ~ Contains(SubSeq(rd, 1, Stop), Cr)
    <3>1. 1 \in 1 .. Len(rd) + 1 /\ Stop \in 1 - 1 .. Len(rd) /\ rd \in Seq(Byte)
          /\ Stop - 1 + 1 = Stop /\ \A i \in 1 .. Stop : i + 1 - 1 = i
      BY <2>1 DEF SimInv, SimTypeOK
    <3>2. /\ Len(SubSeq(rd, 1, Stop)) = Stop
          /\ \A i \in 1 .. Stop : SubSeq(rd, 1, Stop)[i] = rd[i]
      BY <3>1, PartIs
    <3>. QED BY <2>1, <3>2 DEF Contains
  <2>3. /\ rd' = SubSeq(rd, Stop + 2, Len(rd))
        /\ wr' = IF IsPrefix(Request, SubSeq(rd, 1, Stop)) THEN Put(Answer) ELSE wr
    BY <1>1, <2>1, SameRequest DEF TakeLine
  <2>4. /\ Stop + 1 \in 1 .. Len(rd) /\ (Stop + 1) - 1 = Stop
        /\ (Stop + 1) + 1 = Stop + 2
    BY <2>1
  <2>6. /\ ~ Server!Contains(SubSeq(rd, 1, Stop), Cr)
        /\ Server!IsPrefix(Request, SubSeq(rd, 1, Stop))
             <=> IsPrefix(Request, SubSeq(rd, 1, Stop))
    BY <2>2 DEF Contains, Server!Contains, IsPrefix, Server!IsPrefix
  <2>5. Server!TakeLine(Stop + 1)
    BY <2>1, <2>3, <2>4, <2>6 DEF Server!TakeLine, Put
  <2>. QED BY <2>4, <2>5 DEF Server!Next
<1>2. CASE Read
  <2>1. PICK n \in 0 .. RdCapacity - Len(rd) : \E chunk \in [1 .. n -> Byte] : perform_read(chunk)
    BY <1>2 DEF Read
  <2>5. PICK chunk \in [1 .. n -> Byte] : perform_read(chunk)
    BY <2>1
  <2>2. rd' = rd \o chunk /\ wr' = wr /\ rd \in Seq(Byte)
    BY <2>5 DEF perform_read, SimInv, SimTypeOK
  <2>3. CASE n = 0
    <3>1. chunk = << >>
      BY <2>1, <2>3
    <3>2. rd' = rd
      BY <2>2, <3>1, ConcatEmptySeq
    <3>. QED BY <2>2, <3>2 DEF Server!vars
  <2>4. CASE n # 0
    <3>1. n \in 1 .. RdCapacity - Len(rd)
      BY <2>4
    <3>. QED BY <2>1, <2>2, <3>1 DEF Server!Next, Server!Receive
  <2>. QED BY <2>3, <2>4
<1>3. CASE Write
  <2>1. PICK n \in 0 .. Len(wr) : perform_write(n)
    BY <1>3 DEF Write
  <2>2. wr' = SubSeq(wr, n + 1, Len(wr)) /\ rd' = rd
    BY <2>1 DEF perform_write
  <2>3. CASE n = 0
    <3>1. wr' = wr
      BY <2>2, <2>3, SendIs
    <3>. QED BY <2>2, <3>1 DEF Server!vars
  <2>4. CASE n # 0
    <3>1. n \in 1 .. Len(wr)
      BY <2>4
    <3>. QED BY <2>2, <3>1 DEF Server!Next, Server!Send
  <2>. QED BY <2>3, <2>4
<1>4. CASE NoLine \/ NothingToWrite \/ UNCHANGED simvars
             \/ \E ready \in SUBSET {"read", "write"} : Select(ready)
  BY <1>4 DEF NoLine, NothingToWrite, simvars, Select, Server!vars
<1>. QED BY <1>1, <1>2, <1>3, <1>4 DEF SimNext, Loop

\* Lines are taken whole and in order, and exactly the requests are answered,
\* unless the answer does not fit (esp8266sim.c:101-124).
THEOREM ImplementsServer == SimSpec => ServerSpec
<1>1. SimInit => Server!Init
  BY DEF SimInit, Server!Init
<1>2. SimInv /\ [SimNext]_simvars => [Server!Next]_(Server!vars)
  BY ServerStep
<1>. QED BY <1>1, <1>2, SimInvariance, PTL DEF SimSpec, ServerSpec, Server!Spec
=============================================================================

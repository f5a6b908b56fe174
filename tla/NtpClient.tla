----------------------------- MODULE NtpClient -----------------------------
(***************************************************************************)
(* The network side of a time request (esp8266terminal/ntp.c): the command *)
(* task looks a name up, the task or the resolver's callback opens a       *)
(* connection, sends and arms a timer, and the network's callback or the   *)
(* timer prints a line.  The three run in tasks of their own and share the *)
(* timer and g_conn.                                                       *)
(*                                                                         *)
(* External: the resolver calls back once for each name that it takes on,  *)
(* may refuse one (no server yet, a full table, no memory), and knows one  *)
(* only if no such call is pending (the clock asks for one name,           *)
(* ledclocksw/main.c:197); the network delivers an answer at any time or   *)
(* never, in any order; Pool is the number of connections that the network *)
(* library has.  Connections are numbered, MaxRequests bounds the          *)
(* requests.                                                               *)
(***************************************************************************)
EXTENDS Integers, FiniteSets

CONSTANTS MaxRequests, Pool, NULL

ASSUME NtpClientAssumption ==
  MaxRequests \in Nat /\ Pool \in Nat /\ NULL \notin 1 .. MaxRequests

VARIABLES
  lookups,    \* callbacks the resolver owes
  sender,     \* who is between sending and arming: "no", "command" or "resolver"
  g_conn,     \* the connection opened last
  open,       \* the connections that exist
  asked,      \* of these, those on which an answer may arrive
  armed,      \* ntp_timeout runs
  requests,   \* history: the calls of ntp_get_time so far
  sent,       \* history: those that came to line 153
  answered,   \* history: the connections whose answer was printed
  errors,     \* history: the lines "ERR"
  owed,       \* history: no line was printed since the last request that the
              \* resolver knew or took on
  irregular   \* history: what happened of "overlap", "early" and "late"

vars == <<lookups, sender, g_conn, open, asked, armed, requests, sent,
          answered, errors, owed, irregular>>

Conns == 1 .. MaxRequests
lines == Cardinality(answered) + errors

Init ==
  /\ lookups = 0 /\ sender = "no" /\ g_conn = NULL
  /\ open = {} /\ asked = {} /\ armed = FALSE
  /\ requests = 0 /\ sent = 0 /\ answered = {} /\ errors = 0
  /\ owed = FALSE /\ irregular = {}

\* netconn_new, connect and send: a connection of the pool, or NULL, on which
\* the calls have no effect; nor is there an answer without an address.
OpenAndSend(task, found) ==
  /\ sender' = task
  /\ sent' = sent + 1
  /\ g_conn' = IF Cardinality(open) < Pool THEN sent + 1 ELSE NULL
  /\ open' = open \cup ({g_conn'} \ {NULL})
  /\ asked' = IF found THEN asked \cup ({g_conn'} \ {NULL}) ELSE asked
  /\ irregular' = IF armed THEN irregular \cup {"overlap"} ELSE irregular

\* The command task calls ntp_get_time; the resolver knows the name.
AskKnown ==
  /\ requests < MaxRequests /\ sender = "no" /\ lookups = 0
  /\ requests' = requests + 1 /\ owed' = TRUE
  /\ OpenAndSend("command", TRUE)
  /\ UNCHANGED <<lookups, armed, answered, errors>>

\* The resolver has to ask first, and will call back.
AskUnknown ==
  /\ requests < MaxRequests /\ sender = "no"
  /\ requests' = requests + 1 /\ owed' = TRUE
  /\ lookups' = lookups + 1
  /\ UNCHANGED <<sender, g_conn, open, asked, armed, sent, answered, errors,
                 irregular>>

\* The resolver reports an error at once: it will not call back, no timer is
\* armed, and nothing is printed.
AskRefused ==
  /\ requests < MaxRequests /\ sender = "no"
  /\ requests' = requests + 1
  /\ UNCHANGED <<lookups, sender, g_conn, open, asked, armed, sent, answered,
                 errors, owed, irregular>>

receive_dns_response(found) ==
  /\ lookups > 0 /\ sender = "no"
  /\ lookups' = lookups - 1
  /\ OpenAndSend("resolver", found)
  /\ UNCHANGED <<armed, requests, answered, errors, owed>>

\* Disarmed, set and armed whether or not the request went out.  In the
\* mutated form a request that did not go out is not waited for.
WaitsIfAsked == g_conn \in asked
Waits == TRUE
Arm ==
  /\ sender # "no"
  /\ sender' = "no"
  /\ armed' = Waits
  /\ UNCHANGED <<lookups, g_conn, open, asked, requests, sent, answered,
                 errors, owed, irregular>>

\* The answer on conn.  The callback runs in the resolver's task, not while
\* that is sending.  In the mutated forms it deletes the connection opened
\* last, and leaves the timer alone.
ReleaseLast(conn) == {g_conn}
Release(conn) == {conn}
KeepsTimer(t) == t
Disarmed(t) == FALSE
netCallback(conn) ==
  /\ sender # "resolver" /\ conn \in asked /\ conn \in open
  /\ armed' = Disarmed(armed)
  /\ open' = open \ Release(conn)
  /\ asked' = asked \ {conn}
  /\ answered' = answered \cup {conn}
  /\ owed' = (owed /\ lookups > 0)
  /\ irregular' = irregular \cup
       IF conn # g_conn \/ (sender = "no" /\ ~armed) THEN {"late"}
       ELSE IF sender = "command" THEN {"early"} ELSE {}
  /\ UNCHANGED <<lookups, sender, g_conn, requests, sent, errors>>

ntp_udp_timeout ==
  /\ armed
  /\ armed' = FALSE
  /\ errors' = errors + 1
  /\ owed' = (owed /\ lookups > 0)
  /\ UNCHANGED <<lookups, sender, g_conn, open, asked, requests, sent,
                 answered, irregular>>

Resolve == \E found \in BOOLEAN : receive_dns_response(found)

Next ==
  \/ AskKnown \/ AskUnknown \/ AskRefused \/ Resolve \/ Arm
  \/ \E conn \in Conns : netCallback(conn)
  \/ ntp_udp_timeout

Spec ==
  /\ Init /\ [][Next]_vars
  /\ WF_vars(Resolve) /\ WF_vars(Arm) /\ WF_vars(ntp_udp_timeout)

-----------------------------------------------------------------------------
TypeOK ==
  /\ lookups \in 0 .. MaxRequests /\ sender \in {"no", "command", "resolver"}
  /\ g_conn \in Conns \cup {NULL} /\ asked \subseteq open /\ open \subseteq Conns
  /\ armed \in BOOLEAN /\ owed \in BOOLEAN
  /\ sent + lookups <= requests /\ requests \in 0 .. MaxRequests /\ sent \in Nat
  /\ answered \subseteq Conns /\ errors \in Nat
  /\ irregular \subseteq {"overlap", "early", "late"}

\* A request that is alone, and whose answer comes neither before the timer
\* is armed (line 160) nor after it ran out, gets one line, an answer or an
\* error: at any time there is a line, or a timer, for each request sent.
OneLineEach ==
  irregular = {} => lines + (IF armed \/ sender # "no" THEN 1 ELSE 0) = sent

\* A connection is released with its answer and not otherwise, whichever
\* g_conn is by then: none is released twice or under another's answer, and
\* the connection of a request that is never answered is never released (lines
\* 132 and 147).
ReleasedWithAnswer == [][
  /\ open \ open' = answered' \ answered
  /\ open' \cap answered' = {}]_vars

\* Every request is followed by a line unless the resolver refused it at once,
\* however the tasks interleave: the name is found or not, and the timer that
\* is armed then prints an error if no answer does (lines 158-160 and 37-50).
\* One that is refused gets no line (lines 185-190).
RequestIsFollowedByLine == owed ~> ~owed
=============================================================================

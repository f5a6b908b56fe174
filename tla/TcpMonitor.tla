---------------------------- MODULE TcpMonitor ----------------------------
(***************************************************************************)
(* The TCP server of the second terminal (esp8266terminal2,                *)
(* main/terminal_main.c).  A timer calls system_monitor_callback every ten *)
(* seconds; it listens, accepts a connection and receives from the one     *)
(* accepted last.  The network task calls tcp_server_callback, which       *)
(* counts what comes in.  They share tcp_client_handle and                 *)
(* tcp_client_data_waiting without a lock: the network task has the higher *)
(* priority and is not interrupted by the monitor, but comes in between    *)
(* any two of its accesses.                                                *)
(*                                                                         *)
(* External: the network library and the peers.  A connection that is      *)
(* accepted blocks its reader while nothing has come in; the end of a      *)
(* connection counts as one more item; deleting one may raise an event.    *)
(* MaxItems bounds what a peer sends.                                      *)
(***************************************************************************)
EXTENDS Integers, Sequences

CONSTANTS Clients, Backlog, MaxItems, NULL

ASSUME TcpMonitorAssumption ==
  Backlog \in Nat /\ MaxItems \in Nat /\ NULL \notin Clients

VARIABLES
  connected,    \* the station has an address
  listening,    \* tcp_server_handle is set
  queue,        \* the connections that wait to be accepted
  status,       \* of each client: "away", "queued", "accepted" or "deleted"
  data,         \* of each client: items that were not received
  fin,          \* of each client: it has ended the connection
  pc,           \* where the monitor is
  client_conn, loaded,    \* its local variable, and its register
  tcp_client_handle, tcp_client_data_waiting,
  strangers,    \* history: counted since the last accept, of other clients
  forgotten     \* history: items of the client that are not counted

env == <<connected, queue, status, data, fin>>
shared == <<tcp_client_handle, tcp_client_data_waiting>>
vars == <<env, listening, pc, client_conn, loaded, shared, strangers, forgotten>>

Items(c) == data[c] + (IF fin[c] THEN 1 ELSE 0)

\* The client the monitor is about to serve.
Current == IF pc = "store" THEN client_conn ELSE tcp_client_handle

Init ==
  /\ connected = FALSE /\ listening = FALSE /\ queue = <<>>
  /\ status = [c \in Clients |-> "away"]
  /\ data = [c \in Clients |-> 0] /\ fin = [c \in Clients |-> FALSE]
  /\ pc = "idle" /\ client_conn = NULL /\ loaded = 0
  /\ tcp_client_handle = NULL /\ tcp_client_data_waiting = 0
  /\ strangers = 0 /\ forgotten = 0

-----------------------------------------------------------------------------
\* The network task.

StationChanges ==
  /\ connected' = ~connected
  /\ UNCHANGED <<queue, status, data, fin, listening, pc, client_conn, loaded,
                 shared, strangers, forgotten>>

\* The event of the listening connection changes nothing.
Connect(c) ==
  /\ listening /\ status[c] = "away" /\ Len(queue) < Backlog
  /\ status' = [status EXCEPT ![c] = "queued"]
  /\ queue' = Append(queue, c)
  /\ UNCHANGED <<connected, data, fin, listening, pc, client_conn, loaded,
                 shared, strangers, forgotten>>

\* Counted whether the connection is known or not.
tcp_server_callback(c) ==
  /\ tcp_client_data_waiting' = tcp_client_data_waiting + 1
  /\ strangers' = IF c = Current THEN strangers ELSE strangers + 1
  /\ UNCHANGED <<connected, queue, status, listening, pc, client_conn, loaded,
                 tcp_client_handle, forgotten>>

Alive(c) == status[c] \in {"queued", "accepted"} /\ ~fin[c]

Send(c) ==
  /\ Alive(c) /\ data[c] < MaxItems
  /\ data' = [data EXCEPT ![c] = @ + 1] /\ UNCHANGED fin
  /\ tcp_server_callback(c)

End(c) ==
  /\ Alive(c)
  /\ fin' = [fin EXCEPT ![c] = TRUE] /\ UNCHANGED data
  /\ tcp_server_callback(c)

-----------------------------------------------------------------------------
\* The monitor.

Goto(from, to) == pc = from /\ pc' = to

\* The first time it listens; there is no client yet.
Start ==
  /\ connected /\ Goto("idle", "accept")
  /\ listening' = TRUE
  /\ tcp_client_handle' = IF listening THEN tcp_client_handle ELSE NULL
  /\ UNCHANGED <<env, client_conn, loaded, tcp_client_data_waiting, strangers,
                 forgotten>>

Accept ==
  /\ Goto("accept", "reset")
  /\ queue # <<>>
  /\ client_conn' = Head(queue) /\ queue' = Tail(queue)
  /\ status' = [status EXCEPT ![Head(queue)] = "accepted"]
  /\ UNCHANGED <<connected, data, fin, listening, loaded, shared, strangers,
                 forgotten>>

WouldBlock ==
  /\ Goto("accept", "test")
  /\ queue = <<>>
  /\ UNCHANGED <<env, listening, client_conn, loaded, shared, strangers, forgotten>>

Delete(c) == status' = [status EXCEPT ![c] = "deleted"]

\* Any other error of netconn_accept.
AcceptError ==
  /\ Goto("accept", IF tcp_client_handle = NULL THEN "idle" ELSE "drop0")
  /\ UNCHANGED <<queue, connected, data, fin, listening, client_conn, loaded,
                 tcp_client_handle, strangers, forgotten>>
  /\ IF tcp_client_handle = NULL THEN UNCHANGED <<status, tcp_client_data_waiting>>
     ELSE /\ Delete(tcp_client_handle)
          /\ \E e \in {0, 1} :
               tcp_client_data_waiting' = tcp_client_data_waiting + e

\* The mutated form leaves the count as it is.
ResetNone(w) == w
ResetTo(w) == 0
Reset ==
  /\ Goto("reset", "store")
  /\ tcp_client_data_waiting' = ResetTo(tcp_client_data_waiting)
  /\ strangers' = 0 /\ forgotten' = Items(client_conn)
  /\ UNCHANGED <<env, listening, client_conn, loaded, tcp_client_handle>>

Store ==
  /\ Goto("store", "test")
  /\ tcp_client_handle' = client_conn
  /\ UNCHANGED <<env, listening, client_conn, loaded, tcp_client_data_waiting,
                 strangers, forgotten>>

\* The mutated form receives without asking.
HasDataAlways(w) == TRUE
HasData(w) == w # 0
Test ==
  /\ Goto("test", IF tcp_client_handle # NULL /\ HasData(tcp_client_data_waiting)
                  THEN "recv" ELSE "idle")
  /\ UNCHANGED <<env, listening, client_conn, loaded, shared, strangers, forgotten>>

\* netconn_recv: an item, the end of the connection, or it blocks.
Receive ==
  /\ Goto("recv", "load") /\ data[tcp_client_handle] > 0
  /\ data' = [data EXCEPT ![tcp_client_handle] = @ - 1]
  /\ UNCHANGED <<connected, queue, status, fin, listening, client_conn, loaded,
                 shared, strangers, forgotten>>

\* The end of the connection: close and delete it.
Close ==
  /\ Goto("recv", "drop")
  /\ data[tcp_client_handle] = 0 /\ fin[tcp_client_handle]
  /\ Delete(tcp_client_handle)
  /\ \E e \in {0, 1} : tcp_client_data_waiting' = tcp_client_data_waiting + e
  /\ UNCHANGED <<queue, connected, data, fin, listening, client_conn, loaded,
                 tcp_client_handle, strangers, forgotten>>

Drop ==
  /\ \/ Goto("drop", "load")
     \/ Goto("drop0", "idle")
  /\ tcp_client_handle' = NULL
  /\ UNCHANGED <<env, listening, client_conn, loaded, tcp_client_data_waiting,
                 strangers, forgotten>>

Load ==
  /\ Goto("load", "decrement")
  /\ loaded' = tcp_client_data_waiting
  /\ UNCHANGED <<env, listening, client_conn, shared, strangers, forgotten>>

\* What was counted since the load is lost.  The mutated form takes all data
\* for received, as a line that is commented out does (line 224).
LessAll(w) == 0
Less(w) == w - 1
Decrement ==
  /\ Goto("decrement", "idle")
  /\ tcp_client_data_waiting' = Less(loaded)
  /\ forgotten' = forgotten + (tcp_client_data_waiting - loaded)
  /\ UNCHANGED <<env, listening, client_conn, loaded, tcp_client_handle, strangers>>

Monitor ==
  \/ Start \/ Accept \/ WouldBlock \/ AcceptError \/ Reset \/ Store \/ Test
  \/ Receive \/ Close \/ Drop \/ Load \/ Decrement

Network == StationChanges \/ \E c \in Clients : Connect(c) \/ Send(c) \/ End(c)

Next == Monitor \/ Network

\* The timer calls the monitor again and again; nothing makes a peer send.
Spec == Init /\ [][Next]_vars /\ WF_vars(Monitor)

-----------------------------------------------------------------------------
TypeOK ==
  /\ connected \in BOOLEAN /\ listening \in BOOLEAN
  /\ queue \in Seq(Clients) /\ Len(queue) <= Backlog
  /\ status \in [Clients -> {"away", "queued", "accepted", "deleted"}]
  /\ data \in [Clients -> 0 .. MaxItems] /\ fin \in [Clients -> BOOLEAN]
  /\ pc \in {"idle", "accept", "reset", "store", "test", "recv", "load",
             "decrement", "drop", "drop0"}
  /\ client_conn \in Clients \cup {NULL}
  /\ tcp_client_handle \in Clients \cup {NULL}
  /\ tcp_client_data_waiting \in Nat /\ loaded \in Nat
  /\ strangers \in Nat /\ forgotten \in Nat

\* The monitor never uses a connection it has deleted: but for the moment in
\* which it forgets it, the handle is of a connection that is open
\* (terminal_main.c:208-210, 235-238).
HandleIsOpen ==
  (tcp_client_handle # NULL /\ pc \notin {"drop", "drop0"})
    => status[tcp_client_handle] = "accepted"

\* What the counter, which two tasks change without a lock, is worth: it
\* counts the items of the client, those of the others since the last accept,
\* and one that was received and is about to be taken off; it lacks the items
\* that had come in before the accept or within a decrement
\* (terminal_main.c:143, 147, 203, 241).
CountIsExact ==
  (Current # NULL /\ pc \notin {"reset", "drop", "drop0"}) =>
     tcp_client_data_waiting + forgotten =
       Items(Current) + strangers + (IF pc \in {"load", "decrement"} THEN 1 ELSE 0)

Blocked == pc = "recv" /\ Items(tcp_client_handle) = 0

\* The monitor, and with it every timer of the program, blocks in
\* netconn_recv only where another connection was counted for the client's:
\* alone, a client cannot block it (terminal_main.c:147, 216-218).
NeverBlocksAlone == Blocked => strangers > 0

\* What was counted of the client is received, and its end is noticed, unless
\* the station loses its address, another client takes its place, the monitor
\* blocks or an item was not counted (terminal_main.c:216-241).
CountedIsReceived ==
  \A c \in Clients, n \in 1 .. MaxItems + 1 :
    (tcp_client_handle = c /\ Items(c) = n) ~>
      Items(c) # n \/ status[c] = "deleted" \/ tcp_client_handle # c \/ Blocked
      \/ forgotten > 0 \/ ~connected
=============================================================================

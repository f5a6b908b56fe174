------------------------ MODULE SecondTerminalProofs ------------------------
(***************************************************************************)
(* Proofs about the second terminal, modules TcpMonitor and WifiStation,   *)
(* for any set of clients, any length of the queue of connections, any     *)
(* number of items, any credentials and any number of events under way;    *)
(* and about the command tasks of both terminals, module CommandLine, for  *)
(* any letters, any sizes of the buffers and any bounds on what is typed.  *)
(***************************************************************************)
EXTENDS TcpMonitor, WifiStation, CommandLine, SequenceTheorems, WellFoundedInduction,
        TLAPS

(***************************************************************************)
(* The TCP server.                                                         *)
(***************************************************************************)

\* Who waits in the queue is not accepted yet, and waits once.
QueueInv ==
  /\ \A i \in 1 .. Len(queue) : status[queue[i]] = "queued"
  /\ \A i, j \in 1 .. Len(queue) : queue[i] = queue[j] => i = j

\* What the monitor knows at the places where it has looked.
PlaceInv ==
  /\ pc \in {"reset", "store"} =>
       client_conn \in Clients /\ status[client_conn] = "accepted"
  /\ pc \in {"recv", "drop", "drop0"} => tcp_client_handle # NULL
  /\ pc \in {"recv", "drop", "load"} => tcp_client_data_waiting > 0
  /\ pc = "decrement" => loaded > 0 /\ tcp_client_data_waiting >= loaded

IInv == TypeOK /\ QueueInv /\ PlaceInv /\ HandleIsOpen /\ CountIsExact

LEMMA InitInv == Init => IInv
<1> SUFFICES ASSUME Init PROVE IInv
  OBVIOUS
<1>1. TypeOK
  <2>1. queue \in Seq(Clients) /\ Len(queue) = 0
    BY DEF Init
  <2>2. data \in [Clients -> 0 .. MaxItems] /\ fin \in [Clients -> BOOLEAN]
    BY TcpMonitorAssumption DEF Init
  <2>3. status \in [Clients -> {"away", "queued", "accepted", "deleted"}]
    BY DEF Init
  <2>4. Len(queue) <= Backlog
    BY <2>1, TcpMonitorAssumption
  <2>5. /\ connected \in BOOLEAN /\ listening \in BOOLEAN
        /\ pc = "idle" /\ client_conn = NULL /\ tcp_client_handle = NULL
        /\ tcp_client_data_waiting \in Nat /\ loaded \in Nat
        /\ strangers \in Nat /\ forgotten \in Nat
    BY DEF Init
  <2>. QED BY <2>1, <2>2, <2>3, <2>4, <2>5 DEF TypeOK
<1>2. QueueInv
  <2>1. Len(queue) = 0
    BY DEF Init
  <2>. QED BY <2>1 DEF QueueInv
<1>3. PlaceInv /\ HandleIsOpen /\ CountIsExact
  BY DEF Init, PlaceInv, HandleIsOpen, CountIsExact, Current
<1>. QED BY <1>1, <1>2, <1>3 DEF IInv

-----------------------------------------------------------------------------
\* The network task.

LEMMA StationKeeps == IInv /\ StationChanges => IInv'
BY DEF IInv, TypeOK, QueueInv, PlaceInv, HandleIsOpen, CountIsExact, Current,
       Items, StationChanges, shared

LEMMA ConnectKeeps ==
  ASSUME IInv, NEW c \in Clients, Connect(c)
  PROVE  IInv'
<1> USE DEF IInv
<1>1. TypeOK'
  <2>1. queue' \in Seq(Clients) /\ Len(queue') = Len(queue) + 1 /\ Len(queue) \in Nat
    BY DEF TypeOK, Connect
  <2>2. Len(queue') <= Backlog
    BY <2>1, TcpMonitorAssumption DEF Connect
  <2>3. status' \in [Clients -> {"away", "queued", "accepted", "deleted"}]
    BY DEF TypeOK, Connect
  <2>. QED BY <2>1, <2>2, <2>3 DEF TypeOK, Connect, shared
<1>2. QueueInv'
  <2>1. /\ Len(queue') = Len(queue) + 1 /\ Len(queue) \in Nat
        /\ queue'[Len(queue) + 1] = c
        /\ \A i \in 1 .. Len(queue) : queue'[i] = queue[i] /\ queue[i] \in Clients
    BY DEF TypeOK, Connect
  <2>2. \A i \in 1 .. Len(queue) : queue[i] # c
    BY DEF Connect, QueueInv
  <2>3. /\ status'[c] = "queued"
        /\ \A d \in Clients : d # c => status'[d] = status[d]
    BY DEF Connect, TypeOK
  <2>4. \A i \in 1 .. Len(queue') : status'[queue'[i]] = "queued"
    <3> SUFFICES ASSUME NEW i \in 1 .. Len(queue') PROVE status'[queue'[i]] = "queued"
      OBVIOUS
    <3>1. i \in 1 .. Len(queue) \/ i = Len(queue) + 1
      BY <2>1
    <3>. QED BY <2>1, <2>2, <2>3, <3>1 DEF QueueInv
  <2>5. ASSUME NEW i \in 1 .. Len(queue'), NEW j \in 1 .. Len(queue'),
               queue'[i] = queue'[j]
        PROVE  i = j
    <3>1. /\ i \in 1 .. Len(queue) \/ i = Len(queue) + 1
          /\ j \in 1 .. Len(queue) \/ j = Len(queue) + 1
      BY <2>1
    <3>. QED BY <2>1, <2>2, <2>5, <3>1 DEF QueueInv
  <2>. QED BY <2>4, <2>5 DEF QueueInv
<1>3. PlaceInv'
  BY DEF TypeOK, Connect, PlaceInv, shared
<1>4. HandleIsOpen'
  BY DEF TypeOK, Connect, HandleIsOpen, shared
<1>5. CountIsExact'
  BY DEF Connect, CountIsExact, Current, Items, shared
<1>. QED BY <1>1, <1>2, <1>3, <1>4, <1>5

\* One item more, counted for its client or for another.
LEMMA CallbackKeeps ==
  ASSUME IInv, NEW c \in Clients, tcp_server_callback(c),
         data' \in [Clients -> 0 .. MaxItems], fin' \in [Clients -> BOOLEAN],
         \A d \in Clients : Items(d)' = IF d = c THEN Items(d) + 1 ELSE Items(d)
  PROVE  IInv'
<1> USE DEF IInv
<1>1. TypeOK'
  BY DEF TypeOK, tcp_server_callback
<1>2. QueueInv' /\ PlaceInv' /\ HandleIsOpen'
  BY DEF TypeOK, tcp_server_callback, QueueInv, PlaceInv, HandleIsOpen
<1>3. CountIsExact'
  <2>1. Current' = Current /\ (Current # NULL => Current \in Clients) /\ pc' = pc
    BY DEF tcp_server_callback, Current, TypeOK
  <2> DEFINE extra == IF pc \in {"load", "decrement"} THEN 1 ELSE 0
  <2> SUFFICES ASSUME Current # NULL, pc \notin {"reset", "drop", "drop0"}
               PROVE  tcp_client_data_waiting' + forgotten' =
                        Items(Current)' + strangers' + extra
    BY <2>1 DEF CountIsExact
  <2>2. tcp_client_data_waiting + forgotten = Items(Current) + strangers + extra
    BY DEF CountIsExact
  <2>3. Items(Current)' = IF Current = c THEN Items(Current) + 1 ELSE Items(Current)
    BY <2>1 DEF Items
  <2>4. Items(Current) \in Nat
    BY <2>1 DEF Items, TypeOK
  <2>5. /\ tcp_client_data_waiting \in Nat /\ forgotten \in Nat /\ strangers \in Nat
        /\ tcp_client_data_waiting' = tcp_client_data_waiting + 1
        /\ forgotten' = forgotten
        /\ strangers' = IF Current = c THEN strangers ELSE strangers + 1
    BY DEF TypeOK, tcp_server_callback
  <2>6. extra \in Nat
    OBVIOUS
  <2> HIDE DEF extra
  <2>. QED BY <2>2, <2>3, <2>4, <2>5, <2>6
<1>. QED BY <1>1, <1>2, <1>3

LEMMA SendKeeps ==
  ASSUME IInv, NEW c \in Clients, Send(c)
  PROVE  IInv'
<1>1. data' \in [Clients -> 0 .. MaxItems] /\ fin' \in [Clients -> BOOLEAN]
  BY TcpMonitorAssumption DEF IInv, TypeOK, Send
<1>2. \A d \in Clients : Items(d)' = IF d = c THEN Items(d) + 1 ELSE Items(d)
  BY DEF IInv, TypeOK, Send, Items
<1>. QED BY <1>1, <1>2, CallbackKeeps DEF Send

LEMMA EndKeeps ==
  ASSUME IInv, NEW c \in Clients, End(c)
  PROVE  IInv'
<1>1. data' \in [Clients -> 0 .. MaxItems] /\ fin' \in [Clients -> BOOLEAN]
  BY DEF IInv, TypeOK, End
<1>2. \A d \in Clients : Items(d)' = IF d = c THEN Items(d) + 1 ELSE Items(d)
  BY DEF IInv, TypeOK, End, Alive, Items
<1>. QED BY <1>1, <1>2, CallbackKeeps DEF End

-----------------------------------------------------------------------------
\* The monitor.

LEMMA StartKeeps == IInv /\ Start => IInv'
BY DEF IInv, TypeOK, QueueInv, PlaceInv, HandleIsOpen, CountIsExact, Current,
       Items, Start, Goto, env

LEMMA AcceptKeeps == IInv /\ Accept => IInv'
<1> SUFFICES ASSUME IInv, Accept PROVE IInv'
  OBVIOUS
<1> USE DEF IInv
<1>1. /\ Len(queue) \in Nat /\ Len(queue) > 0 /\ Head(queue) = queue[1]
      /\ Head(queue) \in Clients /\ queue' \in Seq(Clients)
      /\ Len(queue') = Len(queue) - 1
      /\ \A i \in 1 .. Len(queue') : queue'[i] = queue[i + 1]
  BY DEF Accept, TypeOK
<1>2. TypeOK'
  BY <1>1, TcpMonitorAssumption DEF TypeOK, Accept, Goto, shared
<1>3. QueueInv'
  <2>1. \A i \in 1 .. Len(queue') : i + 1 \in 1 .. Len(queue) /\ i + 1 # 1
    BY <1>1
  <2>2. ASSUME NEW i \in 1 .. Len(queue')
        PROVE  queue'[i] # Head(queue) /\ queue'[i] \in Clients
    <3>1. /\ i + 1 \in 1 .. Len(queue) /\ i + 1 # 1 /\ 1 \in 1 .. Len(queue)
          /\ queue'[i] = queue[i + 1]
      BY <1>1, <2>1
    <3>2. queue[i + 1] # queue[1]
      BY <3>1 DEF QueueInv
    <3>3. queue[i + 1] \in Clients
      BY <3>1 DEF TypeOK
    <3>. QED BY <1>1, <3>1, <3>2, <3>3
  <2>. QED BY <1>1, <2>1, <2>2 DEF QueueInv, Accept, TypeOK
<1>4. PlaceInv' /\ HandleIsOpen' /\ CountIsExact'
  BY <1>1 DEF TypeOK, Accept, Goto, PlaceInv, HandleIsOpen, CountIsExact, QueueInv, shared
<1>. QED BY <1>2, <1>3, <1>4

LEMMA WouldBlockKeeps == IInv /\ WouldBlock => IInv'
BY DEF IInv, TypeOK, QueueInv, PlaceInv, HandleIsOpen, CountIsExact, Current,
       Items, WouldBlock, Goto, env, shared

\* A connection that waits is none the monitor deletes.
LEMMA DeleteKeeps ==
  ASSUME IInv, Delete(tcp_client_handle), tcp_client_handle # NULL, UNCHANGED queue,
         pc \notin {"drop", "drop0"}
  PROVE  QueueInv' /\ status' \in [Clients -> {"away", "queued", "accepted", "deleted"}]
BY DEF IInv, TypeOK, QueueInv, HandleIsOpen, Delete

LEMMA AcceptErrorKeeps == IInv /\ AcceptError => IInv'
<1> SUFFICES ASSUME IInv, AcceptError PROVE IInv'
  OBVIOUS
<1>1. CASE tcp_client_handle = NULL
  BY <1>1 DEF IInv, TypeOK, QueueInv, PlaceInv, HandleIsOpen, CountIsExact,
     Current, Items, AcceptError, Goto
<1>2. CASE tcp_client_handle # NULL
  <2>1. QueueInv' /\ status' \in [Clients -> {"away", "queued", "accepted", "deleted"}]
    BY <1>2, DeleteKeeps DEF AcceptError, Goto
  <2>2. TypeOK'
    BY <1>2, <2>1 DEF IInv, TypeOK, AcceptError, Goto
  <2>3. PlaceInv' /\ HandleIsOpen' /\ CountIsExact'
    BY <1>2 DEF IInv, TypeOK, PlaceInv, HandleIsOpen, CountIsExact, AcceptError, Goto
  <2>. QED BY <2>1, <2>2, <2>3 DEF IInv
<1>. QED BY <1>1, <1>2

LEMMA ResetKeeps == IInv /\ Reset => IInv'
<1> SUFFICES ASSUME IInv, Reset PROVE IInv'
  OBVIOUS
<1> USE DEF IInv
<1>1. client_conn \in Clients /\ Items(client_conn) \in Nat /\ client_conn' = client_conn
  BY DEF Reset, Goto, PlaceInv, TypeOK, Items
<1>2. TypeOK'
  BY <1>1 DEF TypeOK, Reset, Goto, ResetTo, env
<1>3. QueueInv' /\ PlaceInv' /\ HandleIsOpen'
  BY DEF QueueInv, PlaceInv, HandleIsOpen, Reset, Goto, env, TypeOK
<1>4. CountIsExact'
  BY <1>1 DEF CountIsExact, Current, Items, Reset, Goto, ResetTo, env
<1>. QED BY <1>2, <1>3, <1>4

LEMMA StoreKeeps == IInv /\ Store => IInv'
BY DEF IInv, TypeOK, QueueInv, PlaceInv, HandleIsOpen, CountIsExact, Current,
       Items, Store, Goto, env

LEMMA TestKeeps == IInv /\ Test => IInv'
BY DEF IInv, TypeOK, QueueInv, PlaceInv, HandleIsOpen, CountIsExact, Current,
       Items, Test, HasData, Goto, env, shared

LEMMA ReceiveKeeps == IInv /\ Receive => IInv'
<1> SUFFICES ASSUME IInv, Receive PROVE IInv'
  OBVIOUS
<1> USE DEF IInv
<1>1. tcp_client_handle \in Clients
  BY DEF Receive, Goto, PlaceInv, TypeOK
<1>2. TypeOK'
  <2>1. data' \in [Clients -> 0 .. MaxItems]
    BY <1>1, TcpMonitorAssumption DEF TypeOK, Receive, Goto
  <2>. QED BY <2>1 DEF TypeOK, Receive, Goto, shared
<1>3. QueueInv' /\ PlaceInv' /\ HandleIsOpen'
  BY DEF QueueInv, PlaceInv, HandleIsOpen, Receive, Goto, shared
<1>4. CountIsExact'
  BY <1>1 DEF CountIsExact, Current, Items, Receive, Goto, shared, TypeOK
<1>. QED BY <1>2, <1>3, <1>4

LEMMA CloseKeeps == IInv /\ Close => IInv'
<1> SUFFICES ASSUME IInv, Close PROVE IInv'
  OBVIOUS
<1> USE DEF IInv
<1>1. tcp_client_handle # NULL
  BY DEF Close, Goto, PlaceInv
<1>2. QueueInv' /\ status' \in [Clients -> {"away", "queued", "accepted", "deleted"}]
  BY <1>1, DeleteKeeps DEF Close, Goto
<1>3. TypeOK'
  BY <1>2 DEF TypeOK, Close, Goto
<1>4. PlaceInv' /\ HandleIsOpen' /\ CountIsExact'
  BY <1>1 DEF TypeOK, PlaceInv, HandleIsOpen, CountIsExact, Close, Goto
<1>. QED BY <1>2, <1>3, <1>4

LEMMA DropKeeps == IInv /\ Drop => IInv'
BY DEF IInv, TypeOK, QueueInv, PlaceInv, HandleIsOpen, CountIsExact, Current,
       Drop, Goto, env

LEMMA LoadKeeps == IInv /\ Load => IInv'
BY DEF IInv, TypeOK, QueueInv, PlaceInv, HandleIsOpen, CountIsExact, Current,
       Items, Load, Goto, env, shared

LEMMA DecrementKeeps == IInv /\ Decrement => IInv'
<1> SUFFICES ASSUME IInv, Decrement PROVE IInv'
  OBVIOUS
<1> USE DEF IInv
<1>1. /\ tcp_client_data_waiting' = loaded - 1 /\ loaded \in Nat /\ loaded > 0
      /\ tcp_client_data_waiting \in Nat /\ tcp_client_data_waiting >= loaded
      /\ forgotten \in Nat
      /\ forgotten' = forgotten + (tcp_client_data_waiting - loaded)
  BY DEF Decrement, Less, Goto, PlaceInv, TypeOK
<1>2. TypeOK'
  BY <1>1 DEF TypeOK, Decrement, Goto, env
<1>3. QueueInv' /\ PlaceInv' /\ HandleIsOpen'
  BY DEF QueueInv, PlaceInv, HandleIsOpen, Decrement, Goto, env
<1>4. CountIsExact'
  BY <1>1 DEF CountIsExact, Current, Items, Decrement, Goto, env, TypeOK
<1>. QED BY <1>2, <1>3, <1>4

-----------------------------------------------------------------------------
LEMMA Invariance == Spec => []IInv
<1>1. IInv /\ [Next]_vars => IInv'
  <2> SUFFICES ASSUME IInv, [Next]_vars PROVE IInv'
    OBVIOUS
  <2>1. CASE UNCHANGED vars
    BY <2>1 DEF vars, env, shared, IInv, TypeOK, QueueInv, PlaceInv, HandleIsOpen,
       CountIsExact, Current, Items
  <2>2. CASE Monitor
    BY <2>2, StartKeeps, AcceptKeeps, WouldBlockKeeps, AcceptErrorKeeps, ResetKeeps,
       StoreKeeps, TestKeeps, ReceiveKeeps, CloseKeeps, DropKeeps, LoadKeeps,
       DecrementKeeps DEF Monitor
  <2>3. CASE Network
    BY <2>3, StationKeeps, ConnectKeeps, SendKeeps, EndKeeps DEF Network
  <2>. QED BY <2>1, <2>2, <2>3 DEF Next
<1>. QED BY <1>1, InitInv, PTL DEF Spec

\* Every variable keeps its type; the counter is never negative.
THEOREM TypeCorrect == Spec => []TypeOK
<1>1. IInv => TypeOK
  BY DEF IInv
<1>. QED BY <1>1, Invariance, PTL

\* The monitor never uses a connection it has deleted.
THEOREM HandleStaysOpen == Spec => []HandleIsOpen
<1>1. IInv => HandleIsOpen
  BY DEF IInv
<1>. QED BY <1>1, Invariance, PTL

\* The counter is what it should be, but for the strangers' items and those
\* that were forgotten.
THEOREM CounterIsExact == Spec => []CountIsExact
<1>1. IInv => CountIsExact
  BY DEF IInv
<1>. QED BY <1>1, Invariance, PTL

\* Alone, a client does not block the monitor.
THEOREM AloneNeverBlocks == Spec => []NeverBlocksAlone
<1>1. IInv => NeverBlocksAlone
  <2> SUFFICES ASSUME IInv, Blocked PROVE strangers > 0
    BY DEF NeverBlocksAlone
  <2>1. /\ tcp_client_data_waiting \in Nat /\ tcp_client_data_waiting > 0
        /\ forgotten \in Nat /\ strangers \in Nat
    BY DEF IInv, TypeOK, PlaceInv, Blocked
  <2>2. tcp_client_data_waiting + forgotten = 0 + strangers + 0
    BY DEF IInv, CountIsExact, PlaceInv, Blocked, Current
  <2>. QED BY <2>1, <2>2
<1>. QED BY <1>1, Invariance, PTL

(***************************************************************************)
(* The Wi-Fi station.                                                      *)
(***************************************************************************)

Kinds == {"STA_START", "GOT_IP", "DISCONNECTED"}
Places == {"idle", "mode", "start", "ssid", "pwd", "config", "connect", "store"}
Value == Credentials \cup {Absent}

\* The types of the station's variables.
StationTypeOK ==
  /\ stored \in Value \X Value
  /\ events \in Seq(Kinds) /\ CONNECTED_BIT \in BOOLEAN
  /\ link \in {"down", "trying", "up"}
  /\ at \in [Callers -> Places]
  /\ given \in Value

\* The name is stored first; the password is missing at the place in between.
HalfStored ==
  at["command"] = "store" => given \in Credentials /\ stored[1] = given

\* BitFollowsLink is inductive as it stands: each event posted or delivered
\* leaves it true.
StationInv == StationTypeOK /\ HalfStored /\ OkMeansStored /\ BitFollowsLink

LEMMA StationInitInv == StationInit => StationInv
<1> SUFFICES ASSUME StationInit PROVE StationInv
  OBVIOUS
<1>1. StationTypeOK
  <2>1. stored \in Value \X Value
    BY DEF StationInit, Value, Pair, Nothing
  <2>2. events \in Seq(Kinds)
    BY DEF StationInit
  <2>3. at \in [Callers -> Places]
    BY DEF StationInit, Places
  <2>. QED BY <2>1, <2>2, <2>3 DEF StationInit, StationTypeOK, Value
<1>2. HalfStored /\ OkMeansStored
  <2>1. at["command"] = "idle" /\ given = Absent
    BY DEF StationInit, Callers
  <2>. QED BY <2>1 DEF HalfStored, OkMeansStored
<1>3. BitFollowsLink
  <2>1. /\ Len(events) = 0 /\ 1 .. Len(events) = {}
        /\ ~ CONNECTED_BIT /\ link # "up"
    BY DEF StationInit
  <2>. QED BY <2>1 DEF BitFollowsLink, BitInTheEnd, IsLastTold
<1>. QED BY <1>1, <1>2, <1>3 DEF StationInv

-----------------------------------------------------------------------------
\* What an event more makes of the bit in the end.
LEMMA Posted ==
  ASSUME events \in Seq(Kinds), NEW e \in Kinds, events' = Append(events, e),
         CONNECTED_BIT' = CONNECTED_BIT
  PROVE  /\ events' \in Seq(Kinds)
         /\ e = "GOT_IP" => BitInTheEnd'
         /\ e = "DISCONNECTED" => ~ BitInTheEnd'
         /\ e = "STA_START" => (BitInTheEnd' <=> BitInTheEnd)
<1>0. PICK n \in Nat : n = Len(events)
  OBVIOUS
<1>1. /\ events' \in Seq(Kinds) /\ Len(events') = n + 1
      /\ \A i \in 1 .. n : events'[i] = events[i]
      /\ events'[n + 1] = e
  BY <1>0
<1>2. CASE e = "GOT_IP"
  <2>1. IsLastTold("GOT_IP", n + 1)'
    BY <1>1, <1>2 DEF IsLastTold
  <2>. QED BY <1>1, <1>2, <2>1 DEF BitInTheEnd
<1>3. CASE e = "DISCONNECTED"
  <2>1. \A i \in 1 .. n + 1 : ~ IsLastTold("GOT_IP", i)'
    BY <1>1, <1>3 DEF IsLastTold
  <2>. QED BY <1>1, <1>3, <2>1 DEF BitInTheEnd
<1>4. CASE e = "STA_START"
  <2>1. \A i \in 1 .. n : IsLastTold("GOT_IP", i)' <=> IsLastTold("GOT_IP", i)
    BY <1>0, <1>1, <1>4 DEF IsLastTold
  <2>2. ~ IsLastTold("GOT_IP", n + 1)'
    BY <1>1, <1>4 DEF IsLastTold
  <2>3. (\A i \in 1 .. n + 1 : events'[i] = "STA_START")
          <=> (\A i \in 1 .. n : events[i] = "STA_START")
    BY <1>1, <1>4
  <2>. QED BY <1>0, <1>1, <1>4, <2>1, <2>2, <2>3 DEF BitInTheEnd
<1>. QED BY <1>1, <1>2, <1>3, <1>4 DEF Kinds

\* What is delivered was told before.
LEMMA Delivered ==
  ASSUME events \in Seq(Kinds), events # << >>, events' = Tail(events),
         CONNECTED_BIT \in BOOLEAN,
         CONNECTED_BIT' = BitAfter(Head(events), CONNECTED_BIT)
  PROVE  events' \in Seq(Kinds) /\ (BitInTheEnd' <=> BitInTheEnd)
<1> DEFINE n == Len(events)
<1>1. /\ n \in Nat \ {0} /\ events' \in Seq(Kinds) /\ Len(events') = n - 1
      /\ \A i \in 1 .. n - 1 : events'[i] = events[i + 1]
      /\ Head(events) = events[1] /\ events[1] \in Kinds
  OBVIOUS
<1> HIDE DEF n
<1>2. \A i \in 1 .. n - 1 : IsLastTold("GOT_IP", i)' <=> IsLastTold("GOT_IP", i + 1)
  <2> SUFFICES ASSUME NEW i \in 1 .. n - 1
               PROVE  (\A j \in i + 1 .. n - 1 : events[j + 1] = "STA_START")
                        <=> (\A j \in (i + 1) + 1 .. n : events[j] = "STA_START")
    BY <1>1 DEF IsLastTold, n
  <2>1. ASSUME \A j \in i + 1 .. n - 1 : events[j + 1] = "STA_START",
               NEW j \in (i + 1) + 1 .. n
        PROVE  events[j] = "STA_START"
    <3>1. j - 1 \in i + 1 .. n - 1 /\ (j - 1) + 1 = j
      BY <1>1
    <3>. QED BY <2>1, <3>1
  <2>2. \A j \in i + 1 .. n - 1 : j + 1 \in (i + 1) + 1 .. n
    BY <1>1
  <2>. QED BY <2>1, <2>2
<1>3. (\E i \in 1 .. n - 1 : IsLastTold("GOT_IP", i)') <=> (\E i \in 2 .. n : IsLastTold("GOT_IP", i))
  <2>1. \A i \in 1 .. n - 1 : i + 1 \in 2 .. n
    BY <1>1
  <2>2. \A i \in 2 .. n : i - 1 \in 1 .. n - 1 /\ (i - 1) + 1 = i
    BY <1>1
  <2>3. ASSUME NEW i \in 2 .. n, IsLastTold("GOT_IP", i)
        PROVE  \E k \in 1 .. n - 1 : IsLastTold("GOT_IP", k)'
    <3>1. IsLastTold("GOT_IP", i - 1)' <=> IsLastTold("GOT_IP", (i - 1) + 1)
      BY <1>2, <2>2
    <3>. QED BY <2>2, <2>3, <3>1
  <2>. QED BY <1>2, <2>1, <2>3
<1>4. (\A i \in 1 .. n - 1 : events'[i] = "STA_START") <=> (\A i \in 2 .. n : events[i] = "STA_START")
  <2>1. \A i \in 1 .. n - 1 : i + 1 \in 2 .. n
    BY <1>1
  <2>2. \A i \in 2 .. n : i - 1 \in 1 .. n - 1 /\ (i - 1) + 1 = i
    BY <1>1
  <2>3. ASSUME \A i \in 1 .. n - 1 : events'[i] = "STA_START", NEW i \in 2 .. n
        PROVE  events[i] = "STA_START"
    <3>1. events'[i - 1] = events[(i - 1) + 1]
      BY <1>1, <2>2
    <3>. QED BY <2>2, <2>3, <3>1
  <2>. QED BY <1>1, <2>1, <2>3
<1>5. BitInTheEnd' <=> \/ \E i \in 2 .. n : IsLastTold("GOT_IP", i)
                       \/ CONNECTED_BIT' /\ \A i \in 2 .. n : events[i] = "STA_START"
  BY <1>1, <1>3, <1>4 DEF BitInTheEnd
<1>6. /\ (\E i \in 1 .. n : IsLastTold("GOT_IP", i))
           <=> IsLastTold("GOT_IP", 1) \/ \E i \in 2 .. n : IsLastTold("GOT_IP", i)
      /\ IsLastTold("GOT_IP", 1)
           <=> events[1] = "GOT_IP" /\ \A i \in 2 .. n : events[i] = "STA_START"
      /\ (\A i \in 1 .. n : events[i] = "STA_START")
           <=> events[1] = "STA_START" /\ \A i \in 2 .. n : events[i] = "STA_START"
  <2>1. 1 .. n = {1} \cup 2 .. n
    BY <1>1
  <2>. QED BY <1>1, <2>1 DEF IsLastTold, n
<1>7. CONNECTED_BIT' = IF events[1] = "GOT_IP" THEN TRUE
                       ELSE IF events[1] = "DISCONNECTED" THEN FALSE ELSE CONNECTED_BIT
  BY <1>1 DEF BitAfter, Kinds
<1>8. events[1] = "GOT_IP" \/ events[1] = "DISCONNECTED" \/ events[1] = "STA_START"
  BY <1>1 DEF Kinds
<1>. QED BY <1>1, <1>5, <1>6, <1>7, <1>8 DEF BitInTheEnd, n

LEMMA BitStays ==
  ASSUME UNCHANGED <<events, CONNECTED_BIT>>
  PROVE  BitInTheEnd' <=> BitInTheEnd
BY DEF BitInTheEnd, IsLastTold

LEMMA ConnectKeepsLink ==
  ASSUME link \in {"down", "trying", "up"},
         esp_wifi_connect \/ UNCHANGED <<link, attempt>>
  PROVE  link' \in {"down", "trying", "up"} /\ (link' = "up" <=> link = "up")
BY DEF esp_wifi_connect

-----------------------------------------------------------------------------
LEMMA EventKeeps ==
  ASSUME StationInv, Succeed \/ FailOrDrop \/ wifi_event_handler
  PROVE  StationInv'
<1>1. UNCHANGED <<stored, at, given>>
  BY DEF Succeed, FailOrDrop, Post, wifi_event_handler
<1>2. StationTypeOK /\ HalfStored /\ OkMeansStored /\ BitFollowsLink
  BY DEF StationInv
<1>3. /\ events' \in Seq(Kinds) /\ CONNECTED_BIT' \in BOOLEAN
      /\ link' \in {"down", "trying", "up"} /\ BitFollowsLink'
  <2>1. CASE Succeed
    BY <2>1, <1>2, Posted DEF Succeed, Post, BitFollowsLink, StationTypeOK, Kinds
  <2>2. CASE FailOrDrop
    BY <2>2, <1>2, Posted DEF FailOrDrop, Post, BitFollowsLink, StationTypeOK, Kinds
  <2>3. CASE wifi_event_handler
    <3>1. /\ events # << >> /\ events' = Tail(events)
          /\ CONNECTED_BIT' = BitAfter(Head(events), CONNECTED_BIT)
          /\ esp_wifi_connect \/ UNCHANGED <<link, attempt>>
      BY <2>3 DEF wifi_event_handler
    <3>2. events' \in Seq(Kinds) /\ (BitInTheEnd' <=> BitInTheEnd)
      BY <1>2, <3>1, Delivered DEF StationTypeOK
    <3>3. CONNECTED_BIT' \in BOOLEAN
      BY <1>2, <3>1 DEF StationTypeOK, BitAfter
    <3>. QED BY <1>2, <3>1, <3>2, <3>3, ConnectKeepsLink DEF StationTypeOK, BitFollowsLink
  <2>. QED BY <2>1, <2>2, <2>3
<1>. QED BY <1>1, <1>2, <1>3 DEF StationInv, StationTypeOK, HalfStored, OkMeansStored

\* A caller that joins touches neither the flash nor where a command stores.
LEMMA JoinKeeps ==
  ASSUME StationInv, NEW p \in Callers, wifi_sta_join(p)
  PROVE  StationInv'
<1>1. StationTypeOK /\ HalfStored /\ OkMeansStored /\ BitFollowsLink
  BY DEF StationInv
<1>2. PICK from \in Places \ {"store"}, to \in Places \ {"store"} : Go(p, from, to)
  BY DEF wifi_sta_join, Begin, GetMode, SetMode, ReadSsid, ReadPassword, ReadString,
         SetConfig, SetConfigFails, ConnectNow, Places
<1>3. /\ UNCHANGED <<stored, given, CONNECTED_BIT>>
      /\ \/ events' = events \/ events' = Append(events, "STA_START")
      /\ esp_wifi_connect \/ UNCHANGED <<link, attempt>>
  BY DEF wifi_sta_join, Begin, GetMode, SetMode, ReadSsid, ReadPassword, ReadString,
         SetConfig, SetConfigFails, ConnectNow, library
<1>4. /\ at' \in [Callers -> Places]
      /\ at'["command"] = "store" <=> at["command"] = "store"
  BY <1>1, <1>2 DEF Go, StationTypeOK, Callers, Places
<1>5. link' \in {"down", "trying", "up"} /\ (link' = "up" <=> link = "up")
  BY <1>1, <1>3, ConnectKeepsLink DEF StationTypeOK
<1>6. events' \in Seq(Kinds) /\ (BitInTheEnd' <=> BitInTheEnd)
  <2>1. CASE events' = events
    BY <2>1, <1>1, <1>3, BitStays DEF StationTypeOK
  <2>2. CASE events' = Append(events, "STA_START")
    BY <2>2, <1>1, <1>3, Posted DEF StationTypeOK, Kinds
  <2>. QED BY <1>3, <2>1, <2>2
<1>. QED BY <1>1, <1>3, <1>4, <1>5, <1>6
         DEF StationInv, StationTypeOK, HalfStored, OkMeansStored, BitFollowsLink

LEMMA StoreKeepsStation ==
  ASSUME StationInv, set_stacred
  PROVE  StationInv'
<1>1. StationTypeOK /\ HalfStored /\ OkMeansStored /\ BitFollowsLink
  BY DEF StationInv
<1>2. UNCHANGED <<events, CONNECTED_BIT, link>>
  BY DEF set_stacred, StorePassword, StoreSsid, library
<1>3. BitFollowsLink'
  BY <1>1, <1>2, BitStays DEF BitFollowsLink
<1>4. ASSUME NEW ok \in BOOLEAN, NEW k \in Credentials, StoreSsid(k, ok)
      PROVE  /\ stored' \in Value \X Value /\ at' \in [Callers -> Places]
             /\ given' \in Value /\ HalfStored' /\ OkMeansStored'
  BY <1>1, <1>4, WifiStationAssumption
     DEF StoreSsid, Go, NextIf, StationTypeOK, HalfStored, OkMeansStored, Value, Callers, Places
<1>5. ASSUME NEW ok \in BOOLEAN, StorePassword(ok)
      PROVE  /\ stored' \in Value \X Value /\ at' \in [Callers -> Places]
             /\ given' \in Value /\ HalfStored' /\ OkMeansStored'
  BY <1>1, <1>5, WifiStationAssumption
     DEF StorePassword, Go, StationTypeOK, HalfStored, OkMeansStored, Value, Callers, Places
<1>6. /\ stored' \in Value \X Value /\ at' \in [Callers -> Places]
      /\ given' \in Value /\ HalfStored' /\ OkMeansStored'
  BY <1>4, <1>5 DEF set_stacred
<1>. QED BY <1>1, <1>2, <1>3, <1>6 DEF StationInv, StationTypeOK

LEMMA StationInvariance == StationSpec => []StationInv
<1>1. StationInv /\ [StationNext]_stationvars => StationInv'
  <2> SUFFICES ASSUME StationInv, [StationNext]_stationvars PROVE StationInv'
    OBVIOUS
  <2>1. CASE UNCHANGED stationvars
    BY <2>1, BitStays DEF stationvars, library, StationInv, StationTypeOK, HalfStored,
       OkMeansStored, BitFollowsLink
  <2>2. CASE StationNext
    BY <2>2, EventKeeps, JoinKeeps, StoreKeepsStation DEF StationNext
  <2>. QED BY <2>1, <2>2
<1>. QED BY <1>1, StationInitInv, PTL DEF StationSpec

-----------------------------------------------------------------------------
\* Every variable of the station keeps its type.
THEOREM StationTypeCorrect == StationSpec => []StationTypeOK
<1>1. StationInv => StationTypeOK
  BY DEF StationInv
<1>. QED BY <1>1, StationInvariance, PTL

\* The bit is that of the connection once the events are delivered, for any
\* credentials and any number of events under way
\* (terminal_main.c:41-59, 71-74).
THEOREM BitIsOfLink == StationSpec => []BitFollowsLink
<1>1. StationInv => BitFollowsLink
  BY DEF StationInv
<1>. QED BY <1>1, StationInvariance, PTL

\* What was answered with OK_ is stored whole (terminal_main.c:320-328).
THEOREM OkIsStored == StationSpec => []OkMeansStored
<1>1. StationInv => OkMeansStored
  BY DEF StationInv
<1>. QED BY <1>1, StationInvariance, PTL

(***************************************************************************)
(* The command tasks.                                                      *)
(***************************************************************************)

\* A set of naturals that is not empty has a least element.
LEMMA LeastNat ==
  ASSUME NEW T, T \subseteq Nat, T # {}
  PROVE  \E x \in T : \A y \in T : x <= y
<1> DEFINE R == {ss \in Nat \X Nat : ss[1] < ss[2]}
<1>0. OpToRel(<, Nat) = R
  BY Zenon DEF OpToRel
<1>1. IsWellFoundedOn(R, Nat)
  BY <1>0, NatLessThanWellFounded, Zenon
<1>2. PICK x \in T : \A y \in T : ~ (<<y, x>> \in R)
  <2> HIDE DEF R
  <2>. QED BY <1>1, WFMin, Zenon
<1>3. \A y \in T : x <= y
  <2>1. SUFFICES ASSUME NEW y \in T
                 PROVE  ~ (y < x)
    OBVIOUS
  <2>2. <<y, x>> \in Nat \X Nat
    OBVIOUS
  <2>3. y < x => <<y, x>> \in R
    BY <2>2
  <2>. QED BY <1>2, <2>3
<1>. QED BY <1>3

\* The least and the greatest of some places.
LEMMA MinIs ==
  ASSUME NEW n \in Nat, NEW T \in SUBSET (1 .. n), T # {}
  PROVE  Min(T) \in T /\ \A y \in T : Min(T) <= y
<1>1. T \subseteq Nat
  OBVIOUS
<1>. QED BY <1>1, LeastNat DEF Min

LEMMA MaxIs ==
  ASSUME NEW n \in Nat, NEW T \in SUBSET (1 .. n), T # {}
  PROVE  Max(T) \in T /\ \A y \in T : Max(T) >= y
<1> DEFINE U == {n - x : x \in T}
<1>0. PICK z \in T : TRUE
  OBVIOUS
<1>1. U \subseteq Nat /\ n - z \in U
  BY <1>0
<1>2. PICK u \in U : \A y \in U : u <= y
  <2> HIDE DEF U
  <2>. QED BY <1>1, LeastNat
<1>3. PICK x \in T : u = n - x
  OBVIOUS
<1>4. \A y \in T : x >= y
  <2> SUFFICES ASSUME NEW y \in T PROVE x >= y
    OBVIOUS
  <2>1. n - y \in U
    OBVIOUS
  <2>2. x \in Int /\ y \in Int
    OBVIOUS
  <2>3. n - x <= n - y
    BY <1>2, <1>3, <2>1
  <2>. QED BY <2>2, <2>3
<1>. QED BY <1>4 DEF Max

\* A part of a sequence.
LEMMA PartIs ==
  ASSUME NEW S, NEW s \in Seq(S), NEW m \in 1 .. Len(s) + 1, NEW n \in m - 1 .. Len(s)
  PROVE  /\ SubSeq(s, m, n) \in Seq(S)
         /\ Len(SubSeq(s, m, n)) = n - m + 1
         /\ \A i \in 1 .. n - m + 1 : SubSeq(s, m, n)[i] = s[i + m - 1]
<1>1. Len(s) \in Nat /\ m \in Int /\ n \in Int
  OBVIOUS
<1>2. \A i \in m .. n : s[i] \in S
  BY <1>1, ElementOfSeq
<1>3. /\ SubSeq(s, m, n) \in Seq(S)
      /\ Len(SubSeq(s, m, n)) = IF m <= n THEN n - m + 1 ELSE 0
      /\ \A i \in 1 .. n - m + 1 : SubSeq(s, m, n)[i] = s[m + i - 1]
  BY <1>1, <1>2, SubSeqProperties
<1>4. \A i \in 1 .. n - m + 1 : m + i - 1 = i + m - 1
  BY <1>1
<1>. QED BY <1>1, <1>3, <1>4

LEMMA PrefixIs ==
  ASSUME NEW S, NEW s \in Seq(S), NEW t \in Seq(S), Len(s) <= Len(t),
         \A i \in 1 .. Len(s) : s[i] = t[i]
  PROVE  IsPrefix(s, t)
<1>1. Len(s) \in Nat /\ Len(t) \in Nat
  OBVIOUS
<1>2. SubSeq(s, 1, Len(s)) = SubSeq(t, 1, Len(s))
  <2>1. /\ SubSeq(s, 1, Len(s)) \in Seq(S) /\ Len(SubSeq(s, 1, Len(s))) = Len(s)
        /\ \A i \in 1 .. Len(s) : SubSeq(s, 1, Len(s))[i] = s[i]
    BY <1>1, PartIs
  <2>2. /\ SubSeq(t, 1, Len(s)) \in Seq(S) /\ Len(SubSeq(t, 1, Len(s))) = Len(s)
        /\ \A i \in 1 .. Len(s) : SubSeq(t, 1, Len(s))[i] = t[i]
    BY <1>1, PartIs
  <2>. QED BY <2>1, <2>2, SeqEqual
<1>. QED BY <1>2 DEF IsPrefix

LEMMA SuffixIs ==
  ASSUME NEW S, NEW s \in Seq(S), NEW t \in Seq(S), Len(s) <= Len(t),
         \A i \in 1 .. Len(s) : s[i] = t[Len(t) - Len(s) + i]
  PROVE  IsSuffix(s, t)
<1> DEFINE R(u) == [i \in 1 .. Len(u) |-> u[(Len(u) - i) + 1]]
<1>1. Len(s) \in Nat /\ Len(t) \in Nat
  OBVIOUS
<1>2. /\ R(s) \in Seq(S) /\ Len(R(s)) = Len(s)
      /\ R(t) \in Seq(S) /\ Len(R(t)) = Len(t)
  BY <1>1
<1>3. \A i \in 1 .. Len(s) : R(s)[i] = R(t)[i]
  <2> SUFFICES ASSUME NEW i \in 1 .. Len(s) PROVE R(s)[i] = R(t)[i]
    OBVIOUS
  <2>1. (Len(s) - i) + 1 \in 1 .. Len(s)
        /\ Len(t) - Len(s) + ((Len(s) - i) + 1) = (Len(t) - i) + 1
    BY <1>1
  <2>. QED BY <1>1, <2>1
<1>4. R(s) = Reverse(s) /\ R(t) = Reverse(t)
  BY DEF Reverse
<1>5. IsPrefix(R(s), R(t))
  <2> HIDE DEF R
  <2>. QED BY <1>1, <1>2, <1>3, PrefixIs
<1>. QED BY <1>4, <1>5 DEF IsSuffix
-----------------------------------------------------------------------------
AnyByte == Bytes \cup {CR, LF, NUL, Unset}

\* The types of the task's variables; the parser's are not needed.
CommandTypeOK ==
  /\ task \in Tasks /\ line \in [1 .. Size(task) -> AnyByte]
  /\ pos \in Nat /\ handling \in BOOLEAN /\ orderly \in BOOLEAN
  /\ typed \in [bytes : Nat, line : Seq(AnyByte), entering : BOOLEAN]
  /\ typed.bytes <= MaxTyped
  /\ lines \in Seq(Seq(AnyByte))
  /\ handled \in Seq([text : Seq(AnyByte), line : Seq(AnyByte)])

\* The array of gpiomon holds the beginning of the line.
ArrayInv ==
  task = "gpiomon" =>
    /\ pos = IF Len(typed.line) > SizeOfCmd THEN SizeOfCmd ELSE Len(typed.line)
    /\ \A i \in 1 .. pos : line[i] = typed.line[i]
    /\ handling => pos = 0

\* The buffer of command_task holds the end of the line, or begins with the
\* end of an empty one.
Spoilt == pos > 0 /\ line[1] = NUL
Holds ==
  /\ pos <= Len(typed.line)
  /\ \A i \in 1 .. pos : /\ line[i] \in Bytes
                         /\ line[i] = typed.line[Len(typed.line) - pos + i]
BufferInv ==
  task = "command_task" =>
    /\ handling => ~halted
    /\ ~halted => /\ pos <= BUF_SIZE
                  /\ ~handling => Spoilt \/ Holds
                  /\ orderly => /\ ~typed.entering
                                /\ handling => typed.line = <<>>
                                /\ ~handling => Holds /\ pos = Len(typed.line)

CommandInv ==
  CommandTypeOK /\ ArrayInv /\ BufferInv /\ LinesAreHandled /\ NeverMixesLines

LEMMA SizeIs == Size("gpiomon") = SizeOfCmd + 1 /\ Size("command_task") = BUF_SIZE
BY DEF Size

LEMMA CommandInitInv == CommandInit => CommandInv
<1> SUFFICES ASSUME CommandInit PROVE CommandInv
  OBVIOUS
<1>1. CommandTypeOK
  <2>1. line \in [1 .. Size(task) -> AnyByte]
    BY SizeIs DEF CommandInit, AnyByte
  <2>2. typed \in [bytes : Nat, line : Seq(AnyByte), entering : BOOLEAN] /\ typed.bytes <= MaxTyped
    BY CommandLineAssumption DEF CommandInit
  <2>3. lines \in Seq(Seq(AnyByte)) /\ handled \in Seq([text : Seq(AnyByte), line : Seq(AnyByte)])
    BY DEF CommandInit
  <2>. QED BY <2>1, <2>2, <2>3 DEF CommandInit, CommandTypeOK
<1>2. typed.line = <<>> /\ ~typed.entering /\ pos = 0 /\ typed.bytes = 0 /\ Len(<<>>) = 0
  BY DEF CommandInit
<1>3. ArrayInv /\ BufferInv
  <2>1. SizeOfCmd \in Nat /\ BUF_SIZE \in Nat
    BY CommandLineAssumption
  <2>. QED BY <1>2, <2>1 DEF ArrayInv, BufferInv, Holds, CommandInit
<1>4. LinesAreHandled /\ NeverMixesLines
  <2>1. handled = <<>> /\ lines = <<>>
    BY DEF CommandInit
  <2>2. DOMAIN <<>> = {}
    OBVIOUS
  <2>. QED BY <2>1, <2>2 DEF LinesAreHandled, NeverMixesLines
<1>. QED BY <1>1, <1>3, <1>4 DEF CommandInv

\* One line more, and what was parsed of it.
LEMMA OneMore ==
  ASSUME CommandTypeOK, LinesAreHandled, NeverMixesLines, task' = task,
         NEW h \in [text : Seq(AnyByte), line : Seq(AnyByte)], handled' = Append(handled, h),
         NEW l \in Seq(AnyByte),
         orderly' => orderly /\ lines' = Append(lines, l) /\ h.text = Fitting(l),
         IsPrefix(h.text, h.line) \/ IsSuffix(h.text, h.line)
  PROVE  /\ handled' \in Seq([text : Seq(AnyByte), line : Seq(AnyByte)])
         /\ LinesAreHandled' /\ NeverMixesLines'
<1> DEFINE n == Len(handled)
<1>1. /\ n \in Nat /\ DOMAIN handled = 1 .. n /\ DOMAIN handled' = 1 .. n + 1
      /\ \A i \in 1 .. n : handled'[i] = handled[i]
      /\ handled'[n + 1] = h
      /\ handled' \in Seq([text : Seq(AnyByte), line : Seq(AnyByte)])
  BY DEF CommandTypeOK
<1>2. orderly' =>
        /\ Len(lines) \in Nat
        /\ DOMAIN lines = 1 .. Len(lines) /\ DOMAIN lines' = 1 .. Len(lines) + 1
        /\ \A i \in 1 .. Len(lines) : lines'[i] = lines[i]
        /\ lines'[Len(lines) + 1] = l
  <2> SUFFICES ASSUME orderly'
               PROVE  /\ Len(lines) \in Nat
                      /\ DOMAIN lines = 1 .. Len(lines) /\ DOMAIN lines' = 1 .. Len(lines) + 1
                      /\ \A i \in 1 .. Len(lines) : lines'[i] = lines[i]
                      /\ lines'[Len(lines) + 1] = l
    OBVIOUS
  <2>1. lines' = Append(lines, l)
    OBVIOUS
  <2>. QED BY <2>1 DEF CommandTypeOK
<1>3. NeverMixesLines'
  <2>1. \A i \in 1 .. n : \/ IsPrefix(handled'[i].text, handled'[i].line)
                           \/ IsSuffix(handled'[i].text, handled'[i].line)
    BY <1>1 DEF NeverMixesLines
  <2>2. \A i \in 1 .. n + 1 : \/ IsPrefix(handled'[i].text, handled'[i].line)
                               \/ IsSuffix(handled'[i].text, handled'[i].line)
    BY <1>1, <2>1
  <2>. QED BY <1>1, <2>2 DEF NeverMixesLines, IsPrefix, IsSuffix, Reverse
<1>4. ASSUME orderly' PROVE LinesAreHandled'
  <2>1. [i \in DOMAIN handled |-> handled[i].text] = [i \in DOMAIN lines |-> Fitting(lines[i])]
    BY <1>4 DEF LinesAreHandled
  <2>2. 1 .. n = 1 .. Len(lines)
    <3>1. DOMAIN [i \in DOMAIN handled |-> handled[i].text] = 1 .. n
      BY <1>1
    <3>2. DOMAIN [i \in DOMAIN lines |-> Fitting(lines[i])] = 1 .. Len(lines)
      BY <1>4, <1>2
    <3>. QED BY <2>1, <3>1, <3>2
  <2>3. n = Len(lines)
    <3>1. \A a, b \in Nat : 1 .. a = 1 .. b => a <= b
      <4> SUFFICES ASSUME NEW a \in Nat, NEW b \in Nat, 1 .. a = 1 .. b, a > b PROVE FALSE
        OBVIOUS
      <4>1. a \in 1 .. a /\ a \notin 1 .. b
        OBVIOUS
      <4>. QED BY <4>1
    <3>2. n <= Len(lines)
      BY <1>1, <1>4, <1>2, <2>2, <3>1
    <3>3. Len(lines) <= n
      <4>1. 1 .. Len(lines) = 1 .. n
        BY <2>2
      <4>. QED BY <1>1, <1>4, <1>2, <4>1, <3>1
    <3>4. n \in Int /\ Len(lines) \in Int
      BY <1>1, <1>4, <1>2
    <3>. QED BY <3>2, <3>3, <3>4
  <2>4. \A i \in 1 .. n : handled[i].text = Fitting(lines[i])
    BY <1>1, <1>4, <1>2, <2>1, <2>3
  <2>5. \A i \in 1 .. n + 1 : handled'[i].text = Fitting(lines'[i])
    <3>1. \A i \in 1 .. n : handled'[i].text = Fitting(lines'[i])
      BY <1>1, <1>4, <1>2, <2>3, <2>4
    <3>2. handled'[n + 1].text = Fitting(lines'[n + 1])
      BY <1>1, <1>2, <1>4, <2>3
    <3>3. \A i \in 1 .. n + 1 : i \in 1 .. n \/ i = n + 1
      BY <1>1
    <3>. QED BY <3>1, <3>2, <3>3
  <2>6. [i \in DOMAIN handled' |-> handled'[i].text]
          = [i \in DOMAIN lines' |-> Fitting(lines'[i])]
    BY <1>1, <1>4, <1>2, <2>3, <2>5
  <2>. QED BY <2>6 DEF LinesAreHandled, Fitting
<1>5. LinesAreHandled'
  BY <1>4 DEF LinesAreHandled
<1>. QED BY <1>1, <1>2, <1>3, <1>5

\* None more.
LEMMA NoMore ==
  ASSUME LinesAreHandled, NeverMixesLines, UNCHANGED <<task, handled>>,
         orderly' => orderly /\ UNCHANGED lines
  PROVE  LinesAreHandled' /\ NeverMixesLines'
BY DEF LinesAreHandled, NeverMixesLines, Fitting
\* The array, or the buffer, as a sequence.
LEMMA LineIs ==
  ASSUME CommandTypeOK
  PROVE  /\ line \in Seq(AnyByte) /\ Len(line) = Size(task) /\ Size(task) \in Nat
         /\ DOMAIN line = 1 .. Size(task)
<1>1. Size(task) \in Nat
  BY CommandLineAssumption, SizeIs DEF Size
<1>2. \A N \in Nat : \A f \in [1 .. N -> AnyByte] : f \in Seq(AnyByte) /\ Len(f) = N /\ DOMAIN f = 1 .. N
  OBVIOUS
<1>3. line \in [1 .. Size(task) -> AnyByte]
  BY DEF CommandTypeOK
<1>. QED BY <1>1, <1>2, <1>3

-----------------------------------------------------------------------------
\* gpiomon.

LEMMA ArrayText ==
  ASSUME CommandTypeOK, ArrayInv, task = "gpiomon"
  PROVE  /\ SubSeq(line, 1, pos) \in Seq(AnyByte)
         /\ SubSeq(line, 1, pos) = Fitting(typed.line)
         /\ IsPrefix(SubSeq(line, 1, pos), typed.line)
         /\ pos + 1 \in 1 .. Size(task)
<1> DEFINE n == Len(typed.line)
<1>1. typed.line \in Seq(AnyByte) /\ n \in Nat /\ SizeOfCmd \in Nat /\ pos \in Nat
  BY CommandLineAssumption DEF CommandTypeOK
<1>2. /\ pos <= SizeOfCmd /\ pos <= n /\ Size(task) = SizeOfCmd + 1
      /\ pos = IF n > SizeOfCmd THEN SizeOfCmd ELSE n
      /\ \A i \in 1 .. pos : line[i] = typed.line[i]
  BY <1>1, SizeIs DEF ArrayInv
<1>3. /\ SubSeq(line, 1, pos) \in Seq(AnyByte) /\ Len(SubSeq(line, 1, pos)) = pos
      /\ \A i \in 1 .. pos : SubSeq(line, 1, pos)[i] = line[i]
  <2>1. pos \in 0 .. Len(line) /\ 1 \in 1 .. Len(line) + 1 /\ pos - 1 + 1 = pos
    BY <1>1, <1>2, LineIs
  <2>. QED BY <1>1, <2>1, LineIs, PartIs
<1>4. Fitting(typed.line) \in Seq(AnyByte) /\ Len(Fitting(typed.line)) = pos
      /\ \A i \in 1 .. pos : Fitting(typed.line)[i] = typed.line[i]
  <2>1. CASE n > SizeOfCmd
    <3>1. SizeOfCmd \in 0 .. n /\ 1 \in 1 .. n + 1
      BY <1>1, <2>1
    <3>2. /\ SubSeq(typed.line, 1, SizeOfCmd) \in Seq(AnyByte)
          /\ Len(SubSeq(typed.line, 1, SizeOfCmd)) = SizeOfCmd
          /\ \A i \in 1 .. SizeOfCmd : SubSeq(typed.line, 1, SizeOfCmd)[i] = typed.line[i]
      BY <1>1, <3>1, PartIs
    <3>. QED BY <1>2, <2>1, <3>2 DEF Fitting
  <2>2. CASE ~ (n > SizeOfCmd)
    BY <1>1, <1>2, <2>2 DEF Fitting
  <2>. QED BY <2>1, <2>2
<1>5. SubSeq(line, 1, pos) = Fitting(typed.line)
  BY <1>2, <1>3, <1>4, SeqEqual
<1>6. IsPrefix(SubSeq(line, 1, pos), typed.line)
  BY <1>1, <1>2, <1>3, PrefixIs
<1>. QED BY <1>1, <1>2, <1>3, <1>5, <1>6

LEMMA EndOfLineKeeps == CommandInv /\ EndOfLine => CommandInv'
<1> SUFFICES ASSUME CommandInv, EndOfLine PROVE CommandInv'
  OBVIOUS
<1>1. task = "gpiomon" /\ task' = task
  BY DEF EndOfLine, Reading
<1>2. /\ typed \in [bytes : Nat, line : Seq(AnyByte), entering : BOOLEAN]
      /\ typed' = [typed EXCEPT !.bytes = @ + 1, !.line = <<>>]
      /\ typed.bytes + 1 <= MaxTyped
  BY DEF EndOfLine, Reading, CommandInv, CommandTypeOK
<1>3. DEFINE h == [text |-> SubSeq(line, 1, pos), line |-> typed.line]
<1>4. /\ handled' \in Seq([text : Seq(AnyByte), line : Seq(AnyByte)])
      /\ lines' \in Seq(Seq(AnyByte))
      /\ LinesAreHandled' /\ NeverMixesLines'
  <2>1. h \in [text : Seq(AnyByte), line : Seq(AnyByte)] /\ typed.line \in Seq(AnyByte)
    BY <1>1, <1>2, ArrayText DEF CommandInv
  <2>2. h.text = Fitting(typed.line) /\ IsPrefix(h.text, h.line)
    BY <1>1, ArrayText DEF CommandInv
  <2>3. handled' = Append(handled, h) /\ lines' = Append(lines, typed.line)
        /\ orderly' = orderly
    BY DEF EndOfLine
  <2>4. lines' \in Seq(Seq(AnyByte))
    BY <2>1, <2>3 DEF CommandInv, CommandTypeOK
  <2> HIDE DEF h
  <2>. QED BY <1>1, <2>1, <2>2, <2>3, <2>4, OneMore DEF CommandInv
<1>5. CommandTypeOK'
  <2>1. line' \in [1 .. Size(task') -> AnyByte]
    BY <1>1 DEF EndOfLine, CommandInv, CommandTypeOK, AnyByte
  <2>2. typed' \in [bytes : Nat, line : Seq(AnyByte), entering : BOOLEAN]
        /\ typed'.bytes <= MaxTyped
    <3>1. /\ typed.bytes \in Nat /\ typed.line \in Seq(AnyByte) /\ typed.entering \in BOOLEAN
          /\ typed' = [bytes |-> typed.bytes + 1, line |-> <<>>, entering |-> typed.entering]
      BY <1>2
    <3>2. PICK none \in Seq(AnyByte) : none = <<>>
      BY EmptySeq, Zenon
    <3>3. typed' = [bytes |-> typed.bytes + 1, line |-> none, entering |-> typed.entering]
      BY <3>1, <3>2
    <3>. QED BY <1>2, <3>1, <3>3
  <2>. QED BY <1>1, <1>4, <2>1, <2>2 DEF EndOfLine, CommandInv, CommandTypeOK, Size
<1>6. ArrayInv' /\ BufferInv'
  <2>1. typed'.line = <<>> /\ Len(<<>>) = 0 /\ pos' = 0 /\ SizeOfCmd \in Nat
    BY <1>2, CommandLineAssumption DEF EndOfLine
  <2>. QED BY <1>1, <2>1 DEF ArrayInv, BufferInv
<1>. QED BY <1>4, <1>5, <1>6 DEF CommandInv

LEMMA ByteKeeps ==
  ASSUME CommandInv, NEW ch \in Bytes, Byte(ch)
  PROVE  CommandInv'
<1>1. task = "gpiomon" /\ task' = task
  BY DEF Byte, Reading
<1>2. /\ typed \in [bytes : Nat, line : Seq(AnyByte), entering : BOOLEAN]
      /\ typed' = [typed EXCEPT !.bytes = @ + 1, !.line = Append(@, ch)]
      /\ typed.bytes + 1 <= MaxTyped /\ ch \in AnyByte
  BY DEF Byte, Reading, CommandInv, CommandTypeOK, AnyByte
<1>3. LinesAreHandled' /\ NeverMixesLines'
  BY NoMore DEF Byte, CommandInv
<1>4. CommandTypeOK'
  <2>1. line' \in [1 .. Size(task') -> AnyByte] /\ pos' \in Nat
    <3>1. line \in [1 .. Size(task) -> AnyByte] /\ pos \in Nat
      BY DEF CommandInv, CommandTypeOK
    <3>. QED BY <1>1, <1>2, <3>1 DEF Byte
  <2>2. typed' \in [bytes : Nat, line : Seq(AnyByte), entering : BOOLEAN]
        /\ typed'.bytes <= MaxTyped
    <3>1. /\ typed.bytes \in Nat /\ typed.line \in Seq(AnyByte) /\ typed.entering \in BOOLEAN
          /\ typed' = [bytes |-> typed.bytes + 1, line |-> Append(typed.line, ch),
                       entering |-> typed.entering]
      BY <1>2
    <3>2. Append(typed.line, ch) \in Seq(AnyByte)
      BY <1>2, <3>1
    <3>. QED BY <1>2, <3>1, <3>2
  <2>. QED BY <1>1, <2>1, <2>2 DEF Byte, CommandInv, CommandTypeOK, Size
<1>5. ArrayInv' /\ BufferInv'
  <2> DEFINE n == Len(typed.line)
  <2>1. /\ n \in Nat /\ typed'.line = Append(typed.line, ch) /\ Len(typed'.line) = n + 1
        /\ \A i \in 1 .. n : typed'.line[i] = typed.line[i]
        /\ typed'.line[n + 1] = ch
    BY <1>2
  <2>2. /\ pos = IF n > SizeOfCmd THEN SizeOfCmd ELSE n
        /\ \A i \in 1 .. pos : line[i] = typed.line[i]
        /\ SizeOfCmd \in Nat /\ pos \in Nat
    BY <1>1, CommandLineAssumption DEF CommandInv, CommandTypeOK, ArrayInv
  <2>3. DOMAIN line = 1 .. SizeOfCmd + 1
    BY <1>1, SizeIs, LineIs DEF CommandInv
  <2>4. CASE pos < SizeOfCmd
    <3>1. ~handling' /\ pos = n /\ pos' = n + 1 /\ line' = [line EXCEPT ![n + 1] = ch]
      BY <2>1, <2>2, <2>4 DEF Byte, Reading
    <3>. QED BY <1>1, <2>1, <2>2, <2>3, <2>4, <3>1 DEF ArrayInv, BufferInv
  <2>5. CASE ~ (pos < SizeOfCmd)
    <3>1. ~handling' /\ pos = SizeOfCmd /\ pos' = pos /\ line' = line /\ n >= SizeOfCmd
      BY <2>1, <2>2, <2>5 DEF Byte, Reading
    <3>. QED BY <1>1, <2>1, <2>2, <3>1 DEF ArrayInv, BufferInv
  <2>. QED BY <2>4, <2>5
<1>. QED BY <1>3, <1>4, <1>5 DEF CommandInv
-----------------------------------------------------------------------------
\* The parser and the command.

LEMMA ParserKeepsLine ==
  ASSUME CommandTypeOK, argparser_parse
  PROVE  line' \in [1 .. Size(task) -> AnyByte]
<1>1. ASSUME NEW from, NEW c, Argument(from, c) PROVE line' \in [1 .. Size(task) -> AnyByte]
  BY <1>1 DEF Argument, CommandTypeOK, AnyByte
<1>2. CASE Quoted
  BY <1>1, <1>2 DEF Quoted
<1>3. CASE Word
  BY <1>1, <1>3 DEF Word
<1>4. CASE Skip \/ EndOfText
  BY <1>4 DEF Skip, EndOfText, CommandTypeOK
<1>. QED BY <1>2, <1>3, <1>4 DEF argparser_parse

LEMMA ParseKeeps == CommandInv /\ Parse => CommandInv'
<1> SUFFICES ASSUME CommandInv, Parse PROVE CommandInv'
  OBVIOUS
<1>1. handling /\ UNCHANGED own
  BY DEF Parse
<1>2. CommandTypeOK'
  BY <1>1, ParserKeepsLine DEF Parse, own, CommandInv, CommandTypeOK, Size
<1>3. LinesAreHandled' /\ NeverMixesLines'
  BY <1>1, NoMore DEF own, CommandInv
<1>4. ArrayInv' /\ BufferInv'
  BY <1>1 DEF own, CommandInv, CommandTypeOK, ArrayInv, BufferInv
<1>. QED BY <1>2, <1>3, <1>4 DEF CommandInv

LEMMA CommandKeeps == CommandInv /\ Command => CommandInv'
<1> SUFFICES ASSUME CommandInv, Command PROVE CommandInv'
  OBVIOUS
<1>1. /\ handling /\ ~handling'
      /\ UNCHANGED <<line, task, typed, lines, handled, orderly>>
      /\ pos' = IF task = "command_task" THEN 0 ELSE pos
  BY DEF Command, Restart
<1>2. CommandTypeOK'
  <2>1. pos' \in Nat
    BY <1>1 DEF CommandInv, CommandTypeOK
  <2>2. handling' \in BOOLEAN
    BY DEF Command
  <2>. QED BY <1>1, <2>1, <2>2 DEF CommandInv, CommandTypeOK
<1>3. LinesAreHandled' /\ NeverMixesLines'
  BY <1>1, NoMore DEF CommandInv
<1>4. ArrayInv'
  BY <1>1 DEF CommandInv, ArrayInv
<1>5. BufferInv'
  <2> SUFFICES ASSUME task = "command_task" PROVE BufferInv'
    BY <1>1 DEF BufferInv
  <2>1. typed \in [bytes : Nat, line : Seq(AnyByte), entering : BOOLEAN]
        /\ typed.bytes \in Nat /\ Len(typed.line) \in Nat
    BY DEF CommandInv, CommandTypeOK
  <2>2. pos' = 0 /\ Holds'
    BY <1>1, <2>1 DEF Holds
  <2>3. orderly => ~typed.entering /\ Len(typed.line) = 0
    BY <1>1 DEF CommandInv, BufferInv
  <2>4. BUF_SIZE \in Nat
    BY CommandLineAssumption
  <2>. QED BY <1>1, <2>1, <2>2, <2>3, <2>4 DEF BufferInv
<1>. QED BY <1>2, <1>3, <1>4, <1>5 DEF CommandInv

-----------------------------------------------------------------------------
\* command_task.

\* What is in the buffer after a read.
LEMMA WithBytesIs ==
  ASSUME CommandInv, NEW s \in Seq(Bytes \cup {CR, LF}), s # <<>>,
         Reading("command_task", Len(s)), pos + Len(s) <= BUF_SIZE
  PROVE  LET n == pos + Len(s)
             d == WithBytes(s)
         IN  /\ n \in Nat \ {0} /\ n <= Size(task)
             /\ d \in [1 .. Size(task) -> AnyByte]
             /\ \A i \in 1 .. pos : d[i] = line[i]
             /\ \A i \in pos + 1 .. n : d[i] = s[i - pos]
<1> DEFINE n == pos + Len(s)
           d == WithBytes(s)
<1>1. Len(s) \in Nat \ {0} /\ pos \in Nat /\ task = "command_task"
  <2>1. Len(s) \in Nat \ {0}
    BY EmptySeq, Zenon
  <2>. QED BY <2>1 DEF Reading, CommandInv, CommandTypeOK
<1>2. n \in Nat \ {0} /\ n <= Size(task)
  BY <1>1, SizeIs
<1>3. \A i \in pos + 1 .. n : i - pos \in 1 .. Len(s) /\ s[i - pos] \in AnyByte
  BY <1>1 DEF AnyByte
<1>4. line \in [1 .. Size(task) -> AnyByte] /\ DOMAIN line = 1 .. Size(task) /\ Size(task) \in Nat
  BY LineIs DEF CommandInv, CommandTypeOK
<1>5. d = [i \in 1 .. Size(task) |-> IF i \in pos + 1 .. n THEN s[i - pos] ELSE line[i]]
  BY <1>4 DEF WithBytes
<1>6. d \in [1 .. Size(task) -> AnyByte]
  BY <1>3, <1>4, <1>5
<1>7. \A i \in 1 .. pos : d[i] = line[i]
  BY <1>1, <1>2, <1>4, <1>5
<1>8. \A i \in pos + 1 .. n : d[i] = s[i - pos]
  BY <1>1, <1>2, <1>4, <1>5
<1>. QED BY <1>2, <1>6, <1>7, <1>8
\* The first end of line.
LEMMA FirstEolIs ==
  ASSUME NEW d, NEW n \in Nat
  PROVE  /\ FirstEol(d, n) = 0 => \A i \in 1 .. n : ~IsEol(d[i])
         /\ FirstEol(d, n) # 0 => /\ FirstEol(d, n) \in 1 .. n
                                  /\ IsEol(d[FirstEol(d, n)])
                                  /\ \A i \in 1 .. n : IsEol(d[i]) => FirstEol(d, n) <= i
<1> DEFINE T == {i \in 1 .. n : IsEol(d[i])}
<1>1. CASE T = {}
  BY <1>1 DEF FirstEol, First
<1>2. CASE T # {}
  <2>1. T \in SUBSET (1 .. n)
    OBVIOUS
  <2>2. Min(T) \in T /\ \A y \in T : Min(T) <= y
    <3> HIDE DEF T
    <3>. QED BY <1>2, <2>1, MinIs
  <2>3. FirstEol(d, n) = Min(T)
    BY <1>2 DEF FirstEol, First
  <2>. QED BY <2>2, <2>3
<1>. QED BY <1>1, <1>2

\* The first NUL.
LEMMA FirstNulIs ==
  ASSUME NEW d, NEW n \in Nat, NEW k \in 1 .. n, d[k] = NUL,
         \A i \in 1 .. n : i < k => d[i] # NUL
  PROVE  First({i \in 1 .. n : d[i] = NUL}) = k
<1> DEFINE T == {i \in 1 .. n : d[i] = NUL}
<1>1. T \in SUBSET (1 .. n) /\ k \in T /\ \A i \in T : i >= k
  OBVIOUS
<1>2. Min(T) \in T /\ Min(T) <= k
  <2> HIDE DEF T
  <2>1. T # {}
    BY <1>1
  <2>. QED BY <1>1, <2>1, MinIs
<1>3. Min(T) = k
  BY <1>1, <1>2
<1>. QED BY <1>1, <1>3 DEF First

\* The ends of line in what is read.
LEMMA EndsAre ==
  ASSUME NEW s \in Seq(Bytes \cup {CR, LF}), Ends(s) # {}
  PROVE  /\ Min(Ends(s)) \in 1 .. Len(s) /\ s[Min(Ends(s))] \in {CR, LF}
         /\ \A i \in 1 .. Len(s) : i < Min(Ends(s)) => s[i] \in Bytes
         /\ Max(Ends(s)) \in 1 .. Len(s)
<1>1. Len(s) \in Nat /\ DOMAIN s = 1 .. Len(s)
      /\ \A i \in 1 .. Len(s) : s[i] \in Bytes \cup {CR, LF}
  OBVIOUS
<1>2. Ends(s) \in SUBSET (1 .. Len(s))
  BY <1>1 DEF Ends
<1>3. Min(Ends(s)) \in Ends(s) /\ \A y \in Ends(s) : Min(Ends(s)) <= y
  BY <1>1, <1>2, MinIs
<1>4. Max(Ends(s)) \in Ends(s)
  BY <1>1, <1>2, MaxIs
<1>5. ASSUME NEW i \in 1 .. Len(s), i < Min(Ends(s)) PROVE s[i] \in Bytes
  <2>1. i \notin Ends(s)
    BY <1>2, <1>3, <1>5
  <2>. QED BY <1>1, <2>1 DEF Ends
<1>. QED BY <1>1, <1>2, <1>3, <1>4, <1>5 DEF Ends

\* The line that ends with the first of them.
LEMMA LineUpToIs ==
  ASSUME typed.line \in Seq(AnyByte), NEW s \in Seq(Bytes \cup {CR, LF}), Ends(s) # {}
  PROVE  LET n == Len(typed.line)
             e == Min(Ends(s))
         IN  /\ LineUpTo(s) \in Seq(AnyByte) /\ Len(LineUpTo(s)) = n + e - 1
             /\ \A i \in 1 .. n + e - 1 :
                  LineUpTo(s)[i] = IF i <= n THEN typed.line[i] ELSE s[i - n]
<1> DEFINE e == Min(Ends(s))
           p == SubSeq(s, 1, e - 1)
<1>1. e \in 1 .. Len(s) /\ Len(s) \in Nat /\ s \in Seq(AnyByte)
  <2>1. Bytes \cup {CR, LF} \subseteq AnyByte
    BY DEF AnyByte
  <2>. QED BY <2>1, EndsAre
<1>2. p \in Seq(AnyByte) /\ Len(p) = e - 1 /\ \A i \in 1 .. e - 1 : p[i] = s[i]
  <2>1. e - 1 \in 0 .. Len(s) /\ 1 \in 1 .. Len(s) + 1
    BY <1>1
  <2>. QED BY <1>1, <2>1, PartIs
<1>3. LineUpTo(s) = typed.line \o p
  BY DEF LineUpTo
<1>4. /\ LineUpTo(s) \in Seq(AnyByte)
      /\ Len(LineUpTo(s)) = Len(typed.line) + Len(p)
      /\ \A i \in 1 .. Len(typed.line) + Len(p) :
           LineUpTo(s)[i] = IF i <= Len(typed.line) THEN typed.line[i]
                            ELSE p[i - Len(typed.line)]
  <2>1. \A q, r \in Seq(AnyByte) :
          /\ q \o r \in Seq(AnyByte) /\ Len(q \o r) = Len(q) + Len(r)
          /\ \A i \in 1 .. Len(q) + Len(r) :
               (q \o r)[i] = IF i <= Len(q) THEN q[i] ELSE r[i - Len(q)]
    BY ConcatProperties, Zenon
  <2>2. p \in Seq(AnyByte) /\ typed.line \in Seq(AnyByte)
    BY <1>2
  <2> HIDE DEF p
  <2>3. /\ typed.line \o p \in Seq(AnyByte)
        /\ Len(typed.line \o p) = Len(typed.line) + Len(p)
        /\ \A i \in 1 .. Len(typed.line) + Len(p) :
             (typed.line \o p)[i] = IF i <= Len(typed.line) THEN typed.line[i]
                                    ELSE p[i - Len(typed.line)]
    BY <2>1, <2>2, Zenon
  <2>. QED BY <1>3, <2>3, Zenon
<1>5. Len(typed.line) \in Nat
  OBVIOUS
<1>6. Len(typed.line) + Len(p) = Len(typed.line) + e - 1
  BY <1>1, <1>2, <1>5
<1>7. \A i \in 1 .. Len(typed.line) + e - 1 :
        ~ (i <= Len(typed.line)) => i - Len(typed.line) \in 1 .. e - 1
  BY <1>1, <1>5
<1>8. \A i \in 1 .. Len(typed.line) + e - 1 :
        LineUpTo(s)[i] = IF i <= Len(typed.line) THEN typed.line[i] ELSE s[i - Len(typed.line)]
  <2> HIDE DEF e, p
  <2>. QED BY <1>2, <1>4, <1>6, <1>7
<1>9. LineUpTo(s) \in Seq(AnyByte) /\ Len(LineUpTo(s)) = Len(typed.line) + e - 1
  BY <1>4, <1>6
<1>. QED BY <1>8, <1>9

LEMMA LineLeftType ==
  ASSUME typed.line \in Seq(AnyByte), NEW s \in Seq(Bytes \cup {CR, LF})
  PROVE  LineLeft(s) \in Seq(AnyByte)
<1>1. s \in Seq(AnyByte) /\ Len(s) \in Nat
  <2>1. Bytes \cup {CR, LF} \subseteq AnyByte
    BY DEF AnyByte
  <2>. QED BY <2>1
<1>2. CASE Ends(s) = {}
  BY <1>1, <1>2, ConcatProperties DEF LineLeft
<1>3. CASE Ends(s) # {}
  <2>1. Max(Ends(s)) + 1 \in 1 .. Len(s) + 1 /\ Len(s) \in Max(Ends(s)) + 1 - 1 .. Len(s)
    BY <1>1, <1>3, EndsAre
  <2>. QED BY <1>1, <1>3, <2>1, PartIs DEF LineLeft
<1>. QED BY <1>2, <1>3
\* What a read leaves as it was, and what it makes of the user's side.
LEMMA ReadTypes ==
  ASSUME CommandInv, NEW s \in Seq(Bytes \cup {CR, LF}), s # <<>>, Read(s)
  PROVE  /\ task = "command_task" /\ task' = task /\ ~handling
         /\ pos' = pos + Len(s) /\ pos' \in Nat \ {0}
         /\ typed' \in [bytes : Nat, line : Seq(AnyByte), entering : BOOLEAN]
         /\ typed'.bytes <= MaxTyped /\ pos' <= BUF_SIZE
         /\ typed'.line = LineLeft(s) /\ ~halted /\ ~halted'
         /\ line' \in [1 .. Size(task') -> AnyByte]
         /\ orderly' \in BOOLEAN
<1> DEFINE n == pos + Len(s)
           d == WithBytes(s)
<1>1. /\ Reading("command_task", Len(s)) /\ Typing(s)
      /\ line' = Ended(d, n) /\ pos' = n /\ n <= BUF_SIZE
      /\ task' = task /\ halted' = halted
  BY DEF Read
<1>2. /\ task = "command_task" /\ ~handling /\ ~halted
      /\ typed.bytes + Len(s) <= MaxTyped
  BY <1>1 DEF Reading
<1>3. /\ n \in Nat \ {0} /\ d \in [1 .. Size(task) -> AnyByte]
  BY <1>1, WithBytesIs
<1>4. line' \in [1 .. Size(task') -> AnyByte]
  <2> HIDE DEF d, n
  <2>. QED BY <1>1, <1>3 DEF Ended, AnyByte
<1>5. /\ typed' = [bytes |-> typed.bytes + Len(s), line |-> LineLeft(s),
                   entering |-> s[Len(s)] = CR]
      /\ orderly' \in BOOLEAN
  BY <1>1 DEF Typing
<1>6. typed.bytes \in Nat /\ typed.line \in Seq(AnyByte) /\ Len(s) \in Nat
  <2>1. typed \in [bytes : Nat, line : Seq(AnyByte), entering : BOOLEAN]
    BY DEF CommandInv, CommandTypeOK
  <2>. QED BY <2>1
<1>7. LineLeft(s) \in Seq(AnyByte)
  BY <1>6, LineLeftType
<1>. QED BY <1>1, <1>2, <1>3, <1>4, <1>5, <1>6, <1>7

LEMMA LineUpToType ==
  ASSUME typed.line \in Seq(AnyByte), NEW s \in Seq(Bytes \cup {CR, LF})
  PROVE  LineUpTo(s) \in Seq(AnyByte)
<1>1. CASE Ends(s) = {}
  <2>1. s \in Seq(AnyByte) /\ Len(s) \in Nat
    BY DEF AnyByte
  <2>2. SubSeq(s, 1, Len(s)) \in Seq(AnyByte)
    BY <2>1, PartIs
  <2>. QED BY <1>1, <2>2, ConcatProperties DEF LineUpTo
<1>2. CASE Ends(s) # {}
  BY <1>2, LineUpToIs
<1>. QED BY <1>1, <1>2

LEMMA ReadLines ==
  ASSUME CommandInv, NEW s \in Seq(Bytes \cup {CR, LF}), s # <<>>, Read(s)
  PROVE  /\ LineUpTo(s) \in Seq(AnyByte) /\ lines' \in Seq(Seq(AnyByte))
         /\ lines' = IF Ends(s) = {} THEN lines ELSE Append(lines, LineUpTo(s))
<1>1. typed.line \in Seq(AnyByte) /\ lines \in Seq(Seq(AnyByte))
  <2>1. typed \in [bytes : Nat, line : Seq(AnyByte), entering : BOOLEAN]
    BY DEF CommandInv, CommandTypeOK
  <2>. QED BY <2>1 DEF CommandInv, CommandTypeOK
<1>2. LineUpTo(s) \in Seq(AnyByte)
  BY <1>1, LineUpToType
<1>3. lines' = IF Ends(s) = {} THEN lines ELSE Append(lines, LineUpTo(s))
  BY DEF Read, Typing
<1>. QED BY <1>1, <1>2, <1>3

\* A read that ends no line, or only an empty one.
LEMMA Unparsed ==
  ASSUME CommandInv, NEW s \in Seq(Bytes \cup {CR, LF}), s # <<>>, Read(s),
         UNCHANGED <<handling, handled>>, orderly' => orderly /\ UNCHANGED lines,
         Spoilt' \/ Holds',
         orderly' => ~typed'.entering /\ Holds' /\ pos' = Len(typed'.line)
  PROVE  CommandInv'
<1>1. /\ task = "command_task" /\ task' = task /\ ~handling /\ ~halted'
      /\ pos' \in Nat \ {0}
      /\ typed' \in [bytes : Nat, line : Seq(AnyByte), entering : BOOLEAN]
      /\ typed'.bytes <= MaxTyped /\ pos' <= BUF_SIZE
      /\ line' \in [1 .. Size(task') -> AnyByte]
      /\ orderly' \in BOOLEAN
  BY ReadTypes
<1>2. LinesAreHandled' /\ NeverMixesLines'
  BY <1>1, NoMore DEF CommandInv
<1>3. lines' \in Seq(Seq(AnyByte))
  BY ReadLines
<1>4. CommandTypeOK'
  BY <1>1, <1>3 DEF CommandInv, CommandTypeOK
<1>5. ArrayInv' /\ BufferInv'
  BY <1>1 DEF ArrayInv, BufferInv
<1>. QED BY <1>2, <1>4, <1>5 DEF CommandInv

\* A read that ends a line, of which text is parsed.
LEMMA Parsed ==
  ASSUME CommandInv, NEW s \in Seq(Bytes \cup {CR, LF}), s # <<>>, Read(s),
         handling' = TRUE, NEW text \in Seq(AnyByte),
         handled' = Append(handled, [text |-> text, line |-> LineUpTo(s)]),
         IsPrefix(text, LineUpTo(s)) \/ IsSuffix(text, LineUpTo(s)),
         orderly' => /\ orderly /\ text = LineUpTo(s) /\ Ends(s) # {}
                     /\ ~typed'.entering /\ typed'.line = <<>>
  PROVE  CommandInv'
<1>1. /\ task = "command_task" /\ task' = task /\ ~halted'
      /\ pos' \in Nat \ {0}
      /\ typed' \in [bytes : Nat, line : Seq(AnyByte), entering : BOOLEAN]
      /\ typed'.bytes <= MaxTyped /\ pos' <= BUF_SIZE
      /\ line' \in [1 .. Size(task') -> AnyByte]
      /\ orderly' \in BOOLEAN
  BY ReadTypes
<1>3. LineUpTo(s) \in Seq(AnyByte) /\ lines' \in Seq(Seq(AnyByte))
  BY ReadLines
<1>4. orderly' => lines' = Append(lines, LineUpTo(s))
  BY ReadLines
<1>5. PICK l \in Seq(AnyByte) : l = LineUpTo(s)
  BY <1>3
<1>6. PICK h \in [text : Seq(AnyByte), line : Seq(AnyByte)] :
        h = [text |-> text, line |-> l] /\ h.text = text /\ h.line = l
  BY <1>5
<1>7. Fitting(l) = l
  BY <1>1 DEF Fitting
<1>8. /\ handled' \in Seq([text : Seq(AnyByte), line : Seq(AnyByte)])
      /\ lines' \in Seq(Seq(AnyByte))
      /\ LinesAreHandled' /\ NeverMixesLines'
  <2>1. handled' = Append(handled, h) /\ task' = task
    BY <1>1, <1>5, <1>6
  <2>2. orderly' => orderly /\ lines' = Append(lines, l) /\ h.text = Fitting(l)
    BY <1>4, <1>5, <1>6, <1>7
  <2>3. IsPrefix(h.text, h.line) \/ IsSuffix(h.text, h.line)
    BY <1>5, <1>6
  <2>. QED BY <1>3, <2>1, <2>2, <2>3, OneMore DEF CommandInv
<1>9. CommandTypeOK'
  <2>1. task' \in Tasks
    BY <1>1 DEF CommandInv, CommandTypeOK
  <2>. QED BY <1>1, <1>8, <2>1 DEF CommandTypeOK
<1>10. ArrayInv' /\ BufferInv'
  BY <1>1 DEF ArrayInv, BufferInv
<1>. QED BY <1>8, <1>9, <1>10 DEF CommandInv
\* The buffer begins with the end of an empty line: an empty text is parsed at
\* the next end of line.
LEMMA ReadSpoilt ==
  ASSUME CommandInv, NEW s \in Seq(Bytes \cup {CR, LF}), s # <<>>, Read(s), Spoilt
  PROVE  CommandInv'
<1> DEFINE n == pos + Len(s)
           d == WithBytes(s)
           f == FirstEol(d, n)
<1>1. /\ Reading("command_task", Len(s)) /\ Typing(s) /\ n <= BUF_SIZE
      /\ line' = Ended(d, n) /\ pos' = n /\ task' = task
  BY DEF Read
<1>2. /\ n \in Nat \ {0} /\ n <= Size(task) /\ d \in [1 .. Size(task) -> AnyByte]
      /\ Size(task) \in Nat /\ \A i \in 1 .. pos : d[i] = line[i]
  BY <1>1, WithBytesIs, LineIs DEF CommandInv
<1>3. d[1] = NUL /\ ~IsEol(d[1]) /\ pos \in Nat \ {0}
  <2>1. pos \in Nat \ {0} /\ line[1] = NUL
    BY DEF Spoilt, CommandInv, CommandTypeOK
  <2> HIDE DEF d
  <2>. QED BY <1>2, <2>1, CommandLineAssumption DEF IsEol
<1>4. ~orderly /\ ~orderly'
  <2>1. line[1] = NUL /\ 1 \in 1 .. pos /\ ~handling /\ ~halted /\ task = "command_task"
    BY <1>1, <1>3 DEF Spoilt, Reading
  <2>2. NUL \notin Bytes
    BY CommandLineAssumption
  <2>3. ~Holds
    BY <2>1, <2>2 DEF Holds
  <2>. QED BY <1>1, <2>1, <2>3 DEF CommandInv, BufferInv, Typing
<1>5. CASE f = 0
  <2>1. /\ line' = d /\ UNCHANGED <<handling, handled>>
    BY <1>1, <1>5 DEF Ended, Read, argparser_check_for_eol
  <2>2. Spoilt'
    <3> HIDE DEF d
    <3>. QED BY <1>1, <1>2, <1>3, <2>1 DEF Spoilt
  <2>. QED BY <1>4, <2>1, <2>2, Unparsed
<1>6. CASE f # 0
  <2>1. f \in 1 .. n /\ IsEol(d[f])
    BY <1>2, <1>6, FirstEolIs
  <2>2. f # 1
    BY <1>3, <2>1
  <2>3. line' = [d EXCEPT ![f] = NUL] /\ argparser_check_for_eol(d, n) = f - 1
    BY <1>1, <1>6 DEF Ended, argparser_check_for_eol
  <2>4. argparser_check_for_eol(d, n) # 0
    BY <1>2, <2>1, <2>2, <2>3
  <2>5. First({i \in 1 .. n : line'[i] = NUL}) = 1
    <3>1. line'[1] = NUL /\ 1 \in 1 .. n
      <4> HIDE DEF d, f
      <4>. QED BY <1>2, <1>3, <2>2, <2>3
    <3>2. n \in Nat /\ \A i \in 1 .. n : i < 1 => line'[i] # NUL
      <4> HIDE DEF d, f, n
      <4>. QED BY <1>2
    <3>. QED BY <3>1, <3>2, FirstNulIs, Zenon
  <2>6. PICK text : text = SubSeq(line', 1, First({i \in 1 .. n : line'[i] = NUL}) - 1)
    OBVIOUS
  <2>7. text \in Seq(AnyByte) /\ text = <<>>
    <3>1. line' \in Seq(AnyByte)
      <4>1. line' \in [1 .. Size(task) -> AnyByte]
        BY <1>1, ReadTypes
      <4>. QED BY <1>2, <4>1
    <3>2. SubSeq(line', 1, 0) = <<>>
      BY <3>1
    <3>3. text = <<>>
      BY <2>5, <2>6, <3>2
    <3>. QED BY <3>3, EmptySeq, Zenon
  <2>8. /\ handling' = TRUE
        /\ handled' = Append(handled, [text |-> text, line |-> LineUpTo(s)])
    <3> HIDE DEF f
    <3>. QED BY <2>4, <2>6 DEF Read
  <2>9. IsPrefix(text, LineUpTo(s))
    <3>1. PICK l \in Seq(AnyByte) : l = LineUpTo(s)
      BY ReadLines
    <3>2. Len(text) = 0 /\ Len(l) \in Nat
      BY <2>7
    <3>3. Len(text) <= Len(l) /\ \A i \in 1 .. Len(text) : text[i] = l[i]
      BY <3>2
    <3>4. IsPrefix(text, l)
      BY <2>7, <3>3, PrefixIs, Zenon
    <3>. QED BY <3>1, <3>4
  <2>. QED BY <1>4, <2>7, <2>8, <2>9, Parsed
<1>. QED BY <1>5, <1>6
\* The buffer holds the end of the line, which goes on.
LEMMA ReadOn ==
  ASSUME CommandInv, NEW s \in Seq(Bytes \cup {CR, LF}), s # <<>>, Read(s), Holds,
         Ends(s) = {}
  PROVE  CommandInv'
<1> DEFINE n == pos + Len(s)
           d == WithBytes(s)
           m == Len(typed.line)
<1>1. /\ Reading("command_task", Len(s)) /\ Typing(s) /\ n <= BUF_SIZE
      /\ line' = Ended(d, n) /\ pos' = n /\ task' = task
  BY DEF Read
<1>2. /\ n \in Nat \ {0} /\ n <= Size(task) /\ d \in [1 .. Size(task) -> AnyByte]
      /\ \A i \in 1 .. pos : d[i] = line[i]
      /\ \A i \in pos + 1 .. n : d[i] = s[i - pos]
      /\ Size(task) \in Nat
  BY <1>1, WithBytesIs, LineIs DEF CommandInv
<1>3. /\ pos \in Nat /\ pos <= m /\ m \in Nat /\ Len(s) \in Nat \ {0}
      /\ typed.line \in Seq(AnyByte) /\ s \in Seq(AnyByte)
      /\ \A i \in 1 .. pos : line[i] \in Bytes /\ line[i] = typed.line[m - pos + i]
  <2>1. typed \in [bytes : Nat, line : Seq(AnyByte), entering : BOOLEAN] /\ pos \in Nat
    BY DEF CommandInv, CommandTypeOK
  <2>2. Len(s) \in Nat \ {0}
    BY EmptySeq, Zenon
  <2>3. typed.line \in Seq(AnyByte) /\ m \in Nat
    BY <2>1
  <2>4. s \in Seq(AnyByte)
    BY DEF AnyByte
  <2>. QED BY <2>1, <2>2, <2>3, <2>4 DEF Holds
<1>4. \A i \in 1 .. Len(s) : s[i] \in Bytes /\ s[i] \notin {CR, LF}
  BY DEF Ends
<1>5. \A i \in 1 .. n : d[i] \in Bytes /\ ~IsEol(d[i])
  <2> SUFFICES ASSUME NEW i \in 1 .. n PROVE d[i] \in Bytes
    BY CommandLineAssumption DEF IsEol
  <2>1. CASE i <= pos
    <3>1. i \in 1 .. pos
      BY <1>3, <2>1
    <3> HIDE DEF d
    <3>. QED BY <1>2, <1>3, <3>1
  <2>2. CASE ~ (i <= pos)
    <3>1. i \in pos + 1 .. n /\ i - pos \in 1 .. Len(s)
      BY <1>3, <2>2
    <3> HIDE DEF d
    <3>. QED BY <1>2, <1>4, <3>1
  <2>. QED BY <2>1, <2>2
<1>6. FirstEol(d, n) = 0
  <2> HIDE DEF d, n
  <2>. QED BY <1>2, <1>5, FirstEolIs
<1>7. line' = d /\ UNCHANGED <<handling, handled>>
  BY <1>1, <1>6 DEF Ended, Read, argparser_check_for_eol
<1>8. /\ typed'.line = typed.line \o s /\ typed'.entering = FALSE
      /\ lines' = lines /\ orderly' = orderly
  <2>1. Len(s) \in 1 .. Len(s)
    BY <1>3
  <2>2. s[Len(s)] # CR
    BY <1>4, <2>1
  <2>3. typed' = [bytes |-> typed.bytes + Len(s), line |-> typed.line \o s,
                  entering |-> s[Len(s)] = CR]
    BY <1>1 DEF Typing, LineLeft
  <2>4. typed'.line = typed.line \o s
    BY <2>3
  <2>5. typed'.entering = FALSE
    BY <2>2, <2>3
  <2>6. lines' = lines /\ orderly' = (orderly /\ TRUE) /\ orderly \in BOOLEAN
    BY <1>1 DEF Typing, CommandInv, CommandTypeOK
  <2>. QED BY <2>4, <2>5, <2>6
<1>9. /\ Len(typed'.line) = m + Len(s)
      /\ \A i \in 1 .. m + Len(s) :
           typed'.line[i] = IF i <= m THEN typed.line[i] ELSE s[i - m]
  <2>1. \A q, r \in Seq(AnyByte) :
          /\ Len(q \o r) = Len(q) + Len(r)
          /\ \A i \in 1 .. Len(q) + Len(r) :
               (q \o r)[i] = IF i <= Len(q) THEN q[i] ELSE r[i - Len(q)]
    BY ConcatProperties, Zenon
  <2>2. /\ Len(typed.line \o s) = m + Len(s)
        /\ \A i \in 1 .. m + Len(s) :
             (typed.line \o s)[i] = IF i <= m THEN typed.line[i] ELSE s[i - m]
    BY <1>3, <2>1, Zenon
  <2>. QED BY <1>8, <2>2, Zenon
<1>10. Holds'
  <2>1. pos' <= Len(typed'.line)
    BY <1>1, <1>3, <1>9
  <2>2. ASSUME NEW i \in 1 .. n
        PROVE  d[i] = typed'.line[Len(typed'.line) - n + i]
    <3>0. /\ pos \in Int /\ m \in Int /\ Len(s) \in Int /\ pos <= m
          /\ i \in Int /\ 1 <= i /\ i <= pos + Len(s)
      BY <1>3
    <3>1. PICK j \in 1 .. m + Len(s) : j = m - pos + i
      <4> HIDE DEF m
      <4>1. m - pos + i \in 1 .. m + Len(s)
        BY <3>0
      <4>. QED BY <4>1
    <3>2. Len(typed'.line) - n + i = j
      BY <1>3, <1>9, <3>1
    <3>3. typed'.line[j] = IF j <= m THEN typed.line[j] ELSE s[j - m]
      BY <1>9, Zenon
    <3>4. CASE i <= pos
      <4>1. i \in 1 .. pos /\ j <= m
        BY <1>3, <3>1, <3>4
      <4>2. d[i] = typed.line[j]
        <5> HIDE DEF d
        <5>. QED BY <1>2, <1>3, <3>1, <4>1
      <4>. QED BY <3>2, <3>3, <4>1, <4>2
    <3>5. CASE ~ (i <= pos)
      <4>1. i \in pos + 1 .. n /\ ~ (j <= m) /\ j - m = i - pos
        BY <1>3, <3>1, <3>5
      <4>2. d[i] = s[j - m]
        <5> HIDE DEF d
        <5>. QED BY <1>2, <4>1
      <4>. QED BY <3>2, <3>3, <4>1, <4>2
    <3>. QED BY <3>4, <3>5
  <2> HIDE DEF d, n
  <2>. QED BY <1>1, <1>5, <1>7, <2>1, <2>2 DEF Holds
<1>11. orderly' => pos' = Len(typed'.line)
  <2>1. orderly => pos = m
    BY <1>1 DEF CommandInv, BufferInv, Reading
  <2>. QED BY <1>1, <1>3, <1>8, <1>9, <2>1
<1>. QED BY <1>7, <1>8, <1>10, <1>11, Unparsed
\* The last two places, and the one before them.
LEMMA LastTwo ==
  ASSUME NEW n \in Nat, n - 1 \in 1 .. n
  PROVE  /\ n \in 1 .. n /\ n # 1
         /\ n - 1 # 1 => n - 1 - 1 \in 1 .. n /\ n - 1 - 1 # n - 1 /\ n - 1 - 1 # n
         /\ \A x : x \in {n - 1, n} /\ (\A y \in {n - 1, n} : x >= y) => x = n
OBVIOUS

\* Nothing is behind the last place.
LEMMA NothingBehind ==
  ASSUME NEW S, NEW s \in Seq(S)
  PROVE  SubSeq(s, Len(s) + 1, Len(s)) = <<>>
<1>1. /\ Len(s) + 1 \in 1 .. Len(s) + 1 /\ Len(s) \in (Len(s) + 1) - 1 .. Len(s)
      /\ Len(s) - (Len(s) + 1) + 1 = 0
  OBVIOUS
<1>2. /\ SubSeq(s, Len(s) + 1, Len(s)) \in Seq(S)
      /\ Len(SubSeq(s, Len(s) + 1, Len(s))) = Len(s) - (Len(s) + 1) + 1
  BY <1>1, PartIs, Zenon
<1>3. PICK q \in Seq(S) : q = SubSeq(s, Len(s) + 1, Len(s)) /\ Len(q) = 0
  BY <1>1, <1>2, Zenon
<1>. QED BY <1>3, EmptySeq, Zenon

\* If it ends the read, the read ends with the whole of what the enter key
\* sends.
LEMMA EntersWhole ==
  ASSUME typed.line \in Seq(AnyByte), NEW s \in Seq(Bytes \cup {CR, LF}),
         Ends(s) = {Len(s) - 1, Len(s)}, CanFollow(s), ~typed.entering
  PROVE  s[Len(s)] # CR /\ LineLeft(s) = <<>>
<1>1. /\ Len(s) \in Nat /\ DOMAIN s = 1 .. Len(s)
      /\ \A i \in 1 .. Len(s) : i \in Ends(s) <=> s[i] \in {CR, LF}
  BY DEF Ends
<1>2. Len(s) - 1 \in 1 .. Len(s)
  <2>1. Ends(s) \subseteq 1 .. Len(s)
    BY <1>1 DEF Ends
  <2>. QED BY <2>1
<1>3. /\ Len(s) \in 1 .. Len(s) /\ Len(s) # 1
      /\ Len(s) - 1 # 1 => /\ Len(s) - 1 - 1 \in 1 .. Len(s)
                           /\ Len(s) - 1 - 1 # Len(s) - 1
                           /\ Len(s) - 1 - 1 # Len(s)
  BY <1>1, <1>2, LastTwo, Zenon
<1>4. s[Len(s) - 1] = CR
  <2>1. s[Len(s) - 1] \in {CR, LF}
    BY <1>1, <1>2
  <2>2. ASSUME s[Len(s) - 1] = LF PROVE FALSE
    <3>1. Len(s) - 1 # 1 /\ s[Len(s) - 1 - 1] = CR
      BY <1>1, <1>2, <2>2 DEF CanFollow
    <3>2. Len(s) - 1 - 1 \notin Ends(s)
      BY <1>3, <3>1, Zenon
    <3>. QED BY <1>1, <1>3, <3>1, <3>2, Zenon
  <2>. QED BY <2>1, <2>2
<1>5. s[Len(s)] = LF
  BY <1>1, <1>3, <1>4, Zenon DEF CanFollow
<1>6. LineLeft(s) = <<>>
  <2>1. Max(Ends(s)) \in Ends(s) /\ \A y \in Ends(s) : Max(Ends(s)) >= y
    <3>1. Ends(s) \in SUBSET (1 .. Len(s)) /\ Ends(s) # {}
      BY <1>2
    <3>. QED BY <1>1, <3>1, MaxIs
  <2>2. Max(Ends(s)) = Len(s)
    BY <1>1, <1>2, <2>1, LastTwo, Zenon
  <2>3. SubSeq(s, Len(s) + 1, Len(s)) = <<>>
    BY NothingBehind, Zenon
  <2>4. Ends(s) # {}
    OBVIOUS
  <2>. QED BY <2>2, <2>3, <2>4, Zenon DEF LineLeft
<1>. QED BY <1>5, <1>6, CommandLineAssumption

\* The buffer holds the end of the line, which ends: what is parsed is the end
\* of it, unless there is nothing to parse.
LEMMA ReadEnds ==
  ASSUME CommandInv, NEW s \in Seq(Bytes \cup {CR, LF}), s # <<>>, Read(s), Holds,
         Ends(s) # {}
  PROVE  CommandInv'
<1> DEFINE n == pos + Len(s)
           d == WithBytes(s)
           m == Len(typed.line)
           e == Min(Ends(s))
           f == pos + e
<1>1. /\ Reading("command_task", Len(s)) /\ Typing(s) /\ n <= BUF_SIZE
      /\ line' = Ended(d, n) /\ pos' = n /\ task' = task /\ ~handling /\ ~halted
      /\ task = "command_task"
  BY DEF Read, Reading
<1>2. /\ n \in Nat \ {0} /\ n <= Size(task) /\ d \in [1 .. Size(task) -> AnyByte]
      /\ \A i \in 1 .. pos : d[i] = line[i]
      /\ \A i \in pos + 1 .. n : d[i] = s[i - pos]
      /\ Size(task) \in Nat
  BY <1>1, WithBytesIs, LineIs DEF CommandInv
<1>3. /\ pos \in Nat /\ pos <= m /\ m \in Nat /\ Len(s) \in Nat \ {0}
      /\ typed.line \in Seq(AnyByte)
      /\ \A i \in 1 .. pos : line[i] \in Bytes /\ line[i] = typed.line[m - pos + i]
  <2>1. typed \in [bytes : Nat, line : Seq(AnyByte), entering : BOOLEAN] /\ pos \in Nat
    BY DEF CommandInv, CommandTypeOK
  <2>2. Len(s) \in Nat \ {0}
    BY EmptySeq, Zenon
  <2>3. typed.line \in Seq(AnyByte) /\ m \in Nat
    BY <2>1
  <2>. QED BY <2>1, <2>2, <2>3 DEF Holds
<1>4. /\ e \in 1 .. Len(s) /\ s[e] \in {CR, LF}
      /\ \A i \in 1 .. Len(s) : i < e => s[i] \in Bytes
  BY EndsAre
<1>5. f \in 1 .. n /\ f \in Nat /\ IsEol(d[f])
  <2>1. f \in pos + 1 .. n /\ f - pos = e /\ f \in 1 .. n
    BY <1>3, <1>4
  <2>2. d[f] = s[e]
    <3> HIDE DEF d, f, n, e
    <3>. QED BY <1>2, <2>1
  <2>. QED BY <1>4, <2>1, <2>2 DEF IsEol
<1>6. \A i \in 1 .. n : i < f => d[i] \in Bytes /\ ~IsEol(d[i]) /\ d[i] # NUL
  <2> SUFFICES ASSUME NEW i \in 1 .. n, i < f PROVE d[i] \in Bytes
    BY CommandLineAssumption DEF IsEol
  <2>1. CASE i <= pos
    <3>1. i \in 1 .. pos
      BY <1>3, <2>1
    <3> HIDE DEF d
    <3>. QED BY <1>2, <1>3, <3>1
  <2>2. CASE ~ (i <= pos)
    <3>1. i \in pos + 1 .. n /\ i - pos \in 1 .. Len(s) /\ i - pos < e
      BY <1>3, <1>4, <2>2
    <3> HIDE DEF d, e
    <3>. QED BY <1>2, <1>4, <3>1
  <2>. QED BY <2>1, <2>2
<1>7. FirstEol(d, n) = f
  <2> HIDE DEF d, n, f
  <2>1. FirstEol(d, n) # 0
    BY <1>2, <1>5, FirstEolIs
  <2>2. /\ FirstEol(d, n) \in 1 .. n /\ IsEol(d[FirstEol(d, n)])
        /\ FirstEol(d, n) <= f
    BY <1>2, <1>5, <2>1, FirstEolIs
  <2>3. ~ (FirstEol(d, n) < f)
    BY <1>6, <2>2
  <2>. QED BY <1>5, <2>2, <2>3
<1>8. line' = [d EXCEPT ![f] = NUL] /\ argparser_check_for_eol(d, n) = f - 1
  <2>1. f # 0
    BY <1>5
  <2>2. Ended(d, n) = [d EXCEPT ![f] = NUL]
    <3> HIDE DEF d, n, f
    <3>. QED BY <1>7, <2>1 DEF Ended
  <2>3. argparser_check_for_eol(d, n) = f - 1
    <3> HIDE DEF d, n, f
    <3>. QED BY <1>7, <2>1 DEF argparser_check_for_eol
  <2>. QED BY <1>1, <2>2, <2>3
<1>9. /\ LineUpTo(s) \in Seq(AnyByte) /\ Len(LineUpTo(s)) = m + e - 1
      /\ \A i \in 1 .. m + e - 1 :
           LineUpTo(s)[i] = IF i <= m THEN typed.line[i] ELSE s[i - m]
  BY <1>3, LineUpToIs
<1>10. orderly' => /\ orderly /\ Ends(s) = {Len(s) - 1, Len(s)} /\ LineUpTo(s) # <<>>
                   /\ pos = m /\ ~typed.entering
  <2>1. orderly' => orderly /\ Ends(s) = {Len(s) - 1, Len(s)} /\ LineUpTo(s) # <<>>
    BY <1>1 DEF Typing
  <2>2. orderly => pos = m /\ ~typed.entering
    BY <1>1 DEF CommandInv, BufferInv
  <2>. QED BY <2>1, <2>2
<1>11. CASE f = 1
  <2>1. pos = 0 /\ e = 1
    BY <1>3, <1>4, <1>11
  <2>2. UNCHANGED <<handling, handled>>
    <3>1. argparser_check_for_eol(d, n) = 0
      BY <1>8, <1>11
    <3>. QED BY <3>1 DEF Read
  <2>3. Spoilt'
    <3>1. line'[1] = NUL
      <4>1. 1 \in 1 .. Size(task)
        BY <1>2
      <4> HIDE DEF d, f
      <4>. QED BY <1>2, <1>8, <1>11, <4>1
    <3>. QED BY <1>1, <1>2, <3>1 DEF Spoilt
  <2>4. ~orderly'
    <3>1. ASSUME orderly' PROVE FALSE
      <4>1. Len(LineUpTo(s)) = 0
        BY <1>9, <1>10, <2>1, <3>1
      <4>2. PICK l \in Seq(AnyByte) : l = LineUpTo(s)
        BY <1>9
      <4>3. l = <<>>
        BY <4>1, <4>2, EmptySeq
      <4>. QED BY <1>10, <3>1, <4>2, <4>3
    <3>. QED BY <3>1
  <2>. QED BY <2>2, <2>3, <2>4, Unparsed
<1>12. CASE f # 1
  <2>1. argparser_check_for_eol(d, n) # 0
    BY <1>5, <1>8, <1>12
  <2>2. First({i \in 1 .. n : line'[i] = NUL}) = f
    <3> HIDE DEF d, f, n
    <3>1. f \in 1 .. Size(task)
      BY <1>2, <1>5
    <3>2. line'[f] = NUL
      BY <1>2, <1>8, <3>1
    <3>3. \A i \in 1 .. n : i < f => line'[i] = d[i] /\ line'[i] # NUL
      <4>1. \A i \in 1 .. n : i < f => i \in 1 .. Size(task) /\ i # f
        BY <1>2, <1>5
      <4>. QED BY <1>2, <1>6, <1>8, <4>1
    <3>. QED BY <1>2, <1>5, <3>2, <3>3, FirstNulIs
  <2>3. PICK text : text = SubSeq(line', 1, f - 1)
    OBVIOUS
  <2>4. /\ text \in Seq(AnyByte) /\ Len(text) = f - 1
        /\ \A i \in 1 .. f - 1 : text[i] = d[i]
    <3> HIDE DEF d, f, n
    <3>1. line' \in [1 .. Size(task) -> AnyByte]
      BY <1>1, ReadTypes
    <3>2. PICK L \in Seq(AnyByte) : L = line' /\ Len(L) = Size(task)
      BY <1>2, <3>1
    <3>3. f - 1 \in 1 - 1 .. Len(L) /\ 1 \in 1 .. Len(L) + 1 /\ f - 1 - 1 + 1 = f - 1
      BY <1>2, <1>5, <3>2
    <3>4. /\ SubSeq(L, 1, f - 1) \in Seq(AnyByte)
          /\ Len(SubSeq(L, 1, f - 1)) = f - 1 - 1 + 1
          /\ \A i \in 1 .. f - 1 - 1 + 1 : SubSeq(L, 1, f - 1)[i] = L[i + 1 - 1]
      BY <3>3, PartIs
    <3>5. \A i \in 1 .. f - 1 : i + 1 - 1 = i /\ L[i] = d[i]
      <4>1. \A i \in 1 .. f - 1 : i \in 1 .. Size(task) /\ i # f
        BY <1>2, <1>5
      <4>. QED BY <1>2, <1>8, <3>2, <4>1
    <3>. QED BY <2>3, <3>2, <3>3, <3>4, <3>5
  <2>5. PICK l \in Seq(AnyByte) : l = LineUpTo(s)
    BY <1>9
  <2>6. /\ Len(text) <= Len(l) /\ Len(l) - Len(text) = m - pos
        /\ \A i \in 1 .. Len(text) : text[i] = l[Len(l) - Len(text) + i]
    <3>1. /\ pos \in Int /\ m \in Int /\ e \in Int /\ pos <= m /\ 1 <= e /\ e <= Len(s)
          /\ Len(s) \in Int
      BY <1>3, <1>4
    <3>2. Len(text) = pos + e - 1 /\ Len(l) = m + e - 1
      <4>1. Len(l) = m + e - 1
        BY <1>9, <2>5, Zenon
      <4>2. Len(text) = f - 1
        BY <2>4, Zenon
      <4>3. f = pos + e
        BY <1>5
      <4> HIDE DEF m, e, f
      <4>. QED BY <3>1, <4>1, <4>2, <4>3
    <3>3. Len(text) <= Len(l) /\ Len(l) - Len(text) = m - pos
      <4> HIDE DEF m, e
      <4>. QED BY <3>1, <3>2
    <3>4. ASSUME NEW i \in 1 .. Len(text)
          PROVE  text[i] = l[m - pos + i]
      <4>1. i \in Int /\ 1 <= i /\ i <= pos + e - 1
        BY <3>2
      <4>2. PICK j \in 1 .. m + e - 1 : j = m - pos + i
        <5> HIDE DEF m, e
        <5>1. m - pos + i \in 1 .. m + e - 1
          BY <3>1, <4>1
        <5>. QED BY <5>1
      <4>3. l[j] = IF j <= m THEN typed.line[j] ELSE s[j - m]
        BY <1>9, <2>5, Zenon
      <4>4. text[i] = d[i]
        BY <2>4, <3>1, <4>1
      <4>5. CASE i <= pos
        <5>1. i \in 1 .. pos /\ j <= m
          BY <3>1, <4>1, <4>2, <4>5
        <5>2. d[i] = typed.line[j]
          <6> HIDE DEF d
          <6>. QED BY <1>2, <1>3, <4>2, <5>1
        <5>. QED BY <4>2, <4>3, <4>4, <5>1, <5>2
      <4>6. CASE ~ (i <= pos)
        <5>1. i \in pos + 1 .. n /\ ~ (j <= m) /\ j - m = i - pos
          BY <3>1, <4>1, <4>2, <4>6
        <5>2. d[i] = s[j - m]
          <6> HIDE DEF d
          <6>. QED BY <1>2, <5>1
        <5>. QED BY <4>2, <4>3, <4>4, <5>1, <5>2
      <4>. QED BY <4>5, <4>6
    <3>. QED BY <3>3, <3>4
  <2>7. IsSuffix(text, l)
    BY <2>4, <2>6, SuffixIs
  <2>8. orderly' => text = l /\ ~typed'.entering /\ typed'.line = <<>>
    <3> SUFFICES ASSUME orderly' PROVE text = l /\ ~typed'.entering /\ typed'.line = <<>>
      OBVIOUS
    <3>1. pos = m
      BY <1>10
    <3>2. Len(text) = Len(l) /\ \A i \in 1 .. Len(text) : text[i] = l[i]
      <4>1. Len(text) \in Nat /\ Len(l) \in Nat
        BY <2>4
      <4>2. Len(l) - Len(text) = 0
        BY <1>3, <2>6, <3>1
      <4>3. Len(text) = Len(l) /\ \A i \in 1 .. Len(text) : Len(l) - Len(text) + i = i
        BY <4>1, <4>2
      <4>. QED BY <2>6, <4>3
    <3>3. text = l
      BY <2>4, <3>2, SeqEqual
    <3>4. s[Len(s)] # CR /\ LineLeft(s) = <<>>
      BY <1>1, <1>3, <1>10, EntersWhole DEF Typing
    <3>5. typed' = [bytes |-> typed.bytes + Len(s), line |-> LineLeft(s),
                    entering |-> s[Len(s)] = CR]
      BY <1>1 DEF Typing
    <3>. QED BY <3>3, <3>4, <3>5
  <2>9. /\ handling' = TRUE
        /\ handled' = Append(handled, [text |-> text, line |-> LineUpTo(s)])
    <3>1. /\ handling' = TRUE
          /\ handled' = Append(handled,
               [text |-> SubSeq(line', 1, First({i \in 1 .. n : line'[i] = NUL}) - 1),
                line |-> LineUpTo(s)])
      BY <2>1 DEF Read
    <3> HIDE DEF d, n, f
    <3>. QED BY <2>2, <2>3, <3>1
  <2>10. \/ IsPrefix(text, LineUpTo(s)) \/ IsSuffix(text, LineUpTo(s))
    BY <2>5, <2>7
  <2>11. orderly' => /\ orderly /\ text = LineUpTo(s) /\ Ends(s) # {}
                     /\ ~typed'.entering /\ typed'.line = <<>>
    BY <1>10, <2>5, <2>8
  <2>. QED BY <2>4, <2>9, <2>10, <2>11, Parsed
<1>. QED BY <1>11, <1>12

\* Behind the buffer nothing more is read.
LEMMA OverrunKeeps ==
  ASSUME CommandInv, NEW s \in Seq(Bytes \cup {CR, LF}), Overrun(s)
  PROVE  CommandInv'
<1>1. /\ task = "command_task" /\ ~handling /\ halted' /\ pos' = pos + Len(s)
      /\ UNCHANGED <<line, task, handling, typed, lines, handled, orderly>>
  BY DEF Overrun, Reading
<1>2. CommandTypeOK'
  BY <1>1 DEF CommandInv, CommandTypeOK, Size
<1>3. LinesAreHandled' /\ NeverMixesLines'
  BY <1>1, NoMore DEF CommandInv
<1>4. ArrayInv' /\ BufferInv'
  BY <1>1 DEF ArrayInv, BufferInv
<1>. QED BY <1>2, <1>3, <1>4 DEF CommandInv

\* What command_task reads.
LEMMA Typed ==
  ASSUME command_task
  PROVE  \E s \in Seq(Bytes \cup {CR, LF}) :
           s # <<>> /\ Len(s) <= MaxRead /\ (Read(s) \/ Overrun(s))
<1>1. PICK s \in BoundedSeq(Bytes \cup {CR, LF}, MaxRead) \ {<<>>} : Read(s) \/ Overrun(s)
  BY DEF command_task
<1>2. s \in Seq(Bytes \cup {CR, LF}) /\ s # <<>> /\ Len(s) <= MaxRead
  BY <1>1, CommandLineAssumption DEF BoundedSeq, SeqOf
<1>. QED BY <1>1, <1>2

LEMMA ReadKeepsLines == CommandInv /\ command_task => CommandInv'
<1> SUFFICES ASSUME CommandInv, command_task PROVE CommandInv'
  OBVIOUS
<1>1. PICK s \in Seq(Bytes \cup {CR, LF}) : s # <<>> /\ (Read(s) \/ Overrun(s))
  BY Typed
<1>2. CASE Overrun(s)
  BY <1>2, OverrunKeeps
<1>3. ASSUME Read(s) PROVE Spoilt \/ Holds
  <2>1. task = "command_task" /\ ~handling /\ ~halted
    BY <1>3 DEF Read, Reading
  <2>. QED BY <2>1 DEF CommandInv, BufferInv
<1>4. CASE Read(s) /\ Spoilt
  BY <1>1, <1>4, ReadSpoilt
<1>5. CASE Read(s) /\ Holds /\ Ends(s) = {}
  BY <1>1, <1>5, ReadOn
<1>6. CASE Read(s) /\ Holds /\ Ends(s) # {}
  BY <1>1, <1>6, ReadEnds
<1>. QED BY <1>1, <1>2, <1>3, <1>4, <1>5, <1>6

LEMMA CommandInvariance == CommandSpec => []CommandInv
<1>1. CommandInv /\ [CommandNext]_commandvars => CommandInv'
  <2> SUFFICES ASSUME CommandInv, [CommandNext]_commandvars PROVE CommandInv'
    OBVIOUS
  <2>1. CASE UNCHANGED commandvars
    <3>1. CommandTypeOK' /\ ArrayInv' /\ BufferInv'
      BY <2>1 DEF commandvars, own, CommandInv, CommandTypeOK, ArrayInv, BufferInv,
         Spoilt, Holds, Size
    <3>2. LinesAreHandled' /\ NeverMixesLines'
      BY <2>1, NoMore DEF commandvars, own, CommandInv
    <3>. QED BY <3>1, <3>2 DEF CommandInv
  <2>2. CASE gpiomon
    BY <2>2, EndOfLineKeeps, ByteKeeps DEF gpiomon
  <2>. QED BY <2>1, <2>2, ReadKeepsLines, ParseKeeps, CommandKeeps DEF CommandNext
<1>. QED BY <1>1, CommandInitInv, PTL DEF CommandSpec

-----------------------------------------------------------------------------
\* What the lines pass through keeps its type, with the buffers at their full
\* size (terminal.c:188-206, terminal_main.c:400-441).
THEOREM CommandTypeCorrect == CommandSpec => []CommandTypeOK
<1>1. CommandInv => CommandTypeOK
  BY DEF CommandInv
<1>. QED BY <1>1, CommandInvariance, PTL

\* For any size of the array and any reads, what is parsed is what was typed,
\* as far as it fits (terminal.c:194-203, terminal_main.c:427-438).
THEOREM LinesAreWhole == CommandSpec => []LinesAreHandled
<1>1. CommandInv => LinesAreHandled
  BY DEF CommandInv
<1>. QED BY <1>1, CommandInvariance, PTL

\* However a line is cut into reads, what is parsed is of one line
\* (terminal.c:194-203, terminal_main.c:427-438).
THEOREM LinesStayApart == CommandSpec => []NeverMixesLines
<1>1. CommandInv => NeverMixesLines
  BY DEF CommandInv
<1>. QED BY <1>1, CommandInvariance, PTL

-----------------------------------------------------------------------------
\* What pos has to do with the line: a line that is not ended yet fills the
\* buffer, but for the end of an empty line before it; only in a buffer that
\* begins with one, and that one read has filled, is there another.
NoEol == \A i \in 1 .. pos : ~IsEol(line[i])
RoomInv ==
  task = "command_task" =>
    /\ halted => PosIsWithin
    /\ ~halted /\ ~handling =>
         IF NoEol THEN pos <= 1 + Len(typed.line) ELSE Spoilt /\ pos <= MaxRead

LEMMA ReadKeepsRoom ==
  ASSUME CommandInv, RoomInv, NEW s \in Seq(Bytes \cup {CR, LF}), s # <<>>,
         Len(s) <= MaxRead, Read(s)
  PROVE  RoomInv'
<1> DEFINE n == pos + Len(s)
           d == WithBytes(s)
           f == FirstEol(d, n)
<1>1. /\ Reading("command_task", Len(s)) /\ n <= BUF_SIZE
      /\ line' = Ended(d, n) /\ pos' = n
      /\ task = "command_task" /\ ~handling /\ ~halted
  BY DEF Read, Reading
<1>2. /\ ~halted' /\ typed'.line = LineLeft(s) /\ Len(s) \in Nat \ {0} /\ pos \in Nat
      /\ typed.line \in Seq(AnyByte) /\ s \in Seq(AnyByte)
  <2>1. typed \in [bytes : Nat, line : Seq(AnyByte), entering : BOOLEAN]
    BY DEF CommandInv, CommandTypeOK
  <2>2. Len(s) \in Nat \ {0}
    BY EmptySeq, Zenon
  <2>3. s \in Seq(AnyByte)
    BY DEF AnyByte
  <2>. QED BY <2>1, <2>2, <2>3, ReadTypes DEF CommandInv, CommandTypeOK
<1>3. /\ n \in Nat \ {0} /\ n <= Size(task) /\ d \in [1 .. Size(task) -> AnyByte]
      /\ \A i \in 1 .. pos : d[i] = line[i]
      /\ \A i \in pos + 1 .. n : d[i] = s[i - pos]
      /\ Size(task) \in Nat
  BY <1>1, WithBytesIs, LineIs DEF CommandInv
<1>4. \A i \in 1 .. Len(s) : d[pos + i] = s[i] /\ pos + i \in 1 .. n
  <2> HIDE DEF d
  <2> TAKE i \in 1 .. Len(s)
  <2>1. pos + i \in pos + 1 .. n /\ (pos + i) - pos = i
    BY <1>2
  <2>. QED BY <1>2, <1>3, <2>1
<1>5. CASE argparser_check_for_eol(d, n) # 0
  <2>1. handling' = TRUE
    BY <1>5 DEF Read
  <2>. QED BY <1>2, <2>1 DEF RoomInv
<1>6. CASE f = 0
  <2>1. \A i \in 1 .. n : ~IsEol(d[i])
    BY <1>3, <1>6, FirstEolIs
  <2>2. Ends(s) = {}
    <3> HIDE DEF d
    <3>. QED BY <1>4, <2>1 DEF Ends, IsEol
  <2>3. NoEol
    <3> HIDE DEF d
    <3>. QED BY <1>2, <1>3, <2>1 DEF NoEol
  <2>4. pos <= 1 + Len(typed.line)
    BY <1>1, <2>3 DEF RoomInv
  <2>5. Len(typed'.line) = Len(typed.line) + Len(s)
    <3>1. typed'.line = typed.line \o s
      BY <1>2, <2>2 DEF LineLeft
    <3>. QED BY <1>2, <3>1
  <2>6. line' = d
    BY <1>1, <1>6 DEF Ended
  <2>7. NoEol'
    <3> HIDE DEF d
    <3>. QED BY <1>1, <2>1, <2>6 DEF NoEol, IsEol
  <2>. QED BY <1>1, <1>2, <2>4, <2>5, <2>7 DEF RoomInv
<1>7. CASE f # 0 /\ argparser_check_for_eol(d, n) = 0
  <2>1. f = 1 /\ IsEol(d[1]) /\ line' = [d EXCEPT ![1] = NUL]
    <3>1. f \in 1 .. n /\ IsEol(d[f])
      BY <1>3, <1>7, FirstEolIs
    <3>2. f - 1 = 0
      BY <1>7 DEF argparser_check_for_eol
    <3>3. f = 1
      <4> HIDE DEF f
      <4>. QED BY <1>3, <3>1, <3>2
    <3>4. line' = [d EXCEPT ![f] = NUL]
      BY <1>1, <1>7 DEF Ended
    <3>. QED BY <3>1, <3>3, <3>4
  <2>2. pos = 0
    <3>1. ASSUME pos # 0 PROVE FALSE
      <4>1. 1 \in 1 .. pos
        BY <1>2, <3>1
      <4>2. IsEol(line[1])
        <5> HIDE DEF d
        <5>. QED BY <1>3, <2>1, <4>1
      <4>3. line[1] = NUL
        BY <1>1, <4>1, <4>2 DEF RoomInv, NoEol, Spoilt
      <4>. QED BY <4>2, <4>3, CommandLineAssumption DEF IsEol
    <3>. QED BY <3>1
  <2>3. /\ line'[1] = NUL
        /\ \A i \in 1 .. n : i # 1 => line'[i] = s[i]
    <3>1. \A i \in 1 .. n : i \in DOMAIN d /\ d[i] = s[i]
      <4> HIDE DEF d
      <4>. QED BY <1>2, <1>3, <1>4, <2>2
    <3> HIDE DEF d
    <3>. QED BY <1>3, <2>1, <3>1
  <2>4. Spoilt' /\ pos' = Len(s)
    BY <1>1, <1>2, <2>2, <2>3 DEF Spoilt
  <2>5. ASSUME NoEol' PROVE Len(typed'.line) = Len(s) - 1
    <3>1. \A i \in 1 .. Len(s) : i # 1 => s[i] \notin {CR, LF}
      <4> HIDE DEF d
      <4>. QED BY <1>2, <2>2, <2>3, <2>4, <2>5 DEF NoEol, IsEol
    <3>2. s[1] \in {CR, LF}
      <4>1. 1 \in 1 .. Len(s) /\ pos + 1 = 1
        BY <1>2, <2>2
      <4>2. d[1] = s[1]
        <5> HIDE DEF d
        <5>. QED BY <1>4, <4>1
      <4>. QED BY <2>1, <4>2 DEF IsEol
    <3>3. Ends(s) = {1}
      BY <1>2, <3>1, <3>2 DEF Ends
    <3>4. Max(Ends(s)) = 1
      <4>1. {1} \in SUBSET (1 .. Len(s))
        BY <1>2
      <4>2. Max({1}) \in {1}
        BY <1>2, <4>1, MaxIs
      <4>. QED BY <3>3, <4>2
    <3>5. LineLeft(s) = SubSeq(s, 2, Len(s))
      <4>1. Ends(s) # {} /\ Max(Ends(s)) + 1 = 2
        BY <3>3, <3>4
      <4>. QED BY <4>1, Zenon DEF LineLeft
    <3>6. Len(SubSeq(s, 2, Len(s))) = Len(s) - 2 + 1
      <4>1. 2 \in 1 .. Len(s) + 1 /\ Len(s) \in 2 - 1 .. Len(s)
        BY <1>2
      <4>2. s \in Seq(AnyByte)
        BY <1>2
      <4>. QED BY <4>1, <4>2, PartIs, Zenon
    <3>7. Len(typed'.line) = Len(s) - 2 + 1
      BY <1>2, <3>5, <3>6, Zenon
    <3>. QED BY <1>2, <3>7
  <2>. QED BY <1>2, <2>4, <2>5 DEF RoomInv
<1>. QED BY <1>5, <1>6, <1>7

LEMMA OverrunKeepsRoom ==
  ASSUME CommandInv, RoomInv, NEW s \in Seq(Bytes \cup {CR, LF}),
         Len(s) <= MaxRead, Overrun(s)
  PROVE  RoomInv'
<1>1. /\ task = "command_task" /\ ~handling /\ ~halted /\ halted' /\ task' = task
      /\ typed' = typed /\ pos' = pos + Len(s)
  BY DEF Overrun, Reading
<1>2. /\ pos \in Nat /\ Len(s) \in Nat /\ Len(typed.line) \in Nat
      /\ MaxRead \in Nat /\ BUF_SIZE \in Nat
  <2>1. typed \in [bytes : Nat, line : Seq(AnyByte), entering : BOOLEAN]
    BY DEF CommandInv, CommandTypeOK
  <2>. QED BY <2>1, CommandLineAssumption DEF CommandInv, CommandTypeOK
<1>3. pos <= 1 + Len(typed.line) \/ pos <= MaxRead
  BY <1>1 DEF RoomInv
<1>4. PosIsWithin'
  BY <1>1, <1>2, <1>3 DEF PosIsWithin
<1>. QED BY <1>1, <1>4 DEF RoomInv

\* pos never leaves the array of gpiomon, and leaves the buffer of command_task
\* only for a line, or two reads, that do not fit, for any sizes and any reads
\* (terminal.c:194-203, terminal_main.c:427-438).
THEOREM PosStaysWithin == CommandSpec => []PosIsWithin
<1>1. CommandInit => RoomInv
  <2> SUFFICES ASSUME CommandInit PROVE RoomInv
    OBVIOUS
  <2>1. pos = 0 /\ ~halted /\ typed.line = <<>> /\ Len(<<>>) = 0
    BY DEF CommandInit
  <2>. QED BY <2>1 DEF RoomInv, NoEol
<1>2. CommandInv /\ RoomInv /\ [CommandNext]_commandvars => RoomInv'
  <2> SUFFICES ASSUME CommandInv, RoomInv, [CommandNext]_commandvars PROVE RoomInv'
    OBVIOUS
  <2>1. CASE UNCHANGED commandvars
    BY <2>1 DEF commandvars, own, RoomInv, NoEol, IsEol, Spoilt, PosIsWithin
  <2>2. CASE gpiomon
    <3>1. task' = task /\ task = "gpiomon"
      BY <2>2 DEF gpiomon, EndOfLine, Byte, Reading
    <3>. QED BY <3>1 DEF RoomInv
  <2>3. CASE command_task
    <3>1. PICK s \in Seq(Bytes \cup {CR, LF}) :
            s # <<>> /\ Len(s) <= MaxRead /\ (Read(s) \/ Overrun(s))
      BY <2>3, Typed
    <3>. QED BY <3>1, ReadKeepsRoom, OverrunKeepsRoom
  <2>4. CASE Parse
    <3>1. handling' = handling /\ halted' = halted /\ task' = task /\ handling
      BY <2>4 DEF Parse, own
    <3>. QED BY <3>1 DEF CommandInv, BufferInv, RoomInv
  <2>5. CASE Command
    <3>1. /\ task' = task /\ typed' = typed
          /\ task = "command_task" => pos' = 0
      BY <2>5 DEF Command, Restart
    <3>2. Len(typed.line) \in Nat /\ BUF_SIZE \in Nat
      <4>1. typed \in [bytes : Nat, line : Seq(AnyByte), entering : BOOLEAN]
        BY DEF CommandInv, CommandTypeOK
      <4>. QED BY <4>1, CommandLineAssumption
    <3>. QED BY <3>1, <3>2 DEF RoomInv, NoEol, PosIsWithin
  <2>. QED BY <2>1, <2>2, <2>3, <2>4, <2>5 DEF CommandNext
<1>3. CommandInv /\ RoomInv => PosIsWithin
  <2> SUFFICES ASSUME CommandInv, RoomInv PROVE PosIsWithin
    OBVIOUS
  <2>1. pos \in Nat /\ BUF_SIZE \in Nat /\ SizeOfCmd \in Nat
    BY CommandLineAssumption DEF CommandInv, CommandTypeOK
  <2>2. CASE task = "gpiomon"
    BY <2>1, <2>2 DEF CommandInv, ArrayInv, PosIsWithin
  <2>3. CASE task = "command_task" /\ ~halted
    BY <2>1, <2>3 DEF CommandInv, BufferInv, PosIsWithin
  <2>4. CASE task = "command_task" /\ halted
    BY <2>4 DEF RoomInv
  <2>. QED BY <2>2, <2>3, <2>4 DEF CommandInv, CommandTypeOK, Tasks
<1>. QED BY <1>1, <1>2, <1>3, CommandInvariance, PTL DEF CommandSpec

-----------------------------------------------------------------------------
\* argparser_parse.

\* What Typings says of one way to type the text, without the sets it is taken
\* from.
IsTyping(text, from, to) ==
  /\ Len(from) \in Nat
  /\ \A k \in 1 .. Len(from) : /\ from[k] \in 1 .. Len(text) /\ to[k] \in 1 .. Len(text)
                               /\ IsArgument(text, from[k], to[k])
  /\ \A j, k \in 1 .. Len(from) : j < k => to[j] + 1 < from[k]
  /\ \A i \in 1 .. Len(text) :
       text[i] # SPACE => \E k \in 1 .. Len(from) : i \in from[k] .. to[k]

\* A way to type a text is one in the sense of IsTyping.
LEMMA TypingIs ==
  ASSUME NEW text \in Seq(AnyByte), NEW w \in Typings(text)
  PROVE  IsTyping(text, w.from, w.to)
<1> DEFINE from == w.from
           to == w.to
           Rising(n) == {f \in [1 .. n -> DOMAIN text] :
                           \A i, j \in 1 .. n : i < j => f[i] < f[j]}
<1>1. /\ \A k \in DOMAIN from : IsArgument(text, from[k], to[k])
      /\ \A k \in DOMAIN from : k > 1 => to[k - 1] + 1 < from[k]
      /\ \A i \in DOMAIN text : text[i] # SPACE => \E k \in DOMAIN from : i \in from[k] .. to[k]
  BY Zenon DEF Typings
<1>2. PICK n \in 0 .. (Len(text) + 1) \div 2 : w \in [from : Rising(n), to : Rising(n)]
  BY DEF Typings
<1>3. DOMAIN text = 1 .. Len(text) /\ Len(text) \in Nat /\ n \in Nat
  OBVIOUS
<1>4. from \in Rising(n) /\ to \in Rising(n)
  <2> HIDE DEF Rising
  <2>. QED BY <1>2
<1>5. /\ from \in [1 .. n -> 1 .. Len(text)] /\ to \in [1 .. n -> 1 .. Len(text)]
      /\ \A i, j \in 1 .. n : i < j => to[i] < to[j]
  BY <1>3, <1>4
<1> HIDE DEF from, to
<1>6. Len(from) = n /\ DOMAIN from = 1 .. n
  BY <1>3, <1>5
<1>7. ASSUME NEW j \in 1 .. n, NEW k \in 1 .. n, j < k PROVE to[j] + 1 < from[k]
  <2>1. k - 1 \in 1 .. n /\ j <= k - 1 /\ k > 1
    BY <1>3, <1>7
  <2>2. to[k - 1] + 1 < from[k]
    BY <1>1, <1>6, <2>1
  <2>3. to[j] \in Nat /\ to[k - 1] \in Nat /\ from[k] \in Nat
    BY <1>3, <1>5, <2>1
  <2>4. CASE j = k - 1
    BY <2>2, <2>4
  <2>5. CASE j # k - 1
    <3>1. j < k - 1
      BY <1>3, <2>1, <2>5
    <3>2. to[j] < to[k - 1]
      BY <1>5, <2>1, <3>1, Zenon
    <3>. QED BY <2>2, <2>3, <3>2
  <2>. QED BY <2>4, <2>5
<1>8. IsTyping(text, from, to)
  BY <1>1, <1>3, <1>5, <1>6, <1>7 DEF IsTyping
<1>. QED BY <1>8 DEF from, to

\* An argument that was found: its bytes are there, and a NUL behind them.
IsFound(text, f, t, p) ==
  /\ p = BeginOf(text, f) /\ line[EndOf(text, f, t) + 1] = NUL
  /\ \A i \in BeginOf(text, f) .. EndOf(text, f, t) : line[i] = text[i]

\* The parser has found the first arguments, and is between the last of them
\* and the next; the text from there on is as it was typed.
Progress(text, from, to) ==
  /\ Len(argv) <= Len(from) /\ Len(argv) <= ARGPARSER_MAXARGS
  /\ \A j \in 1 .. Len(argv) : IsFound(text, from[j], to[j], argv[j])
  /\ running => /\ Len(argv) < ARGPARSER_MAXARGS
                /\ rover <= Len(text) + 1
                /\ \A i \in rover .. Len(text) : line[i] = text[i]
                /\ \A j \in 1 .. Len(argv) : EndOf(text, from[j], to[j]) + 1 < rover
                /\ \A j \in Len(argv) + 1 .. Len(from) : rover <= from[j]
  /\ ~running => Len(argv) = Len(from) \/ Len(argv) = ARGPARSER_MAXARGS

ParserTypeOK == argv \in Seq(Nat) /\ rover \in Nat \ {0} /\ running \in BOOLEAN

\* The text that is parsed ends with the NUL behind it.
Holding(text) ==
  /\ text \in Seq(AnyByte) /\ \A i \in 1 .. Len(text) : text[i] # NUL
  /\ Len(text) + 1 \in 1 .. Size(task) /\ line[Len(text) + 1] = NUL

\* strchr stops at the first place that holds the byte or the NUL.
LEMMA StrchrIs ==
  ASSUME CommandTypeOK, NEW p \in Nat \ {0}, NEW c,
         NEW k \in p .. Size(task), line[k] \in {c, NUL},
         \A i \in p .. k - 1 : line[i] \notin {c, NUL}
  PROVE  strchr(p, c) = IF line[k] = c THEN k ELSE 0
<1> DEFINE found == {i \in p .. Len(line) : line[i] \in {c, NUL}}
<1>1. Len(line) = Size(task) /\ Size(task) \in Nat
  BY LineIs
<1>2. found \in SUBSET (1 .. Size(task)) /\ k \in found
  BY <1>1
<1>3. \A i \in found : i >= k
  <2> SUFFICES ASSUME NEW i \in found, ~ (i >= k) PROVE FALSE
    OBVIOUS
  <2>1. i \in p .. k - 1 /\ line[i] \in {c, NUL}
    BY <1>1
  <2>. QED BY <2>1
<1>4. Min(found) \in found /\ \A y \in found : Min(found) <= y
  <2> HIDE DEF found
  <2>1. found # {}
    BY <1>2
  <2>. QED BY <1>1, <1>2, <2>1, MinIs
<1>5. Min(found) = k /\ found # {}
  <2>1. Min(found) >= k /\ Min(found) <= k /\ Min(found) \in Nat
    BY <1>2, <1>3, <1>4
  <2>. QED BY <1>2, <2>1
<1>6. strchr(p, c) = IF found = {} \/ line[Min(found)] # c THEN 0 ELSE Min(found)
  BY DEF strchr
<1> HIDE DEF found
<1>. QED BY <1>5, <1>6

\* Whatever the buffer holds, it returns a number.
LEMMA StrchrType ==
  ASSUME CommandTypeOK, NEW p \in Nat \ {0}, NEW c
  PROVE  strchr(p, c) \in Nat
<1> DEFINE found == {i \in p .. Len(line) : line[i] \in {c, NUL}}
<1>1. Len(line) = Size(task) /\ Size(task) \in Nat
  BY LineIs
<1>2. found \in SUBSET (1 .. Size(task))
  BY <1>1
<1>3. ASSUME found # {} PROVE Min(found) \in Nat
  <2> HIDE DEF found
  <2>1. Min(found) \in found
    BY <1>1, <1>2, <1>3, MinIs, Zenon
  <2>2. Min(found) \in 1 .. Size(task)
    BY <1>2, <2>1, Zenon
  <2>. QED BY <1>1, <2>2
<1>4. strchr(p, c) = IF found = {} \/ line[Min(found)] # c THEN 0 ELSE Min(found)
  BY DEF strchr
<1> HIDE DEF found
<1>. QED BY <1>3, <1>4

\* Where an argument is.
LEMMA ArgumentIs ==
  ASSUME NEW text \in Seq(AnyByte), NEW f \in 1 .. Len(text), NEW t \in 1 .. Len(text),
         IsArgument(text, f, t)
  PROVE  /\ BeginOf(text, f) \in f .. f + 1 /\ EndOf(text, f, t) \in t - 1 .. t
         /\ f <= t /\ BeginOf(text, f) <= EndOf(text, f, t) + 1
         /\ text[f] # SPACE
         /\ InQuotes(text, f) =>
              /\ BeginOf(text, f) = f + 1 /\ EndOf(text, f, t) + 1 = t /\ text[t] = QUOTE
              /\ \A i \in BeginOf(text, f) .. EndOf(text, f, t) : text[i] # QUOTE
         /\ ~InQuotes(text, f) =>
              /\ BeginOf(text, f) = f /\ EndOf(text, f, t) = t
              /\ \A i \in f .. t : text[i] # SPACE
<1>1. CASE text[f] = QUOTE
  <2>1. /\ f < t /\ text[t] = QUOTE /\ \A i \in f + 1 .. t - 1 : text[i] # QUOTE
        /\ BeginOf(text, f) = f + 1 /\ EndOf(text, f, t) = t - 1 /\ InQuotes(text, f)
    BY <1>1 DEF IsArgument, BeginOf, EndOf, InQuotes
  <2>2. text[f] # SPACE
    BY <1>1 DEF QUOTE, SPACE
  <2>3. f \in Nat /\ t \in Nat
    OBVIOUS
  <2>. QED BY <2>1, <2>2, <2>3
<1>2. CASE text[f] # QUOTE
  <2>1. /\ f <= t /\ \A i \in f .. t : text[i] # SPACE
        /\ BeginOf(text, f) = f /\ EndOf(text, f, t) = t /\ ~InQuotes(text, f)
    BY <1>2 DEF IsArgument, BeginOf, EndOf, InQuotes
  <2>2. f \in Nat /\ t \in Nat
    OBVIOUS
  <2>3. f \in f .. t
    BY <2>1, <2>2
  <2>. QED BY <2>1, <2>2, <2>3
<1>. QED BY <1>1, <1>2

\* An argument that is next is found.
LEMMA ArgumentKeeps ==
  ASSUME CommandTypeOK, ParserTypeOK, running, NEW text, Holding(text),
         NEW from, NEW to, IsTyping(text, from, to), Progress(text, from, to),
         Len(argv) < Len(from), from[Len(argv) + 1] = rover,
         Argument(BeginOf(text, rover), IF InQuotes(text, rover) THEN QUOTE ELSE SPACE)
  PROVE  Progress(text, from, to)'
<1> DEFINE k == Len(argv)
           n == Len(from)
           L == Len(text)
           t == to[k + 1]
           b == BeginOf(text, rover)
           e == EndOf(text, rover, t)
           c == IF InQuotes(text, rover) THEN QUOTE ELSE SPACE
           temp == strchr(b, c)
<1>1. /\ k \in Nat /\ n \in Nat /\ L \in Nat /\ k < n /\ k + 1 \in 1 .. n
      /\ ARGPARSER_MAXARGS \in Nat /\ k < ARGPARSER_MAXARGS
      /\ text \in Seq(AnyByte)
  BY ArgParserAssumption DEF ParserTypeOK, IsTyping, Holding, Progress
<1>2. /\ rover \in 1 .. L /\ t \in 1 .. L /\ IsArgument(text, rover, t)
  BY <1>1 DEF IsTyping
<1>3. /\ b \in Nat \ {0} /\ e \in Nat /\ rover <= b /\ e <= t /\ t <= e + 1 /\ b <= e + 1
      /\ rover <= t /\ rover <= e + 1
      /\ InQuotes(text, rover) =>
           e + 1 = t /\ text[t] = QUOTE /\ \A i \in b .. e : text[i] # QUOTE
      /\ ~InQuotes(text, rover) => e = t /\ \A i \in b .. e : text[i] # SPACE
  <2>0. rover \in 1 .. Len(text) /\ t \in 1 .. Len(text) /\ text \in Seq(AnyByte)
    BY <1>1, <1>2
  <2> HIDE DEF t, L, k, n, c, temp
  <2>1. /\ b \in rover .. rover + 1 /\ e \in t - 1 .. t /\ rover <= t /\ b <= e + 1
        /\ InQuotes(text, rover) =>
              e + 1 = t /\ text[t] = QUOTE /\ \A i \in b .. e : text[i] # QUOTE
        /\ ~InQuotes(text, rover) =>
              b = rover /\ e = t /\ \A i \in rover .. t : text[i] # SPACE
    BY <1>2, <2>0, ArgumentIs
  <2> HIDE DEF b, e, t, L
  <2>2. rover \in Nat \ {0} /\ t \in Nat \ {0} /\ b \in Nat \ {0} /\ e \in Nat
    BY <1>1, <1>2, <2>1
  <2>3. rover <= b /\ e <= t /\ t <= e + 1 /\ rover <= e + 1
    BY <2>1, <2>2
  <2>4. ~InQuotes(text, rover) => e = t /\ \A i \in b .. e : text[i] # SPACE
    BY <2>1
  <2>. QED BY <2>1, <2>2, <2>3, <2>4
<1>4. \A i \in rover .. L : line[i] = text[i] /\ text[i] # NUL
  BY <1>2 DEF Progress, Holding
<1>5. line[L + 1] = NUL /\ L + 1 \in 1 .. Size(task) /\ Size(task) \in Nat
      /\ DOMAIN line = 1 .. Size(task)
  BY LineIs DEF Holding
<1>6. \A j \in k + 2 .. n : t + 1 < from[j] /\ from[j] \in 1 .. L
  BY <1>1 DEF IsTyping
<1>7. \A j \in 1 .. k : /\ EndOf(text, from[j], to[j]) + 1 < rover
                        /\ BeginOf(text, from[j]) \in Nat \ {0}
                        /\ EndOf(text, from[j], to[j]) \in Nat
                        /\ BeginOf(text, from[j]) <= EndOf(text, from[j], to[j]) + 1
  <2> TAKE j \in 1 .. k
  <2>1. from[j] \in 1 .. L /\ to[j] \in 1 .. L /\ IsArgument(text, from[j], to[j])
    BY <1>1 DEF IsTyping
  <2>2. EndOf(text, from[j], to[j]) + 1 < rover
    BY DEF Progress
  <2>. QED BY <1>1, <2>1, <2>2, ArgumentIs
<1>8. \A j \in 1 .. k : IsFound(text, from[j], to[j], argv[j])
  BY DEF Progress
<1>9. temp = IF e + 1 <= L THEN e + 1 ELSE 0
  <2>1. c # NUL
    BY DEF NUL, QUOTE, SPACE
  <2>2. \A i \in b .. e : line[i] \notin {c, NUL}
    <3> TAKE i \in b .. e
    <3>1. i \in rover .. L
      BY <1>1, <1>2, <1>3
    <3>2. line[i] = text[i] /\ text[i] # NUL
      BY <1>4, <3>1, Zenon
    <3>3. CASE InQuotes(text, rover)
      <4>1. c = QUOTE /\ text[i] # QUOTE
        BY <1>3, <3>3, Zenon
      <4>. QED BY <3>2, <4>1
    <3>4. CASE ~InQuotes(text, rover)
      <4>1. c = SPACE /\ text[i] # SPACE
        BY <1>3, <3>4, Zenon
      <4>. QED BY <3>2, <4>1
    <3>. QED BY <3>3, <3>4
  <2>3. e + 1 \in b .. Size(task) /\ (e + 1) - 1 = e
    BY <1>1, <1>2, <1>3, <1>5
  <2>4. CASE e + 1 <= L
    <3>1. text[e + 1] = c
      <4>1. CASE InQuotes(text, rover)
        BY <1>3, <4>1
      <4>2. CASE ~InQuotes(text, rover)
        <5>1. e + 1 \in 1 .. L /\ e = t
          BY <1>1, <1>3, <2>4, <4>2
        <5>2. ASSUME NEW j \in 1 .. n, e + 1 \in from[j] .. to[j] PROVE FALSE
          <6>1. from[j] \in 1 .. L /\ to[j] \in 1 .. L
            BY DEF IsTyping
          <6>2. CASE j < k + 1
            <7>1. to[j] + 1 < rover
              BY <1>1, <6>2 DEF IsTyping
            <7>. QED BY <1>2, <1>3, <5>1, <5>2, <6>1, <7>1
          <6>3. CASE j = k + 1
            BY <1>2, <5>1, <5>2, <6>3
          <6>4. CASE j > k + 1
            <7>1. t + 1 < from[j]
              BY <1>1, <1>6, <6>4
            <7>. QED BY <1>2, <5>1, <5>2, <6>1, <7>1
          <6>. QED BY <1>1, <6>2, <6>3, <6>4
        <5>. QED BY <4>2, <5>1, <5>2 DEF IsTyping
      <4>. QED BY <4>1, <4>2
    <3>2. line[e + 1] = c
      BY <1>1, <1>3, <1>4, <2>4, <3>1
    <3> HIDE DEF c, b, e
    <3>. QED BY <1>3, <2>2, <2>3, <2>4, <3>2, StrchrIs
  <2>5. CASE ~ (e + 1 <= L)
    <3>1. e + 1 = L + 1
      BY <1>1, <1>2, <1>3, <2>5
    <3>2. line[e + 1] = NUL /\ line[e + 1] # c
      BY <1>5, <2>1, <3>1
    <3> HIDE DEF c, b, e
    <3>. QED BY <1>3, <2>2, <2>3, <2>5, <3>2, StrchrIs
  <2>. QED BY <2>4, <2>5
<1>10. /\ argv' = Append(argv, b) /\ argv \in Seq(Nat)
       /\ IF temp = 0
          THEN running' = FALSE /\ UNCHANGED <<line, rover>>
          ELSE /\ line' = [line EXCEPT ![temp] = NUL] /\ rover' = temp + 1
               /\ running' = (Len(argv') < ARGPARSER_MAXARGS)
  BY DEF Argument, ParserTypeOK, GoesOn
<1> HIDE DEF b, e, c, temp, t, L, n
<1>11. /\ Len(argv') = k + 1 /\ argv'[k + 1] = b /\ \A j \in 1 .. k : argv'[j] = argv[j]
  BY <1>3, <1>10
<1> HIDE DEF k
<1>12. /\ \A i \in 1 .. e : line'[i] = line[i]
       /\ line'[e + 1] = NUL
       /\ \A i \in e + 2 .. L : line'[i] = line[i]
  <2>1. CASE e + 1 <= L
    <3>1. line' = [line EXCEPT ![e + 1] = NUL] /\ e + 1 \in DOMAIN line
      BY <1>1, <1>3, <1>5, <1>9, <1>10, <2>1
    <3>. QED BY <1>1, <1>3, <3>1
  <2>2. CASE ~ (e + 1 <= L)
    <3>1. e + 1 = L + 1 /\ line' = line
      BY <1>1, <1>2, <1>3, <1>9, <1>10, <2>2
    <3>. QED BY <1>5, <3>1
  <2>. QED BY <2>1, <2>2
<1>13. ASSUME NEW j \in 1 .. k + 1 PROVE IsFound(text, from[j], to[j], argv[j])'
  <2>1. CASE j = k + 1
    <3>1. \A i \in b .. e : line'[i] = text[i]
      <4> TAKE i \in b .. e
      <4>1. i \in rover .. L /\ i \in 1 .. e
        BY <1>1, <1>2, <1>3
      <4>. QED BY <1>4, <1>12, <4>1, Zenon
    <3>. QED BY <1>11, <1>12, <2>1, <3>1 DEF IsFound, b, e, t, k
  <2>2. CASE j # k + 1
    <3>1. j \in 1 .. k
      BY <1>1, <2>2
    <3> DEFINE y == EndOf(text, from[j], to[j])
               x == BeginOf(text, from[j])
    <3>2. /\ argv[j] = x /\ line[y + 1] = NUL /\ \A i \in x .. y : line[i] = text[i]
      BY <1>8, <3>1 DEF IsFound
    <3>3. y \in Nat /\ x \in Nat \ {0} /\ y + 1 < rover /\ rover \in Nat
      BY <1>1, <1>2, <1>7, <3>1
    <3> HIDE DEF x, y
    <3>4. line'[y + 1] = NUL /\ \A i \in x .. y : line'[i] = text[i]
      BY <1>3, <1>12, <3>2, <3>3
    <3>. QED BY <1>11, <3>1, <3>2, <3>4 DEF IsFound, x, y
  <2>. QED BY <2>1, <2>2
<1>14. CASE e + 1 <= L
  <2>1. rover' = e + 2 /\ running' = (k + 1 < ARGPARSER_MAXARGS)
    BY <1>1, <1>3, <1>9, <1>10, <1>11, <1>14
  <2>2. \A i \in e + 2 .. L : line'[i] = text[i]
    <3> TAKE i \in e + 2 .. L
    <3>1. i \in rover .. L
      BY <1>1, <1>2, <1>3
    <3>. QED BY <1>4, <1>12, <3>1, Zenon
  <2>3. ASSUME NEW j \in 1 .. k + 1 PROVE EndOf(text, from[j], to[j]) + 1 < e + 2
    <3>1. CASE j = k + 1
      BY <1>3, <3>1 DEF e, t, k
    <3>2. CASE j # k + 1
      <4>1. j \in 1 .. k
        BY <1>1, <3>2
      <4>. QED BY <1>2, <1>3, <1>7, <4>1
    <3>. QED BY <3>1, <3>2
  <2>4. \A j \in (k + 1) + 1 .. n : e + 2 <= from[j]
    <3> TAKE j \in (k + 1) + 1 .. n
    <3>1. t + 1 < from[j] /\ from[j] \in Nat
      BY <1>1, <1>6
    <3>. QED BY <1>2, <1>3, <3>1
  <2>5. e + 2 <= L + 1 /\ k + 1 <= n /\ k + 1 <= ARGPARSER_MAXARGS
        /\ (~ (k + 1 < ARGPARSER_MAXARGS) => k + 1 = ARGPARSER_MAXARGS)
    BY <1>1, <1>3, <1>14
  <2>. QED BY <1>11, <1>13, <2>1, <2>2, <2>3, <2>4, <2>5 DEF Progress, n, L
<1>15. CASE ~ (e + 1 <= L)
  <2>1. running' = FALSE
    BY <1>9, <1>10, <1>15
  <2>2. k + 1 = n
    <3> SUFFICES ASSUME k + 2 <= n PROVE FALSE
      BY <1>1
    <3>1. t + 1 < from[k + 2] /\ from[k + 2] \in 1 .. L
      BY <1>1, <1>6
    <3>. QED BY <1>1, <1>2, <1>3, <1>15, <3>1
  <2>3. k + 1 <= ARGPARSER_MAXARGS
    BY <1>1
  <2>. QED BY <1>11, <1>13, <2>1, <2>2, <2>3 DEF Progress, n
<1>. QED BY <1>14, <1>15

\* What is not a space begins the next argument.
LEMMA NextArgument ==
  ASSUME ParserTypeOK, running, NEW text, Holding(text),
         NEW from, NEW to, IsTyping(text, from, to), Progress(text, from, to),
         rover <= Len(text), text[rover] # SPACE
  PROVE  Len(argv) < Len(from) /\ from[Len(argv) + 1] = rover
<1> DEFINE k == Len(argv)
           n == Len(from)
           L == Len(text)
<1>1. k \in Nat /\ n \in Nat /\ L \in Nat /\ rover \in 1 .. L /\ text \in Seq(AnyByte)
  BY DEF ParserTypeOK, IsTyping, Holding
<1>2. PICK j \in 1 .. n : rover \in from[j] .. to[j]
  BY <1>1 DEF IsTyping
<1>3. \A i \in 1 .. n : /\ from[i] \in 1 .. L /\ to[i] \in 1 .. L /\ from[i] <= to[i]
                        /\ EndOf(text, from[i], to[i]) \in to[i] - 1 .. to[i]
  <2> TAKE i \in 1 .. n
  <2>1. from[i] \in 1 .. L /\ to[i] \in 1 .. L /\ IsArgument(text, from[i], to[i])
    BY DEF IsTyping
  <2>. QED BY <1>1, <2>1, ArgumentIs
<1>4. k + 1 <= j
  <2> SUFFICES ASSUME j <= k PROVE FALSE
    BY <1>1, <1>2
  <2>1. EndOf(text, from[j], to[j]) + 1 < rover
    BY <1>1, <1>2 DEF Progress
  <2>2. /\ EndOf(text, from[j], to[j]) \in to[j] - 1 .. to[j]
        /\ from[j] \in 1 .. L /\ to[j] \in 1 .. L
    BY <1>2, <1>3, Zenon
  <2>. QED BY <1>1, <1>2, <2>1, <2>2
<1>5. k + 1 \in 1 .. n
  BY <1>1, <1>2, <1>4
<1>6. rover <= from[j] /\ rover <= from[k + 1]
  BY <1>1, <1>2, <1>4, <1>5 DEF Progress
<1>7. from[j] = rover
  BY <1>1, <1>2, <1>3, <1>6
<1>8. j = k + 1
  <2> SUFFICES ASSUME k + 1 < j PROVE FALSE
    BY <1>1, <1>2, <1>4
  <2>1. to[k + 1] + 1 < from[j]
    BY <1>2, <1>5 DEF IsTyping
  <2>2. from[k + 1] <= to[k + 1] /\ from[k + 1] \in 1 .. L /\ to[k + 1] \in 1 .. L
    BY <1>3, <1>5, Zenon
  <2>. QED BY <1>1, <1>6, <1>7, <2>1, <2>2
<1>. QED BY <1>1, <1>5, <1>7, <1>8

\* Every pass of the loop keeps what was found, and the text from the rover on.
LEMMA PassKeeps ==
  ASSUME CommandTypeOK, ParserTypeOK, NEW text, Holding(text), argparser_parse,
         NEW from, NEW to, IsTyping(text, from, to), Progress(text, from, to)
  PROVE  Progress(text, from, to)'
<1> DEFINE k == Len(argv)
           n == Len(from)
           L == Len(text)
<1>1. /\ k \in Nat /\ n \in Nat /\ L \in Nat /\ rover \in 1 .. L + 1 /\ running
      /\ k < ARGPARSER_MAXARGS /\ ARGPARSER_MAXARGS \in Nat /\ k <= n
      /\ text \in Seq(AnyByte)
  BY ArgParserAssumption DEF ParserTypeOK, IsTyping, Holding, Progress, argparser_parse
<1>2. ASSUME rover <= L PROVE line[rover] = text[rover] /\ text[rover] # NUL
  BY <1>1, <1>2 DEF Progress, Holding
<1>3. ASSUME rover = L + 1 PROVE line[rover] = NUL
  BY <1>3 DEF Holding
<1>4. CASE Quoted
  <2>1. line[rover] = QUOTE /\ line[rover] \notin {NUL, SPACE}
    BY <1>4 DEF Quoted, QUOTE, SPACE, NUL
  <2>2. rover <= L
    BY <1>1, <1>3, <2>1
  <2>3. InQuotes(text, rover) /\ BeginOf(text, rover) = rover + 1
    BY <1>2, <2>1, <2>2 DEF InQuotes, BeginOf
  <2>4. k < n /\ from[k + 1] = rover
    BY <1>1, <1>2, <2>1, <2>2, NextArgument
  <2>. QED BY <1>1, <1>4, <2>3, <2>4, ArgumentKeeps DEF Quoted
<1>5. CASE Word
  <2>1. line[rover] \notin {QUOTE, SPACE, NUL}
    BY <1>5 DEF Word
  <2>2. rover <= L
    BY <1>1, <1>3, <2>1
  <2>3. ~InQuotes(text, rover) /\ BeginOf(text, rover) = rover
    BY <1>2, <2>1, <2>2 DEF InQuotes, BeginOf
  <2>4. k < n /\ from[k + 1] = rover
    BY <1>1, <1>2, <2>1, <2>2, NextArgument
  <2>. QED BY <1>1, <1>5, <2>3, <2>4, ArgumentKeeps DEF Word, WordEnd
<1>6. CASE Skip
  <2>1. line[rover] = SPACE /\ line[rover] # NUL /\ rover' = rover + 1
        /\ line' = line /\ argv' = argv
    BY <1>6 DEF Skip, SPACE, NUL
  <2>2. rover <= L
    BY <1>1, <1>3, <2>1
  <2>3. running' = TRUE
    BY <1>1, <1>6 DEF Skip, GoesOn
  <2>4. ASSUME NEW j \in k + 1 .. n PROVE rover + 1 <= from[j]
    <3>1. rover <= from[j]
      BY <1>1 DEF Progress
    <3>2. from[j] \in 1 .. L /\ to[j] \in 1 .. L /\ IsArgument(text, from[j], to[j])
      BY <1>1 DEF IsTyping
    <3>3. text[from[j]] # SPACE
      BY <1>1, <3>2, ArgumentIs, Zenon
    <3>4. from[j] # rover
      BY <1>2, <2>1, <2>2, <3>3, Zenon
    <3>. QED BY <1>1, <3>1, <3>2, <3>4
  <2>5. ASSUME NEW j \in 1 .. k
        PROVE  /\ IsFound(text, from[j], to[j], argv[j])'
               /\ EndOf(text, from[j], to[j]) + 1 < rover + 1
    <3>1. IsFound(text, from[j], to[j], argv[j]) /\ EndOf(text, from[j], to[j]) + 1 < rover
      BY <1>1 DEF Progress
    <3>2. from[j] \in 1 .. L /\ to[j] \in 1 .. L /\ IsArgument(text, from[j], to[j])
      BY <1>1 DEF IsTyping
    <3>3. EndOf(text, from[j], to[j]) \in to[j] - 1 .. to[j] /\ to[j] \in Nat
      <4>1. EndOf(text, from[j], to[j]) \in to[j] - 1 .. to[j]
        BY <1>1, <3>2, ArgumentIs, Zenon
      <4>. QED BY <3>2, <4>1
    <3>. QED BY <1>1, <2>1, <3>1, <3>3 DEF IsFound
  <2>6. \A i \in rover + 1 .. L : line[i] = text[i]
    BY <1>1 DEF Progress
  <2>. QED BY <1>1, <2>1, <2>2, <2>3, <2>4, <2>5, <2>6 DEF Progress
<1>7. CASE EndOfText
  <2>1. line[rover] = NUL /\ running' = FALSE /\ line' = line /\ argv' = argv
    BY <1>7 DEF EndOfText
  <2>2. rover = L + 1
    BY <1>1, <1>2, <2>1
  <2>3. k = n
    <3> SUFFICES ASSUME k + 1 <= n PROVE FALSE
      BY <1>1
    <3>1. rover <= from[k + 1]
      BY <1>1 DEF Progress
    <3>2. from[k + 1] \in 1 .. L
      BY <1>1 DEF IsTyping
    <3>. QED BY <1>1, <2>2, <3>1, <3>2
  <2>4. \A j \in 1 .. k : IsFound(text, from[j], to[j], argv[j])'
    BY <2>1 DEF Progress, IsFound
  <2>. QED BY <1>1, <2>1, <2>3, <2>4 DEF Progress
<1>. QED BY <1>4, <1>5, <1>6, <1>7 DEF argparser_parse

\* The parser writes NULs only.
LEMMA PassHolds ==
  ASSUME CommandTypeOK, ParserTypeOK, argparser_parse, task' = task
  PROVE  /\ ParserTypeOK'
         /\ \A text : Holding(text) => Holding(text)'
<1>1. ASSUME NEW p \in Nat \ {0}, NEW c, Argument(p, c)
      PROVE  /\ ParserTypeOK'
             /\ \A i \in 1 .. Size(task) : line'[i] = line[i] \/ line'[i] = NUL
  <2> DEFINE temp == strchr(p, c)
  <2>1. temp \in Nat
    BY <1>1, StrchrType
  <2>2. DOMAIN line = 1 .. Size(task)
    BY LineIs
  <2>3. /\ argv' = Append(argv, p) /\ argv \in Seq(Nat) /\ rover \in Nat \ {0}
        /\ IF temp = 0
           THEN running' = FALSE /\ UNCHANGED <<line, rover>>
           ELSE /\ line' = [line EXCEPT ![temp] = NUL] /\ rover' = temp + 1
                /\ running' = (Len(argv') < ARGPARSER_MAXARGS)
    BY <1>1 DEF Argument, ParserTypeOK, GoesOn
  <2> HIDE DEF temp
  <2>4. argv' \in Seq(Nat)
    BY <2>3
  <2>5. rover' \in Nat \ {0}
    <3>1. CASE temp = 0
      BY <2>3, <3>1
    <3>2. CASE temp # 0
      BY <2>1, <2>3, <3>2
    <3>. QED BY <3>1, <3>2
  <2>7. running' \in BOOLEAN
    <3>1. CASE temp = 0
      BY <2>3, <3>1, Zenon
    <3>2. CASE temp # 0
      <4>1. running' = (Len(argv') < ARGPARSER_MAXARGS)
        BY <2>3, <3>2, Zenon
      <4>. QED BY <4>1
    <3>. QED BY <3>1, <3>2
  <2>6. \A i \in 1 .. Size(task) : line'[i] = line[i] \/ line'[i] = NUL
    <3> TAKE i \in 1 .. Size(task)
    <3>1. CASE temp = 0
      BY <2>3, <3>1
    <3>2. CASE temp # 0
      <4>1. line' = [line EXCEPT ![temp] = NUL] /\ i \in DOMAIN line
        BY <2>2, <2>3, <3>2
      <4>. QED BY <4>1
    <3>. QED BY <3>1, <3>2
  <2>. QED BY <2>4, <2>5, <2>6, <2>7 DEF ParserTypeOK
<1>2. /\ ParserTypeOK'
      /\ \A i \in 1 .. Size(task) : line'[i] = line[i] \/ line'[i] = NUL
  <2>1. rover \in Nat \ {0} /\ rover + 1 \in Nat \ {0}
    BY DEF ParserTypeOK
  <2>2. CASE Quoted
    BY <1>1, <2>1, <2>2 DEF Quoted
  <2>3. CASE Word
    BY <1>1, <2>1, <2>3 DEF Word
  <2>4. CASE Skip \/ EndOfText
    <3>1. line' = line /\ argv' = argv /\ rover' \in Nat \ {0}
      BY <2>1, <2>4 DEF Skip, EndOfText
    <3>2. running' \in BOOLEAN
      <4>1. running' = FALSE \/ running' = (Len(argv) < ARGPARSER_MAXARGS)
        BY <2>4, Zenon DEF Skip, EndOfText, GoesOn
      <4>2. CASE running' = (Len(argv) < ARGPARSER_MAXARGS)
        BY <4>2
      <4>. QED BY <4>1, <4>2
    <3>. QED BY <3>1, <3>2 DEF ParserTypeOK
  <2>. QED BY <2>2, <2>3, <2>4 DEF argparser_parse
<1>3. Size(task)' = Size(task)
  BY DEF Size
<1>4. ASSUME NEW text, Holding(text) PROVE Holding(text)'
  <2>1. Len(text) + 1 \in 1 .. Size(task) /\ line[Len(text) + 1] = NUL
    BY <1>4 DEF Holding
  <2>2. line'[Len(text) + 1] = NUL
    BY <1>2, <2>1, Zenon
  <2>. QED BY <1>3, <1>4, <2>2, Zenon DEF Holding
<1>. QED BY <1>2, <1>4

-----------------------------------------------------------------------------
\* From the typing of a line to its arguments.

\* What gpiomon has collected is not the end of a text.
NoEnd == task = "gpiomon" => \A i \in 1 .. pos : line[i] # NUL

\* The text that is parsed is in the buffer, and the arguments that were found
\* are the first that were typed, whichever way it was typed.
ParsesInv ==
  handling =>
    LET text == Last(handled).text IN
    handled # <<>> /\ Holding(text) /\ \A w \in Typings(text) : Progress(text, w.from, w.to)

ParserInv == ParserTypeOK /\ NoEnd /\ ParsesInv

\* A call of the parser for a text that is in the buffer, and ends there.
LEMMA StartHolds ==
  ASSUME CommandTypeOK, CommandTypeOK', StartParse, NEW text \in Seq(AnyByte),
         \A i \in 1 .. Len(text) : line'[i] = text[i] /\ text[i] # NUL,
         Len(text) + 1 \in 1 .. Size(task'), line'[Len(text) + 1] = NUL,
         NEW l \in Seq(AnyByte), handled' = Append(handled, [text |-> text, line |-> l])
  PROVE  ParserTypeOK' /\ ParsesInv'
<1>1. argv' = <<>> /\ rover' = 1 /\ running' = TRUE
  BY DEF StartParse
<1>2. ParserTypeOK'
  <2>1. argv' \in Seq(Nat)
    BY <1>1, EmptySeq, Zenon
  <2>. QED BY <1>1, <2>1 DEF ParserTypeOK
<1>3. handled' # <<>> /\ Last(handled') = [text |-> text, line |-> l]
  <2> DEFINE h == [text |-> text, line |-> l]
  <2>1. handled \in Seq([text : Seq(AnyByte), line : Seq(AnyByte)])
    BY DEF CommandTypeOK
  <2>2. h \in [text : Seq(AnyByte), line : Seq(AnyByte)] /\ handled' = Append(handled, h)
    OBVIOUS
  <2> HIDE DEF h
  <2>3. Len(handled') = Len(handled) + 1 /\ Len(handled) \in Nat
        /\ handled'[Len(handled) + 1] = h
    BY <2>1, <2>2
  <2>4. Last(handled') = h
    BY <2>3, Zenon DEF Last
  <2>5. handled' # <<>>
    <3>1. Len(handled') # 0 /\ Len(<<>>) = 0
      BY <2>3
    <3>. QED BY <3>1, Zenon
  <2>. QED BY <2>4, <2>5 DEF h
<1>4. Last(handled').text = text
  BY <1>3
<1>5. Holding(text)'
  BY DEF Holding, Size
<1>6. ASSUME NEW w \in Typings(text) PROVE Progress(text, w.from, w.to)'
  <2>1. PICK from, to : from = w.from /\ to = w.to
    OBVIOUS
  <2>2. IsTyping(text, from, to)
    BY <2>1, TypingIs
  <2>3. Len(from) \in Nat /\ Len(text) \in Nat /\ Len(argv') = 0
    BY <1>1, <2>2 DEF IsTyping
  <2>4. \A j \in 0 + 1 .. Len(from) : 1 <= from[j]
    BY <2>2, <2>3 DEF IsTyping
  <2>5. Progress(text, from, to)'
    BY <1>1, <2>3, <2>4, ArgParserAssumption DEF Progress
  <2>. QED BY <2>1, <2>5
<1>. QED BY <1>2, <1>3, <1>4, <1>5, <1>6 DEF ParsesInv

\* The end of a line hands the array over with a text in it.
LEMMA EndOfLineParses ==
  ASSUME CommandInv, ParserInv, EndOfLine
  PROVE  ParserInv'
<1>1. task = "gpiomon" /\ task' = task /\ StartParse /\ pos' = 0
      /\ line' = [line EXCEPT ![pos + 1] = NUL]
      /\ handled' = Append(handled, [text |-> SubSeq(line, 1, pos), line |-> typed.line])
  BY DEF EndOfLine, Reading
<1>2. CommandTypeOK /\ CommandTypeOK' /\ pos \in Nat
  BY EndOfLineKeeps DEF CommandInv, CommandTypeOK
<1>3. PICK text : text = SubSeq(line, 1, pos)
  OBVIOUS
<1>4. text \in Seq(AnyByte) /\ pos + 1 \in 1 .. Size(task) /\ typed.line \in Seq(AnyByte)
  <2>1. typed \in [bytes : Nat, line : Seq(AnyByte), entering : BOOLEAN]
    BY <1>2 DEF CommandTypeOK
  <2>. QED BY <1>1, <1>3, <2>1, ArrayText DEF CommandInv
<1>5. /\ line \in Seq(AnyByte) /\ Len(line) = Size(task) /\ Size(task) \in Nat
      /\ DOMAIN line = 1 .. Size(task)
  BY <1>2, LineIs
<1>6. Len(text) = pos /\ \A i \in 1 .. pos : text[i] = line[i]
  BY <1>2, <1>3, <1>4, <1>5, PartIs
<1>7. line'[pos + 1] = NUL /\ \A i \in 1 .. pos : line'[i] = line[i]
  BY <1>1, <1>2, <1>4, <1>5
<1>8. \A i \in 1 .. pos : line[i] # NUL
  BY <1>1 DEF ParserInv, NoEnd
<1>9. ParserTypeOK' /\ ParsesInv'
  BY <1>1, <1>2, <1>3, <1>4, <1>6, <1>7, <1>8, StartHolds
<1>10. NoEnd'
  BY <1>1 DEF NoEnd
<1>. QED BY <1>9, <1>10 DEF ParserInv

\* So does a read in which a line ends.
LEMMA ReadParses ==
  ASSUME CommandInv, CommandTypeOK', ParserInv,
         NEW s \in Seq(Bytes \cup {CR, LF}), s # <<>>, Read(s)
  PROVE  ParserInv'
<1> DEFINE n == pos + Len(s)
           d == WithBytes(s)
           f == FirstEol(d, n)
           T == {i \in 1 .. n : line'[i] = NUL}
<1>1. /\ Reading("command_task", Len(s)) /\ line' = Ended(d, n) /\ task' = task
      /\ task = "command_task" /\ ~handling /\ UNCHANGED task /\ n <= BUF_SIZE
  BY DEF Read, Reading
<1>2. /\ n \in Nat \ {0} /\ n <= Size(task) /\ d \in [1 .. Size(task) -> AnyByte]
      /\ Size(task) \in Nat
  BY <1>1, WithBytesIs, LineIs DEF CommandInv
<1>3. NoEnd'
  BY <1>1 DEF NoEnd
<1>4. CASE argparser_check_for_eol(d, n) = 0
  <2>1. UNCHANGED <<rover, argv, running, handling>>
    BY <1>4 DEF Read
  <2>. QED BY <1>1, <1>3, <2>1 DEF ParserInv, ParserTypeOK, ParsesInv
<1>5. CASE argparser_check_for_eol(d, n) # 0
  <2>1. f # 0
    BY <1>5 DEF argparser_check_for_eol
  <2>2. f \in 1 .. n
    BY <1>2, <2>1, FirstEolIs
  <2>3. line' = [d EXCEPT ![f] = NUL]
    BY <1>1, <2>1 DEF Ended
  <2>4. line' \in [1 .. Size(task) -> AnyByte]
    BY <1>1, ReadTypes
  <2>5. f \in T /\ T \in SUBSET (1 .. n)
    <3>1. f \in DOMAIN d
      BY <1>2, <2>2
    <3>2. line'[f] = NUL
      <4> HIDE DEF f, d
      <4>. QED BY <2>3, <3>1
    <3>. QED BY <2>2, <3>2
  <2>6. PICK k : k = First(T)
    OBVIOUS
  <2>7. k \in T /\ \A y \in T : k <= y
    <3> HIDE DEF T
    <3>1. T # {} /\ n \in Nat
      BY <1>2, <2>5
    <3>2. k = Min(T)
      BY <2>6, <3>1 DEF First
    <3>. QED BY <2>5, <3>1, <3>2, MinIs
  <2>8. k \in 1 .. n /\ line'[k] = NUL /\ \A i \in 1 .. k - 1 : line'[i] # NUL
    <3>1. k \in 1 .. n /\ line'[k] = NUL
      BY <2>7
    <3>2. ASSUME NEW i \in 1 .. k - 1, line'[i] = NUL PROVE FALSE
      <4>1. i \in 1 .. n /\ i < k
        BY <1>2, <3>1
      <4>2. k <= i
        BY <2>7, <3>2, <4>1
      <4>. QED BY <3>1, <4>1, <4>2
    <3>. QED BY <3>1, <3>2
  <2>9. PICK text : text = SubSeq(line', 1, k - 1)
    OBVIOUS
  <2>10. line' \in Seq(AnyByte) /\ Len(line') = Size(task)
    BY <1>2, <2>4
  <2>11. /\ text \in Seq(AnyByte) /\ Len(text) = k - 1
         /\ \A i \in 1 .. k - 1 : text[i] = line'[i]
    <3>1. k - 1 \in 0 .. Size(task) /\ 1 \in 1 .. Size(task) + 1
      BY <1>2, <2>8
    <3>. QED BY <1>2, <2>8, <2>9, <2>10, <3>1, PartIs
  <2>12. handled' = Append(handled, [text |-> text, line |-> LineUpTo(s)]) /\ StartParse
    <3>1. handled' = Append(handled, [text |-> SubSeq(line', 1, First(T) - 1),
                                      line |-> LineUpTo(s)]) /\ StartParse
      BY <1>5 DEF Read
    <3> HIDE DEF T
    <3>. QED BY <2>6, <2>9, <3>1
  <2>13. LineUpTo(s) \in Seq(AnyByte)
    BY ReadLines
  <2>14. CommandTypeOK /\ CommandTypeOK'
    BY DEF CommandInv
  <2>15. Len(text) + 1 \in 1 .. Size(task') /\ line'[Len(text) + 1] = NUL
    <3>1. Len(text) + 1 = k /\ task' = task
      BY <1>1, <2>8, <2>11
    <3>. QED BY <1>2, <2>8, <3>1
  <2>16. \A i \in 1 .. Len(text) : line'[i] = text[i] /\ text[i] # NUL
    BY <2>8, <2>11
  <2>. QED BY <1>3, <2>11, <2>12, <2>13, <2>14, <2>15, <2>16, StartHolds DEF ParserInv
<1>. QED BY <1>4, <1>5

\* Every step keeps the invariant of the parser.
LEMMA ParserInvKept ==
  ASSUME CommandInv, CommandInv', ParserInv, [CommandNext]_commandvars
  PROVE  ParserInv'
<1>1. CASE UNCHANGED commandvars
  BY <1>1 DEF commandvars, own, ParserInv, ParserTypeOK, NoEnd, ParsesInv, Holding, Size,
     Progress, IsFound
<1>2. CASE EndOfLine
  BY <1>2, EndOfLineParses
<1>3. ASSUME NEW ch \in Bytes, Byte(ch) PROVE ParserInv'
  <2>1. /\ task = "gpiomon" /\ task' = task /\ ~handling /\ handling' = handling
        /\ UNCHANGED <<rover, argv, running>>
        /\ IF pos < SizeOfCmd
           THEN line' = [line EXCEPT ![pos + 1] = ch] /\ pos' = pos + 1
           ELSE UNCHANGED <<line, pos>>
    BY <1>3 DEF Byte, Reading
  <2>2. ParserTypeOK' /\ ParsesInv'
    BY <2>1 DEF ParserInv, ParserTypeOK, ParsesInv
  <2>3. /\ pos \in Nat /\ pos + 1 \in 1 .. Size(task) /\ DOMAIN line = 1 .. Size(task)
        /\ Size(task) \in Nat /\ \A i \in 1 .. pos : line[i] # NUL
    BY <2>1, LineIs, ArrayText DEF CommandInv, CommandTypeOK, ParserInv, NoEnd
  <2>4. ch # NUL
    BY CommandLineAssumption
  <2>5. \A i \in 1 .. pos' : line'[i] # NUL
    <3>1. CASE pos < SizeOfCmd
      <4>1. line' = [line EXCEPT ![pos + 1] = ch] /\ pos' = pos + 1
        BY <2>1, <3>1
      <4> TAKE i \in 1 .. pos'
      <4>2. i \in 1 .. pos \/ i = pos + 1
        BY <2>3, <4>1
      <4>3. i \in DOMAIN line
        BY <2>3, <4>2
      <4>. QED BY <2>3, <2>4, <4>1, <4>2, <4>3
    <3>2. CASE ~ (pos < SizeOfCmd)
      <4>1. line' = line /\ pos' = pos
        BY <2>1, <3>2
      <4>. QED BY <2>3, <4>1
    <3>. QED BY <3>1, <3>2
  <2>. QED BY <2>2, <2>5 DEF ParserInv, NoEnd
<1>4. CASE command_task
  <2>1. PICK s \in Seq(Bytes \cup {CR, LF}) : s # <<>> /\ (Read(s) \/ Overrun(s))
    BY <1>4, Typed
  <2>2. CASE Read(s)
    BY <2>1, <2>2, ReadParses DEF CommandInv
  <2>3. CASE Overrun(s)
    <3>1. /\ task = "command_task" /\ ~handling
          /\ UNCHANGED <<line, rover, argv, running, task, handling, handled>>
      BY <2>3 DEF Overrun, Reading
    <3>. QED BY <3>1 DEF ParserInv, ParserTypeOK, NoEnd, ParsesInv
  <2>. QED BY <2>1, <2>2, <2>3
<1>5. CASE Parse
  <2>1. /\ handling /\ argparser_parse /\ task' = task /\ pos' = pos
        /\ handling' = handling /\ handled' = handled
    BY <1>5 DEF Parse, own
  <2>2. CommandTypeOK /\ ParserTypeOK
    BY DEF CommandInv, ParserInv
  <2>3. PICK text : text = Last(handled).text
    OBVIOUS
  <2>4. /\ handled # <<>> /\ Holding(text)
        /\ \A w \in Typings(text) : Progress(text, w.from, w.to)
    BY <2>1, <2>3 DEF ParserInv, ParsesInv
  <2>5. ASSUME NEW w \in Typings(text) PROVE Progress(text, w.from, w.to)'
    <3>1. PICK from, to : from = w.from /\ to = w.to
      OBVIOUS
    <3>2. IsTyping(text, from, to)
      BY <2>4, <3>1, TypingIs DEF Holding
    <3>3. Progress(text, from, to)
      BY <2>4, <3>1
    <3>4. Progress(text, from, to)'
      BY <2>1, <2>2, <2>4, <3>2, <3>3, PassKeeps
    <3>. QED BY <3>1, <3>4
  <2>6. ParserTypeOK' /\ Holding(text)'
    BY <2>1, <2>2, <2>4, PassHolds
  <2>7. NoEnd'
    <3>1. task = "gpiomon" => pos = 0
      BY <2>1 DEF CommandInv, ArrayInv
    <3>. QED BY <2>1, <3>1 DEF NoEnd
  <2>8. ParsesInv'
    BY <2>1, <2>3, <2>4, <2>5, <2>6 DEF ParsesInv
  <2>. QED BY <2>6, <2>7, <2>8 DEF ParserInv
<1>6. CASE Command
  <2>1. /\ handling /\ ~handling' /\ UNCHANGED <<line, rover, argv, running, task>>
        /\ task = "gpiomon" => pos' = pos
    BY <1>6 DEF Command
  <2>. QED BY <2>1 DEF ParserInv, ParserTypeOK, NoEnd, ParsesInv
<1>. QED BY <1>1, <1>2, <1>3, <1>4, <1>5, <1>6 DEF CommandNext, gpiomon

\* The lesser of two numbers.
LEMMA MinOfTwo ==
  ASSUME NEW m \in Nat, NEW n \in Nat
  PROVE  Min({m, n}) = IF m <= n THEN m ELSE n
<1>1. PICK x \in {m, n} : \A y \in {m, n} : x <= y
  BY LeastNat
<1>2. Min({m, n}) \in {m, n} /\ \A y \in {m, n} : Min({m, n}) <= y
  BY <1>1 DEF Min
<1>. QED BY <1>2

\* What the parser's array points to is what was typed.
LEMMA FoundIsMeant ==
  ASSUME CommandTypeOK, NEW text, Holding(text),
         NEW f \in 1 .. Len(text), NEW t \in 1 .. Len(text), IsArgument(text, f, t),
         NEW p, IsFound(text, f, t, p)
  PROVE  Text(p) = Meant(text, f, t)
<1> DEFINE b == BeginOf(text, f)
           e == EndOf(text, f, t)
           L == Len(text)
<1>1. /\ text \in Seq(AnyByte) /\ L \in Nat /\ \A i \in 1 .. L : text[i] # NUL
      /\ L + 1 \in 1 .. Size(task)
  BY DEF Holding
<1>2. /\ b \in Nat \ {0} /\ e \in Nat /\ b <= e + 1 /\ e <= L
  BY <1>1, ArgumentIs
<1>3. p = b /\ line[e + 1] = NUL /\ \A i \in b .. e : line[i] = text[i]
  BY DEF IsFound
<1>4. /\ line \in Seq(AnyByte) /\ Len(line) = Size(task) /\ Size(task) \in Nat
  BY LineIs
<1> HIDE DEF b, e
<1>5. strchr(b, NUL) = e + 1
  <2>1. e + 1 \in b .. Size(task) /\ (e + 1) - 1 = e
    BY <1>1, <1>2, <1>4
  <2>2. \A i \in b .. e : line[i] \notin {NUL, NUL}
    BY <1>1, <1>2, <1>3
  <2>. QED BY <1>2, <1>3, <2>1, <2>2, StrchrIs
<1>6. Text(p) = SubSeq(line, b, e)
  BY <1>2, <1>3, <1>5 DEF Text
<1>7. Meant(text, f, t) = SubSeq(text, b, e)
  BY DEF Meant, b, e
<1>8. /\ b \in 1 .. Len(line) + 1 /\ e \in b - 1 .. Len(line)
      /\ b \in 1 .. L + 1 /\ e \in b - 1 .. L
  BY <1>1, <1>2, <1>4
<1>9. /\ SubSeq(line, b, e) \in Seq(AnyByte) /\ Len(SubSeq(line, b, e)) = e - b + 1
      /\ \A i \in 1 .. e - b + 1 : SubSeq(line, b, e)[i] = line[i + b - 1]
  BY <1>4, <1>8, PartIs
<1>10. /\ SubSeq(text, b, e) \in Seq(AnyByte) /\ Len(SubSeq(text, b, e)) = e - b + 1
       /\ \A i \in 1 .. e - b + 1 : SubSeq(text, b, e)[i] = text[i + b - 1]
  BY <1>1, <1>8, PartIs
<1>11. \A i \in 1 .. e - b + 1 : line[i + b - 1] = text[i + b - 1]
  <2> TAKE i \in 1 .. e - b + 1
  <2>1. i + b - 1 \in b .. e
    BY <1>2
  <2>. QED BY <1>3, <2>1, Zenon
<1>12. \A i \in 1 .. Len(SubSeq(line, b, e)) : SubSeq(line, b, e)[i] = SubSeq(text, b, e)[i]
  BY <1>9, <1>10, <1>11
<1>13. SubSeq(line, b, e) = SubSeq(text, b, e)
  BY <1>9, <1>10, <1>12, SeqEqual, Zenon
<1>. QED BY <1>6, <1>7, <1>13

\* The arguments are what was typed, in whichever way, for any number of them
\* of any length, and whatever the buffer held before (argparser.c:27-52,
\* argparser_tests.c:21-23, 35-42).
THEOREM FindsTheArguments == CommandSpec => []FindsWhatWasTyped
<1>1. CommandInit => ParserInv
  <2> SUFFICES ASSUME CommandInit PROVE ParserInv
    OBVIOUS
  <2>1. argv \in Seq(Nat)
    BY EmptySeq, Zenon DEF CommandInit
  <2>2. rover = 1 /\ running = FALSE /\ pos = 0 /\ handling = FALSE
    BY DEF CommandInit
  <2>3. ParserTypeOK
    <3>1. rover \in Nat \ {0}
      BY <2>2
    <3>2. running \in BOOLEAN
      BY <2>2, Zenon
    <3>. QED BY <2>1, <3>1, <3>2 DEF ParserTypeOK
  <2>4. NoEnd
    BY <2>2 DEF NoEnd
  <2>5. ParsesInv
    BY <2>2, Zenon DEF ParsesInv
  <2>. QED BY <2>3, <2>4, <2>5 DEF ParserInv
<1>2. CommandInv /\ ParserInv => FindsWhatWasTyped
  <2> SUFFICES ASSUME CommandInv, ParserInv, handling, ~running,
                      NEW text, text = Last(handled).text, NEW w \in Typings(text)
               PROVE  Texts = [k \in 1 .. Min({Len(w.from), ARGPARSER_MAXARGS}) |->
                                 Meant(text, w.from[k], w.to[k])]
    BY Zenon DEF FindsWhatWasTyped
  <2>1. PICK from, to : from = w.from /\ to = w.to
    OBVIOUS
  <2>2. Holding(text) /\ Progress(text, from, to) /\ ParserTypeOK /\ CommandTypeOK
    BY <2>1 DEF CommandInv, ParserInv, ParsesInv
  <2>3. IsTyping(text, from, to)
    BY <2>1, <2>2, TypingIs DEF Holding
  <2>4. /\ Len(argv) \in Nat /\ DOMAIN argv = 1 .. Len(argv) /\ Len(from) \in Nat
        /\ ARGPARSER_MAXARGS \in Nat
    BY <2>2, <2>3, ArgParserAssumption DEF ParserTypeOK, IsTyping
  <2>5. /\ Len(argv) <= Len(from) /\ Len(argv) <= ARGPARSER_MAXARGS
        /\ Len(argv) = Len(from) \/ Len(argv) = ARGPARSER_MAXARGS
    BY <2>2, Zenon DEF Progress
  <2>6. Len(argv) = Min({Len(from), ARGPARSER_MAXARGS})
    <3>1. Min({Len(from), ARGPARSER_MAXARGS}) =
            IF Len(from) <= ARGPARSER_MAXARGS THEN Len(from) ELSE ARGPARSER_MAXARGS
      BY <2>4, MinOfTwo, Zenon
    <3> DEFINE k == Len(argv)
               n == Len(from)
               m == Min({n, ARGPARSER_MAXARGS})
    <3> HIDE DEF k, n, m
    <3>2. /\ k \in Nat /\ n \in Nat /\ ARGPARSER_MAXARGS \in Nat
          /\ k <= n /\ k <= ARGPARSER_MAXARGS /\ (k = n \/ k = ARGPARSER_MAXARGS)
          /\ m = IF n <= ARGPARSER_MAXARGS THEN n ELSE ARGPARSER_MAXARGS
      BY <2>4, <2>5, <3>1, Zenon DEF k, n, m
    <3>3. k = m
      BY <3>2
    <3>. QED BY <3>3 DEF k, n, m
  <2>7. ASSUME NEW j \in 1 .. Len(argv) PROVE Text(argv[j]) = Meant(text, from[j], to[j])
    <3>1. j \in 1 .. Len(from)
      <4>1. \A k, n \in Nat : k <= n => \A i \in 1 .. k : i \in 1 .. n
        OBVIOUS
      <4>. QED BY <2>4, <2>5, <4>1, Zenon
    <3>2. from[j] \in 1 .. Len(text) /\ to[j] \in 1 .. Len(text)
          /\ IsArgument(text, from[j], to[j])
      BY <2>3, <3>1 DEF IsTyping
    <3>3. IsFound(text, from[j], to[j], argv[j])
      BY <2>2, Zenon DEF Progress
    <3>. QED BY <2>2, <3>2, <3>3, FoundIsMeant
  <2>8. Texts = [k \in 1 .. Len(argv) |-> Text(argv[k])]
    BY <2>4 DEF Texts
  <2>9. Texts = [k \in 1 .. Len(argv) |-> Meant(text, from[k], to[k])]
    BY <2>7, <2>8
  <2>. QED BY <2>1, <2>6, <2>9
<1>3. CommandInv /\ CommandInv' /\ ParserInv /\ [CommandNext]_commandvars => ParserInv'
  BY ParserInvKept
<1>. QED BY <1>1, <1>2, <1>3, CommandInvariance, PTL DEF CommandSpec
=============================================================================

---------------------------- MODULE WifiStation ----------------------------
(***************************************************************************)
(* The Wi-Fi station of the second terminal (esp8266terminal2,             *)
(* main/terminal_main.c).  Two tasks call wifi_sta_join, the monitor       *)
(* every ten seconds and the command task on "wifi join"; the command task *)
(* also stores new credentials ("set stacred") in two steps, which come in *)
(* between those of the monitor.  A third task delivers the events of the  *)
(* Wi-Fi library in the order in which they were posted.                   *)
(*                                                                         *)
(* External: the library and the flash store.  There is an access point    *)
(* for each member of Credentials: its name and its password are one       *)
(* value, so that a pair matches if its parts are equal.  Setting the mode *)
(* starts the station; connecting begins an attempt with the configuration *)
(* of that moment and does nothing if there is a connection.  MaxEvents    *)
(* bounds what the library posts ahead.                                    *)
(***************************************************************************)
EXTENDS Integers, Sequences

CONSTANTS Credentials, MaxEvents, Absent

ASSUME WifiStationAssumption == MaxEvents \in Nat \ {0} /\ Absent \notin Credentials

VARIABLES
  stored,       \* <<sta.ssid, sta.pwd>> in flash
  sta, config, link, attempt, events,       \* the library
  CONNECTED_BIT,    \* of the event group
  at, wifi_mode, wifi_config,               \* of each caller
  given         \* the credentials of the last command, unless it failed

library == <<sta, config, link, attempt, events>>
locals == <<wifi_mode, wifi_config>>
stationvars == <<stored, library, CONNECTED_BIT, at, locals, given>>

Callers == {"monitor", "command"}
Pair == Credentials \X Credentials
Nothing == <<Absent, Absent>>

StationInit ==
  /\ stored \in Pair \cup {Nothing}
  /\ sta = FALSE /\ config = Nothing /\ link = "down" /\ attempt = Nothing
  /\ events = <<>> /\ CONNECTED_BIT = FALSE
  /\ at = [p \in Callers |-> "idle"]
  /\ wifi_mode = [p \in Callers |-> FALSE]
  /\ wifi_config = [p \in Callers |-> Nothing]
  /\ given = Absent

-----------------------------------------------------------------------------
\* The library, and the task that delivers its events.

esp_wifi_connect ==
  /\ link' = IF link = "up" THEN "up" ELSE "trying"
  /\ attempt' = IF link = "up" THEN Nothing ELSE config

\* An attempt that has ended is of no interest any more.
Post(event) ==
  /\ Len(events) < MaxEvents /\ events' = Append(events, event)
  /\ attempt' = Nothing
  /\ UNCHANGED <<stored, sta, config, CONNECTED_BIT, at, locals, given>>

Succeed ==
  /\ link = "trying" /\ attempt # Nothing /\ attempt[1] = attempt[2]
  /\ link' = "up" /\ Post("GOT_IP")

FailOrDrop == link \in {"trying", "up"} /\ link' = "down" /\ Post("DISCONNECTED")

\* What an event makes of the bit.  The mutated form forgets to clear it.
BitNeverCleared(event, bit) == bit \/ event = "GOT_IP"
BitAfter(event, bit) ==
  CASE event = "GOT_IP" -> TRUE
    [] event = "DISCONNECTED" -> FALSE
    [] OTHER -> bit

wifi_event_handler ==
  /\ events # <<>> /\ events' = Tail(events)
  /\ CONNECTED_BIT' = BitAfter(Head(events), CONNECTED_BIT)
  /\ IF Head(events) = "STA_START" THEN esp_wifi_connect ELSE UNCHANGED <<link, attempt>>
  /\ UNCHANGED <<stored, sta, config, at, locals, given>>

-----------------------------------------------------------------------------
\* wifi_sta_join, one step for each call it makes.

Go(p, from, to) == at[p] = from /\ at' = [at EXCEPT ![p] = to]

\* The local variables of a call end with it.
Return(p) ==
  /\ wifi_mode' = [wifi_mode EXCEPT ![p] = FALSE]
  /\ wifi_config' = [wifi_config EXCEPT ![p] = Nothing]

Begin(p) ==
  /\ Go(p, "idle", "mode") /\ ~CONNECTED_BIT
  /\ UNCHANGED <<stored, library, CONNECTED_BIT, locals, given>>

GetMode(p) ==
  /\ Go(p, "mode", IF sta THEN "ssid" ELSE "start")
  /\ wifi_mode' = [wifi_mode EXCEPT ![p] = sta]
  /\ UNCHANGED <<stored, library, CONNECTED_BIT, wifi_config, given>>

\* The other caller may have set the mode since.
SetMode(p) ==
  /\ Go(p, "start", "ssid") /\ sta' = TRUE
  /\ events' = IF sta THEN events ELSE Append(events, "STA_START")
  /\ UNCHANGED <<stored, config, link, attempt, CONNECTED_BIT, locals, given>>

Found(value) == value # Absent

ReadString(p, i, from, to) ==
  /\ UNCHANGED <<stored, library, CONNECTED_BIT, given>>
  /\ IF Found(stored[i])
     THEN /\ Go(p, from, to) /\ UNCHANGED wifi_mode
          /\ wifi_config' = [wifi_config EXCEPT ![p][i] = stored[i]]
     ELSE Go(p, from, "idle") /\ Return(p)
ReadSsid(p) == ReadString(p, 1, "ssid", "pwd")
ReadPassword(p) == ReadString(p, 2, "pwd", "config")

SetConfig(p) ==
  /\ Go(p, "config", "connect") /\ config' = wifi_config[p]
  /\ UNCHANGED <<stored, sta, link, attempt, events, CONNECTED_BIT, locals, given>>

SetConfigFails(p) ==
  /\ Go(p, "config", "idle") /\ Return(p)
  /\ UNCHANGED <<stored, library, CONNECTED_BIT, given>>

\* If the station was not started before, the event of its start connects.  In
\* the mutated form that is left to the event in any case.
ConnectsNever(was) == FALSE
Connects(was) == was
ConnectNow(p) ==
  /\ Go(p, "connect", "idle") /\ Return(p)
  /\ IF Connects(wifi_mode[p]) THEN esp_wifi_connect ELSE UNCHANGED <<link, attempt>>
  /\ UNCHANGED <<stored, sta, config, events, CONNECTED_BIT, given>>

wifi_sta_join(p) ==
  \/ Begin(p) \/ GetMode(p) \/ SetMode(p) \/ ReadSsid(p) \/ ReadPassword(p)
  \/ SetConfig(p) \/ SetConfigFails(p) \/ ConnectNow(p)

-----------------------------------------------------------------------------
\* "set stacred": the name and then, if that could be stored, the password.

\* In the mutated form the first result is forgotten.
NextAnyhow(ok) == "store"
NextIf(ok) == IF ok THEN "store" ELSE "idle"

StoreSsid(k, ok) ==
  /\ Go("command", "idle", NextIf(ok))
  /\ given' = IF NextIf(ok) = "idle" THEN Absent ELSE k
  /\ stored' = IF ok THEN [stored EXCEPT ![1] = k] ELSE stored
  /\ UNCHANGED <<library, CONNECTED_BIT, locals>>

\* The answer is OK_ or ERR.
StorePassword(ok) ==
  /\ Go("command", "store", "idle")
  /\ given' = IF ok THEN given ELSE Absent
  /\ stored' = IF ok THEN [stored EXCEPT ![2] = given] ELSE stored
  /\ UNCHANGED <<library, CONNECTED_BIT, locals>>

set_stacred == \E ok \in BOOLEAN : StorePassword(ok) \/ \E k \in Credentials : StoreSsid(k, ok)

StationNext ==
  \/ \E p \in Callers : wifi_sta_join(p)
  \/ set_stacred
  \/ wifi_event_handler \/ Succeed \/ FailOrDrop

\* The timer calls the monitor again and again, events are delivered, and an
\* access point and the library do not refuse for ever what is right.
StationFairness ==
  /\ WF_stationvars(wifi_sta_join("monitor")) /\ SF_stationvars(SetConfig("monitor"))
  /\ WF_stationvars(wifi_event_handler) /\ SF_stationvars(Succeed)

StationSpec == StationInit /\ [][StationNext]_stationvars /\ StationFairness

-----------------------------------------------------------------------------
\* What the bit will be when the events under way are delivered: what the last
\* of them that tells of the connection says, or what it is if none does.
IsLastTold(event, i) ==
  /\ i \in 1 .. Len(events) /\ events[i] = event
  /\ \A j \in i + 1 .. Len(events) : events[j] = "STA_START"
BitInTheEnd ==
  \/ \E i \in 1 .. Len(events) : IsLastTold("GOT_IP", i)
  \/ CONNECTED_BIT /\ \A i \in 1 .. Len(events) : events[i] = "STA_START"

\* Once the events under way are delivered, the bit says whether there is a
\* connection: the monitor neither leaves a station that lost its connection
\* alone nor disturbs one that has it (terminal_main.c:41-59, 71-74).
BitFollowsLink == BitInTheEnd <=> link = "up"

\* A command that was answered with OK_ has stored the name and the password
\* it was given; after a failure the two may not match (terminal_main.c:320-328).
OkMeansStored == given # Absent /\ at["command"] # "store" => stored = <<given, given>>

\* A station without a connection gets one if the credentials in flash match
\* and stay, whatever mixture the monitor read before, and though the event of
\* the start may connect before the configuration is set
\* (terminal_main.c:67-110).
JoinsInTheEnd ==
  \A k \in Credentials :
    (stored = <<k, k>> /\ ~CONNECTED_BIT) ~> (CONNECTED_BIT \/ stored # <<k, k>>)
=============================================================================

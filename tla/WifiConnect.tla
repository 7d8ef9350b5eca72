---------------------------- MODULE WifiConnect ----------------------------
(***************************************************************************)
(* example_connect over Wi-Fi, as labs 7.1 to 7.3 call it before they      *)
(* start their task.  The main task starts the station and waits on two    *)
(* semaphores for an IPv4 and an IPv6 address; handlers that run in the    *)
(* event task, at a higher priority on the one core, reconnect, count the  *)
(* failures in a row, and give the semaphores when there are addresses or  *)
(* no more retries.  The handlers stay after the main task is done.        *)
(*                                                                         *)
(* The Wi-Fi driver, DHCP and IPv6 of ESP-IDF are the environment: they    *)
(* post events to the event task's queue.                                  *)
(***************************************************************************)
EXTENDS Integers, Sequences

CONSTANTS
  CONFIG_EXAMPLE_WIFI_CONN_MAX_RETRY,
  MaxEvents     \* bound on the events that wait to be handled

ASSUME WifiConnectAssumption ==
  CONFIG_EXAMPLE_WIFI_CONN_MAX_RETRY \in Nat /\ MaxEvents \in Nat \ {0}

VARIABLES
  main,             \* where the main task is in example_connect
  s_retry_num,
  sem,              \* the two semaphores: of IPv4 and of IPv6
  registered        \* the handlers are registered

mainVars == <<main, s_retry_num, sem, registered>>

VARIABLES
  sta,              \* what the driver's station does
  ip,               \* the station has an IPv4 address
  ip6_pending,      \* an IPv6 link-local address was asked for
  events,           \* the events not yet handled
  air,              \* the access point is in reach and works
  obtained          \* the addresses obtained since the start

driverVars == <<sta, ip, ip6_pending, events>>
wifiVars == <<mainVars, driverVars, air, obtained>>

IPv == {4, 6}

WifiTypeOK ==
  /\ main \in {<<"start">>, <<"check">>, <<"done">>} \cup ({"take", "delete", "forget"} \X IPv)
  /\ s_retry_num \in 0 .. CONFIG_EXAMPLE_WIFI_CONN_MAX_RETRY + 1
  /\ sem \in [IPv -> {"null", "empty", "full", "deleted"}]
  /\ registered \in BOOLEAN
  /\ sta \in {"idle", "connecting", "connected"}
  /\ ip \in BOOLEAN /\ ip6_pending \in BOOLEAN /\ air \in BOOLEAN
  /\ events \in Seq({"connected", "disconnected", "roaming", "got_ip", "got_ip6"})
  /\ Len(events) <= MaxEvents
  /\ obtained \subseteq IPv

\* After power-on or a restart.
Restarted ==
  [main |-> <<"start">>, s_retry_num |-> 0, sem |-> [v \in IPv |-> "null"], registered |-> FALSE,
   sta |-> "idle", ip |-> FALSE, ip6_pending |-> FALSE, events |-> <<>>, obtained |-> {}]

WifiInit ==
  /\ main = Restarted.main /\ s_retry_num = Restarted.s_retry_num /\ sem = Restarted.sem
  /\ registered = Restarted.registered /\ sta = Restarted.sta /\ ip = Restarted.ip
  /\ ip6_pending = Restarted.ip6_pending /\ events = Restarted.events
  /\ obtained = Restarted.obtained /\ air \in BOOLEAN

Restart ==
  /\ main' = Restarted.main /\ s_retry_num' = Restarted.s_retry_num /\ sem' = Restarted.sem
  /\ registered' = Restarted.registered /\ sta' = Restarted.sta /\ ip' = Restarted.ip
  /\ ip6_pending' = Restarted.ip6_pending /\ events' = Restarted.events
  /\ obtained' = Restarted.obtained /\ UNCHANGED air

-----------------------------------------------------------------------------
(* The main task: example_wifi_connect and example_wifi_sta_do_connect.    *)

StartStation ==
  /\ main = <<"start">>
  /\ sem' = [v \in IPv |-> "empty"]
  /\ s_retry_num' = 0
  /\ registered' = TRUE
  /\ sta' = "connecting"
  /\ main' = <<"take", 4>>
  /\ UNCHANGED <<ip, ip6_pending, events, air, obtained>>

\* Waits without a time limit.
TakeSemaphore(v) ==
  /\ main = <<"take", v>> /\ sem[v] = "full"
  /\ sem' = [sem EXCEPT ![v] = "empty"]
  /\ main' = <<"delete", v>>
  /\ UNCHANGED <<s_retry_num, registered, driverVars, air, obtained>>

DeleteSemaphore(v) ==
  /\ main = <<"delete", v>>
  /\ sem' = [sem EXCEPT ![v] = "deleted"]
  /\ main' = <<"forget", v>>
  /\ UNCHANGED <<s_retry_num, registered, driverVars, air, obtained>>

ForgetSemaphore(v) ==
  /\ main = <<"forget", v>>
  /\ sem' = [sem EXCEPT ![v] = "null"]
  /\ main' = IF v = 4 THEN <<"take", 6>> ELSE <<"check">>
  /\ UNCHANGED <<s_retry_num, registered, driverVars, air, obtained>>

RetriesAreUsedUp == s_retry_num > CONFIG_EXAMPLE_WIFI_CONN_MAX_RETRY

ConnectSucceeds ==
  /\ main = <<"check">> /\ ~RetriesAreUsedUp
  /\ main' = <<"done">>
  /\ UNCHANGED <<s_retry_num, sem, registered, driverVars, air, obtained>>

\* ESP_FAIL meets the labs' ESP_ERROR_CHECK.
ConnectAborts ==
  /\ main = <<"check">> /\ RetriesAreUsedUp
  /\ Restart

-----------------------------------------------------------------------------
(* The event task.                                                         *)

\* Given semaphores are full; one that was deleted and not yet forgotten is
\* given too, with no effect or the one of Crash.
Give(v) == IF sem[v] = "empty" THEN "full" ELSE sem[v]

Handling(e) == events # <<>> /\ Head(events) = e /\ events' = Tail(events)

\* Mutant of NoRetryIsLeft: gives up one attempt early.
LastRetry == s_retry_num + 1 >= CONFIG_EXAMPLE_WIFI_CONN_MAX_RETRY

NoRetryIsLeft == s_retry_num + 1 > CONFIG_EXAMPLE_WIFI_CONN_MAX_RETRY

IsDisconnect == events # <<>> /\ Head(events) \in {"disconnected", "roaming"}

\* Mutant of example_wifi_sta_do_disconnect: the handlers stay.
StaysRegistered == UNCHANGED <<registered, sta, ip, ip6_pending>>

example_wifi_sta_do_disconnect ==
  /\ registered' = FALSE
  /\ sta' = "idle" /\ ip' = FALSE /\ ip6_pending' = FALSE

\* example_handler_on_wifi_disconnect.  The station gives up: both waits end,
\* the handlers go, and nothing connects it again.
GiveUp ==
  /\ registered /\ IsDisconnect /\ NoRetryIsLeft
  /\ events' = Tail(events)
  /\ s_retry_num' = s_retry_num + 1
  /\ sem' = [v \in IPv |-> Give(v)]
  /\ example_wifi_sta_do_disconnect
  /\ UNCHANGED <<main, air, obtained>>

\* Mutant of esp_wifi_connect: the driver is left to itself.
StaysIdle == sta' = sta

esp_wifi_connect == sta' = IF sta = "idle" THEN "connecting" ELSE sta

\* A roaming station connects by itself.
Reconnect ==
  /\ registered /\ IsDisconnect /\ ~NoRetryIsLeft
  /\ events' = Tail(events)
  /\ s_retry_num' = s_retry_num + 1
  /\ IF Head(events) = "disconnected" THEN esp_wifi_connect ELSE UNCHANGED sta
  /\ UNCHANGED <<main, sem, registered, ip, ip6_pending, air, obtained>>

OnConnected ==
  /\ registered /\ Handling("connected")
  /\ ip6_pending' = (sta = "connected")
  /\ UNCHANGED <<mainVars, sta, ip, air, obtained>>

OnGotIp ==
  /\ registered /\ Handling("got_ip")
  /\ s_retry_num' = 0
  /\ sem' = [sem EXCEPT ![4] = Give(4)]
  /\ obtained' = obtained \cup {4}
  /\ UNCHANGED <<main, registered, sta, ip, ip6_pending, air>>

OnGotIp6 ==
  /\ registered /\ Handling("got_ip6")
  /\ sem' = [sem EXCEPT ![6] = Give(6)]
  /\ obtained' = obtained \cup {6}
  /\ UNCHANGED <<main, s_retry_num, registered, sta, ip, ip6_pending, air>>

Unhandled ==
  /\ ~registered /\ events # <<>>
  /\ events' = Tail(events)
  /\ UNCHANGED <<mainVars, sta, ip, ip6_pending, air, obtained>>

\* The semaphore that is given was deleted, and the heap has been reused.
Crash ==
  /\ registered /\ events # <<>>
  /\ \/ IsDisconnect /\ NoRetryIsLeft /\ \E v \in IPv : sem[v] = "deleted"
     \/ Head(events) = "got_ip" /\ sem[4] = "deleted"
     \/ Head(events) = "got_ip6" /\ sem[6] = "deleted"
  /\ Restart

HandlerNext == GiveUp \/ Reconnect \/ OnConnected \/ OnGotIp \/ OnGotIp6 \/ Unhandled

-----------------------------------------------------------------------------
(* The driver.                                                             *)

Post(e) == Len(events) < MaxEvents /\ events' = Append(events, e)

Associate ==
  /\ sta = "connecting" /\ air
  /\ sta' = "connected"
  /\ Post("connected")
  /\ UNCHANGED <<mainVars, ip, ip6_pending, air, obtained>>

ObtainIp ==
  /\ sta = "connected" /\ ~ip
  /\ ip' = TRUE
  /\ Post("got_ip")
  /\ UNCHANGED <<mainVars, sta, ip6_pending, air, obtained>>

ObtainIp6 ==
  /\ sta = "connected" /\ ip6_pending
  /\ ip6_pending' = FALSE
  /\ Post("got_ip6")
  /\ UNCHANGED <<mainVars, sta, ip, air, obtained>>

DriverNext == Associate \/ ObtainIp \/ ObtainIp6

\* A connection that is lost, or an attempt that fails.
Lose ==
  /\ sta # "idle" /\ ~air
  /\ sta' = "idle" /\ ip' = FALSE /\ ip6_pending' = FALSE
  /\ Post("disconnected")
  /\ UNCHANGED <<mainVars, air, obtained>>

\* The station goes to another access point of the same network.
Roam ==
  /\ sta = "connected" /\ ~air
  /\ sta' = "connecting" /\ ip' = FALSE /\ ip6_pending' = FALSE
  /\ Post("roaming")
  /\ UNCHANGED <<mainVars, air, obtained>>

Fade == air' = ~air /\ UNCHANGED <<mainVars, driverVars, obtained>>

\* What the labs' tasks need of it.
Online == sta = "connected" /\ ip

\* The station will not connect again.
GaveUp == main = <<"done">> /\ ~registered
=============================================================================

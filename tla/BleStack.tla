------------------------------ MODULE BleStack ------------------------------
(***************************************************************************)
(* The Bluetooth stack as the mouse programs use it: it registers          *)
(* applications, creates attribute tables, advertises, lets hosts come and *)
(* go, and tells the program about all of it through one queue of events,  *)
(* which the Bluetooth task hands to the program's callbacks in order.     *)
(* None of it is code of the repository.                                   *)
(*                                                                         *)
(* An application's interface (gatts_if) is named after the application.   *)
(***************************************************************************)
EXTENDS Integers, Sequences

CONSTANTS
  Host,      \* computers that may connect
  NoHost,
  ConnId,    \* numbers the stack gives to connections, and gives again
  Answers    \* whether registrations and tables succeed

ASSUME StackAssumption ==
  NoHost \notin Host /\ ConnId \subseteq Nat /\ ConnId # {} /\ Answers \subseteq BOOLEAN

VARIABLES
  interfaces,    \* applications that have an interface
  calls,         \* what the program asked for and the stack has not done
  advertising,
  links,         \* the host behind each connection number
  services,      \* services that have been started
  events         \* on their way to the callbacks

stackVars == <<interfaces, calls, advertising, links, services, events>>

HIDD_APP_ID == "hid"
BATTRAY_APP_ID == "battery"
Application == {HIDD_APP_ID, BATTRAY_APP_ID}
ESP_GATT_IF_NONE == "none"

\* Calls that are answered by an event: advertising data to set up and tables
\* to create, named after their service.
Call == {"adv_data"} \cup Application

\* Every event names the interface it is for; the other fields are 0, NoHost
\* and TRUE where they say nothing.
Event == [type : {"REG", "CREAT_ATTR_TAB", "ADV_DATA_SET", "CONNECT", "DISCONNECT"},
          gatts_if : Application \cup {ESP_GATT_IF_NONE}, app : Application \cup {ESP_GATT_IF_NONE},
          conn_id : ConnId \cup {0}, host : Host \cup {NoHost}, ok : BOOLEAN]

StackEvent(type, gatts_if, app, ok) ==
  [type |-> type, gatts_if |-> gatts_if, app |-> app, conn_id |-> 0, host |-> NoHost, ok |-> ok]

LinkEvent(type, gatts_if, c, h) ==
  [type |-> type, gatts_if |-> gatts_if, app |-> ESP_GATT_IF_NONE, conn_id |-> c, host |-> h,
   ok |-> TRUE]

StackTypeOK ==
  /\ interfaces \subseteq Application
  /\ calls \subseteq Call
  /\ advertising \in BOOLEAN
  /\ links \in [ConnId -> Host \cup {NoHost}]
  /\ services \subseteq Application
  /\ events \in Seq(Event)

StackInit ==
  /\ interfaces = {}
  /\ calls = {}
  /\ advertising = FALSE
  /\ links = [c \in ConnId |-> NoHost]
  /\ services = {}
  /\ events = <<>>

Linked == {c \in ConnId : links[c] # NoHost}

\* esp_ble_gatts_app_register: the answer says whether there was room.
RegisterApp(app) ==
  \E ok \in Answers :
    /\ interfaces' = IF ok THEN interfaces \cup {app} ELSE interfaces
    /\ events' = Append(events, StackEvent("REG", app, app, ok))

AnswerCall ==
  /\ \E c \in calls : \E ok \in Answers :
       /\ calls' = calls \ {c}
       /\ events' = Append(events,
            IF c = "adv_data"
              THEN StackEvent("ADV_DATA_SET", ESP_GATT_IF_NONE, ESP_GATT_IF_NONE, ok)
              ELSE StackEvent("CREAT_ATTR_TAB", HIDD_APP_ID, c, ok))
  /\ UNCHANGED <<interfaces, advertising, links, services>>

\* Every registered application is told of a link, one after the other.
Tell(type, c, h) ==
  LET told == (IF BATTRAY_APP_ID \in interfaces THEN <<BATTRAY_APP_ID>> ELSE <<>>)
                \o (IF HIDD_APP_ID \in interfaces THEN <<HIDD_APP_ID>> ELSE <<>>)
  IN  events' = events \o [i \in 1 .. Len(told) |-> LinkEvent(type, told[i], c, h)]

\* A connection ends the advertising that made it possible.
HostConnects ==
  /\ advertising
  /\ \E h \in Host \ {links[c] : c \in ConnId}, c \in ConnId \ Linked :
       /\ links' = [links EXCEPT ![c] = h]
       /\ Tell("CONNECT", c, h)
  /\ advertising' = FALSE
  /\ UNCHANGED <<interfaces, calls, services>>

LinkDrops ==
  /\ \E c \in Linked :
       /\ links' = [links EXCEPT ![c] = NoHost]
       /\ Tell("DISCONNECT", c, links[c])
  /\ UNCHANGED <<interfaces, calls, advertising, services>>
=============================================================================

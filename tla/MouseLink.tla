------------------------------ MODULE MouseLink ------------------------------
(***************************************************************************)
(* Labs 4.2 and 4.3: the mouse on its HID profile and the Bluetooth stack, *)
(* with hosts that come and go.                                            *)
(***************************************************************************)
EXTENDS HidProfile, ScriptedMouse

CONSTANT MaxTime     \* bound of the clock

VARIABLE main        \* where app_main is

appVars == <<callbackVars, dir, taskVars, timeVars, historyVars>>
vars == <<stackVars, profileVars, appVars, scriptVars, main>>

Report == [host : Host, handle : ReportAttribute, delta : [Axis -> -24 .. 24], now_ms : Nat,
           held : [Axis -> [level : Nat, direction : Nat]], fresh : BOOLEAN]

TypeOK ==
  /\ StackTypeOK /\ ProfileTypeOK /\ AirMouseTypeOK /\ ScriptTypeOK
  /\ held \in [Axis -> [level : Nat, direction : Nat]]
  /\ fresh \in BOOLEAN
  /\ report \in Report \cup {NoReport}
  /\ main \in {"profile", "callbacks", "battery", "hid", "task", "done", "failed"}

Init == StackInit /\ ProfileInit /\ AirMouseInit /\ ScriptInit /\ main = "profile"

-----------------------------------------------------------------------------
(* app_main registers the callbacks, then the applications, and creates    *)
(* the task.                                                               *)

InitProfile ==
  /\ main = "profile" /\ main' = "callbacks"
  /\ esp_hidd_profile_init
  /\ UNCHANGED <<stackVars, pc>>

RegisterCallbacks ==
  /\ main = "callbacks" /\ main' = "battery"
  /\ SetCallback
  /\ UNCHANGED <<stackVars, pc>>

RegisterBattery ==
  /\ main = "battery" /\ main' = "hid"
  /\ RegisterApp(BATTRAY_APP_ID)
  /\ UNCHANGED <<calls, advertising, links, services, profileVars, pc>>

RegisterHid ==
  /\ main = "hid" /\ main' = "task"
  /\ RegisterApp(HIDD_APP_ID)
  /\ UNCHANGED <<calls, advertising, links, services, profileVars, pc>>

\* The stack does not take the call, and app_main returns.
RegisterFails ==
  /\ main = "hid" /\ main' = "failed"
  /\ UNCHANGED <<stackVars, profileVars, pc>>

CreateTask ==
  /\ main = "task" /\ main' = "done"
  /\ StartScript \/ (lab = "lab4_3" /\ StartTask)
  /\ UNCHANGED <<stackVars, profileVars>>

AppMain ==
  /\ InitProfile \/ RegisterCallbacks \/ RegisterBattery \/ RegisterHid \/ RegisterFails
       \/ CreateTask
  /\ report' = NoReport
  /\ UNCHANGED <<callbackVars, dir, axis, sample, now_ms, delta, conn_id, timeVars, held, fresh,
                 scriptVars>>

-----------------------------------------------------------------------------
(* The Bluetooth task hands the next event to gap_event_handler or to      *)
(* gatts_event_handler, and with it to the application.                    *)

AdvDataSet(e) ==
  /\ e.type = "ADV_DATA_SET"
  /\ advertising' = TRUE
  /\ OnOtherEvent
  /\ UNCHANGED <<calls, services, profileVars>>

NotForTheProfile(e) ==
  /\ e.type # "ADV_DATA_SET"
  /\ gatts_event_handler(e) /\ ~Dispatched(e)
  /\ OnOtherEvent
  /\ UNCHANGED <<calls, advertising, services, enabled, hidd_cb, gatt_if, hidd_clcb, att_tbl,
                 incl_svc, hid_rpt_tbl>>

\* The callback answers the end of the registration with advertising data.
Registered(e) ==
  /\ e.type = "REG"
  /\ gatts_event_handler(e) /\ Dispatched(e)
  /\ RegisterEvent(e)
  /\ calls' = calls \cup hidd_le_create_service(e)
                    \cup (IF e.app = HIDD_APP_ID /\ hidd_cb THEN OnRegFinish ELSE {})
  /\ OnOtherEvent
  /\ UNCHANGED <<advertising, services>>

TableCreated(e) ==
  /\ e.type = "CREAT_ATTR_TAB"
  /\ gatts_event_handler(e) /\ Dispatched(e)
  /\ TableEvent(e)
  /\ calls' = calls \cup NextTable(e)
  /\ services' = services \cup Started(e)
  /\ OnOtherEvent
  /\ UNCHANGED advertising

\* Mutant of HostConnected: the mouse advertises on.
AdvertisesOn(e) ==
  /\ e.type = "CONNECT"
  /\ gatts_event_handler(e) /\ Dispatched(e)
  /\ ConnectEvent(e)
  /\ IF hidd_cb THEN OnConnect(e.conn_id) ELSE OnOtherEvent
  /\ advertising' = TRUE
  /\ UNCHANGED <<calls, services>>

HostConnected(e) ==
  /\ e.type = "CONNECT"
  /\ gatts_event_handler(e) /\ Dispatched(e)
  /\ ConnectEvent(e)
  /\ IF hidd_cb THEN OnConnect(e.conn_id) ELSE OnOtherEvent
  /\ UNCHANGED <<calls, advertising, services>>

\* Mutant of HostDisconnected: the mouse does not advertise again.
StaysSilent(e) ==
  /\ e.type = "DISCONNECT"
  /\ gatts_event_handler(e) /\ Dispatched(e)
  /\ IF hidd_cb THEN OnDisconnect ELSE OnOtherEvent
  /\ DisconnectEvent(e)
  /\ UNCHANGED <<calls, advertising, services>>

\* The callback advertises again before the block is given back.
HostDisconnected(e) ==
  /\ e.type = "DISCONNECT"
  /\ gatts_event_handler(e) /\ Dispatched(e)
  /\ IF hidd_cb THEN OnDisconnect /\ advertising' = TRUE
                ELSE OnOtherEvent /\ UNCHANGED advertising
  /\ DisconnectEvent(e)
  /\ UNCHANGED <<calls, services>>

Callback ==
  /\ events # <<>> /\ events' = Tail(events)
  /\ LET e == Head(events)
     IN  AdvDataSet(e) \/ NotForTheProfile(e) \/ Registered(e) \/ TableCreated(e)
           \/ HostConnected(e) \/ HostDisconnected(e)
  /\ report' = NoReport
  /\ UNCHANGED <<interfaces, links, taskVars, timeVars, scriptVars, main>>

-----------------------------------------------------------------------------
(* esp_hidd_send_mouse_value: the stack drops a report for a connection    *)
(* that is gone.                                                           *)

MouseReport == hid_dev_rpt_by_id(1, "input")

PostReport ==
  LET r == CHOOSE r \in MouseReport : \A j \in MouseReport : r <= j
      host == IF conn_id \in ConnId /\ gatt_if \in interfaces THEN links[conn_id] ELSE NoHost
      sent == MouseReport # {} /\ host # NoHost
  IN  /\ FinishSend(host, IF sent THEN hid_rpt_tbl[r].handle ELSE NoHandle, sent)
      /\ pos' = Seen(sent)
      /\ UNCHANGED <<lab, i>>

\* Lab 4.3's steps that have no counterpart in lab 4.2, and those of both.
Sampling == lab = "lab4_3" /\ (DetectSensor \/ ReadSample \/ ReadFails \/ Calculate \/ TestMove)

QuietStep ==
  \/ (Sampling \/ Connected \/ SkipSend \/ TestConnected \/ LoadConnection) /\ UNCHANGED scriptVars
  \/ MoveOfScript /\ UNCHANGED pos

Task ==
  /\ PostReport \/ (QuietStep /\ report' = NoReport)
  /\ UNCHANGED <<stackVars, profileVars, callbackVars, main>>

\* A new host has seen no move.
Stack ==
  /\ \/ AnswerCall /\ UNCHANGED pos
     \/ HostConnects /\ pos' = 0
     \/ LinkDrops /\ UNCHANGED pos
  /\ report' = NoReport
  /\ UNCHANGED <<profileVars, callbackVars, dir, taskVars, timeVars, held, fresh, lab, i, main>>

Tick ==
  /\ now < MaxTime /\ TaskMayWait
  /\ now' = now + 1
  /\ report' = NoReport
  /\ UNCHANGED <<stackVars, profileVars, callbackVars, dir, taskVars, wake, held, fresh, scriptVars,
                 main>>

Next == AppMain \/ Callback \/ Task \/ Stack \/ Tick

Spec == Init /\ [][Next]_vars

\* The callbacks run before the task, the stack answers, the sensor does not
\* fail forever.  No host need ever connect.
FairSpec ==
  /\ Spec
  /\ WF_vars(AppMain) /\ WF_vars(Callback) /\ WF_vars(Task) /\ WF_vars(Stack /\ AnswerCall)
  /\ SF_vars(Task /\ ReadSample)
  /\ WF_vars(Tick)

-----------------------------------------------------------------------------
(* What a connection is to the stack, to the profile and to the            *)
(* application agrees whenever no news of a connection is under way: the   *)
(* profile's only block and hid_conn_id are enough, because a second host  *)
(* never gets in, and clearing the first block (hidd_clcb_dealloc) clears  *)
(* the right one.                                                          *)
Settled ==
  \A n \in 1 .. Len(events) :
    ~(events[n].type \in {"CONNECT", "DISCONNECT"} /\ events[n].gatts_if = HIDD_APP_ID)

ConnectionsAgree ==
  Settled =>
    /\ Linked = {hidd_clcb[n].conn_id : n \in {j \in 1 .. HID_MAX_APPS : hidd_clcb[j].in_use}}
    /\ Linked = IF connected THEN {hid_conn_id} ELSE {}

(* A report leaves through the attribute of mouse reports, and only once   *)
(* the HID service that owns it runs and includes the battery service.     *)
ReportsAreInService ==
  report # NoReport =>
    /\ report.handle = "MOUSE_IN"
    /\ HIDD_APP_ID \in services /\ incl_svc = BATTRAY_APP_ID

\* How long a tilt must have been held for a movement of this size.
Ramp(d) == IF d \in {-9, 9, -24, 24} THEN {Medium, Long}
           ELSE IF d \in {-6, 6, -16, 16} THEN {Medium} ELSE {}

HeldLongEnough(since) ==
  \A a \in Axis : \A t \in Ramp(report.delta[a]) : report.now_ms - since[a] + Preemption > t

LevelSince == [a \in Axis |-> report.held[a].level]
DirectionSince == [a \in Axis |-> report.held[a].direction]

(* A movement is accelerated only by what this connection saw: unless the  *)
(* connection began after its sample was read, a report that goes twice or *)
(* three times as fast is of a tilt whose level was held since this host   *)
(* connected, for the time the code asks for.  An iteration that is held   *)
(* up while the host connects may count the time it was held up; one whose *)
(* movement was complete by then is sent as it is.                         *)
AccelerationIsEarned == report # NoReport /\ report.fresh => HeldLongEnough(LevelSince)

(* "Calculate time held in this direction" (lab4_3.c:146), after "Check if *)
(* direction changed or stopped" (lab4_3.c:132): an accelerated movement   *)
(* is of a direction held for the time the code asks for.  The code checks *)
(* the level only, so a tilt that turns over keeps the speed of the old    *)
(* direction.                                                              *)
AccelerationIsOfOneDirection ==
  report # NoReport /\ report.fresh => HeldLongEnough(DirectionSince)

(* A mouse that is registered and has lost its host, or never had one, can *)
(* be found: it advertises again.                                          *)
Reachable == (HIDD_APP_ID \in interfaces /\ Linked = {}) ~> advertising

(* While a host stays connected and the hand stays tilted, or the script   *)
(* runs, reports go out, however often hosts came and went before.         *)
TiltIsReported ==
  <>[](HIDD_APP_ID \in services /\ Linked # {} /\ (lab = "lab4_2" \/ sample[1] # 0))
    => []<>(report # NoReport)

(* "Moving back from RIGHT to LEFT" (lab4_2.c:134): wherever in the script *)
(* a host came in, its pointer never strays further than one half cycle    *)
(* and the one move that was under way to a host before it.                *)
PointerStaysNear == pos \in -(Steps + 1) .. Steps + 1
=============================================================================

-------------------------- MODULE MouseLink_proofs --------------------------
(***************************************************************************)
(* What labs 4.2 and 4.3 keep whatever hosts, stack and hand do: who is    *)
(* connected, when reports leave, how fast and how far the pointer goes.   *)
(* For any hosts, connection numbers, answers, tilts and times.            *)
(***************************************************************************)
EXTENDS MouseLink, SequenceTheorems, TLAPS

USE StackAssumption, AirMouseAssumption, ScriptedMouseAssumption

-----------------------------------------------------------------------------
(* The connection: one token goes round.  It is the registration, then the *)
(* advertising data, the advertising, a link, or the news of one of them.  *)

\* Where news of this type for the HID interface, or for none, is under way.
News(type) ==
  {n \in 1 .. Len(events) : events[n].type = type /\ events[n].gatts_if # BATTRAY_APP_ID}

Unheard == News("CONNECT") = {} /\ News("DISCONNECT") = {}
NoData == "adv_data" \notin calls /\ News("ADV_DATA_SET") = {}
Alone == Linked = {} /\ ~hidd_clcb[1].in_use /\ ~connected

Asked == "adv_data" \in calls /\ News("ADV_DATA_SET") = {} /\ ~advertising /\ Unheard /\ Alone
Answered ==
  /\ "adv_data" \notin calls /\ \E n \in 1 .. Len(events) : News("ADV_DATA_SET") = {n}
  /\ ~advertising /\ Unheard /\ Alone
Advertises == NoData /\ advertising /\ Unheard /\ Alone
Comes ==
  /\ NoData /\ ~advertising /\ ~hidd_clcb[1].in_use /\ ~connected
  /\ News("DISCONNECT") = {}
  /\ \E n \in 1 .. Len(events) : News("CONNECT") = {n} /\ Linked = {events[n].conn_id}
Stays ==
  /\ NoData /\ ~advertising /\ Unheard
  /\ hidd_clcb[1].in_use /\ connected
  /\ Linked = {hid_conn_id} /\ hidd_clcb[1].conn_id = hid_conn_id
CameAndLeft ==
  /\ NoData /\ ~advertising /\ Alone
  /\ \E m, n \in 1 .. Len(events) : News("CONNECT") = {m} /\ News("DISCONNECT") = {n} /\ m < n
Leaves ==
  /\ NoData /\ ~advertising /\ Linked = {} /\ hidd_clcb[1].in_use /\ connected
  /\ News("CONNECT") = {} /\ \E n \in 1 .. Len(events) : News("DISCONNECT") = {n}

\* The HID application's registration is at an end, with all others.
Registering(n) == n \in 1 .. Len(events) /\ events[n].type = "REG"
RegisteringHid(n) == Registering(n) /\ events[n].app = HIDD_APP_ID

Before ==
  /\ NoData /\ ~advertising /\ Alone
  /\ \A n \in 1 .. Len(events) : events[n].type \notin {"CONNECT", "DISCONNECT"}
  /\ main \notin {"task", "done"} =>
       \A n \in 1 .. Len(events) : ~RegisteringHid(n)
  /\ \A m, n \in 1 .. Len(events) : RegisteringHid(m) /\ Registering(n) => n <= m
  /\ \A n \in 1 .. Len(events) :
       RegisteringHid(n) /\ events[n].ok => hidd_cb /\ HIDD_APP_ID \in interfaces
  /\ main \in {"battery", "hid"} => hidd_cb

Registered1 ==
  /\ profile_if = HIDD_APP_ID /\ gatt_if = HIDD_APP_ID /\ HIDD_APP_ID \in interfaces /\ hidd_cb
  /\ main \in {"task", "done"}
  /\ \A n \in 1 .. Len(events) : ~Registering(n)

Phase == Asked \/ Answered \/ Advertises \/ Comes \/ Stays \/ CameAndLeft \/ Leaves

TokenInv == Before \/ (Registered1 /\ Phase)

\* Which interface an event names.
Addressed(e) ==
  /\ e.type = "REG" => e.gatts_if = e.app /\ e.app \in Application
  /\ e.type = "ADV_DATA_SET" => e.gatts_if = ESP_GATT_IF_NONE
  /\ e.type = "CREAT_ATTR_TAB" => e.gatts_if = HIDD_APP_ID /\ e.app \in Application
  /\ e.type \in {"CONNECT", "DISCONNECT"} =>
       e.gatts_if \in Application /\ e.conn_id \in ConnId /\ e.host \in Host
EventsAddressed == \A n \in 1 .. Len(events) : Addressed(events[n])

-----------------------------------------------------------------------------
(* The service *)

ServiceInv ==
  /\ HIDD_APP_ID \in calls => incl_svc = BATTRAY_APP_ID
  /\ \A n \in 1 .. Len(events) :
       events[n].type = "CREAT_ATTR_TAB" /\ events[n].app = HIDD_APP_ID => incl_svc = BATTRAY_APP_ID
  /\ hid_rpt_tbl # <<>> =>
       /\ HIDD_APP_ID \in services /\ incl_svc = BATTRAY_APP_ID
       /\ hid_rpt_tbl = hid_add_id_tbl(Handles)
  /\ ReportsAreInService

-----------------------------------------------------------------------------
(* The script *)

UnderWay == pc \in {"again", "load", "post"}

\* Where the script's pointer is after n of its moves, without the one under way.
Place(n) == IF n <= Steps THEN n ELSE 2 * Steps - n
Move10 == IF i \in 1 .. Steps THEN 1 ELSE -1
Shown == IF UnderWay THEN Place(i) - Move10 ELSE Place(i)

\* What a host that the application does not know of yet has seen, and what
\* the host that stays has seen.
Newcomer ==
  Linked # {} /\ ~connected => pos \in -1 .. 1 /\ (pc \in {"load", "post"} => pos = 0)
Resident ==
  lab = "lab4_2" /\ Linked # {} /\ connected =>
    /\ pos - Shown \in -(Steps + 1) .. 1
    /\ pc = "post" /\ conn_id # hid_conn_id => pos = 0

Script2 ==
  /\ pc \in {"none", "wait", "read", "again", "load", "post"}
  /\ UnderWay => delta = [a \in Axis |-> IF a = 1 THEN 10 * Move10 ELSE 0]

ScriptInv ==
  /\ lab = "lab4_3" => pos = 0
  /\ lab = "lab4_2" => Script2
  /\ hid_rpt_tbl = <<>> => pos = 0
  /\ PointerStaysNear /\ Newcomer /\ Resident

-----------------------------------------------------------------------------
(* The speed *)

Iterating == pc \in {"clock", "check", "restart", "test", "again", "load", "post"}
Done(a) == pc \notin {"clock", "check", "restart"} \/ a < axis

\* An iteration is held up for Preemption at most, from its sample on.
Clocks ==
  /\ \A a \in Axis : held[a].level <= now
  /\ now_ms <= now
  /\ Iterating => wake <= now /\ now <= wake + Preemption
  /\ pc \in {"check", "restart"} => wake <= now_ms

\* The time of a direction starts when its level does, but for the delay of
\* an iteration; the level is that of the sample once the axis is computed.
Timed(a) ==
  dir[a].active =>
    /\ dir[a].level = get_tilt_level(sample[a]) => held[a].level <= dir[a].start_time_ms + Preemption
    /\ Done(a) => dir[a].level = get_tilt_level(sample[a])

Earned(a) ==
  Iterating /\ fresh /\ Done(a) =>
    \A t \in Ramp(delta[a]) : now_ms - held[a].level + Preemption > t

SpeedInv ==
  /\ lab = "lab4_3" => Clocks /\ \A a \in Axis : Timed(a) /\ Earned(a)
  /\ AccelerationIsEarned

-----------------------------------------------------------------------------
(* Types                                                                   *)

AppEvent == Application \cup {ESP_GATT_IF_NONE}

LEMMA StackEventType ==
  ASSUME NEW t \in {"REG", "CREAT_ATTR_TAB", "ADV_DATA_SET"}, NEW f \in AppEvent, NEW app \in AppEvent,
         NEW ok \in BOOLEAN
  PROVE  StackEvent(t, f, app, ok) \in Event
BY DEF StackEvent, Event, AppEvent

LEMMA LinkEventType ==
  ASSUME NEW t \in {"CONNECT", "DISCONNECT"}, NEW f \in Application, NEW c \in ConnId, NEW h \in Host
  PROVE  LinkEvent(t, f, c, h) \in Event
BY DEF LinkEvent, Event

\* The battery's application, then the HID application, are told.
LEMMA TellAppends ==
  ASSUME StackTypeOK, NEW t \in {"CONNECT", "DISCONNECT"}, NEW c \in ConnId, NEW h \in Host, Tell(t, c, h)
  PROVE  /\ events' \in Seq(Event) /\ Len(events') >= Len(events)
         /\ \A n \in 1 .. Len(events) : events'[n] = events[n]
         /\ \A n \in Len(events) + 1 .. Len(events') :
              \E f \in interfaces : events'[n] = LinkEvent(t, f, c, h)
         /\ HIDD_APP_ID \in interfaces =>
              /\ Len(events') > Len(events)
              /\ events'[Len(events')] = LinkEvent(t, HIDD_APP_ID, c, h)
              /\ \A n \in Len(events) + 1 .. Len(events') - 1 :
                   events'[n] = LinkEvent(t, BATTRAY_APP_ID, c, h)
<1> DEFINE b == IF BATTRAY_APP_ID \in interfaces THEN <<BATTRAY_APP_ID>> ELSE <<>>
           told == b \o (IF HIDD_APP_ID \in interfaces THEN <<HIDD_APP_ID>> ELSE <<>>)
           more == [n \in 1 .. Len(told) |-> LinkEvent(t, told[n], c, h)]
<1>1. events' = events \o more /\ events \in Seq(Event)
  BY DEF Tell, StackTypeOK
<1>2. /\ told \in Seq(Application) /\ Len(told) \in 0 .. 2
      /\ \A n \in 1 .. Len(told) : told[n] \in interfaces
      /\ HIDD_APP_ID \in interfaces =>
           /\ Len(told) > 0 /\ told[Len(told)] = HIDD_APP_ID
           /\ \A n \in 1 .. Len(told) - 1 : told[n] = BATTRAY_APP_ID
  <2> DEFINE u == IF HIDD_APP_ID \in interfaces THEN <<HIDD_APP_ID>> ELSE <<>>
  <2>1. /\ b \in Seq(Application) /\ Len(b) \in 0 .. 1 /\ \A n \in 1 .. Len(b) : b[n] = BATTRAY_APP_ID
        /\ Len(b) = 1 => BATTRAY_APP_ID \in interfaces
    <3>1. BATTRAY_APP_ID \in Application
      BY DEF Application
    <3>2. CASE BATTRAY_APP_ID \in interfaces
      BY <3>1, <3>2
    <3>3. CASE BATTRAY_APP_ID \notin interfaces
      BY <3>3
    <3> QED
      BY <3>2, <3>3
  <2>2. /\ u \in Seq(Application) /\ Len(u) \in 0 .. 1 /\ \A n \in 1 .. Len(u) : u[n] = HIDD_APP_ID
        /\ Len(u) = 1 <=> HIDD_APP_ID \in interfaces
    <3>1. HIDD_APP_ID \in Application
      BY DEF Application
    <3>2. CASE HIDD_APP_ID \in interfaces
      BY <3>1, <3>2
    <3>3. CASE HIDD_APP_ID \notin interfaces
      BY <3>3
    <3> QED
      BY <3>2, <3>3
  <2>3. told = b \o u
    OBVIOUS
  <2> HIDE DEF told, b, u
  <2>4. /\ told \in Seq(Application) /\ Len(told) = Len(b) + Len(u)
        /\ \A n \in 1 .. Len(b) + Len(u) : told[n] = IF n <= Len(b) THEN b[n] ELSE u[n - Len(b)]
    BY <2>1, <2>2, <2>3, ConcatProperties, ZenonT(60)
  <2>5. ASSUME NEW n \in 1 .. Len(told)
        PROVE  IF n <= Len(b) THEN n \in 1 .. Len(b) /\ told[n] = BATTRAY_APP_ID
                              ELSE n = Len(told) /\ Len(u) = 1 /\ told[n] = HIDD_APP_ID
    <3>1. /\ n \in 1 .. Len(b) + Len(u) /\ Len(b) \in Nat /\ Len(u) \in 0 .. 1
          /\ Len(told) = Len(b) + Len(u)
      BY <2>1, <2>2, <2>4
    <3>2. told[n] = IF n <= Len(b) THEN b[n] ELSE u[n - Len(b)]
      BY <2>4, <3>1
    <3>3. CASE n <= Len(b)
      <4>1. n \in 1 .. Len(b)
        BY <3>1, <3>3
      <4> QED
        BY <2>1, <3>2, <3>3, <4>1
    <3>4. CASE ~(n <= Len(b))
      <4>1. ASSUME NEW x \in Nat, NEW y \in 0 .. 1, n \in 1 .. x + y, ~(n <= x)
            PROVE  y = 1 /\ n - x = 1 /\ n = x + y
        BY <4>1
      <4>2. Len(u) = 1 /\ n - Len(b) = 1 /\ n = Len(told)
        BY <3>1, <3>4, <4>1
      <4> QED
        BY <2>2, <3>2, <3>4, <4>2
    <3> QED
      BY <3>3, <3>4
  <2>6. Len(told) \in 0 .. 2 /\ (Len(u) = 1 => Len(told) = Len(b) + 1)
    BY <2>1, <2>2, <2>4
  <2>7. ASSUME NEW n \in 1 .. Len(told) PROVE told[n] \in interfaces
    <3>1. CASE n <= Len(b)
      <4>1. Len(b) = 1
        BY <2>1, <2>5, <3>1
      <4> QED
        BY <2>1, <2>5, <3>1, <4>1
    <3>2. CASE ~(n <= Len(b))
      BY <2>2, <2>5, <3>2
    <3> QED
      BY <3>1, <3>2
  <2>8. ASSUME HIDD_APP_ID \in interfaces
        PROVE  /\ Len(told) > 0 /\ told[Len(told)] = HIDD_APP_ID
               /\ \A n \in 1 .. Len(told) - 1 : told[n] = BATTRAY_APP_ID
    <3>1. Len(told) = Len(b) + 1 /\ Len(b) \in 0 .. 1
      BY <2>1, <2>2, <2>6, <2>8
    <3>2. Len(told) \in 1 .. Len(told) /\ ~(Len(told) <= Len(b))
      BY <3>1
    <3>3. told[Len(told)] = HIDD_APP_ID
      BY <2>5, <3>2
    <3>4. \A n \in 1 .. Len(told) - 1 : n \in 1 .. Len(told) /\ n <= Len(b)
      BY <3>1
    <3> QED
      BY <2>5, <3>1, <3>3, <3>4
  <2> QED
    BY <2>4, <2>6, <2>7, <2>8
<1> HIDE DEF told
<1>3. /\ more \in Seq(Event) /\ Len(more) = Len(told)
      /\ \A n \in 1 .. Len(told) : more[n] = LinkEvent(t, told[n], c, h)
  <2>1. \A n \in 1 .. Len(told) : told[n] \in Application
    BY <1>2, ElementOfSeq
  <2>2. more \in [1 .. Len(told) -> Event]
    BY <2>1, LinkEventType
  <2>3. Len(told) \in Nat
    BY <1>2
  <2> QED
    BY <2>2, <2>3, SeqDef
<1> HIDE DEF more
<1>4. /\ events' \in Seq(Event) /\ Len(events') = Len(events) + Len(told)
      /\ \A n \in 1 .. Len(events) + Len(told) :
           events'[n] = IF n <= Len(events) THEN events[n] ELSE more[n - Len(events)]
  <2>1. /\ (events \o more) \in Seq(Event) /\ Len(events \o more) = Len(events) + Len(more)
        /\ \A n \in 1 .. Len(events) + Len(more) :
             (events \o more)[n] = IF n <= Len(events) THEN events[n] ELSE more[n - Len(events)]
    BY <1>1, <1>3, ConcatProperties, ZenonT(60)
  <2> QED
    BY <1>1, <1>3, <2>1
<1>5. Len(events) \in Nat
  BY <1>1
<1>6. /\ Len(events') >= Len(events)
      /\ \A n \in 1 .. Len(events) : events'[n] = events[n]
      /\ \A n \in Len(events) + 1 .. Len(events') :
           /\ n - Len(events) \in 1 .. Len(told)
           /\ events'[n] = LinkEvent(t, told[n - Len(events)], c, h)
  <2>1. \A n \in 1 .. Len(events) : n \in 1 .. Len(events) + Len(told)
    BY <1>2, <1>5
  <2>2. \A n \in Len(events) + 1 .. Len(events') :
          /\ n \in 1 .. Len(events) + Len(told) /\ ~(n <= Len(events))
          /\ n - Len(events) \in 1 .. Len(told)
    BY <1>2, <1>4, <1>5
  <2>3. Len(events') >= Len(events)
    BY <1>2, <1>4, <1>5
  <2>4. ASSUME NEW n \in 1 .. Len(events) PROVE events'[n] = events[n]
    BY <1>4, <2>1
  <2>5. ASSUME NEW n \in Len(events) + 1 .. Len(events')
        PROVE  events'[n] = LinkEvent(t, told[n - Len(events)], c, h)
    <3>1. events'[n] = more[n - Len(events)]
      BY <1>4, <2>2
    <3> QED
      BY <1>3, <2>2, <3>1
  <2> QED
    BY <2>2, <2>3, <2>4, <2>5
<1>7. ASSUME HIDD_APP_ID \in interfaces
      PROVE  /\ Len(events') > Len(events)
             /\ events'[Len(events')] = LinkEvent(t, HIDD_APP_ID, c, h)
             /\ \A n \in Len(events) + 1 .. Len(events') - 1 :
                  events'[n] = LinkEvent(t, BATTRAY_APP_ID, c, h)
  <2>1. Len(events') > Len(events) /\ Len(events') - Len(events) = Len(told)
    BY <1>2, <1>4, <1>5, <1>7
  <2>2. \A n \in Len(events) + 1 .. Len(events') - 1 : n - Len(events) \in 1 .. Len(told) - 1
    BY <1>2, <1>5, <2>1
  <2>3. Len(events') \in Len(events) + 1 .. Len(events')
    BY <1>2, <1>4, <1>5, <2>1
  <2>4. \A n \in Len(events) + 1 .. Len(events') - 1 : n \in Len(events) + 1 .. Len(events')
    BY <1>2, <1>4, <1>5
  <2> QED
    BY <1>2, <1>6, <1>7, <2>1, <2>2, <2>3, <2>4
<1> QED
  BY <1>2, <1>4, <1>6, <1>7

LEMMA AppendEvent ==
  ASSUME events \in Seq(Event), NEW e \in Event, events' = Append(events, e)
  PROVE  /\ events' \in Seq(Event) /\ Len(events') = Len(events) + 1 /\ Len(events) \in Nat
         /\ events'[Len(events) + 1] = e
         /\ \A n \in 1 .. Len(events) : events'[n] = events[n]
OBVIOUS

LEMMA NextEvent ==
  ASSUME events \in Seq(Event), events # <<>>, events' = Tail(events)
  PROVE  /\ events' \in Seq(Event) /\ Len(events') = Len(events) - 1 /\ Len(events) \in Nat \ {0}
         /\ Head(events) = events[1] /\ Head(events) \in Event
         /\ \A n \in 1 .. Len(events') : events'[n] = events[n + 1] /\ n + 1 \in 1 .. Len(events)
<1>1. Len(events) \in Nat \ {0}
  BY EmptySeq
<1> QED
  BY <1>1, HeadTailProperties

\* An answer is the event of the call.
Answer(c, ok) ==
  IF c = "adv_data" THEN StackEvent("ADV_DATA_SET", ESP_GATT_IF_NONE, ESP_GATT_IF_NONE, ok)
                    ELSE StackEvent("CREAT_ATTR_TAB", HIDD_APP_ID, c, ok)

LEMMA AnswerType ==
  ASSUME NEW c \in Call, NEW ok \in BOOLEAN
  PROVE  Answer(c, ok) \in Event
BY StackEventType DEF Answer, Call, Application, AppEvent

LEMMA StackTypes ==
  ASSUME TypeOK, EventsAddressed, [Next]_vars
  PROVE  StackTypeOK'
<1>0. StackTypeOK /\ events \in Seq(Event)
  BY DEF TypeOK, StackTypeOK
<1>1. CASE UNCHANGED stackVars
  BY <1>0, <1>1 DEF StackTypeOK, stackVars
<1>2. CASE AppMain
  <2>1. CASE RegisterBattery
    <3>1. PICK ok \in Answers :
            /\ interfaces' = IF ok THEN interfaces \cup {BATTRAY_APP_ID} ELSE interfaces
            /\ events' = Append(events, StackEvent("REG", BATTRAY_APP_ID, BATTRAY_APP_ID, ok))
      BY <2>1 DEF RegisterBattery, RegisterApp
    <3>2. ok \in BOOLEAN /\ BATTRAY_APP_ID \in AppEvent /\ BATTRAY_APP_ID \in Application
      BY DEF AppEvent, Application
    <3>3. events' \in Seq(Event) /\ interfaces' \subseteq Application
      BY <1>0, <3>1, <3>2, StackEventType, AppendEvent DEF StackTypeOK
    <3> QED
      BY <1>0, <2>1, <3>3 DEF RegisterBattery, StackTypeOK
  <2>2. CASE RegisterHid
    <3>1. PICK ok \in Answers :
            /\ interfaces' = IF ok THEN interfaces \cup {HIDD_APP_ID} ELSE interfaces
            /\ events' = Append(events, StackEvent("REG", HIDD_APP_ID, HIDD_APP_ID, ok))
      BY <2>2 DEF RegisterHid, RegisterApp
    <3>2. ok \in BOOLEAN /\ HIDD_APP_ID \in AppEvent /\ HIDD_APP_ID \in Application
      BY DEF AppEvent, Application
    <3>3. events' \in Seq(Event) /\ interfaces' \subseteq Application
      BY <1>0, <3>1, <3>2, StackEventType, AppendEvent DEF StackTypeOK
    <3> QED
      BY <1>0, <2>2, <3>3 DEF RegisterHid, StackTypeOK
  <2>3. CASE InitProfile \/ RegisterCallbacks \/ RegisterFails \/ CreateTask
    BY <1>1, <2>3 DEF InitProfile, RegisterCallbacks, RegisterFails, CreateTask
  <2> QED
    BY <1>2, <2>1, <2>2, <2>3 DEF AppMain
<1>3. CASE Callback
  <2>1. events' \in Seq(Event) /\ UNCHANGED <<interfaces, links>>
    BY <1>0, <1>3, NextEvent DEF Callback
  <2>2. Head(events) \in Event
    BY <1>0, <1>3, NextEvent DEF Callback
  <2>3. calls' \subseteq Call /\ advertising' \in BOOLEAN
    BY <1>0, <1>3 DEF StackTypeOK, Callback, AdvDataSet, NotForTheProfile, Registered, TableCreated,
       HostConnected, HostDisconnected, hidd_le_create_service, OnRegFinish, NextTable, Call, Application
  <2>4. services' \subseteq Application
    <3>1. CASE TableCreated(Head(events))
      <4>1. services' = services \cup Started(Head(events)) /\ Head(events).type = "CREAT_ATTR_TAB"
        BY <3>1 DEF TableCreated
      <4>2. Head(events).app \in Application
        BY <1>0, <1>3, <4>1, NextEvent DEF Callback, EventsAddressed, Addressed
      <4> QED
        BY <1>0, <4>1, <4>2 DEF Started, StackTypeOK
    <3>2. CASE ~TableCreated(Head(events))
      BY <1>0, <1>3, <3>2 DEF Callback, AdvDataSet, NotForTheProfile, Registered, HostConnected,
         HostDisconnected, StackTypeOK
    <3> QED
      BY <3>1, <3>2
  <2> QED
    BY <1>0, <2>1, <2>3, <2>4 DEF StackTypeOK
<1>4. CASE Stack
  <2>1. CASE AnswerCall
    <3>1. PICK c \in calls, ok \in Answers : calls' = calls \ {c} /\ events' = Append(events, Answer(c, ok))
      BY <2>1 DEF AnswerCall, Answer
    <3>2. Answer(c, ok) \in Event
      BY <1>0, AnswerType DEF StackTypeOK
    <3> QED
      BY <1>0, <2>1, <3>1, <3>2, AppendEvent DEF AnswerCall, StackTypeOK
  <2>2. CASE HostConnects
    <3>1. PICK h \in Host, c \in ConnId : links' = [links EXCEPT ![c] = h] /\ Tell("CONNECT", c, h)
      BY <2>2 DEF HostConnects
    <3>2. events' \in Seq(Event)
      BY <1>0, <3>1, TellAppends
    <3> QED
      BY <1>0, <2>2, <3>1, <3>2 DEF HostConnects, StackTypeOK
  <2>3. CASE LinkDrops
    <3>1. PICK c \in Linked : links' = [links EXCEPT ![c] = NoHost] /\ Tell("DISCONNECT", c, links[c])
      BY <2>3 DEF LinkDrops
    <3>2. c \in ConnId /\ links[c] \in Host
      BY <1>0 DEF Linked, StackTypeOK
    <3>3. events' \in Seq(Event)
      BY <1>0, <3>1, <3>2, TellAppends
    <3> QED
      BY <1>0, <2>3, <3>1, <3>3 DEF LinkDrops, StackTypeOK
  <2> QED
    BY <1>4, <2>1, <2>2, <2>3 DEF Stack
<1>5. CASE Task \/ Tick \/ UNCHANGED vars
  BY <1>1, <1>5 DEF Task, Tick, vars
<1> QED
  BY <1>2, <1>3, <1>4, <1>5 DEF Next

\* What a step does to the queue.
Enqueues(e) == e \in Event /\ Addressed(e) /\ events' = Append(events, e)
Announces(t, c, h) ==
  t \in {"CONNECT", "DISCONNECT"} /\ c \in ConnId /\ h \in Host /\ Tell(t, c, h)

LEMMA AddressedKept ==
  ASSUME StackTypeOK, EventsAddressed,
         \/ UNCHANGED events
         \/ events # <<>> /\ events' = Tail(events)
         \/ \E e : Enqueues(e)
         \/ interfaces \subseteq Application /\ \E t, c, h : Announces(t, c, h)
  PROVE  EventsAddressed'
<1>0. events \in Seq(Event) /\ interfaces \subseteq Application
  BY DEF StackTypeOK
<1> SUFFICES ASSUME NEW n \in 1 .. Len(events') PROVE Addressed(events'[n])
  BY DEF EventsAddressed, Addressed
<1>1. CASE UNCHANGED events
  BY <1>1 DEF EventsAddressed
<1>2. CASE events # <<>> /\ events' = Tail(events)
  BY <1>0, <1>2, NextEvent DEF EventsAddressed
<1>3. ASSUME NEW e, Enqueues(e) PROVE Addressed(events'[n])
  <2>1. n \in 1 .. Len(events) \/ n = Len(events) + 1
    BY <1>0, <1>3, AppendEvent DEF Enqueues
  <2> QED
    BY <1>0, <1>3, <2>1, AppendEvent DEF Enqueues, EventsAddressed
<1>4. ASSUME NEW t, NEW c, NEW h, Announces(t, c, h) PROVE Addressed(events'[n])
  <2>1. CASE n \in 1 .. Len(events)
    BY <1>4, <2>1, TellAppends DEF Announces, EventsAddressed
  <2>2. CASE n \in Len(events) + 1 .. Len(events')
    <3>0. t \in {"CONNECT", "DISCONNECT"} /\ c \in ConnId /\ h \in Host /\ Tell(t, c, h)
      BY <1>4 DEF Announces
    <3>2. \A k \in Len(events) + 1 .. Len(events') :
            \E f \in interfaces : events'[k] = LinkEvent(t, f, c, h)
      BY <3>0, TellAppends
    <3>1. PICK f \in interfaces : events'[n] = LinkEvent(t, f, c, h)
      BY <2>2, <3>2
    <3> QED
      BY <1>0, <1>4, <3>1 DEF Announces, Addressed, LinkEvent
  <2>3. Len(events) \in Nat
    BY <1>0
  <2> QED
    BY <2>1, <2>2, <2>3
<1> QED
  BY <1>1, <1>2, <1>3, <1>4

LEMMA RegisterEnqueues ==
  ASSUME NEW app \in Application, RegisterApp(app)
  PROVE  \E ok \in BOOLEAN :
           /\ interfaces' = IF ok THEN interfaces \cup {app} ELSE interfaces
           /\ Enqueues(StackEvent("REG", app, app, ok))
<1>1. PICK ok \in Answers :
        /\ interfaces' = IF ok THEN interfaces \cup {app} ELSE interfaces
        /\ events' = Append(events, StackEvent("REG", app, app, ok))
  BY DEF RegisterApp
<1>2. ok \in BOOLEAN /\ app \in AppEvent
  BY DEF AppEvent
<1>3. Enqueues(StackEvent("REG", app, app, ok))
  BY <1>1, <1>2, StackEventType DEF Enqueues, Addressed, StackEvent
<1> QED
  BY <1>1, <1>2, <1>3

LEMMA AnswerEnqueues ==
  ASSUME StackTypeOK, AnswerCall
  PROVE  /\ UNCHANGED <<interfaces, advertising, links, services>>
         /\ \E c \in calls : \E ok \in BOOLEAN : calls' = calls \ {c} /\ Enqueues(Answer(c, ok))
<1>1. PICK c \in calls, ok \in Answers : calls' = calls \ {c} /\ events' = Append(events, Answer(c, ok))
  BY DEF AnswerCall, Answer
<1>2. c \in Call /\ ok \in BOOLEAN
  BY DEF StackTypeOK
<1>3. Addressed(Answer(c, ok))
  BY <1>2 DEF Addressed, Answer, StackEvent, Call
<1>4. Enqueues(Answer(c, ok))
  BY <1>1, <1>2, <1>3, AnswerType DEF Enqueues
<1> QED
  BY <1>1, <1>2, <1>4 DEF AnswerCall

LEMMA ConnectAnnounces ==
  ASSUME StackTypeOK, HostConnects
  PROVE  /\ advertising /\ advertising' = FALSE /\ UNCHANGED <<interfaces, calls, services>>
         /\ \E c \in ConnId \ Linked : \E h \in Host :
              Announces("CONNECT", c, h) /\ links' = [links EXCEPT ![c] = h]
BY DEF HostConnects, Announces

LEMMA DropAnnounces ==
  ASSUME StackTypeOK, LinkDrops
  PROVE  /\ UNCHANGED <<interfaces, calls, advertising, services>>
         /\ \E c \in Linked : \E h \in Host :
              Announces("DISCONNECT", c, h) /\ links' = [links EXCEPT ![c] = NoHost]
<1>1. PICK c \in Linked : links' = [links EXCEPT ![c] = NoHost] /\ Tell("DISCONNECT", c, links[c])
  BY DEF LinkDrops
<1>2. c \in ConnId /\ links[c] \in Host
  BY DEF Linked, StackTypeOK
<1>3. Announces("DISCONNECT", c, links[c])
  BY <1>1, <1>2 DEF Announces
<1> QED
  BY <1>1, <1>2, <1>3 DEF LinkDrops

LEMMA EventsStep ==
  ASSUME TypeOK, EventsAddressed, [Next]_vars
  PROVE  EventsAddressed'
<1>0. StackTypeOK /\ BATTRAY_APP_ID \in Application /\ HIDD_APP_ID \in Application
      /\ interfaces \subseteq Application
  BY DEF TypeOK, StackTypeOK, Application
<1>1. CASE UNCHANGED events
  BY <1>0, <1>1, AddressedKept
<1>2. CASE AppMain
  <2>1. CASE RegisterBattery
    <3>1. \E e : Enqueues(e)
      BY <1>0, <2>1, RegisterEnqueues DEF RegisterBattery
    <3> QED
      BY <1>0, <3>1, AddressedKept
  <2>2. CASE RegisterHid
    <3>1. \E e : Enqueues(e)
      BY <1>0, <2>2, RegisterEnqueues DEF RegisterHid
    <3> QED
      BY <1>0, <3>1, AddressedKept
  <2>3. CASE InitProfile \/ RegisterCallbacks \/ RegisterFails \/ CreateTask
    BY <1>1, <2>3 DEF InitProfile, RegisterCallbacks, RegisterFails, CreateTask, stackVars
  <2> QED
    BY <1>2, <2>1, <2>2, <2>3 DEF AppMain
<1>3. CASE Callback
  BY <1>0, <1>3, AddressedKept DEF Callback
<1>4. CASE Stack
  <2>1. CASE AnswerCall
    <3>1. \E e : Enqueues(e)
      BY <1>0, <2>1, AnswerEnqueues
    <3> QED
      BY <1>0, <3>1, AddressedKept
  <2>2. CASE HostConnects
    <3>1. \E t, c, h : Announces(t, c, h)
      BY <1>0, <2>2, ConnectAnnounces
    <3> QED
      BY <1>0, <3>1, AddressedKept
  <2>3. CASE LinkDrops
    <3>1. \E t, c, h : Announces(t, c, h)
      BY <1>0, <2>3, DropAnnounces
    <3> QED
      BY <1>0, <3>1, AddressedKept
  <2> QED
    BY <1>4, <2>1, <2>2, <2>3 DEF Stack
<1>5. CASE Task \/ Tick \/ UNCHANGED vars
  BY <1>1, <1>5 DEF Task, Tick, vars, stackVars
<1> QED
  BY <1>2, <1>3, <1>4, <1>5 DEF Next

LEMMA BlockType ==
  ASSUME NEW e \in Event, hidd_clcb \in [1 .. HID_MAX_APPS -> Block]
  PROVE  /\ hidd_clcb_alloc(e) =>
              hidd_clcb' = IF hidd_clcb[1].in_use THEN hidd_clcb
                           ELSE [n \in {1} |-> [in_use |-> TRUE, conn_id |-> e.conn_id,
                                                remote_bda |-> e.host]]
         /\ hidd_clcb_dealloc(e) => hidd_clcb' = [n \in {1} |-> NoBlock]
         /\ hidd_clcb_alloc(e) \/ hidd_clcb_dealloc(e) => hidd_clcb' \in [1 .. HID_MAX_APPS -> Block]
<1> DEFINE block == [in_use |-> TRUE, conn_id |-> e.conn_id, remote_bda |-> e.host]
           free == {n \in 1 .. HID_MAX_APPS : ~hidd_clcb[n].in_use}
<1>1. block \in Block /\ NoBlock \in Block /\ 1 .. HID_MAX_APPS = {1}
  BY DEF Event, Block, NoBlock, HID_MAX_APPS
<1>2. ASSUME hidd_clcb_alloc(e)
      PROVE  hidd_clcb' = IF hidd_clcb[1].in_use THEN hidd_clcb ELSE [n \in {1} |-> block]
  <2>1. CASE hidd_clcb[1].in_use
    <3>1. free = {}
      BY <1>1, <2>1
    <3> QED
      BY <1>2, <2>1, <3>1 DEF hidd_clcb_alloc
  <2>2. CASE ~hidd_clcb[1].in_use
    <3>1. free = {1}
      BY <1>1, <2>2
    <3> HIDE DEF free
    <3>2. (CHOOSE n \in free : \A j \in free : n <= j) = 1
      BY <3>1
    <3>3. hidd_clcb' = [hidd_clcb EXCEPT ![CHOOSE n \in free : \A j \in free : n <= j] = block]
      BY <1>2, <3>1 DEF hidd_clcb_alloc, free
    <3>4. hidd_clcb' = [hidd_clcb EXCEPT ![1] = block]
      BY <3>2, <3>3
    <3> QED
      BY <1>1, <2>2, <3>4
  <2> QED
    BY <2>1, <2>2
<1>3. hidd_clcb_dealloc(e) => hidd_clcb' = [n \in {1} |-> NoBlock]
  BY <1>1 DEF hidd_clcb_dealloc
<1> QED
  BY <1>1, <1>2, <1>3

LEMMA ProfileTypes ==
  ASSUME TypeOK, [Next]_vars
  PROVE  ProfileTypeOK'
<1>0. ProfileTypeOK /\ StackTypeOK /\ events \in Seq(Event)
  BY DEF TypeOK, StackTypeOK
<1> USE DEF ProfileTypeOK
<1>1. CASE UNCHANGED profileVars
  BY <1>0, <1>1 DEF profileVars
<1>2. CASE AppMain
  <2>1. CASE InitProfile
    BY <1>0, <2>1 DEF InitProfile, esp_hidd_profile_init, NoBlock, Block
  <2>2. CASE RegisterCallbacks
    BY <1>0, <2>2 DEF RegisterCallbacks, SetCallback
  <2>3. CASE RegisterBattery \/ RegisterHid \/ RegisterFails \/ CreateTask
    BY <1>1, <2>3 DEF RegisterBattery, RegisterHid, RegisterFails, CreateTask
  <2> QED
    BY <1>2, <2>1, <2>2, <2>3 DEF AppMain
<1>3. CASE Callback
  <2> DEFINE e == Head(events)
  <2>0. e \in Event
    BY <1>0, <1>3, NextEvent DEF Callback
  <2>1. CASE AdvDataSet(e)
    BY <1>1, <2>1 DEF AdvDataSet
  <2>2. CASE NotForTheProfile(e)
    BY <1>0, <2>0, <2>2 DEF NotForTheProfile, gatts_event_handler, Event
  <2>3. CASE Registered(e)
    BY <1>0, <2>0, <2>3 DEF Registered, gatts_event_handler, RegisterEvent, Event
  <2>4. CASE TableCreated(e)
    BY <1>0, <2>0, <2>4 DEF TableCreated, gatts_event_handler, TableEvent, Event, Application
  <2>5. CASE HostConnected(e)
    <3>1. hidd_clcb' \in [1 .. HID_MAX_APPS -> Block]
      BY <1>0, <2>0, <2>5, BlockType DEF HostConnected, ConnectEvent
    <3> QED
      BY <1>0, <2>0, <2>5, <3>1 DEF HostConnected, gatts_event_handler, ConnectEvent, Event
  <2>6. CASE HostDisconnected(e)
    <3>1. hidd_clcb' \in [1 .. HID_MAX_APPS -> Block]
      BY <1>0, <2>0, <2>6, BlockType DEF HostDisconnected, DisconnectEvent
    <3> QED
      BY <1>0, <2>0, <2>6, <3>1 DEF HostDisconnected, gatts_event_handler, DisconnectEvent, Event
  <2> QED
    BY <1>3, <2>1, <2>2, <2>3, <2>4, <2>5, <2>6 DEF Callback
<1>4. CASE Task \/ Stack \/ Tick \/ UNCHANGED vars
  BY <1>1, <1>4 DEF Task, Stack, Tick, vars
<1> QED
  BY <1>2, <1>3, <1>4 DEF Next

AppTypeOK == AirMouseTypeOK /\ ScriptTypeOK /\ held \in [Axis -> [level : Nat, direction : Nat]]
             /\ fresh \in BOOLEAN

LEMMA AppTypesKept ==
  ASSUME AppTypeOK, UNCHANGED <<callbackVars, dir, taskVars, timeVars, held, fresh, lab, i>>, pos' \in Int
  PROVE  AppTypeOK'
BY DEF AppTypeOK, AirMouseTypeOK, ScriptTypeOK, callbackVars, taskVars, timeVars, Axis

LEMMA CalculateTypes ==
  ASSUME AppTypeOK, Calculate, UNCHANGED callbackVars
  PROVE  AirMouseTypeOK'
<1> USE DEF AppTypeOK, AirMouseTypeOK
<1>1. Axis = {1, 2} /\ axis \in {1, 2} /\ sample[axis] \in -2 .. 2
  BY DEF Axis
<1>2. new_level \in 0 .. 2
  BY <1>1 DEF new_level, get_tilt_level
<1>3. ASSUME NEW d \in -24 .. 24, Move(d)
      PROVE  delta' \in [Axis -> -24 .. 24] /\ axis' \in Axis /\ pc' \in {"clock", "test"}
  BY <1>1, <1>3 DEF Move, Axis
<1>4. CASE ReadClock
  BY <1>4 DEF ReadClock, timeVars, callbackVars
<1>5. CASE CheckStopped
  BY <1>5 DEF CheckStopped, timeVars, callbackVars
<1>6. CASE Restart
  <2>1. dir' \in [Axis -> [active : BOOLEAN, level : 0 .. 2, start_time_ms : Nat]]
    BY <1>1, <1>2, <1>6 DEF Restart
  <2>2. delta' \in [Axis -> -24 .. 24] /\ axis' \in Axis /\ pc' \in {"clock", "test"}
    BY <1>3, <1>6 DEF Restart
  <2> QED
    BY <1>6, <2>1, <2>2 DEF Restart, timeVars, callbackVars
<1>7. CASE CheckMoves
  <2>1. dir' \in [Axis -> [active : BOOLEAN, level : 0 .. 2, start_time_ms : Nat]]
    BY <1>1, <1>2, <1>7 DEF CheckMoves
  <2> DEFINE m == accel_mult(now_ms - dir'[axis].start_time_ms)
             step == base_speed(new_level) * m
  <2>2. m \in 1 .. 3 /\ base_speed(new_level) \in {3, 8}
    BY DEF accel_mult, base_speed
  <2>3. step \in -24 .. 24 /\ -step \in -24 .. 24
    BY <2>2
  <2>4. Move(IF sample[axis] > 0 THEN step ELSE -step)
    BY <1>7 DEF CheckMoves
  <2> HIDE DEF step
  <2>5. delta' \in [Axis -> -24 .. 24] /\ axis' \in Axis /\ pc' \in {"clock", "test"}
    BY <1>3, <2>3, <2>4
  <2> QED
    BY <1>7, <2>1, <2>5 DEF CheckMoves, timeVars, callbackVars
<1> QED
  BY <1>4, <1>5, <1>6, <1>7 DEF Calculate

LEMMA TaskTypes ==
  ASSUME AppTypeOK, Task
  PROVE  AppTypeOK'
<1>0. UNCHANGED callbackVars
  BY DEF Task
<1> USE DEF AppTypeOK
<1>1. CASE PostReport
  <2>1. DelayThenRead /\ UNCHANGED <<axis, sample, now_ms, delta, conn_id, dir, held, fresh, now, lab, i>>
    BY <1>1 DEF PostReport, FinishSend
  <2>2. pos' \in Int
    <3>1. delta[1] \in Int /\ pos \in Int
      BY DEF AirMouseTypeOK, ScriptTypeOK, Axis
    <3> QED
      BY <1>1, <3>1 DEF PostReport, Seen
  <2> QED
    BY <1>0, <2>1, <2>2 DEF DelayThenRead, AirMouseTypeOK, ScriptTypeOK, callbackVars
<1>2. CASE MoveOfScript /\ UNCHANGED pos
  <2>1. NextMove \in 0 .. 2 * Steps - 1
    BY DEF NextMove, ScriptTypeOK
  <2>2. delta' \in [Axis -> -24 .. 24]
    BY <1>2 DEF MoveOfScript
  <2> QED
    BY <1>0, <1>2, <2>1, <2>2 DEF MoveOfScript, AirMouseTypeOK, ScriptTypeOK, callbackVars
<1>3. CASE Calculate /\ UNCHANGED scriptVars
  <2>1. UNCHANGED <<held, fresh>>
    BY <1>3 DEF Calculate, ReadClock, CheckStopped, Restart, CheckMoves
  <2> QED
    BY <1>0, <1>3, <2>1, CalculateTypes DEF scriptVars, ScriptTypeOK
<1>4. CASE ReadSample /\ UNCHANGED scriptVars
  <2>1. PICK s \in [Axis -> -2 .. 2] : sample' = s /\ Hold(s)
    BY <1>4 DEF ReadSample
  <2>2. held' \in [Axis -> [level : Nat, direction : Nat]]
    BY <2>1 DEF Hold, AirMouseTypeOK
  <2> QED
    BY <1>0, <1>4, <2>1, <2>2 DEF ReadSample, AirMouseTypeOK, scriptVars, ScriptTypeOK, callbackVars, Axis
<1>5. CASE (DetectSensor \/ ReadFails \/ TestMove \/ Connected \/ SkipSend \/ TestConnected \/ LoadConnection)
             /\ UNCHANGED scriptVars
  BY <1>0, <1>5 DEF DetectSensor, ReadFails, TestMove, Connected, SkipSend, TestConnected, LoadConnection,
     DelayThenRead, AirMouseTypeOK, scriptVars, ScriptTypeOK, callbackVars, timeVars
<1> QED
  BY <1>1, <1>2, <1>3, <1>4, <1>5 DEF Task, QuietStep, Sampling

LEMMA CallbackTypes ==
  ASSUME AppTypeOK, StackTypeOK, Callback
  PROVE  AppTypeOK'
<1> USE DEF AppTypeOK
<1> DEFINE e == Head(events)
<1>0. e \in Event
  BY NextEvent DEF Callback, StackTypeOK
<1>1. UNCHANGED <<taskVars, timeVars, scriptVars>>
  BY DEF Callback
<1>2. CASE OnOtherEvent
  BY <1>1, <1>2, AppTypesKept DEF OnOtherEvent, scriptVars, ScriptTypeOK
<1>3. CASE OnDisconnect
  BY <1>1, <1>3 DEF OnDisconnect, AirMouseTypeOK, ScriptTypeOK, taskVars, timeVars, scriptVars
<1>4. CASE OnConnect(e.conn_id)
  <2>1. e.conn_id \in ConnId \cup {0}
    BY <1>0 DEF Event
  <2>2. /\ dir' \in [Axis -> [active : BOOLEAN, level : 0 .. 2, start_time_ms : Nat]]
        /\ held' \in [Axis -> [level : Nat, direction : Nat]]
    <3>1. ASSUME NEW a \in Axis
          PROVE  [dir[a] EXCEPT !.active = FALSE] \in [active : BOOLEAN, level : 0 .. 2, start_time_ms : Nat]
      <4>1. dir[a] \in [active : BOOLEAN, level : 0 .. 2, start_time_ms : Nat]
        BY DEF AirMouseTypeOK
      <4> QED
        BY <4>1
    <3>2. held' = [a \in Axis |-> [level |-> now, direction |-> now]] /\ now \in Nat
          /\ dir' = [a \in Axis |-> [dir[a] EXCEPT !.active = FALSE]]
      BY <1>4 DEF OnConnect, AirMouseTypeOK
    <3> QED
      BY <3>1, <3>2
  <2>3. connected' \in BOOLEAN /\ hid_conn_id' \in Nat /\ fresh' \in BOOLEAN
    <3>1. e.conn_id \in Nat
      <4>1. \A c \in ConnId \cup {0} : c \in Nat
        BY StackAssumption
      <4> QED
        BY <2>1, <4>1
    <3> HIDE DEF e
    <3>2. connected' = TRUE /\ hid_conn_id' = e.conn_id /\ fresh' = FALSE
      BY <1>4 DEF OnConnect
    <3> QED
      BY <3>1, <3>2
  <2> QED
    BY <1>1, <2>2, <2>3 DEF AirMouseTypeOK, ScriptTypeOK, taskVars, timeVars, scriptVars
<1> QED
  BY <1>2, <1>3, <1>4 DEF Callback, AdvDataSet, NotForTheProfile, Registered, TableCreated, HostConnected,
     HostDisconnected

LEMMA AppTypes ==
  ASSUME TypeOK, [Next]_vars
  PROVE  AppTypeOK'
<1>0. AppTypeOK /\ StackTypeOK
  BY DEF TypeOK, AppTypeOK
<1>1. CASE AppMain
  <2>1. pc' = pc \/ pc' \in {"wait", "detect"}
    BY <1>1 DEF AppMain, InitProfile, RegisterCallbacks, RegisterBattery, RegisterHid, RegisterFails,
       CreateTask, StartScript, StartTask
  <2> QED
    BY <1>0, <1>1, <2>1 DEF AppMain, AppTypeOK, AirMouseTypeOK, ScriptTypeOK, callbackVars, timeVars, scriptVars
<1>2. CASE Callback
  BY <1>0, <1>2, CallbackTypes
<1>3. CASE Task
  BY <1>0, <1>3, TaskTypes
<1>4. CASE Stack
  <2>1. pos' \in Int
    BY <1>0, <1>4 DEF Stack, AppTypeOK, ScriptTypeOK
  <2> QED
    BY <1>0, <1>4, <2>1, AppTypesKept DEF Stack
<1>5. CASE Tick
  BY <1>0, <1>5 DEF Tick, AppTypeOK, AirMouseTypeOK, ScriptTypeOK, callbackVars, taskVars, scriptVars
<1>6. CASE UNCHANGED vars
  BY <1>0, <1>6, AppTypesKept DEF vars, appVars, scriptVars, historyVars, AppTypeOK, ScriptTypeOK
<1> QED
  BY <1>1, <1>2, <1>3, <1>4, <1>5, <1>6 DEF Next

-----------------------------------------------------------------------------
(* The service                                                             *)

\* News of a table is old, or the stack just did what it was asked for.
LEMMA TableAsked ==
  ASSUME TypeOK, [Next]_vars, NEW n \in 1 .. Len(events'), events'[n].type = "CREAT_ATTR_TAB"
  PROVE  (\E m \in 1 .. Len(events) : events'[n] = events[m]) \/ events'[n].app \in calls
<1>0. StackTypeOK /\ events \in Seq(Event) /\ Len(events) \in Nat
  BY DEF TypeOK, StackTypeOK
<1>1. CASE UNCHANGED events
  BY <1>1
<1>2. CASE Callback
  BY <1>0, <1>2, NextEvent DEF Callback
<1>3. ASSUME NEW e, Enqueues(e), e.type = "CREAT_ATTR_TAB" => e.app \in calls
      PROVE  (\E m \in 1 .. Len(events) : events'[n] = events[m]) \/ events'[n].app \in calls
  <2>1. e \in Event /\ events' = Append(events, e)
    BY <1>3 DEF Enqueues
  <2>2. n \in 1 .. Len(events) \/ n = Len(events) + 1
    BY <1>0, <2>1, AppendEvent
  <2> QED
    BY <1>0, <1>3, <2>1, <2>2, AppendEvent
<1>4. ASSUME NEW t, NEW c, NEW h, Announces(t, c, h)
      PROVE  \E m \in 1 .. Len(events) : events'[n] = events[m]
  <2>1. t \in {"CONNECT", "DISCONNECT"} /\ c \in ConnId /\ h \in Host /\ Tell(t, c, h)
    BY <1>4 DEF Announces
  <2>2. CASE n \in 1 .. Len(events)
    BY <1>0, <2>1, <2>2, TellAppends
  <2>3. CASE n \in Len(events) + 1 .. Len(events')
    <3>1. \E f \in interfaces : events'[n] = LinkEvent(t, f, c, h)
      BY <1>0, <2>1, <2>3, TellAppends
    <3> QED
      BY <2>1, <3>1 DEF LinkEvent
  <2> QED
    BY <1>0, <2>2, <2>3
<1>5. BATTRAY_APP_ID \in Application /\ HIDD_APP_ID \in Application
  BY DEF Application
<1>6. CASE RegisterBattery
  BY <1>3, <1>5, <1>6, RegisterEnqueues DEF RegisterBattery, StackEvent
<1>7. CASE RegisterHid
  BY <1>3, <1>5, <1>7, RegisterEnqueues DEF RegisterHid, StackEvent
<1>8. CASE AnswerCall
  <2>1. PICK c \in calls, ok \in BOOLEAN : Enqueues(Answer(c, ok))
    BY <1>0, <1>8, AnswerEnqueues
  <2>2. Answer(c, ok).type = "CREAT_ATTR_TAB" => Answer(c, ok).app \in calls
    BY <2>1 DEF Answer, StackEvent
  <2> QED
    BY <1>3, <2>1, <2>2
<1>9. CASE HostConnects \/ LinkDrops
  BY <1>0, <1>4, <1>9, ConnectAnnounces, DropAnnounces
<1> QED
  BY <1>1, <1>2, <1>6, <1>7, <1>8, <1>9 DEF Next, AppMain, InitProfile, RegisterCallbacks, RegisterFails,
     CreateTask, Stack, Task, Tick, vars, stackVars

\* Once the reports are registered, the first place holds the only one that matches.
LEMMA TheMouseReport ==
  /\ hid_rpt_tbl = <<>> => MouseReport = {}
  /\ hid_rpt_tbl = hid_add_id_tbl(Handles) => MouseReport = {1} /\ hid_rpt_tbl[1].handle = "MOUSE_IN"
<1>1. ASSUME hid_rpt_tbl = <<>> PROVE MouseReport = {}
  BY <1>1 DEF MouseReport, hid_dev_rpt_by_id
<1>2. ASSUME hid_rpt_tbl = hid_add_id_tbl(Handles)
      PROVE  MouseReport = {1} /\ hid_rpt_tbl[1].handle = "MOUSE_IN"
  <2>1. DOMAIN hid_rpt_tbl = 1 .. 9
    BY <1>2 DEF hid_add_id_tbl
  <2>2. /\ hid_rpt_tbl[1].id = 1 /\ hid_rpt_tbl[1].type = "input" /\ hid_rpt_tbl[1].mode = "report"
        /\ hid_rpt_tbl[1].handle = "MOUSE_IN"
    BY <1>2 DEF hid_add_id_tbl, HidReport, Handles, ReportAttribute
  <2>3. ASSUME NEW k \in 2 .. 9 PROVE hid_rpt_tbl[k].id # 1 \/ hid_rpt_tbl[k].mode # "report"
    BY <1>2 DEF hid_add_id_tbl, HidReport
  <2> QED
    BY <2>1, <2>2, <2>3 DEF MouseReport, hid_dev_rpt_by_id, hidProtocolMode
<1> QED
  BY <1>1, <1>2

\* What a post hands to the stack.
LEMMA PostIs ==
  ASSUME TypeOK, ServiceInv, PostReport
  PROVE  \/ /\ report' = NoReport /\ pos' = pos
            /\ hid_rpt_tbl = <<>> \/ conn_id \notin Linked \/ gatt_if \notin interfaces
         \/ /\ hid_rpt_tbl # <<>> /\ conn_id \in Linked /\ pos' = Seen(TRUE)
            /\ report' = [host |-> links[conn_id], handle |-> "MOUSE_IN", delta |-> delta,
                          now_ms |-> now_ms, held |-> held, fresh |-> fresh]
<1> DEFINE host == IF conn_id \in ConnId /\ gatt_if \in interfaces THEN links[conn_id] ELSE NoHost
           sent == MouseReport # {} /\ host # NoHost
           r == CHOOSE r \in MouseReport : \A j \in MouseReport : r <= j
<1>1. FinishSend(host, IF sent THEN hid_rpt_tbl[r].handle ELSE NoHandle, sent) /\ pos' = Seen(sent)
  BY DEF PostReport
<1> HIDE DEF sent, r
<1>2. CASE ~sent
  <2>1. report' = NoReport /\ pos' = pos
    BY <1>1, <1>2 DEF FinishSend, Seen
  <2>2. MouseReport = {} => hid_rpt_tbl = <<>>
    BY TheMouseReport DEF ServiceInv
  <2>3. host = NoHost => conn_id \notin Linked \/ gatt_if \notin interfaces
    BY DEF Linked
  <2> QED
    BY <1>2, <2>1, <2>2, <2>3 DEF sent
<1>3. CASE sent
  <2>1. hid_rpt_tbl # <<>> /\ host # NoHost
    BY <1>3, TheMouseReport DEF sent
  <2>2. MouseReport = {1} /\ hid_rpt_tbl[1].handle = "MOUSE_IN"
    BY <2>1, TheMouseReport DEF ServiceInv
  <2>3. r = 1
    BY <2>2 DEF r
  <2>4. conn_id \in Linked /\ host = links[conn_id]
    BY <2>1 DEF Linked
  <2>5. sent = TRUE
    BY <1>3 DEF sent
  <2>6. pos' = Seen(TRUE)
    BY <1>1, <2>5
  <2> HIDE DEF host
  <2> QED
    BY <1>1, <1>3, <2>1, <2>2, <2>3, <2>4, <2>6 DEF FinishSend
<1> QED
  BY <1>2, <1>3

LEMMA ServiceStep ==
  ASSUME TypeOK, EventsAddressed, ServiceInv, [Next]_vars
  PROVE  ServiceInv'
<1>0. StackTypeOK /\ ProfileTypeOK /\ events \in Seq(Event)
  BY DEF TypeOK, StackTypeOK
\* The included service stays what it is once it is the battery service.
<1>1. incl_svc = BATTRAY_APP_ID => incl_svc' = BATTRAY_APP_ID
  BY DEF Next, AppMain, InitProfile, RegisterCallbacks, RegisterBattery, RegisterHid, RegisterFails,
     CreateTask, esp_hidd_profile_init, SetCallback, Callback, AdvDataSet, NotForTheProfile, Registered,
     TableCreated, HostConnected, HostDisconnected, RegisterEvent, TableEvent, ConnectEvent,
     DisconnectEvent, Task, Stack, Tick, vars, profileVars
<1>2. HIDD_APP_ID \in calls' => incl_svc' = BATTRAY_APP_ID
  <2>1. HIDD_APP_ID \in calls' /\ HIDD_APP_ID \notin calls => TableCreated(Head(events))
    BY DEF Next, AppMain, InitProfile, RegisterCallbacks, RegisterBattery, RegisterHid, RegisterFails,
       CreateTask, Callback, AdvDataSet, NotForTheProfile, Registered, HostConnected, HostDisconnected,
       hidd_le_create_service, OnRegFinish, Task, Stack, AnswerCall, HostConnects, LinkDrops, Tick, vars,
       stackVars, HIDD_APP_ID, BATTRAY_APP_ID
  <2>2. TableCreated(Head(events)) /\ HIDD_APP_ID \in calls' /\ HIDD_APP_ID \notin calls =>
          incl_svc' = BATTRAY_APP_ID
    BY DEF TableCreated, TableEvent, NextTable
  <2> QED
    BY <1>1, <2>1, <2>2 DEF ServiceInv
<1>3. ASSUME NEW n \in 1 .. Len(events'), events'[n].type = "CREAT_ATTR_TAB", events'[n].app = HIDD_APP_ID
      PROVE  incl_svc' = BATTRAY_APP_ID
  BY <1>1, <1>3, TableAsked DEF ServiceInv
<1>4. hid_rpt_tbl' # <<>> =>
        /\ HIDD_APP_ID \in services' /\ incl_svc' = BATTRAY_APP_ID
        /\ hid_rpt_tbl' = hid_add_id_tbl(Handles)
  <2>1. services \subseteq services'
    BY DEF Next, AppMain, InitProfile, RegisterCallbacks, RegisterBattery, RegisterHid, RegisterFails,
       CreateTask, Callback, AdvDataSet, NotForTheProfile, Registered, TableCreated, HostConnected,
       HostDisconnected, Task, Stack, AnswerCall, HostConnects, LinkDrops, Tick, vars, stackVars
  <2>2. CASE hid_rpt_tbl' = hid_rpt_tbl
    BY <1>1, <2>1, <2>2 DEF ServiceInv
  <2>3. CASE hid_rpt_tbl' # hid_rpt_tbl
    <3>1. Callback /\ TableCreated(Head(events))
      BY <2>3 DEF Next, AppMain, InitProfile, RegisterCallbacks, RegisterBattery, RegisterHid,
         RegisterFails, CreateTask, esp_hidd_profile_init, SetCallback, Callback, AdvDataSet,
         NotForTheProfile, Registered, HostConnected, HostDisconnected, RegisterEvent, ConnectEvent,
         DisconnectEvent, Task, Stack, Tick, vars, profileVars
    <3>2. /\ Head(events).ok /\ Head(events).app = HIDD_APP_ID
          /\ att_tbl' = Handles /\ hid_rpt_tbl' = hid_add_id_tbl(att_tbl')
          /\ services' = services \cup Started(Head(events)) /\ Head(events).type = "CREAT_ATTR_TAB"
      BY <2>3, <3>1 DEF TableCreated, TableEvent
    <3>3. HIDD_APP_ID \in services' /\ hid_rpt_tbl' = hid_add_id_tbl(Handles)
      BY <3>2 DEF Started
    <3>4. incl_svc = BATTRAY_APP_ID
      BY <1>0, <3>1, <3>2, NextEvent DEF Callback, ServiceInv
    <3> QED
      BY <1>1, <3>3, <3>4
  <2> QED
    BY <2>2, <2>3
<1>5. ReportsAreInService'
  <2>1. CASE report' = NoReport
    BY <2>1 DEF ReportsAreInService
  <2>2. CASE PostReport /\ UNCHANGED <<stackVars, profileVars>>
    <3>1. report' # NoReport => report'.handle = "MOUSE_IN" /\ hid_rpt_tbl # <<>>
      <4>1. CASE hid_rpt_tbl # <<>> /\
                 report' = [host |-> links[conn_id], handle |-> "MOUSE_IN", delta |-> delta,
                            now_ms |-> now_ms, held |-> held, fresh |-> fresh]
        BY <4>1
      <4> QED
        BY <2>2, <4>1, PostIs
    <3>2. hid_rpt_tbl # <<>> => HIDD_APP_ID \in services' /\ incl_svc' = BATTRAY_APP_ID
      BY <2>2 DEF ServiceInv, stackVars, profileVars
    <3> QED
      BY <3>1, <3>2 DEF ReportsAreInService
  <2>3. CASE UNCHANGED vars
    BY <2>3 DEF ServiceInv, ReportsAreInService, vars, appVars, historyVars, stackVars, profileVars
  <2> QED
    BY <2>1, <2>2, <2>3 DEF Next, AppMain, Callback, Task, Stack, Tick
<1> QED
  BY <1>2, <1>3, <1>4, <1>5 DEF ServiceInv

\* The types and the service together are inductive: a report is one only
\* if the table it was found in is the right one.
TypeInv == TypeOK /\ EventsAddressed /\ ServiceInv

LEMMA TypeInit == Init => TypeInv
<1> SUFFICES ASSUME Init PROVE TypeInv
  OBVIOUS
<1> USE DEF Init
<1>1. StackTypeOK /\ EventsAddressed
  <2>1. events = <<>> /\ Len(events) = 0
    BY DEF StackInit
  <2>2. EventsAddressed
    BY <2>1 DEF EventsAddressed
  <2>3. events \in Seq(Event)
    BY <2>1
  <2> QED
    BY <2>2, <2>3 DEF StackInit, StackTypeOK
<1>2. ProfileTypeOK
  BY DEF ProfileInit, ProfileTypeOK, NoBlock, Block
<1>3. AppTypeOK
  <2>1. /\ [active |-> FALSE, level |-> TILT_NONE, start_time_ms |-> 0]
             \in [active : BOOLEAN, level : 0 .. 2, start_time_ms : Nat]
        /\ [level |-> 0, direction |-> 0] \in [level : Nat, direction : Nat]
    BY DEF TILT_NONE
  <2>2. /\ dir \in [Axis -> [active : BOOLEAN, level : 0 .. 2, start_time_ms : Nat]]
        /\ held \in [Axis -> [level : Nat, direction : Nat]]
    BY <2>1 DEF AirMouseInit
  <2>4. sample \in [Axis -> -2 .. 2] /\ delta \in [Axis -> -24 .. 24]
    BY DEF AirMouseInit
  <2>5. /\ connected = FALSE /\ hid_conn_id = 0 /\ pc = "none" /\ axis = 1 /\ axis \in Axis
        /\ now_ms = 0 /\ conn_id = 0 /\ now = 0 /\ wake = 0 /\ fresh = FALSE
    BY DEF AirMouseInit, Axis
  <2>3. ScriptTypeOK
    BY DEF ScriptInit, ScriptTypeOK
  <2> QED
    BY <2>2, <2>3, <2>4, <2>5 DEF AppTypeOK, AirMouseTypeOK
<1>4. ServiceInv
  BY DEF StackInit, ProfileInit, AirMouseInit, ServiceInv, ReportsAreInService
<1>5. report = NoReport /\ main = "profile"
  BY DEF AirMouseInit
<1> QED
  BY <1>1, <1>2, <1>3, <1>4, <1>5 DEF TypeInv, TypeOK, AppTypeOK

LEMMA TypeStep == TypeInv /\ [Next]_vars => TypeInv'
<1> SUFFICES ASSUME TypeOK, EventsAddressed, ServiceInv, [Next]_vars PROVE TypeInv'
  BY DEF TypeInv
<1>1. StackTypeOK' /\ ProfileTypeOK' /\ AppTypeOK' /\ EventsAddressed' /\ ServiceInv'
  BY StackTypes, ProfileTypes, AppTypes, EventsStep, ServiceStep
<1>2. report' \in Report \cup {NoReport}
  <2>1. CASE report' = NoReport
    BY <2>1
  <2>2. CASE UNCHANGED vars
    BY <2>2 DEF TypeOK, vars, appVars, historyVars
  <2>3. CASE PostReport /\ report' # NoReport
    <3>1. /\ conn_id \in Linked
          /\ report' = [host |-> links[conn_id], handle |-> "MOUSE_IN", delta |-> delta,
                        now_ms |-> now_ms, held |-> held, fresh |-> fresh]
      BY <2>3, PostIs
    <3>2. links[conn_id] \in Host
      BY <3>1 DEF Linked, TypeOK, StackTypeOK
    <3>3. /\ delta \in [Axis -> -24 .. 24] /\ now_ms \in Nat /\ fresh \in BOOLEAN
          /\ held \in [Axis -> [level : Nat, direction : Nat]]
      BY DEF TypeOK, AirMouseTypeOK
    <3> QED
      BY <3>1, <3>2, <3>3 DEF Report, ReportAttribute
  <2> QED
    BY <2>1, <2>2, <2>3 DEF Next, AppMain, Callback, Task, Stack, Tick
<1>3. main' \in {"profile", "callbacks", "battery", "hid", "task", "done", "failed"}
  BY DEF TypeOK, Next, AppMain, InitProfile, RegisterCallbacks, RegisterBattery, RegisterHid,
     RegisterFails, CreateTask, Callback, Task, Stack, Tick, vars
<1> QED
  BY <1>1, <1>2, <1>3 DEF TypeInv, TypeOK, AppTypeOK

(* Whatever the hosts, the stack and the hand do, every variable keeps its *)
(* type: the queue holds events the callbacks know, the block, the tables  *)
(* and the movement stay within the fields of the code, and a report that  *)
(* leaves names an attribute that exists.                                  *)
THEOREM TypeCorrect == Spec => []TypeOK
<1>1. TypeInv => TypeOK
  BY DEF TypeInv
<1> QED
  BY <1>1, TypeInit, TypeStep, PTL DEF Spec

(* A report leaves only through the attribute of mouse reports, and only   *)
(* when the HID service runs and includes the battery service.             *)
THEOREM ReportsInService == Spec => []ReportsAreInService
<1>1. TypeInv => ReportsAreInService
  BY DEF TypeInv, ServiceInv
<1> QED
  BY <1>1, TypeInit, TypeStep, PTL DEF Spec

-----------------------------------------------------------------------------
(* The connection                                                          *)

LEMMA NewsKept ==
  ASSUME NEW t, UNCHANGED events
  PROVE  News(t)' = News(t)
BY DEF News

LEMMA NewsAppended ==
  ASSUME events \in Seq(Event), NEW t, NEW e, Enqueues(e)
  PROVE  /\ Len(events') = Len(events) + 1 /\ Len(events) \in Nat /\ events'[Len(events)+1] = e
         /\ \A n \in 1 .. Len(events) : events'[n] = events[n]
         /\ News(t)' = IF e.type = t /\ e.gatts_if # BATTRAY_APP_ID
                       THEN News(t) \cup {Len(events) + 1} ELSE News(t)
<1>1. /\ Len(events') = Len(events) + 1 /\ Len(events) \in Nat /\ events'[Len(events) + 1] = e
      /\ \A n \in 1 .. Len(events) : events'[n] = events[n]
  BY AppendEvent DEF Enqueues
<1>2. 1 .. Len(events') = 1 .. Len(events) \cup {Len(events) + 1}
  BY <1>1
<1>3. Len(events) + 1 \notin 1 .. Len(events)
  BY <1>1
<1> QED
  BY <1>1, <1>2, <1>3 DEF News

LEMMA NewsTold ==
  ASSUME StackTypeOK, HIDD_APP_ID \in interfaces, NEW t, NEW t2, NEW c, NEW h, Announces(t, c, h)
  PROVE  /\ Len(events') > Len(events) /\ Len(events) \in Nat /\ Len(events') \in Nat
         /\ \A n \in 1 .. Len(events) : events'[n] = events[n]
         /\ events'[Len(events')].conn_id = c
         /\ News(t2)' = IF t = t2 THEN News(t2) \cup {Len(events')} ELSE News(t2)
<1>0. t \in {"CONNECT", "DISCONNECT"} /\ c \in ConnId /\ h \in Host /\ Tell(t, c, h)
  BY DEF Announces
<1>1. events \in Seq(Event) /\ events' \in Seq(Event)
  BY <1>0, TellAppends DEF StackTypeOK
<1>2. Len(events) \in Nat /\ Len(events') \in Nat
  BY <1>1
<1>3. /\ Len(events') > Len(events)
      /\ \A n \in 1 .. Len(events) : events'[n] = events[n]
      /\ events'[Len(events')] = LinkEvent(t, HIDD_APP_ID, c, h)
      /\ \A n \in Len(events) + 1 .. Len(events') - 1 : events'[n] = LinkEvent(t, BATTRAY_APP_ID, c, h)
  BY <1>0, TellAppends
<1>4. 1 .. Len(events') = 1 .. Len(events) \cup (Len(events) + 1 .. Len(events') - 1) \cup {Len(events')}
  BY <1>2, <1>3
<1>5. \A n \in Len(events) + 1 .. Len(events') - 1 : n \notin 1 .. Len(events)
  BY <1>2, <1>3
<1>6. \A n \in Len(events) + 1 .. Len(events') - 1 :
        events'[n].gatts_if = BATTRAY_APP_ID
  BY <1>3 DEF LinkEvent
<1>7. events'[Len(events')].type = t /\ events'[Len(events')].gatts_if # BATTRAY_APP_ID
      /\ events'[Len(events')].conn_id = c
  BY <1>3 DEF LinkEvent, HIDD_APP_ID, BATTRAY_APP_ID
<1>8. News(t2)' = {n \in 1 .. Len(events') : events'[n].type = t2 /\ events'[n].gatts_if # BATTRAY_APP_ID}
  BY DEF News
<1>9. ASSUME NEW n
      PROVE  n \in News(t2)' <=> n \in (IF t = t2 THEN News(t2) \cup {Len(events')} ELSE News(t2))
  <2>1. CASE n \in 1 .. Len(events)
    <3>1. n # Len(events') /\ n \in 1 .. Len(events')
      BY <1>2, <1>3, <2>1
    <3> QED
      BY <1>3, <1>8, <2>1, <3>1 DEF News
  <2>2. CASE n \in Len(events) + 1 .. Len(events') - 1
    <3>1. n # Len(events') /\ n \notin 1 .. Len(events)
      BY <1>2, <1>5, <2>2
    <3> QED
      BY <1>6, <1>8, <2>2, <3>1 DEF News
  <2>3. CASE n = Len(events')
    <3>1. n \in 1 .. Len(events') /\ n \notin 1 .. Len(events)
      BY <1>2, <1>3, <2>3
    <3> QED
      BY <1>7, <1>8, <2>3, <3>1 DEF News
  <2>4. CASE n \notin 1 .. Len(events')
    <3>1. n \notin 1 .. Len(events) /\ n # Len(events')
      BY <1>2, <1>3, <1>4, <2>4
    <3> QED
      BY <1>8, <2>4, <3>1 DEF News
  <2> QED
    BY <1>4, <2>1, <2>2, <2>3, <2>4
<1> QED
  BY <1>2, <1>3, <1>7, <1>9

LEMMA NewsTaken ==
  ASSUME events \in Seq(Event), events # <<>>, events' = Tail(events), NEW t
  PROVE  /\ 1 \in News(t) <=> Head(events).type = t /\ Head(events).gatts_if # BATTRAY_APP_ID
         /\ News(t) \subseteq {1} => News(t)' = {}
         /\ \A n \in 1 .. Len(events) : News(t) = {n} /\ 1 \notin News(t) =>
              n - 1 \in 1 .. Len(events') /\ News(t)' = {n - 1} /\ events'[n - 1] = events[n]
<1>1. /\ Len(events') = Len(events) - 1 /\ Len(events) \in Nat \ {0} /\ Head(events) = events[1]
      /\ \A n \in 1 .. Len(events') : events'[n] = events[n + 1] /\ n + 1 \in 1 .. Len(events)
  BY NextEvent
<1>2. ASSUME NEW n PROVE n \in News(t)' <=> n \in 1 .. Len(events') /\ n + 1 \in News(t)
  BY <1>1 DEF News
<1>3. 1 \in 1 .. Len(events) /\ \A n \in 1 .. Len(events') : n + 1 # 1
  BY <1>1
<1>4. 1 \in News(t) <=> Head(events).type = t /\ Head(events).gatts_if # BATTRAY_APP_ID
  BY <1>1, <1>3 DEF News
<1>5. ASSUME News(t) \subseteq {1} PROVE News(t)' = {}
  BY <1>2, <1>3, <1>5
<1>6. ASSUME NEW n \in 1 .. Len(events), News(t) = {n}, 1 \notin News(t)
      PROVE  n - 1 \in 1 .. Len(events') /\ News(t)' = {n - 1} /\ events'[n - 1] = events[n]
  <2>1. n - 1 \in 1 .. Len(events') /\ n = (n - 1) + 1
    BY <1>1, <1>6
  <2>2. \A k \in 1 .. Len(events') : k + 1 = n <=> k = n - 1
    BY <1>1, <2>1
  <2> QED
    BY <1>1, <1>2, <1>6, <2>1, <2>2
<1> QED
  BY <1>4, <1>5, <1>6

LEMMA LinkedKept ==
  ASSUME links' = links
  PROVE  Linked' = Linked
BY DEF Linked

\* Where the connection stands depends on these variables only.
LEMMA BeforeKept ==
  ASSUME Before, UNCHANGED <<calls, events, advertising, links, interfaces, hidd_cb>>,
         hidd_clcb' = hidd_clcb \/ ~hidd_clcb'[1].in_use, UNCHANGED connected,
         main' \notin {"task", "done"} => main \notin {"task", "done"},
         main' \in {"battery", "hid"} => main \in {"battery", "hid"}
  PROVE  Before'
<1>1. News("ADV_DATA_SET")' = News("ADV_DATA_SET") /\ Linked' = Linked
  BY NewsKept, LinkedKept
<1> QED
  BY <1>1 DEF Before, NoData, Alone, Registering, RegisteringHid

\* Before the registration is over, the queue takes other news.
LEMMA BeforeEnqueues ==
  ASSUME TypeOK, Before, NEW e, Enqueues(e), e.type \in {"REG", "CREAT_ATTR_TAB"},
         UNCHANGED <<advertising, links, hidd_cb, hidd_clcb, connected>>, calls' \subseteq calls,
         interfaces \subseteq interfaces',
         main' \in {"battery", "hid"} => hidd_cb,
         main' \notin {"task", "done"} => main \notin {"task", "done"},
         IF e.type = "REG"
           THEN /\ main \notin {"task", "done"}
                /\ e.app = HIDD_APP_ID => main' = "task"
                /\ e.app = HIDD_APP_ID /\ e.ok => hidd_cb /\ HIDD_APP_ID \in interfaces'
           ELSE TRUE
  PROVE  Before'
<1>0. events \in Seq(Event)
  BY DEF TypeOK, StackTypeOK
<1>1. /\ Len(events') = Len(events) + 1 /\ Len(events) \in Nat /\ events'[Len(events) + 1] = e
      /\ \A n \in 1 .. Len(events) : events'[n] = events[n]
      /\ News("ADV_DATA_SET")' = News("ADV_DATA_SET")
  BY <1>0, NewsAppended
<1>2. 1 .. Len(events') = 1 .. Len(events) \cup {Len(events) + 1}
  BY <1>1
<1>3. Linked' = Linked
  BY LinkedKept
<1>4. NoData' /\ Alone' /\ ~advertising'
  BY <1>1, <1>3 DEF Before, NoData, Alone
<1>5. \A n \in 1 .. Len(events') : events'[n].type \notin {"CONNECT", "DISCONNECT"}
  BY <1>1, <1>2 DEF Before
<1>6. ASSUME NEW n
      PROVE  /\ RegisteringHid(n)' => RegisteringHid(n) \/ (n = Len(events) + 1 /\ e.type = "REG" /\ e.app = HIDD_APP_ID)
             /\ Registering(n)' => Registering(n) \/ (n = Len(events) + 1 /\ e.type = "REG")
             /\ RegisteringHid(n) => n \in 1 .. Len(events) /\ events'[n] = events[n]
             /\ Registering(n) => n \in 1 .. Len(events)
             /\ RegisteringHid(n) => Registering(n)
  BY <1>1, <1>2 DEF Registering, RegisteringHid
<1>7. main' \notin {"task", "done"} => \A n \in 1 .. Len(events') : ~RegisteringHid(n)'
  BY <1>2, <1>6 DEF Before, RegisteringHid, Registering
<1>8. ASSUME NEW m \in 1 .. Len(events'), NEW n \in 1 .. Len(events'), RegisteringHid(m)', Registering(n)'
      PROVE  n <= m
  <2>1. m \in Nat /\ n \in Nat /\ n <= Len(events) + 1
    BY <1>1
  <2>2. CASE m = Len(events) + 1
    BY <2>1, <2>2
  <2>3. CASE RegisteringHid(m)
    <3>1. m \in 1 .. Len(events) /\ main \in {"task", "done"}
      BY <1>6, <2>3 DEF Before
    <3>2. Registering(n) /\ n \in 1 .. Len(events)
      BY <1>6, <1>8, <3>1
    <3> QED
      BY <2>3, <3>1, <3>2 DEF Before
  <2> QED
    BY <1>6, <1>8, <2>2, <2>3
<1>9. ASSUME NEW n \in 1 .. Len(events'), RegisteringHid(n)', events'[n].ok
      PROVE  hidd_cb' /\ HIDD_APP_ID \in interfaces'
  <2>1. CASE n = Len(events) + 1 /\ e.type = "REG" /\ e.app = HIDD_APP_ID
    BY <1>1, <1>9, <2>1
  <2>2. CASE RegisteringHid(n)
    <3>1. n \in 1 .. Len(events) /\ events[n].ok
      BY <1>6, <1>9, <2>2
    <3> QED
      BY <2>2, <3>1 DEF Before
  <2> QED
    BY <1>6, <1>9, <2>1, <2>2
<1>10. \A m, n \in 1 .. Len(events') : RegisteringHid(m)' /\ Registering(n)' => n <= m
  BY <1>8
<1>11. \A n \in 1 .. Len(events') : RegisteringHid(n)' /\ events'[n].ok => hidd_cb' /\ HIDD_APP_ID \in interfaces'
  BY <1>9
<1> QED
  BY <1>4, <1>5, <1>7, <1>10, <1>11 DEF Before

LEMMA BeforeTakes ==
  ASSUME TypeOK, Before, events # <<>>, events' = Tail(events),
         UNCHANGED <<advertising, links, interfaces, hidd_cb, hidd_clcb, connected, main>>,
         "adv_data" \notin calls'
  PROVE  Before'
<1>0. events \in Seq(Event)
  BY DEF TypeOK, StackTypeOK
<1>1. /\ Len(events') = Len(events) - 1 /\ Len(events) \in Nat \ {0}
      /\ \A n \in 1 .. Len(events') : events'[n] = events[n + 1] /\ n + 1 \in 1 .. Len(events)
  BY <1>0, NextEvent
<1>2. News("ADV_DATA_SET")' = {}
  BY <1>0, NewsTaken DEF Before, NoData
<1>3. NoData' /\ Alone' /\ ~advertising'
  BY <1>2, LinkedKept DEF Before, NoData, Alone
<1>4. ASSUME NEW n \in 1 .. Len(events')
      PROVE  /\ n + 1 \in 1 .. Len(events) /\ events'[n] = events[n + 1]
             /\ RegisteringHid(n)' => RegisteringHid(n + 1)
             /\ Registering(n)' => Registering(n + 1)
  BY <1>1 DEF RegisteringHid, Registering
<1>5. ASSUME NEW m \in 1 .. Len(events'), NEW n \in 1 .. Len(events'), RegisteringHid(m)', Registering(n)'
      PROVE  n <= m
  <2>1. n + 1 <= m + 1
    BY <1>4, <1>5 DEF Before
  <2> QED
    BY <1>1, <2>1
<1>6. \A m, n \in 1 .. Len(events') : RegisteringHid(m)' /\ Registering(n)' => n <= m
  BY <1>5
<1>7. \A n \in 1 .. Len(events') : RegisteringHid(n)' /\ events'[n].ok => hidd_cb' /\ HIDD_APP_ID \in interfaces'
  BY <1>4 DEF Before
<1>8. main' \notin {"task", "done"} => \A n \in 1 .. Len(events') : ~RegisteringHid(n)'
  BY <1>4 DEF Before
<1>9. \A n \in 1 .. Len(events') : events'[n].type \notin {"CONNECT", "DISCONNECT"}
  BY <1>4 DEF Before
<1> QED
  BY <1>3, <1>6, <1>7, <1>8, <1>9 DEF Before

\* The last registration to be heard of is the mouse's: the callback asks
\* for advertising data.
LEMMA BeforeCallback ==
  ASSUME TypeOK, EventsAddressed, Before, Callback
  PROVE  TokenInv'
<1> DEFINE e == Head(events)
<1>0. /\ events \in Seq(Event) /\ events # <<>> /\ events' = Tail(events)
      /\ UNCHANGED <<interfaces, links, main>>
  BY DEF TypeOK, StackTypeOK, Callback
<1>1. /\ Len(events') = Len(events) - 1 /\ Len(events) \in Nat \ {0} /\ e = events[1] /\ e \in Event
      /\ 1 \in 1 .. Len(events)
      /\ \A n \in 1 .. Len(events') : events'[n] = events[n + 1] /\ n + 1 \in 1 .. Len(events)
  BY <1>0, NextEvent
<1>2. e.type \notin {"CONNECT", "DISCONNECT", "ADV_DATA_SET"} /\ Addressed(e)
  <2>1. e.type \notin {"CONNECT", "DISCONNECT"} /\ Addressed(e)
    BY <1>1 DEF Before, EventsAddressed
  <2>2. 1 \notin News("ADV_DATA_SET")
    BY DEF Before, NoData
  <2> QED
    BY <1>1, <2>1, <2>2 DEF News, Addressed, ESP_GATT_IF_NONE, BATTRAY_APP_ID
<1>3. UNCHANGED <<advertising, connected, hidd_cb, hidd_clcb>>
  BY <1>2 DEF Callback, AdvDataSet, NotForTheProfile, Registered, TableCreated, HostConnected,
     HostDisconnected, OnOtherEvent, callbackVars, RegisterEvent, TableEvent
<1>4. CASE "adv_data" \notin calls'
  BY <1>0, <1>3, <1>4, BeforeTakes DEF TokenInv
<1>5. CASE "adv_data" \in calls'
  <2>1. Registered(e) /\ e.app = HIDD_APP_ID /\ hidd_cb
    BY <1>2, <1>5 DEF Before, NoData, Callback, NotForTheProfile, Registered, TableCreated,
       hidd_le_create_service, NextTable, AdvDataSet, HostConnected, HostDisconnected, HIDD_APP_ID,
       BATTRAY_APP_ID
  <2>2. e.type = "REG" /\ e.ok /\ e.gatts_if = HIDD_APP_ID /\ profile_if' = HIDD_APP_ID /\ gatt_if' = HIDD_APP_ID
    BY <1>2, <2>1 DEF Registered, gatts_event_handler, Dispatched, RegisterEvent, Addressed
  <2>3. RegisteringHid(1)
    BY <1>1, <2>1, <2>2 DEF RegisteringHid, Registering
  <2>4. HIDD_APP_ID \in interfaces /\ main \in {"task", "done"}
    BY <1>1, <2>2, <2>3 DEF Before
  <2>5. ASSUME NEW n \in 1 .. Len(events') PROVE ~Registering(n)'
    <3>1. Registering(n)' => Registering(n + 1) /\ n + 1 \in 1 .. Len(events)
      BY <1>1 DEF Registering
    <3>2. Registering(n + 1) /\ n + 1 \in 1 .. Len(events) => n + 1 <= 1
      BY <1>1, <2>3 DEF Before
    <3> QED
      BY <1>1, <3>1, <3>2
  <2>6. Registered1'
    BY <1>0, <1>3, <2>1, <2>2, <2>4, <2>5 DEF Registered1
  <2>7. News("ADV_DATA_SET")' = {} /\ News("CONNECT")' = {} /\ News("DISCONNECT")' = {}
    <3>1. News("ADV_DATA_SET") = {} /\ News("CONNECT") = {} /\ News("DISCONNECT") = {}
      BY DEF Before, NoData, News
    <3> QED
      BY <1>0, <3>1, NewsTaken
  <2>8. Asked'
    BY <1>0, <1>3, <1>5, <2>7, LinkedKept DEF Asked, Unheard, Alone, Before
  <2> QED
    BY <2>6, <2>8 DEF TokenInv, Phase
<1> QED
  BY <1>4, <1>5

LEMMA BeforeStep ==
  ASSUME TypeOK, EventsAddressed, Before, [Next]_vars
  PROVE  TokenInv'
<1>0. StackTypeOK /\ BATTRAY_APP_ID \in Application /\ HIDD_APP_ID \in Application
  BY DEF TypeOK, Application
<1>1. CASE InitProfile /\ AppMain
  <2>1. ~hidd_clcb'[1].in_use
    BY <1>1 DEF InitProfile, esp_hidd_profile_init, NoBlock, HID_MAX_APPS
  <2>2. UNCHANGED <<calls, events, advertising, links, interfaces, connected>> /\ main' = "callbacks" /\ main = "profile"
    BY <1>1 DEF InitProfile, AppMain, stackVars, callbackVars
  <2>3. \A n \in 1 .. Len(events) : ~RegisteringHid(n)
    BY <2>2 DEF Before
  <2>4. News("ADV_DATA_SET")' = News("ADV_DATA_SET") /\ Linked' = Linked
    BY <2>2, NewsKept, LinkedKept
  <2>5. Before'
    BY <2>1, <2>2, <2>3, <2>4 DEF Before, NoData, Alone, Registering, RegisteringHid
  <2> QED
    BY <2>5 DEF TokenInv
<1>2. CASE RegisterCallbacks /\ AppMain
  <2>2. UNCHANGED <<calls, events, advertising, links, interfaces, connected, hidd_clcb>>
        /\ main = "callbacks" /\ hidd_cb'
    BY <1>2 DEF RegisterCallbacks, SetCallback, AppMain, stackVars, callbackVars
  <2>3. \A n \in 1 .. Len(events) : ~RegisteringHid(n)
    BY <2>2 DEF Before
  <2>4. News("ADV_DATA_SET")' = News("ADV_DATA_SET") /\ Linked' = Linked
    BY <2>2, NewsKept, LinkedKept
  <2>5. Before'
    BY <2>2, <2>3, <2>4 DEF Before, NoData, Alone, Registering, RegisteringHid
  <2> QED
    BY <2>5 DEF TokenInv
<1>3. CASE RegisterBattery /\ AppMain
  <2>1. PICK ok \in BOOLEAN :
          /\ interfaces' = IF ok THEN interfaces \cup {BATTRAY_APP_ID} ELSE interfaces
          /\ Enqueues(StackEvent("REG", BATTRAY_APP_ID, BATTRAY_APP_ID, ok))
    BY <1>0, <1>3, RegisterEnqueues DEF RegisterBattery
  <2> DEFINE e == StackEvent("REG", BATTRAY_APP_ID, BATTRAY_APP_ID, ok)
  <2>2. e.type = "REG" /\ e.app # HIDD_APP_ID
    BY DEF StackEvent, HIDD_APP_ID, BATTRAY_APP_ID
  <2> HIDE DEF e
  <2>3. UNCHANGED <<calls, advertising, links, hidd_cb, hidd_clcb, connected>> /\ main = "battery" /\ main' = "hid"
    BY <1>3 DEF RegisterBattery, AppMain, profileVars, callbackVars
  <2>4. interfaces \subseteq interfaces' /\ Enqueues(e) /\ hidd_cb
    BY <2>1, <2>3 DEF e, Before
  <2>5. Before'
    BY <2>2, <2>3, <2>4, BeforeEnqueues
  <2> QED
    BY <2>5 DEF TokenInv
<1>4. CASE RegisterHid /\ AppMain
  <2>1. PICK ok \in BOOLEAN :
          /\ interfaces' = IF ok THEN interfaces \cup {HIDD_APP_ID} ELSE interfaces
          /\ Enqueues(StackEvent("REG", HIDD_APP_ID, HIDD_APP_ID, ok))
    BY <1>0, <1>4, RegisterEnqueues DEF RegisterHid
  <2> DEFINE e == StackEvent("REG", HIDD_APP_ID, HIDD_APP_ID, ok)
  <2>2. e.type = "REG" /\ e.ok = ok
    BY DEF StackEvent
  <2> HIDE DEF e
  <2>3. UNCHANGED <<calls, advertising, links, hidd_cb, hidd_clcb, connected>> /\ main = "hid" /\ main' = "task"
    BY <1>4 DEF RegisterHid, AppMain, profileVars, callbackVars
  <2>4. interfaces \subseteq interfaces' /\ Enqueues(e) /\ hidd_cb /\ (e.ok => HIDD_APP_ID \in interfaces')
    BY <2>1, <2>2, <2>3 DEF e, Before
  <2>5. Before'
    BY <2>2, <2>3, <2>4, BeforeEnqueues
  <2> QED
    BY <2>5 DEF TokenInv
<1>5. CASE (RegisterFails \/ CreateTask) /\ AppMain
  <2>1. UNCHANGED <<calls, events, advertising, links, interfaces, hidd_cb, hidd_clcb, connected>>
    BY <1>5 DEF RegisterFails, CreateTask, AppMain, stackVars, profileVars, callbackVars
  <2>2. main' \in {"failed", "done"} /\ (main' = "failed" => main = "hid")
    BY <1>5 DEF RegisterFails, CreateTask
  <2>3. Before'
    BY <2>1, <2>2, BeforeKept
  <2> QED
    BY <2>3 DEF TokenInv
<1>6. CASE Callback
  BY <1>6, BeforeCallback
<1>7. CASE Stack
  <2>1. CASE AnswerCall
    <3>1. /\ UNCHANGED <<interfaces, advertising, links, services>>
          /\ \E c \in calls : \E ok \in BOOLEAN : calls' = calls \ {c} /\ Enqueues(Answer(c, ok))
      BY <1>0, <2>1, AnswerEnqueues
    <3>2. PICK c \in calls, ok \in BOOLEAN : calls' = calls \ {c} /\ Enqueues(Answer(c, ok))
      BY <3>1
    <3>3. Answer(c, ok).type = "CREAT_ATTR_TAB"
      BY DEF Before, NoData, Answer, StackEvent
    <3>4. UNCHANGED <<hidd_cb, hidd_clcb, connected, main>>
      BY <1>7 DEF Stack, profileVars, callbackVars
    <3>5. Before'
      BY <3>1, <3>2, <3>3, <3>4, BeforeEnqueues DEF Before
    <3> QED
      BY <3>5 DEF TokenInv
  <2>2. CASE HostConnects \/ LinkDrops
    BY <2>2 DEF Before, Alone, HostConnects, LinkDrops
  <2> QED
    BY <1>7, <2>1, <2>2 DEF Stack
<1>8. CASE Task \/ Tick \/ UNCHANGED vars
  <2>1. UNCHANGED <<calls, events, advertising, links, interfaces, hidd_cb, hidd_clcb, connected, main>>
    BY <1>8 DEF Task, Tick, vars, appVars, stackVars, profileVars, callbackVars
  <2>2. Before'
    BY <2>1, BeforeKept
  <2> QED
    BY <2>2 DEF TokenInv
<1> QED
  BY <1>1, <1>2, <1>3, <1>4, <1>5, <1>6, <1>7, <1>8 DEF Next, AppMain

\* What the callbacks make of an event once the mouse is registered.
LEMMA RegisteredCallback ==
  ASSUME TypeOK, EventsAddressed, Registered1, Callback
  PROVE  /\ Registered1' /\ Linked' = Linked /\ events # <<>> /\ events' = Tail(events)
         /\ \/ /\ \A t \in {"ADV_DATA_SET", "CONNECT", "DISCONNECT"} : 1 \notin News(t)
               /\ "adv_data" \in calls' <=> "adv_data" \in calls
               /\ UNCHANGED <<advertising, hidd_clcb, connected, hid_conn_id>>
            \/ /\ 1 \in News("ADV_DATA_SET") /\ 1 \notin News("CONNECT") \cup News("DISCONNECT")
               /\ advertising' /\ UNCHANGED <<calls, hidd_clcb, connected, hid_conn_id>>
            \/ /\ 1 \in News("CONNECT") /\ 1 \notin News("ADV_DATA_SET") \cup News("DISCONNECT")
               /\ connected' /\ hid_conn_id' = events[1].conn_id
               /\ ~hidd_clcb[1].in_use => hidd_clcb'[1].in_use /\ hidd_clcb'[1].conn_id = events[1].conn_id
               /\ UNCHANGED <<calls, advertising>>
            \/ /\ 1 \in News("DISCONNECT") /\ 1 \notin News("ADV_DATA_SET") \cup News("CONNECT")
               /\ ~connected' /\ ~hidd_clcb'[1].in_use /\ advertising' /\ UNCHANGED calls
<1> DEFINE e == Head(events)
<1>0. /\ events \in Seq(Event) /\ events # <<>> /\ events' = Tail(events)
      /\ UNCHANGED <<interfaces, links, main>> /\ hidd_clcb \in [1 .. HID_MAX_APPS -> Block]
  BY DEF TypeOK, StackTypeOK, ProfileTypeOK, Callback
<1>1. /\ Len(events') = Len(events) - 1 /\ Len(events) \in Nat \ {0} /\ e = events[1] /\ e \in Event
      /\ 1 \in 1 .. Len(events)
      /\ \A n \in 1 .. Len(events') : events'[n] = events[n + 1] /\ n + 1 \in 1 .. Len(events)
  BY <1>0, NextEvent
<1>2. e.type # "REG" /\ Addressed(e)
  BY <1>1 DEF Registered1, Registering, EventsAddressed
<1>3. \A t : 1 \in News(t) <=> e.type = t /\ e.gatts_if # BATTRAY_APP_ID
  BY <1>1 DEF News
<1>4. profile_if' = profile_if /\ gatt_if' = gatt_if /\ hidd_cb' = hidd_cb
  BY <1>2 DEF Callback, AdvDataSet, NotForTheProfile, Registered, TableCreated, HostConnected,
     HostDisconnected, gatts_event_handler, TableEvent, ConnectEvent, DisconnectEvent, profileVars
<1>5. Registered1'
  BY <1>0, <1>1, <1>4 DEF Registered1, Registering
<1>6. Dispatched(e) <=> e.gatts_if \in {ESP_GATT_IF_NONE, HIDD_APP_ID}
  BY <1>2, <1>4 DEF Dispatched, Registered1
<1>7. CASE AdvDataSet(e)
  <2>1. e.type = "ADV_DATA_SET" /\ e.gatts_if # BATTRAY_APP_ID
    BY <1>2, <1>7 DEF AdvDataSet, Addressed, ESP_GATT_IF_NONE, BATTRAY_APP_ID
  <2>2. advertising' /\ UNCHANGED <<calls, hidd_clcb, connected, hid_conn_id>>
    BY <1>7 DEF AdvDataSet, OnOtherEvent, callbackVars, profileVars
  <2>3. 1 \in News("ADV_DATA_SET") /\ 1 \notin News("CONNECT") \cup News("DISCONNECT")
    BY <1>3, <2>1
  <2> QED
    BY <1>0, <1>5, <2>2, <2>3, LinkedKept
<1>8. CASE NotForTheProfile(e)
  <2>1. e.gatts_if = BATTRAY_APP_ID
    BY <1>1, <1>6, <1>8 DEF NotForTheProfile, Event, Application
  <2>2. \A t \in {"ADV_DATA_SET", "CONNECT", "DISCONNECT"} : 1 \notin News(t)
    BY <1>3, <2>1
  <2>3. UNCHANGED <<calls, advertising, hidd_clcb, connected, hid_conn_id>>
    BY <1>8 DEF NotForTheProfile, OnOtherEvent, callbackVars
  <2> QED
    BY <1>0, <1>5, <2>2, <2>3, LinkedKept
<1>9. CASE TableCreated(e)
  <2>1. e.type = "CREAT_ATTR_TAB"
    BY <1>9 DEF TableCreated
  <2>2. \A t \in {"ADV_DATA_SET", "CONNECT", "DISCONNECT"} : 1 \notin News(t)
    BY <1>3, <2>1
  <2>3. UNCHANGED <<advertising, hidd_clcb, connected, hid_conn_id>>
        /\ ("adv_data" \in calls' <=> "adv_data" \in calls)
    BY <1>9 DEF TableCreated, TableEvent, NextTable, OnOtherEvent, callbackVars, HIDD_APP_ID
  <2> QED
    BY <1>0, <1>5, <2>2, <2>3, LinkedKept
<1>10. CASE HostConnected(e)
  <2>1. e.type = "CONNECT" /\ e.gatts_if # BATTRAY_APP_ID
    BY <1>6, <1>10 DEF HostConnected, ESP_GATT_IF_NONE, HIDD_APP_ID, BATTRAY_APP_ID
  <2>2. 1 \in News("CONNECT") /\ 1 \notin News("ADV_DATA_SET") \cup News("DISCONNECT")
    BY <1>3, <2>1
  <2>3. connected' /\ hid_conn_id' = e.conn_id /\ UNCHANGED <<calls, advertising>>
    BY <1>10 DEF HostConnected, Registered1, OnConnect
  <2>4. hidd_clcb' = IF hidd_clcb[1].in_use THEN hidd_clcb
                     ELSE [n \in {1} |-> [in_use |-> TRUE, conn_id |-> e.conn_id, remote_bda |-> e.host]]
    <3>1. hidd_clcb_alloc(e)
      BY <1>10 DEF HostConnected, ConnectEvent
    <3> HIDE DEF e
    <3> QED
      BY <1>0, <1>1, <3>1, BlockType
  <2>5. ~hidd_clcb[1].in_use => hidd_clcb'[1].in_use /\ hidd_clcb'[1].conn_id = e.conn_id
    BY <2>4
  <2> QED
    BY <1>0, <1>1, <1>5, <2>2, <2>3, <2>5, LinkedKept
<1>11. CASE HostDisconnected(e)
  <2>1. e.type = "DISCONNECT" /\ e.gatts_if # BATTRAY_APP_ID
    BY <1>6, <1>11 DEF HostDisconnected, ESP_GATT_IF_NONE, HIDD_APP_ID, BATTRAY_APP_ID
  <2>2. 1 \in News("DISCONNECT") /\ 1 \notin News("ADV_DATA_SET") \cup News("CONNECT")
    BY <1>3, <2>1
  <2>3. ~connected' /\ advertising' /\ UNCHANGED calls
    BY <1>11 DEF HostDisconnected, Registered1, OnDisconnect
  <2>4. ~hidd_clcb'[1].in_use
    BY <1>0, <1>11 DEF HostDisconnected, DisconnectEvent, hidd_clcb_dealloc, NoBlock, HID_MAX_APPS
  <2> QED
    BY <1>0, <1>5, <2>2, <2>3, <2>4, LinkedKept
<1> QED
  BY <1>2, <1>7, <1>8, <1>9, <1>10, <1>11 DEF Callback, Registered

LEMMA PhaseKept ==
  ASSUME Phase, UNCHANGED <<calls, events, advertising, links, hidd_clcb, connected, hid_conn_id>>
  PROVE  Phase'
<1>1. Linked' = Linked /\ \A t : News(t)' = News(t)
  BY LinkedKept, NewsKept
<1> QED
  BY <1>1 DEF Phase, Asked, Answered, Advertises, Comes, Stays, CameAndLeft, Leaves, Unheard, NoData, Alone

LEMMA PhaseCallback ==
  ASSUME TypeOK, EventsAddressed, Registered1, Phase, Callback
  PROVE  Registered1' /\ Phase'
<1> DEFINE D == News("ADV_DATA_SET")
           C == News("CONNECT")
           L == News("DISCONNECT")
<1>0. events \in Seq(Event) /\ Registered1' /\ Linked' = Linked /\ events # <<>> /\ events' = Tail(events)
  BY RegisteredCallback DEF TypeOK, StackTypeOK
<1>1. ASSUME NEW t
      PROVE  /\ News(t) \subseteq {1} => News(t)' = {}
             /\ \A n \in 1 .. Len(events) : News(t) = {n} /\ 1 \notin News(t) =>
                  n - 1 \in 1 .. Len(events') /\ News(t)' = {n - 1} /\ events'[n - 1] = events[n]
  BY <1>0, NewsTaken
<1>2. /\ D \subseteq {1} => D' = {}
      /\ C \subseteq {1} => C' = {}
      /\ L \subseteq {1} => L' = {}
      /\ \A n \in 1 .. Len(events) :
           /\ D = {n} /\ 1 \notin D => n - 1 \in 1 .. Len(events') /\ D' = {n - 1}
           /\ C = {n} /\ 1 \notin C =>
                n - 1 \in 1 .. Len(events') /\ C' = {n - 1} /\ events'[n - 1] = events[n]
           /\ L = {n} /\ 1 \notin L => n - 1 \in 1 .. Len(events') /\ L' = {n - 1}
  BY <1>1
<1> USE DEF Unheard, NoData, Alone
\* News for the battery's application, or of a table
<1>3. CASE /\ 1 \notin D /\ 1 \notin C /\ 1 \notin L
           /\ "adv_data" \in calls' <=> "adv_data" \in calls
           /\ UNCHANGED <<advertising, hidd_clcb, connected, hid_conn_id>>
  <2>1. CASE Asked
    BY <1>0, <1>2, <1>3, <2>1 DEF Asked, Phase
  <2>2. CASE Answered
    BY <1>0, <1>2, <1>3, <2>2 DEF Answered, Phase
  <2>3. CASE Advertises
    BY <1>0, <1>2, <1>3, <2>3 DEF Advertises, Phase
  <2>4. CASE Comes
    BY <1>0, <1>2, <1>3, <2>4 DEF Comes, Phase
  <2>5. CASE Stays
    BY <1>0, <1>2, <1>3, <2>5 DEF Stays, Phase
  <2>6. CASE CameAndLeft
    <3>1. PICK m \in 1 .. Len(events), n \in 1 .. Len(events) : C = {m} /\ L = {n} /\ m < n
      BY <2>6 DEF CameAndLeft
    <3>2. m - 1 \in 1 .. Len(events') /\ C' = {m - 1} /\ n - 1 \in 1 .. Len(events') /\ L' = {n - 1}
      BY <1>2, <1>3, <3>1
    <3>3. m - 1 < n - 1
      BY <1>0, <3>1
    <3>4. NoData' /\ ~advertising' /\ Alone'
      BY <1>0, <1>2, <1>3, <2>6 DEF CameAndLeft
    <3>5. CameAndLeft'
      BY <3>2, <3>3, <3>4 DEF CameAndLeft
    <3> QED
      BY <1>0, <3>5 DEF Phase
  <2>7. CASE Leaves
    BY <1>0, <1>2, <1>3, <2>7 DEF Leaves, Phase
  <2> QED
    BY <2>1, <2>2, <2>3, <2>4, <2>5, <2>6, <2>7 DEF Phase
<1>4. CASE /\ 1 \in D /\ 1 \notin C \cup L
           /\ advertising' /\ UNCHANGED <<calls, hidd_clcb, connected, hid_conn_id>>
  <2>1. Answered /\ D = {1}
    BY <1>4 DEF Phase, Asked, Answered, Advertises, Comes, Stays, CameAndLeft, Leaves
  <2>2. Advertises'
    BY <1>0, <1>2, <1>4, <2>1 DEF Answered, Advertises
  <2> QED
    BY <1>0, <2>2 DEF Phase
<1>5. CASE /\ 1 \in C /\ 1 \notin D \cup L
           /\ connected' /\ hid_conn_id' = events[1].conn_id
           /\ ~hidd_clcb[1].in_use => hidd_clcb'[1].in_use /\ hidd_clcb'[1].conn_id = events[1].conn_id
           /\ UNCHANGED <<calls, advertising>>
  <2>1. C = {1} /\ (Comes \/ CameAndLeft)
    BY <1>5 DEF Phase, Asked, Answered, Advertises, Comes, Stays, CameAndLeft, Leaves
  <2>2. CASE Comes
    <3>1. Stays'
      BY <1>0, <1>2, <1>5, <2>1, <2>2 DEF Comes, Stays
    <3> QED
      BY <1>0, <3>1 DEF Phase
  <2>3. CASE CameAndLeft
    <3>1. PICK n \in 1 .. Len(events) : L = {n}
      BY <2>3 DEF CameAndLeft
    <3>2. n - 1 \in 1 .. Len(events') /\ L' = {n - 1}
      BY <1>2, <1>5, <3>1
    <3>3. Leaves'
      BY <1>0, <1>2, <1>5, <2>1, <2>3, <3>2 DEF CameAndLeft, Leaves
    <3> QED
      BY <1>0, <3>3 DEF Phase
  <2> QED
    BY <2>1, <2>2, <2>3
<1>6. CASE /\ 1 \in L /\ 1 \notin D \cup C
           /\ ~connected' /\ ~hidd_clcb'[1].in_use /\ advertising' /\ UNCHANGED calls
  <2>1. L = {1} /\ Leaves
    <3>1. CASE CameAndLeft
      <4>1. PICK m \in 1 .. Len(events), n \in 1 .. Len(events) : C = {m} /\ L = {n} /\ m < n
        BY <3>1 DEF CameAndLeft
      <4> QED
        BY <1>0, <1>6, <4>1
    <3>2. CASE ~CameAndLeft
      BY <1>6, <3>2 DEF Phase, Asked, Answered, Advertises, Comes, Stays, Leaves
    <3> QED
      BY <3>1, <3>2
  <2>2. Advertises'
    BY <1>0, <1>2, <1>6, <2>1 DEF Leaves, Advertises
  <2> QED
    BY <1>0, <2>2 DEF Phase
<1> QED
  BY <1>3, <1>4, <1>5, <1>6, RegisteredCallback

LEMMA PhaseAnswer ==
  ASSUME TypeOK, Registered1, Phase, Stack, AnswerCall
  PROVE  Registered1' /\ Phase'
<1>0. StackTypeOK /\ events \in Seq(Event)
  BY DEF TypeOK, StackTypeOK
<1>1. PICK c \in calls, ok \in BOOLEAN : calls' = calls \ {c} /\ Enqueues(Answer(c, ok))
  BY <1>0, AnswerEnqueues
<1>2. UNCHANGED <<interfaces, advertising, links, profile_if, gatt_if, hidd_cb, main, hidd_clcb,
                  connected, hid_conn_id>>
  BY DEF Stack, AnswerCall, profileVars, callbackVars
<1>3. IF c = "adv_data"
        THEN Answer(c, ok).type = "ADV_DATA_SET" /\ Answer(c, ok).gatts_if # BATTRAY_APP_ID
        ELSE Answer(c, ok).type = "CREAT_ATTR_TAB"
  BY DEF Answer, StackEvent, ESP_GATT_IF_NONE, BATTRAY_APP_ID
<1> DEFINE e == Answer(c, ok)
<1> HIDE DEF e
<1>4. /\ Len(events') = Len(events) + 1 /\ Len(events) \in Nat /\ events'[Len(events) + 1] = e
      /\ \A n \in 1 .. Len(events) : events'[n] = events[n]
      /\ \A t : News(t)' = IF e.type = t /\ e.gatts_if # BATTRAY_APP_ID
                           THEN News(t) \cup {Len(events) + 1} ELSE News(t)
  <2>1. Enqueues(e)
    BY <1>1 DEF e
  <2>2. ASSUME NEW t
        PROVE  /\ Len(events') = Len(events) + 1 /\ Len(events) \in Nat /\ events'[Len(events) + 1] = e
               /\ \A n \in 1 .. Len(events) : events'[n] = events[n]
               /\ News(t)' = IF e.type = t /\ e.gatts_if # BATTRAY_APP_ID
                             THEN News(t) \cup {Len(events) + 1} ELSE News(t)
    BY <1>0, <2>1, NewsAppended
  <2> QED
    BY <2>2
<1>5. Registered1'
  <2>1. e.type # "REG"
    BY <1>3 DEF e
  <2>2. \A n \in 1 .. Len(events') : n \in 1 .. Len(events) \/ n = Len(events) + 1
    BY <1>4
  <2>3. \A n \in 1 .. Len(events') : ~Registering(n)'
    BY <1>4, <2>1, <2>2 DEF Registered1, Registering
  <2> QED
    BY <1>2, <2>3 DEF Registered1
<1>6. Linked' = Linked /\ 1 .. Len(events) \subseteq 1 .. Len(events') /\ Len(events) + 1 \in 1 .. Len(events')
  BY <1>2, <1>4, LinkedKept
<1> USE DEF Unheard, NoData, Alone
<1>7. CASE c = "adv_data"
  <2>1. News("ADV_DATA_SET")' = News("ADV_DATA_SET") \cup {Len(events) + 1}
        /\ News("CONNECT")' = News("CONNECT") /\ News("DISCONNECT")' = News("DISCONNECT")
    BY <1>3, <1>4, <1>7 DEF e
  <2>2. Asked
    BY <1>7 DEF Phase, Asked, Answered, Advertises, Comes, Stays, CameAndLeft, Leaves
  <2>3. Answered'
    BY <1>1, <1>2, <1>6, <1>7, <2>1, <2>2 DEF Asked, Answered
  <2> QED
    BY <1>5, <2>3 DEF Phase
<1>8. CASE c # "adv_data"
  <2>1. \A t \in {"ADV_DATA_SET", "CONNECT", "DISCONNECT"} : News(t)' = News(t)
    BY <1>3, <1>4, <1>8 DEF e
  <2>2. "adv_data" \in calls' <=> "adv_data" \in calls
    BY <1>1, <1>8
  <2>3. \A n \in 1 .. Len(events) : n \in 1 .. Len(events') /\ events'[n] = events[n]
    BY <1>4, <1>6
  <2>4. Phase'
    BY <1>2, <1>6, <2>1, <2>2, <2>3 DEF Phase, Asked, Answered, Advertises, Comes, Stays, CameAndLeft, Leaves
  <2> QED
    BY <1>5, <2>4
<1> QED
  BY <1>7, <1>8

LEMMA PhaseTold ==
  ASSUME TypeOK, Registered1, Stack, NEW t, NEW c, NEW h, Announces(t, c, h), UNCHANGED interfaces
  PROVE  /\ Registered1' /\ Len(events) \in Nat /\ Len(events') \in Nat /\ Len(events') > Len(events)
         /\ \A n \in 1 .. Len(events) : events'[n] = events[n]
         /\ events'[Len(events')].conn_id = c
         /\ \A t2 : News(t2)' = IF t = t2 THEN News(t2) \cup {Len(events')} ELSE News(t2)
<1>0. StackTypeOK /\ HIDD_APP_ID \in interfaces
  BY DEF TypeOK, Registered1
<1>1. ASSUME NEW t2
      PROVE  /\ Len(events') > Len(events) /\ Len(events) \in Nat /\ Len(events') \in Nat
             /\ \A n \in 1 .. Len(events) : events'[n] = events[n]
             /\ events'[Len(events')].conn_id = c
             /\ News(t2)' = IF t = t2 THEN News(t2) \cup {Len(events')} ELSE News(t2)
  BY <1>0, NewsTold
<1>2. t \in {"CONNECT", "DISCONNECT"} /\ c \in ConnId /\ h \in Host /\ Tell(t, c, h)
  BY DEF Announces
<1>3. \A n \in Len(events) + 1 .. Len(events') : \E f \in interfaces : events'[n] = LinkEvent(t, f, c, h)
  BY <1>0, <1>2, TellAppends
<1>4. \A n \in 1 .. Len(events') : n \in 1 .. Len(events) \/ n \in Len(events) + 1 .. Len(events')
  BY <1>1
<1>5. ASSUME NEW n \in 1 .. Len(events') PROVE events'[n].type # "REG"
  <2>1. CASE n \in 1 .. Len(events)
    BY <1>1, <2>1 DEF Registered1, Registering
  <2>2. CASE n \in Len(events) + 1 .. Len(events')
    <3>1. PICK f \in interfaces : events'[n] = LinkEvent(t, f, c, h)
      BY <1>3, <2>2
    <3> QED
      BY <1>2, <3>1 DEF LinkEvent
  <2> QED
    BY <1>4, <2>1, <2>2
<1>6. UNCHANGED <<profile_if, gatt_if, hidd_cb, main>>
  BY DEF Stack, profileVars
<1>7. Registered1'
  BY <1>5, <1>6 DEF Registered1, Registering
<1> QED
  BY <1>1, <1>7

LEMMA PhaseConnect ==
  ASSUME TypeOK, Registered1, Phase, Stack, HostConnects
  PROVE  Registered1' /\ Phase'
<1>0. StackTypeOK
  BY DEF TypeOK
<1>1. advertising /\ advertising' = FALSE /\ UNCHANGED <<interfaces, calls, services>>
  BY <1>0, ConnectAnnounces
<1>2. PICK c \in ConnId \ Linked, h \in Host : Announces("CONNECT", c, h) /\ links' = [links EXCEPT ![c] = h]
  BY <1>0, ConnectAnnounces
<1>3. /\ Registered1' /\ Len(events) \in Nat /\ Len(events') \in Nat /\ Len(events') > Len(events)
      /\ events'[Len(events')].conn_id = c
      /\ \A t2 : News(t2)' = IF "CONNECT" = t2 THEN News(t2) \cup {Len(events')} ELSE News(t2)
  BY <1>1, <1>2, PhaseTold
<1>4. UNCHANGED <<hidd_clcb, connected, hid_conn_id>>
  BY DEF Stack, profileVars, callbackVars
<1>5. Advertises
  BY <1>1 DEF Phase, Asked, Answered, Advertises, Comes, Stays, CameAndLeft, Leaves
<1>6. Linked' = {c}
  <2>1. Linked = {} /\ h # NoHost
    BY <1>5 DEF Advertises, Alone
  <2> QED
    BY <1>0, <1>2, <2>1 DEF Linked, StackTypeOK
<1>7. News("CONNECT")' = {Len(events')} /\ News("DISCONNECT")' = {} /\ News("ADV_DATA_SET")' = {}
  BY <1>3, <1>5 DEF Advertises, Unheard, NoData
<1>8. Len(events') \in 1 .. Len(events')
  BY <1>3
<1>9. Comes'
  BY <1>1, <1>3, <1>4, <1>5, <1>6, <1>7, <1>8 DEF Advertises, Comes, NoData, Alone
<1> QED
  BY <1>3, <1>9 DEF Phase

LEMMA PhaseDrop ==
  ASSUME TypeOK, Registered1, Phase, Stack, LinkDrops
  PROVE  Registered1' /\ Phase'
<1>0. StackTypeOK
  BY DEF TypeOK
<1>1. UNCHANGED <<interfaces, calls, advertising, services>>
  BY <1>0, DropAnnounces
<1>2. PICK c \in Linked, h \in Host : Announces("DISCONNECT", c, h) /\ links' = [links EXCEPT ![c] = NoHost]
  BY <1>0, DropAnnounces
<1>3. /\ Registered1' /\ Len(events) \in Nat /\ Len(events') \in Nat /\ Len(events') > Len(events)
      /\ \A t2 : News(t2)' = IF "DISCONNECT" = t2 THEN News(t2) \cup {Len(events')} ELSE News(t2)
  BY <1>1, <1>2, PhaseTold
<1>4. UNCHANGED <<hidd_clcb, connected, hid_conn_id>>
  BY DEF Stack, profileVars, callbackVars
<1>5. Linked' = Linked \ {c}
  BY <1>0, <1>2 DEF Linked, StackTypeOK
<1>6. Comes \/ Stays
  BY <1>2 DEF Phase, Asked, Answered, Advertises, Comes, Stays, CameAndLeft, Leaves, Alone
<1>7. /\ News("CONNECT")' = News("CONNECT") /\ News("DISCONNECT")' = {Len(events')}
      /\ News("ADV_DATA_SET")' = {} /\ "adv_data" \notin calls' /\ ~advertising'
  BY <1>1, <1>3, <1>6 DEF Comes, Stays, Unheard, NoData
<1>8. Len(events') \in 1 .. Len(events')
  BY <1>3
<1>9. CASE Comes
  <2>1. PICK n \in 1 .. Len(events) : News("CONNECT") = {n} /\ Linked = {events[n].conn_id}
    BY <1>9 DEF Comes
  <2>2. n < Len(events') /\ n \in 1 .. Len(events') /\ Linked' = {}
    BY <1>2, <1>3, <1>5, <2>1
  <2>3. CameAndLeft'
    BY <1>4, <1>7, <1>8, <1>9, <2>1, <2>2 DEF Comes, CameAndLeft, NoData, Alone
  <2> QED
    BY <1>3, <2>3 DEF Phase
<1>10. CASE Stays
  <2>1. Linked' = {}
    BY <1>2, <1>5, <1>10 DEF Stays
  <2>2. Leaves'
    BY <1>4, <1>7, <1>8, <1>10, <2>1 DEF Stays, Leaves, NoData, Unheard
  <2> QED
    BY <1>3, <2>2 DEF Phase
<1> QED
  BY <1>6, <1>9, <1>10

LEMMA TokenStep ==
  ASSUME TypeOK, EventsAddressed, TokenInv, [Next]_vars
  PROVE  TokenInv'
<1>1. CASE Before
  BY <1>1, BeforeStep
<1>2. CASE Registered1 /\ Phase
  <2>1. CASE Callback
    BY <1>2, <2>1, PhaseCallback DEF TokenInv
  <2>2. CASE Stack
    BY <1>2, <2>2, PhaseAnswer, PhaseConnect, PhaseDrop DEF TokenInv, Stack
  <2>3. CASE AppMain \/ Task \/ Tick \/ UNCHANGED vars
    <3>1. UNCHANGED <<stackVars, profileVars, callbackVars>> /\ main' \in {main, "done"}
      BY <1>2, <2>3 DEF AppMain, InitProfile, RegisterCallbacks, RegisterBattery, RegisterHid,
         RegisterFails, CreateTask, Registered1, Task, Tick, vars, appVars
    <3>2. Registered1'
      BY <1>2, <3>1 DEF Registered1, Registering, stackVars, profileVars
    <3>3. Phase'
      BY <1>2, <3>1, PhaseKept DEF stackVars, profileVars, callbackVars
    <3> QED
      BY <3>2, <3>3 DEF TokenInv
  <2> QED
    BY <2>1, <2>2, <2>3 DEF Next
<1> QED
  BY <1>1, <1>2 DEF TokenInv

LEMMA TokenInit == Init => TokenInv
<1> SUFFICES ASSUME Init PROVE Before
  BY DEF TokenInv
<1>1. events = <<>> /\ Len(events) = 0 /\ calls = {} /\ ~advertising /\ Linked = {}
  BY DEF Init, StackInit, Linked
<1>2. ~hidd_clcb[1].in_use /\ ~connected /\ main = "profile"
  BY DEF Init, ProfileInit, AirMouseInit, NoBlock, HID_MAX_APPS
<1>3. 1 .. Len(events) = {}
  BY <1>1
<1>4. NoData
  BY <1>1, <1>3 DEF NoData, News
<1> QED
  BY <1>1, <1>2, <1>3, <1>4 DEF Before, Alone

LinkInv == TypeInv /\ TokenInv

LEMMA LinkInvInductive == (Init => LinkInv) /\ (LinkInv /\ [Next]_vars => LinkInv')
BY TypeInit, TypeStep, TokenInit, TokenStep DEF LinkInv, TypeInv

\* Where the news is settled, the connection is away or stays.
LEMMA TokenAgrees ==
  ASSUME EventsAddressed, TokenInv
  PROVE  ConnectionsAgree
<1> SUFFICES ASSUME Settled
             PROVE  /\ Linked = {hidd_clcb[n].conn_id : n \in {j \in 1 .. HID_MAX_APPS : hidd_clcb[j].in_use}}
                    /\ Linked = IF connected THEN {hid_conn_id} ELSE {}
  BY DEF ConnectionsAgree
<1>1. News("CONNECT") = {} /\ News("DISCONNECT") = {}
  BY DEF News, Settled, EventsAddressed, Addressed, Application
<1>2. Alone \/ Stays
  BY <1>1 DEF TokenInv, Before, Phase, Asked, Answered, Advertises, Comes, CameAndLeft, Leaves
<1>3. 1 .. HID_MAX_APPS = {1}
  BY DEF HID_MAX_APPS
<1>4. CASE Alone
  <2>1. {j \in 1 .. HID_MAX_APPS : hidd_clcb[j].in_use} = {}
    BY <1>3, <1>4 DEF Alone
  <2> QED
    BY <1>4, <2>1 DEF Alone
<1>5. CASE Stays
  <2>1. {j \in 1 .. HID_MAX_APPS : hidd_clcb[j].in_use} = {1}
    BY <1>3, <1>5 DEF Stays
  <2> QED
    BY <1>5, <2>1 DEF Stays
<1> QED
  BY <1>2, <1>4, <1>5

(* Whenever no news of a connection is under way to the mouse, the stack,  *)
(* the profile's one block and the application name the same connection,   *)
(* or none: however hosts came and went, a second one never got in, and    *)
(* the block that was cleared was the right one.  The argument follows the *)
(* one token of the connection through the queue.                          *)
THEOREM Agreement == Spec => []ConnectionsAgree
<1>1. LinkInv => ConnectionsAgree
  BY TokenAgrees DEF LinkInv, TypeInv
<1> QED
  BY <1>1, LinkInvInductive, PTL DEF Spec

-----------------------------------------------------------------------------
(* The script                                                              *)

LEMMA ScriptMoves ==
  ASSUME NEW n \in 0 .. 2 * Steps - 1, NEW next, next = (n + 1) % (2 * Steps)
  PROVE  /\ next \in 0 .. 2 * Steps - 1
         /\ n < Steps => next \in 1 .. Steps /\ Place(next) - 1 = Place(n)
         /\ n >= Steps => next \notin 1 .. Steps /\ Place(next) + 1 = Place(n)
<1>1. next = IF n + 1 = 2 * Steps THEN 0 ELSE n + 1
  <2>1. 2 * Steps \in Nat \ {0} /\ n + 1 \in 1 .. 2 * Steps
    OBVIOUS
  <2>2. ASSUME NEW k \in Nat \ {0}, NEW j \in 1 .. k PROVE j % k = IF j = k THEN 0 ELSE j
    BY <2>2
  <2> QED
    BY <2>1, <2>2
<1> QED
  BY <1>1 DEF Place

LEMMA PlaceRange ==
  ASSUME NEW n \in 0 .. 2 * Steps - 1
  PROVE  Place(n) \in 0 .. Steps
BY DEF Place

\* What the token says to the script: whom a report may reach.
LEMMA TokenSays ==
  ASSUME TypeOK, EventsAddressed, TokenInv
  PROVE  /\ Linked # {} => gatt_if \in interfaces
         /\ Linked # {} /\ connected => Linked = {hid_conn_id}
         /\ advertising => Linked = {} /\ ~connected
         /\ Linked # {} /\ 1 \in News("CONNECT") => ~connected
<1>1. CASE Before
  BY <1>1 DEF Before, Alone
<1>2. CASE Registered1 /\ Phase
  <2>1. gatt_if \in interfaces
    BY <1>2 DEF Registered1
  <2>2. /\ Linked # {} /\ connected => Linked = {hid_conn_id}
        /\ advertising => Linked = {} /\ ~connected
        /\ Linked # {} /\ 1 \in News("CONNECT") => ~connected
    BY <1>2 DEF Phase, Asked, Answered, Advertises, Comes, Stays, CameAndLeft, Leaves, Unheard, Alone
  <2> QED
    BY <2>1, <2>2
<1> QED
  BY <1>1, <1>2 DEF TokenInv

\* What a callback can do to the connection the task looks at.
LEMMA CallbackSays ==
  ASSUME TypeOK, EventsAddressed, TokenInv, TokenInv', Callback
  PROVE  /\ Linked' = Linked
         /\ \/ UNCHANGED <<connected, hid_conn_id>>
            \/ connected' /\ (Linked # {} => ~connected)
            \/ Linked' = {}
<1>0. UNCHANGED links
  BY DEF Callback
<1>1. CASE Before
  <2>1. Linked = {} /\ Linked' = {}
    BY <1>0, <1>1, LinkedKept DEF Before, Alone
  <2> QED
    BY <2>1
<1>2. CASE Registered1
  <2>1. advertising' => Linked' = {}
    BY DEF TokenInv, Before, Alone, Phase, Asked, Answered, Advertises, Comes, Stays, CameAndLeft, Leaves
  <2> QED
    BY <1>2, <2>1, RegisteredCallback, TokenSays
<1> QED
  BY <1>1, <1>2 DEF TokenInv

LEMMA ShownRange ==
  ASSUME TypeOK
  PROVE  Shown \in 0 .. Steps /\ Move10 \in {1, -1}
BY DEF TypeOK, ScriptTypeOK, Shown, Place, Move10

\* A step that shows the host nothing and leaves the script where it is.
LEMMA ScriptRests ==
  ASSUME TypeOK, EventsAddressed, TokenInv, ScriptInv, UNCHANGED <<lab, i, pos, delta>>,
         lab = "lab4_2" => pc' \in {"none", "wait", "read", "again", "load", "post"} /\ (UnderWay' => UnderWay),
         UNCHANGED hid_rpt_tbl \/ hid_rpt_tbl' # <<>>,
         Newcomer', Resident'
  PROVE  ScriptInv'
<1>1. lab = "lab4_2" => Script2'
  BY DEF ScriptInv, Script2, Move10
<1>2. PointerStaysNear'
  BY DEF ScriptInv, PointerStaysNear
<1> QED
  BY <1>1, <1>2 DEF ScriptInv

LEMMA ScriptPost ==
  ASSUME TypeOK, EventsAddressed, ServiceInv, TokenInv, ScriptInv, Task, PostReport
  PROVE  ScriptInv'
<1>0. /\ UNCHANGED <<lab, i, delta, connected, hid_conn_id, conn_id, hid_rpt_tbl>> /\ Linked' = Linked
      /\ pc = "post" /\ pc' = "read"
  BY LinkedKept DEF Task, PostReport, FinishSend, DelayThenRead, stackVars, profileVars, callbackVars
<1>1. /\ UnderWay /\ ~UnderWay' /\ Move10' = Move10 /\ Place(i)' = Place(i)
      /\ Shown' = Shown + Move10 /\ Shown' \in 0 .. Steps /\ Shown \in 0 .. Steps /\ Move10 \in {1, -1}
  <2>1. UnderWay /\ ~UnderWay' /\ Move10' = Move10 /\ Place(i)' = Place(i)
    BY <1>0 DEF UnderWay, Move10, Place
  <2>2. Shown = Place(i) - Move10 /\ Shown' = Place(i)
    BY <1>0, <2>1 DEF Shown, Place
  <2>3. Place(i) \in 0 .. Steps /\ Shown \in 0 .. Steps /\ Move10 \in {1, -1}
    BY PlaceRange, ShownRange DEF TypeOK, ScriptTypeOK
  <2> QED
    BY <2>1, <2>2, <2>3
<1>2. pos \in Int
  BY DEF TypeOK, ScriptTypeOK
<1>3. CASE /\ pos' = pos
           /\ hid_rpt_tbl = <<>> \/ conn_id \notin Linked \/ gatt_if \notin interfaces
  <2>1. Newcomer'
    BY <1>0, <1>3 DEF ScriptInv, Newcomer
  <2>2. Resident'
    <3> SUFFICES ASSUME lab = "lab4_2", Linked # {}, connected
                 PROVE  pos' - Shown' \in -(Steps + 1) .. 1
      BY <1>0 DEF Resident
    <3>1. Linked = {hid_conn_id} /\ gatt_if \in interfaces
      BY TokenSays
    <3>2. pos = 0
      BY <1>0, <1>3, <3>1 DEF ScriptInv, Resident
    <3> QED
      BY <1>1, <1>3, <3>2
  <2>3. lab = "lab4_2" => Script2'
    BY <1>0, <1>1 DEF Script2
  <2> QED
    BY <1>0, <1>3, <2>1, <2>2, <2>3 DEF ScriptInv, PointerStaysNear
<1>4. CASE hid_rpt_tbl # <<>> /\ conn_id \in Linked /\ pos' = Seen(TRUE) /\ lab = "lab4_2"
  <2>1. pos' = pos + Move10
    <3>1. delta[1] = 10 * Move10
      BY <1>1, <1>4 DEF ScriptInv, Script2, Axis
    <3>2. (10 * Move10) \div 10 = Move10
      BY <1>1
    <3> QED
      BY <1>4, <3>1, <3>2 DEF Seen
  <2>2. Newcomer'
    BY <1>0, <1>1, <1>2, <2>1 DEF ScriptInv, Newcomer
  <2>3. Resident'
    <3> SUFFICES ASSUME Linked # {}, connected PROVE pos' - Shown' \in -(Steps + 1) .. 1
      BY <1>0 DEF Resident
    <3>1. pos - Shown \in -(Steps + 1) .. 1
      BY <1>4 DEF ScriptInv, Resident
    <3>2. pos' - Shown' = pos - Shown
      BY <1>1, <1>2, <2>1
    <3> QED
      BY <3>1, <3>2
  <2>4. PointerStaysNear'
    <3>1. CASE connected
      <4>1. pos' - Shown' \in -(Steps + 1) .. 1
        BY <1>0, <1>4, <2>3, <3>1 DEF Resident
      <4>2. pos' \in Int
        BY <1>1, <1>2, <2>1
      <4>3. ASSUME NEW p \in Int, NEW s \in 0 .. Steps, p - s \in -(Steps + 1) .. 1
            PROVE  p \in -(Steps + 1) .. Steps + 1
        BY <4>3
      <4> QED
        BY <1>1, <4>1, <4>2, <4>3 DEF PointerStaysNear
    <3>2. CASE ~connected
      <4>1. pos' \in -1 .. 1
        BY <1>0, <1>4, <2>2, <3>2 DEF Newcomer
      <4> QED
        BY <4>1 DEF PointerStaysNear
    <3> QED
      BY <3>1, <3>2
  <2>5. Script2'
    BY <1>0, <1>1 DEF Script2
  <2> QED
    BY <1>0, <1>4, <2>2, <2>3, <2>4, <2>5 DEF ScriptInv
<1>5. CASE lab = "lab4_3" /\ pos' = Seen(TRUE)
  <2>1. pos' = pos /\ pos = 0
    BY <1>5 DEF Seen, ScriptInv
  <2> QED
    BY <1>0, <1>5, <2>1 DEF ScriptInv, PointerStaysNear, Newcomer, Resident
<1>6. lab \in {"lab4_2", "lab4_3"}
  BY DEF TypeOK, ScriptTypeOK
<1> QED
  BY <1>3, <1>4, <1>5, <1>6, PostIs

LEMMA ScriptMove ==
  ASSUME TypeOK, EventsAddressed, TokenInv, ScriptInv, Task, MoveOfScript, UNCHANGED pos
  PROVE  ScriptInv'
<1>0. /\ UNCHANGED <<lab, pos, connected, hid_conn_id, conn_id, hid_rpt_tbl>> /\ Linked' = Linked
      /\ pc = "read" /\ pc' = "again" /\ lab = "lab4_2" /\ i' = (i + 1) % (2 * Steps)
      /\ delta' = [a \in Axis |-> IF a = 2 THEN 0 ELSE IF i < Steps THEN 10 ELSE -10]
  BY LinkedKept DEF Task, MoveOfScript, Awake, NextMove, stackVars, profileVars, callbackVars
<1>1. i \in 0 .. 2 * Steps - 1
  BY DEF TypeOK, ScriptTypeOK
<1>2. /\ Move10' = IF i < Steps THEN 1 ELSE -1
      /\ Place(i') - Move10' = Place(i)
  <2> DEFINE next == (i + 1) % (2 * Steps)
  <2>1. /\ i < Steps => next \in 1 .. Steps /\ Place(next) - 1 = Place(i)
        /\ i >= Steps => next \notin 1 .. Steps /\ Place(next) + 1 = Place(i)
        /\ next \in 0 .. 2 * Steps - 1
    BY <1>1, ScriptMoves
  <2> HIDE DEF next
  <2>2. i' = next /\ Move10' = IF next \in 1 .. Steps THEN 1 ELSE -1
    BY <1>0 DEF Move10, next
  <2>3. Place(next) \in Int
    BY <2>1, PlaceRange
  <2>4. i < Steps \/ i >= Steps
    BY <1>1
  <2> QED
    BY <2>1, <2>2, <2>3, <2>4
<1>3. Shown' = Shown
  BY <1>0, <1>2 DEF Shown, UnderWay
<1>4. Script2'
  <2>1. delta' = [a \in Axis |-> IF a = 1 THEN 10 * Move10' ELSE 0]
    BY <1>0, <1>2 DEF Axis
  <2> QED
    BY <1>0, <2>1 DEF Script2
<1>5. Newcomer' /\ Resident'
  BY <1>0, <1>3 DEF ScriptInv, Newcomer, Resident
<1> QED
  BY <1>0, <1>4, <1>5 DEF ScriptInv, PointerStaysNear

LEMMA ScriptStep ==
  ASSUME TypeOK, EventsAddressed, ServiceInv, TokenInv, TokenInv', ScriptInv, [Next]_vars
  PROVE  ScriptInv'
<1>0. lab = "lab4_2" => pc \in {"none", "wait", "read", "again", "load", "post"}
  BY DEF ScriptInv, Script2
<1>1. CASE PostReport /\ Task
  BY <1>1, ScriptPost
<1>2. CASE MoveOfScript /\ Task /\ UNCHANGED pos
  BY <1>2, ScriptMove
\* The other steps of the task
<1>3. CASE Task /\ UNCHANGED scriptVars
           /\ (Sampling \/ Connected \/ SkipSend \/ TestConnected \/ LoadConnection)
  <2>1. UNCHANGED <<lab, i, pos, connected, hid_conn_id, hid_rpt_tbl>> /\ Linked' = Linked
    BY <1>3, LinkedKept DEF Task, scriptVars, stackVars, profileVars, callbackVars
  <2>2. CASE lab = "lab4_3"
    <3>1. pc' \in {"load", "post"} => connected \/ pc \in {"load", "post"}
      BY <1>3 DEF Sampling, DetectSensor, ReadSample, ReadFails, Calculate, ReadClock, CheckStopped,
         Restart, CheckMoves, Move, TestMove, Connected, SkipSend, DelayThenRead, TestConnected,
         LoadConnection
    <3> QED
      BY <2>1, <2>2, <3>1 DEF ScriptInv, PointerStaysNear, Newcomer, Resident
  <2>3. CASE lab = "lab4_2"
    <3>1. Connected \/ SkipSend \/ TestConnected \/ LoadConnection
      BY <1>3, <2>3 DEF Sampling
    <3>2. /\ UNCHANGED delta
          /\ pc' \in {"none", "wait", "read", "again", "load", "post"} /\ (UnderWay' => UnderWay)
          /\ connected => (UnderWay' <=> UnderWay)
          /\ pc' \in {"load", "post"} => connected \/ pc \in {"load", "post"}
          /\ pc' = "post" => conn_id' = hid_conn_id
      BY <1>0, <2>3, <3>1 DEF Connected, SkipSend, DelayThenRead, TestConnected, LoadConnection, UnderWay
    <3>3. Newcomer'
      BY <2>1, <3>2 DEF ScriptInv, Newcomer
    <3>4. connected => Shown' = Shown
      BY <2>1, <3>2 DEF Shown, Move10, Place
    <3>5. Resident'
      BY <2>1, <2>3, <3>2, <3>4 DEF ScriptInv, Resident
    <3> QED
      BY <2>1, <3>2, <3>3, <3>5, ScriptRests
  <2>4. lab \in {"lab4_2", "lab4_3"}
    BY DEF TypeOK, ScriptTypeOK
  <2> QED
    BY <2>2, <2>3, <2>4
<1>4. CASE Callback
  <2>1. UNCHANGED <<lab, i, pos, delta, pc, conn_id>>
    BY <1>4 DEF Callback, scriptVars, taskVars
  <2>2. Shown' = Shown /\ UnderWay' = UnderWay
    BY <2>1 DEF Shown, UnderWay, Move10, Place
  <2>3. /\ Linked' = Linked
        /\ \/ UNCHANGED <<connected, hid_conn_id>>
           \/ connected' /\ (Linked # {} => ~connected)
           \/ Linked' = {}
    BY <1>4, CallbackSays
  <2>4. Newcomer'
    BY <2>1, <2>3 DEF ScriptInv, Newcomer
  <2>5. Resident'
    <3>1. CASE UNCHANGED <<connected, hid_conn_id>>
      BY <2>1, <2>2, <2>3, <3>1 DEF ScriptInv, Resident
    <3>2. CASE connected' /\ (Linked # {} => ~connected)
      <4> SUFFICES ASSUME lab = "lab4_2", Linked # {}, ~connected
                   PROVE  pos - Shown \in -(Steps + 1) .. 1 /\ (pc = "post" => pos = 0)
        BY <2>1, <2>2, <2>3, <3>2 DEF Resident
      <4>1. pos \in -1 .. 1 /\ (pc = "post" => pos = 0)
        BY DEF ScriptInv, Newcomer
      <4> QED
        BY <4>1, ShownRange
    <3> QED
      BY <2>3, <3>1, <3>2 DEF Resident
  <2>6. UNCHANGED hid_rpt_tbl \/ hid_rpt_tbl' # <<>>
    <3>1. UNCHANGED hid_rpt_tbl \/ hid_rpt_tbl' = hid_add_id_tbl(att_tbl')
      BY <1>4 DEF Callback, AdvDataSet, NotForTheProfile, Registered, TableCreated, HostConnected,
         HostDisconnected, RegisterEvent, TableEvent, ConnectEvent, DisconnectEvent, profileVars
    <3>2. ASSUME NEW tbl PROVE hid_add_id_tbl(tbl) # <<>>
      <4>1. Len(hid_add_id_tbl(tbl)) = 9
        BY DEF hid_add_id_tbl
      <4>2. Len(<<>>) = 0
        OBVIOUS
      <4>3. hid_add_id_tbl(tbl) = <<>> => Len(hid_add_id_tbl(tbl)) = 0
        BY <4>2, Zenon
      <4> QED
        BY <4>1, <4>3
    <3> QED
      BY <3>1, <3>2
  <2> QED
    BY <1>0, <2>1, <2>2, <2>4, <2>5, <2>6, ScriptRests
<1>5. CASE Stack
  <2>1. UNCHANGED <<lab, i, delta, pc, conn_id, connected, hid_conn_id, hid_rpt_tbl>>
    BY <1>5 DEF Stack, taskVars, callbackVars, profileVars
  <2>2. Shown' = Shown /\ UnderWay' = UnderWay
    BY <2>1 DEF Shown, UnderWay, Move10, Place
  <2>3. CASE HostConnects /\ pos' = 0
    <3>1. ~connected
      BY <2>3, TokenSays DEF HostConnects
    <3>2. lab = "lab4_2" => Script2'
      BY <2>1, <2>2 DEF ScriptInv, Script2, Move10
    <3> QED
      BY <2>1, <2>3, <3>1, <3>2 DEF ScriptInv, PointerStaysNear, Newcomer, Resident
  <2>4. CASE (AnswerCall \/ LinkDrops) /\ UNCHANGED pos
    <3>1. Linked' \subseteq Linked
      BY <2>4 DEF AnswerCall, LinkDrops, Linked, TypeOK, StackTypeOK
    <3>2. Newcomer' /\ Resident'
      BY <2>1, <2>2, <2>4, <3>1 DEF ScriptInv, Newcomer, Resident
    <3> QED
      BY <1>0, <2>1, <2>2, <2>4, <3>2, ScriptRests
  <2> QED
    BY <1>5, <2>3, <2>4 DEF Stack
<1>6. CASE AppMain \/ Tick \/ UNCHANGED vars
  <2>1. /\ UNCHANGED <<lab, i, pos, delta, conn_id, connected, hid_conn_id, hid_rpt_tbl>> /\ Linked' = Linked
        /\ pc' = pc \/ (pc = "none" /\ pc' \in {"wait", "detect"} /\ (lab = "lab4_2" => pc' = "wait"))
    BY <1>6, LinkedKept DEF AppMain, InitProfile, RegisterCallbacks, RegisterBattery, RegisterHid,
       RegisterFails, CreateTask, StartScript, StartTask, esp_hidd_profile_init, SetCallback, RegisterApp,
       Tick, vars, appVars, scriptVars, taskVars, callbackVars, profileVars, stackVars
  <2>2. Shown' = Shown /\ UnderWay' = UnderWay
    BY <2>1 DEF Shown, UnderWay, Move10, Place
  <2>3. Newcomer' /\ Resident'
    BY <2>1, <2>2 DEF ScriptInv, Newcomer, Resident
  <2> QED
    BY <1>0, <2>1, <2>2, <2>3, ScriptRests
<1> QED
  BY <1>1, <1>2, <1>3, <1>4, <1>5, <1>6 DEF Next, Task, QuietStep

LEMMA ScriptInvInit == Init => ScriptInv
<1> SUFFICES ASSUME Init PROVE ScriptInv
  OBVIOUS
<1>1. pos = 0 /\ pc = "none" /\ Linked = {}
  BY DEF Init, ScriptInit, AirMouseInit, StackInit, Linked
<1> QED
  BY <1>1 DEF ScriptInv, Script2, UnderWay, PointerStaysNear, Newcomer, Resident

(* Wherever in the script a host came in, and however often hosts came and *)
(* went, the pointer it sees never strays further than one half cycle and  *)
(* the one move that was under way to a host before it.                    *)
THEOREM PointerNear == Spec => []PointerStaysNear
<1> DEFINE Inv == LinkInv /\ ScriptInv
<1>1. Init => Inv
  BY LinkInvInductive, ScriptInvInit
<1>2. Inv /\ [Next]_vars => Inv'
  <2> SUFFICES ASSUME LinkInv, ScriptInv, [Next]_vars PROVE LinkInv' /\ ScriptInv'
    OBVIOUS
  <2>1. LinkInv'
    BY LinkInvInductive
  <2>2. ScriptInv'
    BY <2>1, ScriptStep DEF LinkInv, TypeInv
  <2> QED
    BY <2>1, <2>2
<1>3. Inv => PointerStaysNear
  BY DEF ScriptInv
<1> QED
  BY <1>1, <1>2, <1>3, PTL DEF Spec

-----------------------------------------------------------------------------
(* The speed                                                               *)

\* A movement is fast only if its duration passed the times of its speed.
LEMMA RampOf ==
  ASSUME NEW level \in Int, NEW d \in Int, NEW m,
         m \in {base_speed(level) * accel_mult(d), -(base_speed(level) * accel_mult(d))}
  PROVE  \A t \in Ramp(m) : d > t
<1>1. base_speed(level) \in {3, 8}
  BY DEF base_speed
<1>2. /\ accel_mult(d) \in {1, 2, 3}
      /\ accel_mult(d) = 2 => d > Medium
      /\ accel_mult(d) = 3 => d > Medium /\ d > Long
  BY DEF accel_mult
<1>3. /\ accel_mult(d) = 1 => m \in {3, -3, 8, -8}
      /\ accel_mult(d) = 2 => m \in {6, -6, 16, -16}
  BY <1>1
<1>4. CASE accel_mult(d) = 1
  BY <1>3, <1>4 DEF Ramp
<1>5. CASE accel_mult(d) = 2
  BY <1>2, <1>3, <1>5 DEF Ramp
<1>6. CASE accel_mult(d) = 3
  BY <1>2, <1>6 DEF Ramp
<1> QED
  BY <1>2, <1>4, <1>5, <1>6

\* The types that the times are compared in.
LEMMA TimeTypes ==
  ASSUME TypeOK
  PROVE  /\ now \in Nat /\ now_ms \in Nat /\ wake \in Nat /\ Axis = {1, 2} /\ axis \in Axis
         /\ \A a \in Axis : /\ held[a].level \in Nat /\ dir[a].start_time_ms \in Nat /\ dir[a].level \in 0 .. 2
                            /\ get_tilt_level(sample[a]) \in 0 .. 2 /\ sample[a] \in -2 .. 2
<1>1. /\ now \in Nat /\ now_ms \in Nat /\ wake \in Nat /\ axis \in Axis
      /\ held \in [Axis -> [level : Nat, direction : Nat]]
      /\ dir \in [Axis -> [active : BOOLEAN, level : 0 .. 2, start_time_ms : Nat]]
      /\ sample \in [Axis -> -2 .. 2]
  BY DEF TypeOK, AirMouseTypeOK
<1>2. Axis = {1, 2}
  BY DEF Axis
<1>3. ASSUME NEW a \in Axis
      PROVE  /\ held[a].level \in Nat /\ dir[a].start_time_ms \in Nat /\ dir[a].level \in 0 .. 2
             /\ get_tilt_level(sample[a]) \in 0 .. 2 /\ sample[a] \in -2 .. 2
  <2>1. /\ held[a] \in [level : Nat, direction : Nat] /\ sample[a] \in -2 .. 2
        /\ dir[a] \in [active : BOOLEAN, level : 0 .. 2, start_time_ms : Nat]
    BY <1>1
  <2>2. get_tilt_level(sample[a]) \in 0 .. 2
    BY <2>1 DEF get_tilt_level
  <2> QED
    BY <2>1, <2>2
<1> QED
  BY <1>1, <1>2, <1>3

SpeedParts == Clocks /\ \A a \in Axis : Timed(a) /\ Earned(a)

\* A step that changes neither the times, the directions nor the movement,
\* and ends no computation of an axis.
LEMMA SpeedRests ==
  ASSUME SpeedParts, UNCHANGED <<dir, axis, sample, now_ms, delta, timeVars, held, fresh>>,
         Iterating' => Iterating, pc' \in {"check", "restart"} => pc \in {"check", "restart"},
         \A a \in Axis : Done(a)' => Done(a)
  PROVE  SpeedParts'
<1>1. Clocks'
  BY DEF SpeedParts, Clocks, timeVars
<1>2. ASSUME NEW a \in Axis PROVE Timed(a)' /\ Earned(a)'
  BY DEF SpeedParts, Timed, Earned
<1> QED
  BY <1>1, <1>2 DEF SpeedParts

\* The end of an iteration.
LEMMA SpeedDelay ==
  ASSUME TypeOK, SpeedParts, pc \notin {"clock", "check", "restart"}, pc' \in {"read"},
         UNCHANGED <<dir, axis, sample, now_ms, delta, held, fresh, now>>
  PROVE  SpeedParts'
<1>1. Clocks'
  BY DEF SpeedParts, Clocks, Iterating
<1>2. ASSUME NEW a \in Axis PROVE Timed(a)' /\ Earned(a)'
  BY DEF SpeedParts, Timed, Earned, Iterating, Done
<1> QED
  BY <1>1, <1>2 DEF SpeedParts

LEMMA SpeedSample ==
  ASSUME TypeOK, SpeedParts, ReadSample
  PROVE  SpeedParts'
<1>1. /\ UNCHANGED <<dir, now_ms, now>> /\ wake' = now /\ pc = "read" /\ pc' = "clock" /\ axis' = 1
  BY DEF ReadSample, Awake
<1>2. PICK s \in [Axis -> -2 .. 2] : sample' = s /\ Hold(s)
  BY DEF ReadSample
<1>3. ASSUME NEW a \in Axis
      PROVE  held'[a].level = IF get_tilt_level(s[a]) = get_tilt_level(sample[a]) THEN held[a].level ELSE now
  BY <1>2 DEF Hold
<1>4. Clocks'
  <2>1. \A a \in Axis : held'[a].level <= now
    BY <1>3, TimeTypes DEF SpeedParts, Clocks
  <2>2. wake' <= now' /\ now' <= wake' + Preemption
    BY <1>1, TimeTypes
  <2> QED
    BY <1>1, <2>1, <2>2 DEF SpeedParts, Clocks
<1>5. ASSUME NEW a \in Axis PROVE Timed(a)' /\ Earned(a)'
  <2>1. ~Done(a)'
    BY <1>1, TimeTypes DEF Done
  <2>2. Done(a) /\ Timed(a)
    BY <1>1 DEF Done, SpeedParts
  <2>3. Timed(a)'
    BY <1>1, <1>2, <1>3, <2>1, <2>2 DEF Timed, get_tilt_level
  <2> QED
    BY <2>1, <2>3 DEF Earned
<1> QED
  BY <1>4, <1>5 DEF SpeedParts

LEMMA SpeedClock ==
  ASSUME TypeOK, SpeedParts, ReadClock
  PROVE  SpeedParts'
<1>1. /\ UNCHANGED <<dir, axis, sample, delta, held, fresh, now, wake>> /\ now_ms' = now
      /\ pc = "clock" /\ pc' = "check"
  BY DEF ReadClock, timeVars
<1>2. Clocks'
  BY <1>1, TimeTypes DEF SpeedParts, Clocks, Iterating
<1>3. ASSUME NEW a \in Axis PROVE Timed(a)' /\ Earned(a)'
  <2>1. Done(a)' <=> Done(a)
    BY <1>1 DEF Done
  <2>2. Timed(a)'
    BY <1>1, <2>1 DEF SpeedParts, Timed
  <2>3. ASSUME Iterating', fresh', Done(a)', NEW t \in Ramp(delta[a])
        PROVE  now_ms' - held[a].level + Preemption > t
    <3>1. now_ms - held[a].level + Preemption > t
      BY <1>1, <2>1, <2>3 DEF SpeedParts, Earned, Iterating
    <3>2. now_ms <= now
      BY DEF SpeedParts, Clocks
    <3>3. t \in Nat
      BY <2>3 DEF Ramp
    <3>4. held[a].level \in Nat /\ now \in Nat /\ now_ms \in Nat /\ now_ms' = now
      BY <1>1, TimeTypes
    <3> QED
      BY <3>1, <3>2, <3>3, <3>4
  <2> QED
    BY <1>1, <2>2, <2>3 DEF Earned
<1> QED
  BY <1>2, <1>3 DEF SpeedParts

\* The movement of an axis is known: that of the other axis stays known, or unknown.
LEMMA MoveDone ==
  ASSUME TypeOK, pc \in {"check", "restart"}, NEW d, Move(d)
  PROVE  /\ delta' = [delta EXCEPT ![axis] = d] /\ delta'[axis] = d
         /\ \A a \in Axis : a # axis => (Done(a)' <=> Done(a)) /\ delta'[a] = delta[a]
         /\ pc' \in {"clock", "test"}
<1>1. axis \in {1, 2} /\ Axis = {1, 2} /\ delta \in [Axis -> -24 .. 24]
  BY DEF Axis, TypeOK, AirMouseTypeOK
<1>2. delta' = [delta EXCEPT ![axis] = d] /\ pc' = IF axis = 1 THEN "clock" ELSE "test"
  BY DEF Move
<1>3. axis = 1 => axis' = 2
  BY DEF Move
<1>4. ASSUME NEW a \in Axis, a # axis PROVE (Done(a)' <=> Done(a)) /\ delta'[a] = delta[a]
  <2>1. delta'[a] = delta[a]
    BY <1>1, <1>2, <1>4
  <2>2. CASE axis = 1
    BY <1>1, <1>2, <1>3, <1>4, <2>2 DEF Done
  <2>3. CASE axis = 2
    BY <1>1, <1>2, <1>4, <2>3 DEF Done
  <2> QED
    BY <1>1, <2>1, <2>2, <2>3
<1> QED
  BY <1>1, <1>2, <1>4

\* The clock is read at most Preemption before any change of level is seen.
LEMMA LateSample ==
  ASSUME TypeOK, SpeedParts, pc \in {"check", "restart"}, NEW a \in Axis
  PROVE  held[a].level <= now_ms + Preemption
<1>1. held[a].level <= now /\ now <= wake + Preemption /\ wake <= now_ms
  BY DEF SpeedParts, Clocks, Iterating
<1>2. held[a].level \in Nat /\ now \in Nat /\ wake \in Nat /\ now_ms \in Nat
  BY TimeTypes
<1> QED
  BY <1>1, <1>2

LEMMA SpeedRestart ==
  ASSUME TypeOK, SpeedParts, Restart
  PROVE  SpeedParts'
<1>1. /\ pc = "restart" /\ UNCHANGED <<sample, now_ms, held, fresh, now, wake>>
      /\ dir' = [dir EXCEPT ![axis] = [active |-> new_level # TILT_NONE, level |-> new_level,
                                       start_time_ms |-> now_ms]]
  BY DEF Restart, timeVars
<1>2. /\ delta'[axis] = 0 /\ pc' \in {"clock", "test"}
      /\ \A a \in Axis : a # axis => (Done(a)' <=> Done(a)) /\ delta'[a] = delta[a]
  BY <1>1, MoveDone DEF Restart
<1>3. Clocks'
  BY <1>1, <1>2 DEF SpeedParts, Clocks, Iterating
<1>4. ASSUME NEW a \in Axis, a # axis PROVE Timed(a)' /\ Earned(a)'
  <2>1. dir'[a] = dir[a] /\ delta'[a] = delta[a] /\ (Done(a)' <=> Done(a))
    BY <1>1, <1>2, <1>4
  <2>2. Timed(a) /\ Earned(a)
    BY DEF SpeedParts
  <2> QED
    BY <1>1, <1>2, <2>1, <2>2 DEF Timed, Earned, Iterating
<1>5. ASSUME NEW a \in Axis, a = axis PROVE Timed(a)' /\ Earned(a)'
  <2>1. dir \in [Axis -> [active : BOOLEAN, level : 0 .. 2, start_time_ms : Nat]]
    BY DEF TypeOK, AirMouseTypeOK
  <2>2. dir'[a].level = get_tilt_level(sample'[a]) /\ dir'[a].start_time_ms = now_ms
    BY <1>1, <1>5, <2>1 DEF new_level
  <2>3. held[a].level <= now_ms + Preemption
    BY <1>1, LateSample
  <2>4. Timed(a)'
    BY <1>1, <2>2, <2>3 DEF Timed
  <2>5. Earned(a)'
    BY <1>2, <1>5 DEF Earned, Ramp
  <2> QED
    BY <2>4, <2>5
<1> QED
  BY <1>3, <1>4, <1>5 DEF SpeedParts

LEMMA SpeedCheck ==
  ASSUME TypeOK, SpeedParts, CheckMoves
  PROVE  SpeedParts'
<1> DEFINE start == dir'[axis].start_time_ms
           step == base_speed(new_level) * accel_mult(now_ms - start)
           d == IF sample[axis] > 0 THEN step ELSE -step
<1>1. /\ pc = "check" /\ ~Stopped /\ UNCHANGED <<sample, now_ms, held, fresh, now, wake>> /\ Move(d)
      /\ dir' = IF new_level = dir[axis].level THEN dir
                ELSE [dir EXCEPT ![axis].level = new_level, ![axis].start_time_ms = now_ms]
  BY DEF CheckMoves, timeVars
<1>2. /\ delta'[axis] = d /\ pc' \in {"clock", "test"}
      /\ \A a \in Axis : a # axis => (Done(a)' <=> Done(a)) /\ delta'[a] = delta[a]
  <2> HIDE DEF d
  <2> QED
    BY <1>1, MoveDone
<1> HIDE DEF d
<1>3. Clocks'
  BY <1>1, <1>2 DEF SpeedParts, Clocks, Iterating
<1>4. ASSUME NEW a \in Axis, a # axis PROVE Timed(a)' /\ Earned(a)'
  <2>1. dir'[a] = dir[a] /\ delta'[a] = delta[a] /\ (Done(a)' <=> Done(a))
    <3>1. dir \in [Axis -> [active : BOOLEAN, level : 0 .. 2, start_time_ms : Nat]]
      BY DEF TypeOK, AirMouseTypeOK
    <3> QED
      BY <1>1, <1>2, <1>4, <3>1
  <2>2. Timed(a) /\ Earned(a)
    BY DEF SpeedParts
  <2> QED
    BY <1>1, <1>2, <2>1, <2>2 DEF Timed, Earned, Iterating
<1>5. ASSUME NEW a \in Axis, a = axis PROVE Timed(a)' /\ Earned(a)'
  <2>1. /\ dir \in [Axis -> [active : BOOLEAN, level : 0 .. 2, start_time_ms : Nat]]
        /\ new_level = get_tilt_level(sample'[a]) /\ new_level \in 0 .. 2
    BY <1>1, <1>5, TimeTypes DEF TypeOK, AirMouseTypeOK, new_level
  <2>2. dir'[a].level = new_level /\ held[a].level <= dir'[a].start_time_ms + Preemption
        /\ dir'[a].start_time_ms \in Nat
    <3>1. CASE new_level = dir[axis].level
      <4>1. dir[a].active /\ Timed(a) /\ dir' = dir
        BY <1>1, <1>5, <3>1 DEF Stopped, SpeedParts
      <4> QED
        BY <1>1, <1>5, <2>1, <3>1, <4>1, TimeTypes DEF Timed
    <3>2. CASE new_level # dir[axis].level
      <4>1. dir'[a].level = new_level /\ dir'[a].start_time_ms = now_ms
        BY <1>1, <1>5, <2>1, <3>2
      <4> QED
        BY <1>1, <4>1, LateSample, TimeTypes
    <3> QED
      BY <3>1, <3>2
  <2>3. Timed(a)'
    BY <1>1, <2>1, <2>2 DEF Timed
  <2>4. ASSUME NEW t \in Ramp(delta'[a]) PROVE now_ms - held[a].level + Preemption > t
    <3>1. start \in Nat /\ now_ms \in Nat /\ new_level \in Int /\ now_ms - start \in Int
      BY <1>5, <2>1, <2>2, TimeTypes
    <3>2. d \in {step, -step}
      BY DEF d
    <3>3. now_ms - start > t
      <4> DEFINE dur == now_ms - start
      <4>1. d \in {base_speed(new_level) * accel_mult(dur), -(base_speed(new_level) * accel_mult(dur))}
        BY <3>2
      <4>2. dur \in Int /\ t \in Ramp(d)
        BY <1>2, <1>5, <2>4, <3>1
      <4> HIDE DEF dur
      <4>3. dur > t
        BY <3>1, <4>1, <4>2, RampOf
      <4> QED
        BY <4>3 DEF dur
    <3>4. t \in Nat
      BY <2>4 DEF Ramp
    <3>5. held[a].level \in Nat /\ held[a].level <= start + Preemption
      BY <1>5, <2>2, TimeTypes
    <3> HIDE DEF start
    <3> QED
      BY <3>1, <3>3, <3>4, <3>5
  <2>5. Earned(a)'
    BY <1>1, <2>4 DEF Earned
  <2> QED
    BY <2>3, <2>5
<1> QED
  BY <1>3, <1>4, <1>5 DEF SpeedParts

LEMMA SpeedTick ==
  ASSUME TypeOK, SpeedParts, Tick
  PROVE  SpeedParts'
<1>1. /\ UNCHANGED <<dir, pc, axis, sample, now_ms, delta, held, fresh, wake>> /\ now' = now + 1
      /\ pc \notin {"none", "detect", "deleted", "wait", "read"} => now < wake + Preemption
  BY DEF Tick, TaskMayWait, taskVars
<1>2. Clocks'
  <2>1. \A a \in Axis : held'[a].level <= now'
    BY <1>1, TimeTypes DEF SpeedParts, Clocks
  <2>2. now_ms' <= now'
    BY <1>1, TimeTypes DEF SpeedParts, Clocks
  <2>3. Iterating' => wake' <= now' /\ now' <= wake' + Preemption
    BY <1>1, TimeTypes DEF SpeedParts, Clocks, Iterating
  <2>4. pc' \in {"check", "restart"} => wake' <= now_ms'
    BY <1>1 DEF SpeedParts, Clocks
  <2> QED
    BY <2>1, <2>2, <2>3, <2>4 DEF Clocks
<1>3. ASSUME NEW a \in Axis PROVE Timed(a)' /\ Earned(a)'
  BY <1>1 DEF SpeedParts, Timed, Earned, Iterating, Done
<1> QED
  BY <1>2, <1>3 DEF SpeedParts

\* A new connection forgets the directions.
LEMMA SpeedConnect ==
  ASSUME TypeOK, SpeedParts, NEW c, OnConnect(c), UNCHANGED <<taskVars, timeVars>>
  PROVE  SpeedParts'
<1>1. /\ ~fresh' /\ held' = [a \in Axis |-> [level |-> now, direction |-> now]]
      /\ dir' = [a \in Axis |-> [dir[a] EXCEPT !.active = FALSE]]
      /\ UNCHANGED <<now, now_ms, wake, pc>>
  BY DEF OnConnect, taskVars, timeVars
<1>2. Clocks'
  BY <1>1, TimeTypes DEF SpeedParts, Clocks, Iterating
<1>3. ASSUME NEW a \in Axis PROVE Timed(a)' /\ Earned(a)'
  <2>1. ~dir'[a].active
    <3>1. dir[a] \in [active : BOOLEAN, level : 0 .. 2, start_time_ms : Nat]
      BY DEF TypeOK, AirMouseTypeOK
    <3> QED
      BY <1>1, <3>1
  <2> QED
    BY <1>1, <2>1 DEF Timed, Earned
<1> QED
  BY <1>2, <1>3 DEF SpeedParts

\* A step that changes none of the times, directions and movements, and how
\* it may move the task.
SameSpeed == UNCHANGED <<dir, axis, sample, now_ms, delta, now, held, fresh>>
Passes ==
  \/ pc' = pc
  \/ pc = "check" /\ pc' = "restart"
  \/ pc \in {"test", "again", "load"} /\ pc' \in {"again", "load", "post"}
  \/ pc \in {"none", "detect"} /\ pc' \in {"wait", "detect", "deleted"}
LoopsBack == pc \notin {"clock", "check", "restart"} /\ pc' = "read"

LEMMA SpeedSame ==
  ASSUME TypeOK, SpeedParts, SameSpeed, (Passes /\ UNCHANGED wake) \/ LoopsBack
  PROVE  SpeedParts'
<1>0. UNCHANGED <<dir, axis, sample, now_ms, delta, now, held, fresh>>
  BY DEF SameSpeed
<1>1. CASE Passes /\ UNCHANGED wake
  <2>1. /\ Iterating' => Iterating
        /\ pc' \in {"check", "restart"} => pc \in {"check", "restart"}
        /\ \A a \in Axis : Done(a)' => Done(a)
    BY <1>0, <1>1 DEF Passes, Iterating, Done
  <2> QED
    BY <1>0, <1>1, <2>1, SpeedRests DEF timeVars
<1>2. CASE LoopsBack
  BY <1>0, <1>2, SpeedDelay DEF LoopsBack
<1> QED
  BY <1>1, <1>2

LEMMA SpeedTask ==
  ASSUME TypeOK, SpeedParts, lab = "lab4_3", Task
  PROVE  SpeedParts'
<1>1. CASE PostReport \/ ReadFails \/ SkipSend \/ Connected
  <2>1. SameSpeed
    BY <1>1 DEF SameSpeed, PostReport, FinishSend, ReadFails, SkipSend, Connected
  <2>2. LoopsBack
    BY <1>1 DEF LoopsBack, PostReport, FinishSend, ReadFails, SkipSend, Connected, DelayThenRead, Awake
  <2> QED
    BY <2>1, <2>2, SpeedSame
<1>2. CASE DetectSensor \/ CheckStopped \/ TestMove \/ TestConnected \/ LoadConnection
  <2>1. SameSpeed /\ UNCHANGED wake
    BY <1>2 DEF SameSpeed, DetectSensor, CheckStopped, TestMove, TestConnected, LoadConnection, timeVars
  <2>2. Passes
    BY <1>2 DEF Passes, DetectSensor, CheckStopped, TestMove, TestConnected, LoadConnection
  <2> QED
    BY <2>1, <2>2, SpeedSame
<1>3. CASE ReadSample \/ ReadClock \/ Restart \/ CheckMoves
  BY <1>3, SpeedSample, SpeedClock, SpeedRestart, SpeedCheck
<1>4. ~MoveOfScript
  BY DEF MoveOfScript
<1> QED
  BY <1>1, <1>2, <1>3, <1>4 DEF Task, QuietStep, Sampling, Calculate

LEMMA SpeedPartsStep ==
  ASSUME TypeOK, SpeedParts, lab = "lab4_3", [Next]_vars
  PROVE  SpeedParts'
<1>1. CASE AppMain
  <2>1. SameSpeed /\ UNCHANGED wake
    BY <1>1 DEF AppMain, SameSpeed, timeVars
  <2>2. pc' = pc \/ (pc = "none" /\ pc' \in {"wait", "detect"})
    BY <1>1 DEF AppMain, InitProfile, RegisterCallbacks, RegisterBattery, RegisterHid, RegisterFails,
       CreateTask, StartScript, StartTask
  <2>3. Passes
    BY <2>2 DEF Passes
  <2> QED
    BY <2>1, <2>3, SpeedSame
<1>2. CASE Callback
  <2>1. UNCHANGED <<taskVars, timeVars>>
    BY <1>2 DEF Callback
  <2>2. CASE UNCHANGED <<dir, held, fresh>>
    <3>1. SameSpeed /\ UNCHANGED wake /\ Passes
      BY <2>1, <2>2 DEF taskVars, timeVars, SameSpeed, Passes
    <3> QED
      BY <3>1, SpeedSame
  <2>3. ASSUME NEW c, OnConnect(c) PROVE SpeedParts'
    BY <2>1, <2>3, SpeedConnect
  <2> QED
    BY <1>2, <2>2, <2>3 DEF Callback, AdvDataSet, NotForTheProfile, Registered, TableCreated,
       HostConnected, HostDisconnected, OnOtherEvent, OnDisconnect
<1>3. CASE Task
  BY <1>3, SpeedTask
<1>4. CASE Stack \/ UNCHANGED vars
  <2>1. SameSpeed /\ UNCHANGED wake /\ Passes
    BY <1>4 DEF Stack, vars, appVars, taskVars, timeVars, historyVars, SameSpeed, Passes
  <2> QED
    BY <2>1, SpeedSame
<1>5. CASE Tick
  BY <1>5, SpeedTick
<1> QED
  BY <1>1, <1>2, <1>3, <1>4, <1>5 DEF Next

LEMMA EarnedWhenPosted ==
  ASSUME TypeOK, ServiceInv, ScriptInv, SpeedInv, PostReport
  PROVE  AccelerationIsEarned'
<1> SUFFICES ASSUME report' # NoReport, report'.fresh, NEW a \in Axis, NEW t \in Ramp(report'.delta[a])
             PROVE  report'.now_ms - report'.held[a].level + Preemption > t
  BY DEF AccelerationIsEarned, HeldLongEnough, LevelSince
<1>1. pc = "post"
  BY DEF PostReport, FinishSend
<1>2. /\ report'.delta = delta /\ report'.now_ms = now_ms /\ report'.held = held
      /\ report'.fresh = fresh
  <2>1. report' = [host |-> links[conn_id], handle |-> "MOUSE_IN", delta |-> delta, now_ms |-> now_ms,
                   held |-> held, fresh |-> fresh]
    BY PostIs
  <2> QED
    BY <2>1
<1>3. CASE lab = "lab4_3"
  <2>1. Earned(a) /\ Iterating /\ Done(a)
    BY <1>1, <1>3 DEF SpeedInv, Iterating, Done
  <2> QED
    BY <1>2, <2>1 DEF Earned
<1>4. CASE lab = "lab4_2"
  <2>1. delta[a] \in {10, -10, 0}
    BY <1>1, <1>4 DEF ScriptInv, Script2, UnderWay, Move10, Axis
  <2> QED
    BY <1>2, <2>1 DEF Ramp
<1> QED
  BY <1>3, <1>4 DEF TypeOK, ScriptTypeOK

LEMMA SpeedStep ==
  ASSUME TypeOK, ServiceInv, ScriptInv, SpeedInv, [Next]_vars
  PROVE  SpeedInv'
<1>1. lab' = lab
  BY DEF Next, AppMain, Callback, Task, PostReport, QuietStep, MoveOfScript, Stack, Tick, vars, scriptVars
<1>2. lab = "lab4_3" => SpeedParts'
  BY SpeedPartsStep DEF SpeedInv, SpeedParts
<1>3. AccelerationIsEarned'
  <2>1. CASE report' = NoReport
    BY <2>1 DEF AccelerationIsEarned
  <2>2. CASE PostReport
    BY <2>2, EarnedWhenPosted
  <2>3. CASE UNCHANGED vars
    BY <2>3 DEF SpeedInv, AccelerationIsEarned, HeldLongEnough, LevelSince, vars, appVars, historyVars
  <2> QED
    BY <2>1, <2>2, <2>3 DEF Next, AppMain, Callback, Task, Stack, Tick
<1> QED
  BY <1>1, <1>2, <1>3 DEF SpeedInv, SpeedParts

LEMMA SpeedInvInit == Init => SpeedInv
<1> SUFFICES ASSUME Init PROVE SpeedInv
  OBVIOUS
<1>1. /\ pc = "none" /\ ~fresh /\ report = NoReport /\ now = 0 /\ now_ms = 0 /\ Axis = {1, 2}
      /\ \A a \in Axis : held[a].level = 0 /\ ~dir[a].active
  BY DEF Init, AirMouseInit, Axis
<1>2. Clocks
  BY <1>1 DEF Clocks, Iterating
<1>3. \A a \in Axis : Timed(a) /\ Earned(a)
  BY <1>1 DEF Timed, Earned
<1> QED
  BY <1>1, <1>2, <1>3 DEF SpeedInv, AccelerationIsEarned

(* A movement that goes twice or three times as fast is of a tilt whose    *)
(* level was held since this host connected, for the time the code asks    *)
(* for, up to the time an iteration may be held up: the callback that      *)
(* forgets the directions, wherever it falls between two steps of the      *)
(* task, leaves no old start behind.                                       *)
THEOREM AccelerationEarned == Spec => []AccelerationIsEarned
<1> DEFINE Inv == LinkInv /\ ScriptInv /\ SpeedInv
<1>1. Init => Inv
  BY LinkInvInductive, ScriptInvInit, SpeedInvInit
<1>2. Inv /\ [Next]_vars => Inv'
  <2> SUFFICES ASSUME LinkInv, ScriptInv, SpeedInv, [Next]_vars PROVE LinkInv' /\ ScriptInv' /\ SpeedInv'
    OBVIOUS
  <2>1. LinkInv'
    BY LinkInvInductive
  <2>2. ScriptInv'
    BY <2>1, ScriptStep DEF LinkInv, TypeInv
  <2>3. SpeedInv'
    BY SpeedStep DEF LinkInv, TypeInv
  <2> QED
    BY <2>1, <2>2, <2>3
<1>3. Inv => AccelerationIsEarned
  BY DEF SpeedInv
<1> QED
  BY <1>1, <1>2, <1>3, PTL DEF Spec

=============================================================================

----------------------- MODULE WeatherStation_proofs -----------------------
(***************************************************************************)
(* What labs 7.1 to 7.3 owe to no timing at all: that they start only with *)
(* addresses, give back what they take, report one cycle at a time, and    *)
(* log only successes that happened, for every number of retries and every *)
(* length of the queues.                                                   *)
(***************************************************************************)
EXTENDS WeatherStation, SequenceTheorems, TLAPS

USE WifiConnectAssumption, WeatherStationAssumption

Max == CONFIG_EXAMPLE_WIFI_CONN_MAX_RETRY

-----------------------------------------------------------------------------
(* The station                                                             *)

\* The steps of the main task at which it has waited for the address of v.
Behind(v) ==
  {<<"delete", v>>, <<"forget", v>>, <<"check">>, <<"done">>}
    \cup IF v = 4 THEN {<<"take", 6>>, <<"delete", 6>>, <<"forget", 6>>} ELSE {}

\* The handlers that used the last retry are gone, and with them what could
\* set the count back.
HasGivenUp == ~registered /\ s_retry_num > Max

\* A semaphore is full, or its wait over, because of the address or because
\* the station gave up; the main task tells the two apart by the count.
WifiInv ==
  /\ main \in {<<"start">>, <<"check">>, <<"done">>} \cup ({"take", "delete", "forget"} \X IPv)
  /\ s_retry_num \in 0 .. Max + 1 /\ registered \in BOOLEAN
  /\ sem \in [IPv -> {"null", "empty", "full", "deleted"}]
  /\ obtained \subseteq IPv
  /\ registered => s_retry_num <= Max
  /\ ~registered => main = <<"start">> \/ s_retry_num > Max
  /\ main = <<"start">> => ~registered /\ \A v \in IPv : sem[v] = "null"
  /\ \A v \in IPv : sem[v] = "full" \/ main \in Behind(v) => v \in obtained \/ HasGivenUp
  /\ main = <<"done">> => obtained = IPv

LEMMA WifiStarts == WifiInit => WifiInv
BY DEF WifiInit, Restarted, WifiInv, IPv, Behind, Max, HasGivenUp

LEMMA RestartKeeps == Restart => WifiInv'
BY DEF Restart, Restarted, WifiInv, IPv, Behind, Max, HasGivenUp

LEMMA MainKeeps ==
  ASSUME WifiInv, RestOfMain
  PROVE  WifiInv'
<1>1. CASE StartStation
  BY <1>1 DEF StartStation, WifiInv, IPv, Behind, Max, HasGivenUp
<1>2. CASE ConnectSucceeds
  BY <1>2 DEF ConnectSucceeds, RetriesAreUsedUp, WifiInv, IPv, Behind, Max, HasGivenUp
<1>3. ASSUME NEW v \in IPv, TakeSemaphore(v) PROVE WifiInv'
  BY <1>3 DEF TakeSemaphore, WifiInv, IPv, Behind, Max, HasGivenUp
<1>4. ASSUME NEW v \in IPv, DeleteSemaphore(v) PROVE WifiInv'
  BY <1>4 DEF DeleteSemaphore, WifiInv, IPv, Behind, Max, HasGivenUp
<1>5. ASSUME NEW v \in IPv, ForgetSemaphore(v) PROVE WifiInv'
  BY <1>5 DEF ForgetSemaphore, WifiInv, IPv, Behind, Max, HasGivenUp
<1> QED
  BY <1>1, <1>2, <1>3, <1>4, <1>5 DEF RestOfMain

LEMMA HandlersKeep ==
  ASSUME WifiInv, HandlerNext
  PROVE  WifiInv'
<1>1. CASE GiveUp
  <2>1. main # <<"start">> /\ HasGivenUp'
    BY <1>1 DEF GiveUp, NoRetryIsLeft, example_wifi_sta_do_disconnect, WifiInv, Max, HasGivenUp
  <2>2. sem' \in [IPv -> {"null", "empty", "full", "deleted"}]
    BY <1>1 DEF GiveUp, Give, WifiInv
  <2>3. UNCHANGED <<main, obtained>> /\ s_retry_num' \in 0 .. Max + 1 /\ registered' = FALSE
    BY <1>1 DEF GiveUp, example_wifi_sta_do_disconnect, WifiInv, Max
  <2> QED
    BY <2>1, <2>2, <2>3 DEF WifiInv, HasGivenUp
<1>2. CASE Reconnect
  BY <1>2 DEF Reconnect, NoRetryIsLeft, WifiInv, Behind, Max, HasGivenUp
<1>3. CASE OnConnected
  BY <1>3 DEF OnConnected, mainVars, WifiInv, Behind, Max, HasGivenUp
<1>4. CASE OnGotIp
  BY <1>4 DEF OnGotIp, Give, WifiInv, IPv, Behind, Max, HasGivenUp
<1>5. CASE OnGotIp6
  BY <1>5 DEF OnGotIp6, Give, WifiInv, IPv, Behind, Max, HasGivenUp
<1>6. CASE Unhandled
  BY <1>6 DEF Unhandled, mainVars, WifiInv, Behind, Max, HasGivenUp
<1> QED
  BY <1>1, <1>2, <1>3, <1>4, <1>5, <1>6 DEF HandlerNext

LEMMA WifiStep ==
  ASSUME WifiInv, [Next]_vars
  PROVE  WifiInv'
<1>1. CASE UNCHANGED <<mainVars, obtained>>
  BY <1>1 DEF mainVars, WifiInv, Behind, Max, HasGivenUp
<1>2. CASE Main
  BY <1>2, MainKeeps, RestartKeeps DEF Main, ConnectAborts
<1>3. CASE Handlers
  BY <1>3, HandlersKeep DEF Handlers
<1>4. CASE Crash
  BY <1>4, RestartKeeps DEF Crash
<1>5. CASE Driver \/ Trouble
  BY <1>1, <1>5 DEF Driver, Trouble, DriverNext, Associate, ObtainIp, ObtainIp6, Lose, Roam, Fade
<1>6. CASE Task
  BY <1>1, <1>6 DEF Task, BeginCycle, Prepare, ConnectToServer, WriteToServer, ReadFromServer,
     AskWttrIn, FinishLocation, FinishWeather, FinishPost, wifiVars
<1>7. CASE Handle \/ Deliver \/ Abandon \/ StopServer \/ RunServer \/ SuspendServer
  BY <1>1, <1>7 DEF Handle, Deliver, Abandon, StopServer, RunServer, SuspendServer, wifiVars
<1>8. CASE UNCHANGED vars
  BY <1>1, <1>8 DEF vars, wifiVars
<1> QED
  BY <1>2, <1>3, <1>4, <1>5, <1>6, <1>7, <1>8 DEF Next

\* example_connect returns ESP_OK only with both addresses, although the
\* semaphores are also given when the last retry failed.
THEOREM StartsAddressed == Spec => []StartedMeansAddressed
<1>1. Init => WifiInv
  BY WifiStarts DEF Init
<1>2. WifiInv /\ [Next]_vars => WifiInv'
  BY WifiStep
<1>3. WifiInv => StartedMeansAddressed
  BY DEF WifiInv, StartedMeansAddressed
<1> QED
  BY <1>1, <1>2, <1>3, PTL DEF Spec

-----------------------------------------------------------------------------
(* The requests                                                            *)

\* Nothing on the way to the server is the task's.
NoneMine == \A i \in DOMAIN inbox : ~inbox[i].mine

\* What a request holds at each step.
Holds ==
  /\ infos = IF phase \in {"socket", "connect"} THEN 1 ELSE 0
  /\ sockets = IF phase \in {"connect", "write", "option", "read"} THEN 1 ELSE 0

\* A connection is the task's only while its request is under way, so a server
\* that stops later does not touch what it answered.
AppInv ==
  /\ HttpTypeOK
  /\ lab \in {"lab7_1", "lab7_2", "lab7_3"}
  /\ doing \in {"wait", "location", "weather", "post"}
  /\ outdoor_temp \in {"old", "N/A", "this"} /\ posted \in BOOLEAN
  /\ inbox \in Seq(Connection)
  /\ reply \in {"waiting", "reset", "answered"}
  /\ Holds
  /\ doing = "wait" => phase = "none"
  /\ ReportIsOfOneCycle
  /\ posted => doing = "wait" /\ reply = "answered"
  /\ NoneMine \/ (doing \in {"location", "post"} /\ phase \in {"write", "read"})
  /\ phase = "ended" /\ doing # "weather" /\ Successful(result) => reply = "answered"

LEMMA AppStarts == Init => AppInv
<1> SUFFICES ASSUME Init PROVE AppInv
  OBVIOUS
<1>1. inbox \in Seq(Connection) /\ DOMAIN inbox = {}
  BY EmptySeq DEF Init
<1> QED
  <2>1. HttpTypeOK /\ Holds
    BY DEF Init, HttpInit, HttpTypeOK, Outcomes, Holds
  <2>2. NoneMine
    BY <1>1 DEF NoneMine
  <2> QED
    BY <1>1, <2>1, <2>2 DEF Init, HttpInit, AppInv, ReportIsOfOneCycle

\* A sequence whose elements are changed in place is a sequence.
LEMMA SameDomain ==
  ASSUME NEW S, NEW s \in Seq(S), NEW t \in [DOMAIN s -> S]
  PROVE  t \in Seq(S) /\ DOMAIN t = DOMAIN s /\ Len(t) = Len(s)
<1>1. Len(s) \in Nat /\ DOMAIN s = 1 .. Len(s)
  BY LenProperties
<1>2. t = [i \in 1 .. Len(s) |-> t[i]] /\ \A i \in 1 .. Len(s) : t[i] \in S
  BY <1>1
<1> QED
  BY <1>1, <1>2

\* A connection that goes to another state, or is closed.
LEMMA OneConnection ==
  ASSUME NEW c \in Connection, NEW s \in {"open", "sending", "sent", "closed", "dead"}
  PROVE  /\ [c EXCEPT !.state = s] \in Connection
         /\ [c EXCEPT !.mine = FALSE] \in Connection
         /\ [c EXCEPT !.mine = FALSE].mine = FALSE
BY DEF Connection

\* The connections after they were closed, or went to another state.
LEMMA ClosedAreNotMine ==
  ASSUME NEW s \in Seq(Connection)
  PROVE  /\ Closed(s) \in Seq(Connection) /\ Len(Closed(s)) = Len(s)
         /\ \A i \in DOMAIN Closed(s) : ~Closed(s)[i].mine
<1>1. Closed(s) \in [DOMAIN s -> Connection]
  <2>1. \A i \in DOMAIN s : s[i] \in Connection
    BY LenProperties
  <2> QED
    BY <2>1, OneConnection DEF Closed
<1> QED
  BY <1>1, SameDomain DEF Closed, Connection

LEMMA MineType ==
  ASSUME AppInv, NEW s \in {"open", "sending", "sent", "closed", "dead"}
  PROVE  Mine(s) \in Seq(Connection) /\ Len(Mine(s)) = Len(inbox)
<1>1. Mine(s) \in [DOMAIN inbox -> Connection]
  <2>1. \A i \in DOMAIN inbox : inbox[i] \in Connection
    BY LenProperties DEF AppInv
  <2> QED
    BY <2>1, OneConnection DEF Mine
<1> QED
  BY <1>1, SameDomain DEF AppInv

LEMMA CutOffType ==
  ASSUME AppInv
  PROVE  CutOff \in Seq(Connection) /\ Len(CutOff) = Len(inbox)
<1>1. CutOff \in [DOMAIN inbox -> Connection]
  <2>1. \A i \in DOMAIN inbox : inbox[i] \in Connection
    BY LenProperties DEF AppInv
  <2> QED
    BY <2>1, OneConnection DEF CutOff
<1> QED
  BY <1>1, SameDomain DEF AppInv

LEMMA RestartForgets ==
  ASSUME AppInv, AppRestarts
  PROVE  AppInv'
<1>1. inbox' \in Seq(Connection) /\ NoneMine'
  BY CutOffType, ClosedAreNotMine DEF AppRestarts, NoneMine
<1> QED
  <2>1. HttpTypeOK' /\ Holds'
    BY DEF AppRestarts, Forget, HttpTypeOK, Outcomes, Holds
  <2> QED
    BY <1>1, <2>1 DEF AppInv, AppRestarts, Forget, ReportIsOfOneCycle

\* A step that changes neither the request nor the program, and leaves the
\* task's answer alone unless a request is on its way.
LEMMA ServerKeeps ==
  ASSUME AppInv, UNCHANGED <<appVars, httpVars>>,
         inbox' \in Seq(Connection), NoneMine => NoneMine',
         reply' \in {"reset", "answered"} \/ reply' = reply,
         NoneMine => reply' = reply
  PROVE  AppInv'
BY DEF AppInv, appVars, httpVars, HttpTypeOK, Holds, ReportIsOfOneCycle, Successful

LEMMA RequestKeeps ==
  ASSUME AppInv,
         UNCHANGED <<appVars, serverVars>>,
         HttpTypeOK', Holds', phase # "none", phase' # "none",
         ~NoneMine => phase' \in {"write", "read"},
         phase' = "ended" /\ doing # "weather" => ~Successful(result')
  PROVE  AppInv'
BY DEF AppInv, appVars, serverVars, NoneMine, ReportIsOfOneCycle

LEMMA PrepareKeeps ==
  ASSUME AppInv, Prepare
  PROVE  AppInv'
<1>1. PICK ok \in BOOLEAN : Lookup(ok) \/ Socket(ok) \/ SetOption(ok)
  BY DEF Prepare
<1>2. HttpTypeOK' /\ Holds' /\ phase' # "none"
  BY <1>1 DEF Lookup, Socket, SetOption, Go, End, AppInv, HttpTypeOK, Outcomes, Holds
<1>3. NoneMine /\ phase # "none"
  BY <1>1 DEF Lookup, Socket, SetOption, AppInv
<1>4. phase' = "ended" => result' = "error"
  BY <1>1 DEF Lookup, Socket, SetOption, Go, End
<1> QED
  BY <1>2, <1>3, <1>4, RequestKeeps DEF Prepare, Successful

LEMMA AskWttrInKeeps ==
  ASSUME AppInv, AskWttrIn
  PROVE  AppInv'
<1>1. /\ phase \in {"connect", "write", "read"}
      /\ HttpTypeOK' /\ Holds' /\ phase' # "none"
  BY DEF AskWttrIn, Connect, Write, Read, Go, End, AppInv, HttpTypeOK, Outcomes, Holds
<1> QED
  BY <1>1, RequestKeeps DEF AskWttrIn, AppInv

LEMMA ConnectKeeps ==
  ASSUME AppInv, ConnectToServer
  PROVE  AppInv'
<1>1. /\ phase = "connect" /\ doing \in {"location", "post"} /\ ~posted
      /\ HttpTypeOK' /\ Holds'
      /\ phase' = "write" \/ (phase' = "ended" /\ result' = "error" /\ ~CanConnect)
  BY DEF ConnectToServer, Connect, Go, End, AppInv, HttpTypeOK, Outcomes, Holds
<1>2. inbox' \in Seq(Connection) /\ (~CanConnect => inbox' = inbox)
  BY <1>1, AppendProperties DEF ConnectToServer, AppInv, Connection
<1>3. NoneMine
  BY <1>1 DEF AppInv
<1> QED
  BY <1>1, <1>2, <1>3 DEF ConnectToServer, appVars, AppInv, ReportIsOfOneCycle, Successful, NoneMine

LEMMA WriteKeeps ==
  ASSUME AppInv, WriteToServer
  PROVE  AppInv'
<1>1. /\ phase = "write" /\ doing \in {"location", "post"} /\ ~posted
      /\ HttpTypeOK' /\ Holds'
      /\ phase' = "read" \/ (phase' = "ended" /\ result' = "error")
  BY DEF WriteToServer, Write, Go, End, AppInv, HttpTypeOK, Outcomes, Holds
<1>2. CASE phase' = "read"
  <2>1. inbox' \in Seq(Connection)
    BY <1>2, MineType DEF WriteToServer, Write, End
  <2> QED
    BY <1>1, <1>2, <2>1 DEF WriteToServer, appVars, AppInv, ReportIsOfOneCycle
<1>3. CASE phase' = "ended"
  <2>1. inbox' \in Seq(Connection) /\ NoneMine'
    BY <1>3, MineType, ClosedAreNotMine DEF WriteToServer, Write, Go, NoneMine
  <2> QED
    BY <1>1, <1>3, <2>1 DEF WriteToServer, appVars, AppInv, ReportIsOfOneCycle, Successful
<1> QED
  BY <1>1, <1>2, <1>3

LEMMA ReadKeeps ==
  ASSUME AppInv, ReadFromServer
  PROVE  AppInv'
<1>1. PICK r \in Returned : Read(r)
  BY DEF ReadFromServer
<1>2. r \in Outcomes /\ (Successful(r) => reply = "answered")
  BY DEF Returned, Outcomes, Successful, AppInv
<1>3. /\ doing \in {"location", "post"} /\ ~posted
      /\ HttpTypeOK' /\ Holds' /\ phase' = "ended" /\ result' = r
  BY <1>1, <1>2 DEF ReadFromServer, Read, End, AppInv, HttpTypeOK, Outcomes, Holds
<1>4. inbox' \in Seq(Connection) /\ NoneMine'
  BY ClosedAreNotMine DEF ReadFromServer, AppInv, NoneMine
<1> QED
  BY <1>2, <1>3, <1>4 DEF ReadFromServer, appVars, AppInv, ReportIsOfOneCycle, Successful

\* Between two requests nothing is held and nothing is the task's.
LEMMA CycleKeeps ==
  ASSUME AppInv, BeginCycle \/ FinishLocation \/ FinishWeather \/ FinishPost
  PROVE  AppInv'
<1>1. NoneMine /\ NoneMine' /\ UNCHANGED <<inbox, reply>>
  BY DEF BeginCycle, FinishLocation, FinishWeather, FinishPost, serverVars, AppInv, NoneMine
<1>2. HttpTypeOK' /\ Holds' /\ phase' # "ended"
  BY DEF BeginCycle, FinishLocation, FinishWeather, FinishPost, Proceed, Request, Forget, AppInv,
     HttpTypeOK, Outcomes, Holds
<1>3. CASE BeginCycle
  BY <1>1, <1>2, <1>3 DEF BeginCycle, AppInv, Request, ReportIsOfOneCycle
<1>4. CASE FinishLocation
  BY <1>1, <1>2, <1>4 DEF FinishLocation, AppInv, Proceed, Request, Forget, ReportIsOfOneCycle
<1>5. CASE FinishWeather
  BY <1>1, <1>2, <1>5 DEF FinishWeather, OutdoorAfter, AppInv, Proceed, Request, Forget,
     ReportIsOfOneCycle
<1>6. CASE FinishPost
  BY <1>1, <1>2, <1>6 DEF FinishPost, AppInv, Proceed, Forget, ReportIsOfOneCycle, Successful
<1> QED
  BY <1>3, <1>4, <1>5, <1>6

-----------------------------------------------------------------------------
(* The server                                                              *)

LEMMA DeliveryKeeps ==
  ASSUME AppInv, Deliver \/ Abandon
  PROVE  AppInv'
<1>1. PICK i \in DOMAIN inbox, s \in {"sent", "dead"} : inbox' = [inbox EXCEPT ![i].state = s]
  BY DEF Deliver, Abandon
<1>2. \A j \in DOMAIN inbox : inbox[j] \in Connection
  BY LenProperties DEF AppInv
<1>3. inbox' \in [DOMAIN inbox -> Connection]
  BY <1>1, <1>2, OneConnection
<1>4. inbox' \in Seq(Connection) /\ DOMAIN inbox' = DOMAIN inbox
  BY <1>3, SameDomain DEF AppInv
<1>5. \A j \in DOMAIN inbox : inbox'[j].mine = inbox[j].mine
  BY <1>1, <1>2 DEF Connection
<1>6. NoneMine => NoneMine'
  BY <1>4, <1>5 DEF NoneMine
<1> QED
  BY <1>4, <1>6, ServerKeeps DEF Deliver, Abandon

LEMMA HandleKeeps ==
  ASSUME AppInv, Handle
  PROVE  AppInv'
<1>1. /\ inbox \in Seq(Connection) /\ inbox # <<>> /\ inbox' = Tail(inbox)
      /\ reply' = IF Head(inbox).mine THEN "answered" ELSE reply
  BY DEF Handle, AppInv
<1>2. Len(inbox) \in Nat /\ DOMAIN inbox = 1 .. Len(inbox) /\ Head(inbox) = inbox[1]
  BY <1>1, LenProperties
<1>3. /\ inbox' \in Seq(Connection) /\ Len(inbox') = Len(inbox) - 1
      /\ \A i \in 1 .. Len(inbox') : inbox'[i] = inbox[i + 1]
  BY <1>1, HeadTailProperties
<1>4. DOMAIN inbox' = 1 .. Len(inbox')
  BY <1>3, LenProperties
<1>5. 1 \in DOMAIN inbox
  BY <1>1, <1>2, EmptySeq
<1>6. NoneMine => NoneMine' /\ reply' = reply
  BY <1>1, <1>2, <1>3, <1>4, <1>5 DEF NoneMine
<1> QED
  BY <1>1, <1>3, <1>6, ServerKeeps DEF Handle

LEMMA StopKeeps ==
  ASSUME AppInv, StopServer
  PROVE  AppInv'
<1>1. inbox' \in Seq(Connection) /\ NoneMine'
  BY EmptySeq DEF StopServer, NoneMine
<1> QED
  BY <1>1, ServerKeeps DEF StopServer, NoneMine

-----------------------------------------------------------------------------
LEMMA AppStep ==
  ASSUME AppInv, [Next]_vars
  PROVE  AppInv'
<1>1. CASE UNCHANGED <<httpVars, appVars, inbox, reply>>
  BY <1>1, ServerKeeps DEF AppInv, NoneMine
<1>2. CASE Task
  BY <1>2, CycleKeeps, PrepareKeeps, ConnectKeeps, WriteKeeps, ReadKeeps, AskWttrInKeeps DEF Task
<1>3. CASE Main \/ (Crash /\ AppRestarts)
  BY <1>1, <1>3, RestartForgets DEF Main, serverVars
<1>4. CASE Handlers \/ Driver \/ Trouble \/ RunServer \/ SuspendServer \/ UNCHANGED vars
  BY <1>1, <1>4 DEF Handlers, Driver, Trouble, RunServer, SuspendServer, vars, serverVars
<1>5. CASE Handle \/ Deliver \/ Abandon \/ StopServer
  BY <1>5, HandleKeeps, DeliveryKeeps, StopKeeps
<1> QED
  BY <1>2, <1>3, <1>4, <1>5 DEF Next

LEMMA AppInvHolds == Spec => []AppInv
<1>1. AppInv /\ [Next]_vars => AppInv'
  BY AppStep
<1> QED
  BY <1>1, AppStarts, PTL DEF Spec

\* Every path through http_get_task, http_post_task, http_get and http_post
\* closes the socket and frees the address list it took.
THEOREM NothingIsLeaked == Spec => []NothingLeaks
<1>1. AppInv => NothingLeaks
  BY DEF AppInv, Holds, NothingLeaks
<1> QED
  BY <1>1, AppInvHolds, PTL

\* weather_station_task writes outdoor_temp in every cycle before it posts it,
\* on the paths of a failure too.
THEOREM ReportsOneCycle == Spec => []ReportIsOfOneCycle
<1>1. AppInv => ReportIsOfOneCycle
  BY DEF AppInv
<1> QED
  BY <1>1, AppInvHolds, PTL

\* A cycle's post is logged as a success only after server.py's do_POST
\* answered it, whatever became of the connections before it.
THEOREM SuccessIsReceived == Spec => []SuccessMeansReceived
<1>1. AppInv => SuccessMeansReceived
  BY DEF AppInv, SuccessMeansReceived
<1> QED
  BY <1>1, AppInvHolds, PTL

-----------------------------------------------------------------------------
(* Types                                                                   *)

Event == {"connected", "disconnected", "roaming", "got_ip", "got_ip6"}

Bounded ==
  /\ sta \in {"idle", "connecting", "connected"}
  /\ ip \in BOOLEAN /\ ip6_pending \in BOOLEAN /\ air \in BOOLEAN
  /\ events \in Seq(Event) /\ Len(events) <= MaxEvents
  /\ serving \in {"down", "asleep", "up"}
  /\ Len(inbox) <= MaxBacklog

LEMMA BoundedStarts == Init => Bounded
BY EmptySeq DEF Init, WifiInit, Restarted, Bounded

\* A queue that loses its head, or gets one more while there is room.
LEMMA TakeEvent ==
  ASSUME Bounded, events # <<>>, events' = Tail(events)
  PROVE  events' \in Seq(Event) /\ Len(events') <= MaxEvents
BY HeadTailProperties, LenProperties DEF Bounded

LEMMA PostEvent ==
  ASSUME Bounded, NEW e \in Event, Post(e)
  PROVE  events' \in Seq(Event) /\ Len(events') <= MaxEvents
BY AppendProperties, LenProperties DEF Bounded, Post

LEMMA WifiBounded ==
  ASSUME Bounded, UNCHANGED <<serving, inbox>>, RestOfMain \/ HandlerNext \/ DriverNext \/ Lose \/ Roam \/ Fade
  PROVE  Bounded'
<1>1. CASE RestOfMain
  BY <1>1 DEF RestOfMain, StartStation, ConnectSucceeds, TakeSemaphore, DeleteSemaphore,
     ForgetSemaphore, driverVars, Bounded
<1>2. CASE HandlerNext
  <2>1. events # <<>> /\ events' = Tail(events)
    BY <1>2 DEF HandlerNext, GiveUp, Reconnect, OnConnected, OnGotIp, OnGotIp6, Unhandled,
       IsDisconnect, Handling
  <2>2. /\ sta' \in {"idle", "connecting", "connected"}
        /\ ip' \in BOOLEAN /\ ip6_pending' \in BOOLEAN /\ air' = air
    BY <1>2 DEF HandlerNext, GiveUp, Reconnect, OnConnected, OnGotIp, OnGotIp6, Unhandled,
       esp_wifi_connect, example_wifi_sta_do_disconnect, Bounded
  <2> QED
    BY <2>1, <2>2, TakeEvent DEF Bounded
<1>3. CASE DriverNext \/ Lose \/ Roam
  <2>1. \E e \in Event : Post(e)
    BY <1>3 DEF DriverNext, Associate, ObtainIp, ObtainIp6, Lose, Roam, Event
  <2>2. /\ sta' \in {"idle", "connecting", "connected"}
        /\ ip' \in BOOLEAN /\ ip6_pending' \in BOOLEAN /\ air' = air
    BY <1>3 DEF DriverNext, Associate, ObtainIp, ObtainIp6, Lose, Roam, Bounded
  <2> QED
    BY <2>1, <2>2, PostEvent DEF Bounded
<1>4. CASE Fade
  BY <1>4 DEF Fade, driverVars, Bounded
<1> QED
  BY <1>1, <1>2, <1>3, <1>4

LEMMA RestartBounded ==
  ASSUME Bounded, AppInv, Restart, AppRestarts
  PROVE  Bounded'
<1>1. Len(inbox') = Len(inbox)
  BY CutOffType, ClosedAreNotMine DEF AppRestarts
<1> QED
  BY <1>1, EmptySeq DEF Restart, Restarted, AppRestarts, Bounded

\* The connections grow only where there is room for one more.
LEMMA BacklogStep ==
  ASSUME Bounded, AppInv, AppInv', UNCHANGED <<driverVars, air>>,
         Task \/ Handle \/ Deliver \/ Abandon \/ StopServer \/ RunServer \/ SuspendServer
  PROVE  Bounded'
<1>1. Len(inbox) \in Nat /\ inbox \in Seq(Connection)
  BY LenProperties DEF AppInv
<1>2. \A t \in Seq(Connection) : Len(Closed(t)) = Len(t)
  BY ClosedAreNotMine
<1>3. \A s \in {"open", "sending", "sent", "closed", "dead"} :
        Mine(s) \in Seq(Connection) /\ Len(Mine(s)) = Len(inbox)
  BY MineType
<1>4. CASE inbox' = inbox
  BY <1>4 DEF Task, BeginCycle, Prepare, ConnectToServer, WriteToServer, ReadFromServer, AskWttrIn,
     FinishLocation, FinishWeather, FinishPost, Handle, Deliver, Abandon, StopServer, RunServer,
     SuspendServer, serverVars, driverVars, Bounded
<1>5. CASE ConnectToServer /\ CanConnect
  BY <1>1, <1>5, AppendProperties DEF ConnectToServer, CanConnect, driverVars, Connection, AppInv, Bounded
<1>6. CASE WriteToServer
  BY <1>1, <1>2, <1>3, <1>6 DEF WriteToServer, driverVars, Bounded
<1>7. CASE ReadFromServer
  BY <1>1, <1>2, <1>7 DEF ReadFromServer, driverVars, Bounded
<1>8. CASE Handle
  BY <1>1, <1>8, HeadTailProperties DEF Handle, driverVars, Bounded
<1>9. CASE Deliver \/ Abandon
  <2>1. PICK i \in DOMAIN inbox, s \in {"sent", "dead"} : inbox' = [inbox EXCEPT ![i].state = s]
    BY <1>9 DEF Deliver, Abandon
  <2>2. \A j \in DOMAIN inbox : inbox[j] \in Connection
    BY <1>1, LenProperties
  <2>3. inbox' \in [DOMAIN inbox -> Connection]
    BY <2>1, <2>2, OneConnection
  <2> QED
    BY <1>1, <1>9, <2>3, SameDomain DEF Deliver, Abandon, driverVars, Bounded
<1>10. CASE StopServer
  BY <1>10, EmptySeq DEF StopServer, driverVars, Bounded
<1> QED
  BY <1>4, <1>5, <1>6, <1>7, <1>8, <1>9, <1>10 DEF Task, BeginCycle, Prepare, ConnectToServer,
     AskWttrIn, FinishLocation, FinishWeather, FinishPost, RunServer, SuspendServer, serverVars

LEMMA BoundedStep ==
  ASSUME Bounded, AppInv, AppInv', [Next]_vars
  PROVE  Bounded'
<1>1. CASE Main
  BY <1>1, WifiBounded, RestartBounded DEF Main, ConnectAborts, serverVars
<1>2. CASE Handlers \/ Driver \/ Trouble
  BY <1>2, WifiBounded DEF Handlers, Driver, Trouble, serverVars
<1>3. CASE Crash /\ AppRestarts
  BY <1>3, RestartBounded DEF Crash
<1>4. CASE Task \/ Handle \/ Deliver \/ Abandon \/ StopServer \/ RunServer \/ SuspendServer
  <2>1. UNCHANGED <<driverVars, air>>
    BY <1>4 DEF Task, BeginCycle, Prepare, ConnectToServer, WriteToServer, ReadFromServer,
       AskWttrIn, FinishLocation, FinishWeather, FinishPost, Handle, Deliver, Abandon, StopServer,
       RunServer, SuspendServer, wifiVars
  <2> QED
    BY <1>4, <2>1, BacklogStep
<1>5. CASE UNCHANGED vars
  BY <1>5 DEF vars, wifiVars, driverVars, serverVars, Bounded
<1> QED
  BY <1>1, <1>2, <1>3, <1>4, <1>5 DEF Next

\* No counter and no queue leaves its bounds: the retries end with the
\* handlers, and a request never holds two sockets or two address lists.
THEOREM TypeCorrect == Spec => []TypeOK
<1>1. WifiInv /\ AppInv /\ Bounded => TypeOK
  <2>1. WifiInv /\ Bounded => WifiTypeOK
    BY DEF WifiInv, Bounded, WifiTypeOK, Event, Max
  <2> QED
    BY <2>1 DEF AppInv, Bounded, TypeOK
<1>2. WifiInv /\ AppInv /\ Bounded /\ [Next]_vars => (WifiInv /\ AppInv /\ Bounded)'
  BY WifiStep, AppStep, BoundedStep
<1>3. Init => WifiInv /\ AppInv /\ Bounded
  BY WifiStarts, AppStarts, BoundedStarts DEF Init
<1> QED
  BY <1>1, <1>2, <1>3, PTL DEF Spec
=============================================================================

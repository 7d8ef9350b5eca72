--------------------------- MODULE WeatherStation ---------------------------
(***************************************************************************)
(* Labs 7.1 to 7.3: the task that fetches the weather, posts a temperature *)
(* or does both for the location its server names, over a station that     *)
(* comes and goes and a server that is stopped and started.                *)
(*                                                                         *)
(* server.py handles one connection at a time, in the order they were      *)
(* made, and waits for a request without a time limit.                     *)
(***************************************************************************)
EXTENDS WifiConnect, HttpClient

CONSTANT MaxBacklog     \* connections that may wait for the server

ASSUME WeatherStationAssumption == MaxBacklog \in Nat \ {0}

VARIABLES
  lab,          \* the program
  doing,        \* the request of the cycle that is under way
  outdoor_temp, \* what the buffer holds: left from earlier, N/A, or of this cycle's location
  posted,       \* the cycle's post was logged as a success
  serving,      \* server.py is not running, does not get to run, or runs
  inbox,        \* the connections it has not finished with
  reply         \* what it did with the task's last connection

appVars == <<lab, doing, outdoor_temp, posted>>
serverVars == <<serving, inbox, reply>>
vars == <<wifiVars, httpVars, appVars, serverVars>>

\* A connection that nothing was written to, whose request is under way, has
\* arrived, will not come (closed), or will not come without the server
\* being told (dead).  It is the task's until the task closes its socket.
Connection ==
  [of: {"location", "post"}, state: {"open", "sending", "sent", "closed", "dead"},
   mine: BOOLEAN]

TypeOK ==
  /\ WifiTypeOK /\ HttpTypeOK
  /\ lab \in {"lab7_1", "lab7_2", "lab7_3"}
  /\ doing \in {"wait", "location", "weather", "post"}
  /\ outdoor_temp \in {"old", "N/A", "this"}
  /\ posted \in BOOLEAN /\ serving \in {"down", "asleep", "up"}
  /\ inbox \in Seq(Connection) /\ Len(inbox) <= MaxBacklog
  /\ reply \in {"waiting", "reset", "answered"}

Init ==
  /\ WifiInit /\ HttpInit
  /\ lab \in {"lab7_1", "lab7_2", "lab7_3"}
  /\ doing = "wait" /\ outdoor_temp = "old" /\ posted = FALSE
  /\ serving = "down" /\ inbox = <<>> /\ reply = "waiting"

-----------------------------------------------------------------------------
(* The connections, as their two ends see them.                            *)

\* The task's connection goes to state s.
Mine(s) == [i \in DOMAIN inbox |->
              IF inbox[i].mine THEN [inbox[i] EXCEPT !.state = s] ELSE inbox[i]]

Closed(connections) == [i \in DOMAIN connections |-> [connections[i] EXCEPT !.mine = FALSE]]

\* What has not arrived when the station restarts never arrives.
CutOff == [i \in DOMAIN inbox |->
             IF inbox[i].state \in {"open", "sending"} THEN [inbox[i] EXCEPT !.state = "dead"]
                                                      ELSE inbox[i]]

\* Nothing keeps the server from answering the task within five seconds.
Promising ==
  Online /\ serving = "up" /\ \A i \in DOMAIN inbox : inbox[i].state # "dead"

\* Memory runs short only while the station is offline, except on the way to
\* wttr.in, where anything may fail at any time.
MayFail == doing = "weather" \/ ~Online

-----------------------------------------------------------------------------
(* The task.                                                               *)

\* A cycle begins when the task was created, or its wait is over.
BeginCycle ==
  /\ main = <<"done">> /\ doing = "wait"
  /\ doing' = CASE lab = "lab7_1" -> "weather" [] lab = "lab7_2" -> "post"
                [] lab = "lab7_3" -> "location"
  /\ Request
  /\ outdoor_temp' = "old" /\ posted' = FALSE
  /\ UNCHANGED <<lab, wifiVars, serverVars>>

Prepare ==
  /\ \E ok \in BOOLEAN : (ok \/ MayFail) /\ (Lookup(ok) \/ Socket(ok) \/ SetOption(ok))
  /\ UNCHANGED <<appVars, wifiVars, serverVars>>

\* The machine of a server that is asleep still accepts connections.
CanConnect == Online /\ serving # "down" /\ Len(inbox) < MaxBacklog

ConnectToServer ==
  /\ doing # "weather"
  /\ Connect(CanConnect)
  /\ inbox' = IF CanConnect
                THEN Append(inbox, [of |-> doing, state |-> "open", mine |-> TRUE])
                ELSE inbox
  /\ reply' = "waiting"
  /\ UNCHANGED <<appVars, wifiVars, serving>>

WriteToServer ==
  /\ doing # "weather"
  /\ \/ /\ Write(TRUE, FALSE)
        /\ inbox' = Mine(IF Online THEN "sent" ELSE "sending")
     \/ /\ ~Online \/ reply = "reset"
        /\ Write(FALSE, FALSE)
        /\ \E s \in {"closed", "dead"} : inbox' = Closed(Mine(s))
  /\ UNCHANGED <<appVars, wifiVars, serving, reply>>

\* What a read of at most five seconds may return.
Returned == CASE reply = "answered" /\ Online -> {"body"}
              [] reply = "answered" /\ ~Online -> Outcomes
              [] reply = "reset" -> {"error", "none"}
              [] reply = "waiting" -> IF Promising THEN {} ELSE {"error"}

ReadFromServer ==
  /\ doing # "weather"
  /\ \E r \in Returned : Read(r)
  /\ inbox' = Closed(inbox)
  /\ UNCHANGED <<appVars, wifiVars, serving, reply>>

AskWttrIn ==
  /\ doing = "weather"
  /\ \/ \E ok \in BOOLEAN :
          (ok => Online) /\ (Connect(ok) \/ Write(ok, lab = "lab7_1"))
     \/ \E r \in Outcomes : Read(r)
  /\ UNCHANGED <<appVars, wifiVars, serverVars>>

\* The next request of the cycle, or the wait at its end.
Proceed(d) ==
  /\ doing' = d
  /\ IF d = "wait" THEN Forget /\ UNCHANGED <<infos, sockets>> ELSE Request

FinishLocation ==
  /\ phase = "ended" /\ doing = "location"
  /\ Proceed(IF result = "body" THEN "weather" ELSE "wait")
  /\ UNCHANGED <<lab, outdoor_temp, posted, wifiVars, serverVars>>

\* Mutant of OutdoorAfter: a failure leaves the buffer alone.
LeftAlone(r) == IF r = "body" THEN "this" ELSE outdoor_temp

OutdoorAfter(r) == IF r = "body" THEN "this" ELSE "N/A"

FinishWeather ==
  /\ phase = "ended" /\ doing = "weather"
  /\ Proceed(IF lab = "lab7_3" THEN "post" ELSE "wait")
  /\ outdoor_temp' = IF lab = "lab7_3" THEN OutdoorAfter(result) ELSE outdoor_temp
  /\ UNCHANGED <<lab, posted, wifiVars, serverVars>>

\* Mutant of Successful: no error is a success.
NotAnError(r) == r # "error"

Successful(r) == r \notin {"error", "none"}

FinishPost ==
  /\ phase = "ended" /\ doing = "post"
  /\ Proceed("wait")
  /\ posted' = Successful(result)
  /\ UNCHANGED <<lab, outdoor_temp, wifiVars, serverVars>>

Task ==
  \/ BeginCycle \/ Prepare \/ ConnectToServer \/ WriteToServer \/ ReadFromServer \/ AskWttrIn
  \/ FinishLocation \/ FinishWeather \/ FinishPost

-----------------------------------------------------------------------------
(* The server and the network between.                                     *)

\* A request that arrives late is handled too; its answer reaches nobody.
Handle ==
  /\ serving = "up" /\ inbox # <<>> /\ Head(inbox).state \in {"sent", "closed"}
  /\ inbox' = Tail(inbox)
  /\ reply' = IF Head(inbox).mine THEN "answered" ELSE reply
  /\ UNCHANGED <<serving, appVars, httpVars, wifiVars>>

Deliver ==
  /\ Online
  /\ \E i \in DOMAIN inbox :
       /\ inbox[i].state = "sending"
       /\ inbox' = [inbox EXCEPT ![i].state = "sent"]
  /\ UNCHANGED <<serving, reply, appVars, httpVars, wifiVars>>

\* The station's TCP drops a connection it cannot send on.
Abandon ==
  /\ ~Online
  /\ \E i \in DOMAIN inbox :
       /\ inbox[i].state = "sending"
       /\ inbox' = [inbox EXCEPT ![i].state = "dead"]
  /\ UNCHANGED <<serving, reply, appVars, httpVars, wifiVars>>

StopServer ==
  /\ serving # "down" /\ serving' = "down"
  /\ inbox' = <<>>
  /\ reply' = IF \E i \in DOMAIN inbox : inbox[i].mine THEN "reset" ELSE reply
  /\ UNCHANGED <<appVars, httpVars, wifiVars>>

RunServer ==
  /\ serving # "up" /\ serving' = "up"
  /\ UNCHANGED <<inbox, reply, appVars, httpVars, wifiVars>>

SuspendServer ==
  /\ serving = "up" /\ serving' = "asleep"
  /\ UNCHANGED <<inbox, reply, appVars, httpVars, wifiVars>>

-----------------------------------------------------------------------------
AppRestarts ==
  /\ Forget /\ infos' = 0 /\ sockets' = 0
  /\ doing' = "wait" /\ outdoor_temp' = "old" /\ posted' = FALSE
  /\ inbox' = Closed(CutOff)
  /\ UNCHANGED <<lab, serving, reply>>

RestOfMain ==
  \/ StartStation \/ ConnectSucceeds
  \/ \E v \in IPv : TakeSemaphore(v) \/ DeleteSemaphore(v) \/ ForgetSemaphore(v)

Main == (RestOfMain /\ UNCHANGED <<httpVars, appVars, serverVars>>) \/ (ConnectAborts /\ AppRestarts)

Handlers == HandlerNext /\ UNCHANGED <<httpVars, appVars, serverVars>>

Driver == DriverNext /\ UNCHANGED <<httpVars, appVars, serverVars>>

Trouble == (Lose \/ Roam \/ Fade) /\ UNCHANGED <<httpVars, appVars, serverVars>>

Next ==
  \/ Main \/ Handlers \/ Driver \/ Trouble \/ (Crash /\ AppRestarts)
  \/ Task \/ Handle \/ Deliver \/ Abandon \/ StopServer \/ RunServer \/ SuspendServer

Spec == Init /\ [][Next]_vars

FairSpec ==
  /\ Spec
  /\ WF_vars(Main) /\ WF_vars(Handlers) /\ WF_vars(Driver) /\ WF_vars(Task)
  /\ WF_vars(Handle) /\ WF_vars(Deliver)

-----------------------------------------------------------------------------
\* A program goes on to its task only with an IPv4 and an IPv6 address: not
\* after the last retry failed, whatever events were still to be handled when
\* the main task looked at the count.
StartedMeansAddressed == main = <<"done">> => obtained = IPv

\* Whatever step of a request fails, its address list and its socket are given
\* back before the next request: a cycle that is repeated for ever needs no more
\* than the first one.
NothingLeaks == phase \in {"none", "lookup", "ended"} => infos = 0 /\ sockets = 0

\* A report never holds the temperature of an earlier cycle's location.
ReportIsOfOneCycle == lab = "lab7_3" /\ doing = "post" => outdoor_temp # "old"

\* A post that is logged as a success was handled by the server, in the cycle
\* that logs it.
SuccessMeansReceived == posted => reply = "answered"

\* Server.py waits on a connection whose other end is gone.
Hung == inbox # <<>> /\ Head(inbox).state = "dead"

\* Once the access point works and the server runs and does not hang, the
\* labs that post get through again and again, however many connections, requests and
\* cycles failed before: unless the station has used up its retries after the
\* start, which the run shows to be the only way to lose it for good.
PostsArrive ==
  <>[](air /\ serving = "up" /\ ~Hung) => lab = "lab7_1" \/ <>[]GaveUp \/ []<>posted
=============================================================================

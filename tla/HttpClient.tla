----------------------------- MODULE HttpClient -----------------------------
(***************************************************************************)
(* The sockets under labs 7.1 to 7.3: one request at a time, looked up,    *)
(* connected, written and answered step by step, where every step may fail *)
(* and must then give back what the steps before it took.                  *)
(***************************************************************************)
EXTENDS Integers

VARIABLES
  phase,      \* the step of the request that is next
  infos,      \* address lists not yet freed
  sockets,    \* sockets not yet closed
  result      \* what the request came to

httpVars == <<phase, infos, sockets, result>>

\* An error or a time limit passed; the end of the connection before any data;
\* not enough to hold a body; a body, cut short or whole.
Outcomes == {"error", "none", "head", "body"}

HttpTypeOK ==
  /\ phase \in {"none", "lookup", "socket", "connect", "write", "option", "read", "ended"}
  /\ infos \in 0 .. 2 /\ sockets \in 0 .. 2
  /\ result \in Outcomes

HttpInit == phase = "none" /\ infos = 0 /\ sockets = 0 /\ result = "error"

Request == phase' = "lookup" /\ result' = "error" /\ UNCHANGED <<infos, sockets>>

Go(next) == phase' = next /\ UNCHANGED result

End(r) == phase' = "ended" /\ result' = r

\* After a restart, or before the next request.
Forget == phase' = "none" /\ result' = "error"

-----------------------------------------------------------------------------
Lookup(ok) ==
  /\ phase = "lookup"
  /\ IF ok THEN Go("socket") /\ infos' = infos + 1 ELSE End("error") /\ UNCHANGED infos
  /\ UNCHANGED sockets

Socket(ok) ==
  /\ phase = "socket"
  /\ IF ok THEN Go("connect") /\ sockets' = sockets + 1 /\ UNCHANGED infos
           ELSE End("error") /\ infos' = infos - 1 /\ UNCHANGED sockets

\* Mutant of Connect: the address list is freed only when connected.
FreesConnected(ok) ==
  /\ phase = "connect"
  /\ IF ok THEN Go("write") /\ infos' = infos - 1 /\ UNCHANGED sockets
           ELSE End("error") /\ sockets' = sockets - 1 /\ UNCHANGED infos

Connect(ok) ==
  /\ phase = "connect"
  /\ infos' = infos - 1
  /\ IF ok THEN Go("write") /\ UNCHANGED sockets ELSE End("error") /\ sockets' = sockets - 1

\* Lab 7.1 checks that the time limit of reads could be set.
Write(ok, checksOption) ==
  /\ phase = "write"
  /\ IF ok THEN Go(IF checksOption THEN "option" ELSE "read") /\ UNCHANGED sockets
           ELSE End("error") /\ sockets' = sockets - 1
  /\ UNCHANGED infos

SetOption(ok) ==
  /\ phase = "option"
  /\ IF ok THEN Go("read") /\ UNCHANGED sockets ELSE End("error") /\ sockets' = sockets - 1
  /\ UNCHANGED infos

\* What was read until the end, an error, or five seconds without data.
Read(r) ==
  /\ phase = "read"
  /\ End(r)
  /\ sockets' = sockets - 1
  /\ UNCHANGED infos
=============================================================================

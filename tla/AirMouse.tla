------------------------------ MODULE AirMouse ------------------------------
(***************************************************************************)
(* The application of lab 4.3: a task samples the tilt of the hand and     *)
(* moves the pointer, faster the longer a tilt is held; callbacks of the   *)
(* Bluetooth task, which has the higher priority on the one core, tell it  *)
(* of connections at any point between two of its steps.                   *)
(*                                                                         *)
(* Axis 1 is x and axis 2 is y.  A tilt is level times direction, after    *)
(* smoothing: 0, a bit (1) or a lot (2), negative to the left or down.     *)
(***************************************************************************)
EXTENDS Integers, Sequences

CONSTANTS
  Tilt,         \* for each axis, the tilts the hand may show
  Period,       \* the task's delay (20 ms)
  Medium,       \* a tilt held for longer doubles the speed (200 ms)
  Long,         \* a tilt held for longer triples it (500 ms)
  Preemption    \* how late the task may be, or how long held up in an iteration

Axis == 1 .. 2

ASSUME AirMouseAssumption ==
  /\ Tilt \in [Axis -> SUBSET (-2 .. 2)] /\ \A a \in Axis : Tilt[a] # {}
  /\ {Period, Medium, Long, Preemption} \subseteq Nat /\ Medium <= Long

VARIABLES
  connected, hid_conn_id,     \* written by the callbacks
  dir,                        \* dir_x and dir_y: the state of each direction
  pc,                         \* where the task is
  axis,                       \* the axis whose movement is computed
  sample,                     \* the smoothed tilt of this iteration
  now_ms,                     \* the clock as calculate_mouse_delta read it
  delta,                      \* mouse_x and mouse_y
  conn_id                     \* the argument of the send under way

callbackVars == <<connected, hid_conn_id>>
taskVars == <<pc, axis, sample, now_ms, delta, conn_id>>

VARIABLES
  now, wake,     \* the time, and the time the task's delay ends
  held,          \* for each axis, since when the samples show the same level,
                 \* and the same direction, within one connection
  fresh,         \* no connection began since the sample was read
  report         \* the report handed to the stack in the last step

timeVars == <<now, wake>>
historyVars == <<held, fresh, report>>

NoReport == [host |-> "none"]

TILT_NONE == 0
TILT_A_BIT == 1
get_tilt_level(g_value) == IF g_value < 0 THEN -g_value ELSE g_value
Direction(g_value) == IF g_value > 0 THEN 1 ELSE IF g_value < 0 THEN -1 ELSE 0

AirMouseTypeOK ==
  /\ connected \in BOOLEAN /\ hid_conn_id \in Nat
  /\ dir \in [Axis -> [active : BOOLEAN, level : 0 .. 2, start_time_ms : Nat]]
  /\ pc \in {"none", "detect", "deleted", "wait", "read", "clock", "check", "restart", "test",
             "again", "load", "post"}
  /\ axis \in Axis
  /\ sample \in [Axis -> -2 .. 2]
  /\ now_ms \in Nat
  /\ delta \in [Axis -> -24 .. 24]
  /\ conn_id \in Nat
  /\ now \in Nat /\ wake \in Nat

AirMouseInit ==
  /\ connected = FALSE /\ hid_conn_id = 0
  /\ dir = [a \in Axis |-> [active |-> FALSE, level |-> TILT_NONE, start_time_ms |-> 0]]
  /\ pc = "none" /\ axis = 1
  /\ sample = [a \in Axis |-> 0] /\ delta = [a \in Axis |-> 0]
  /\ now_ms = 0 /\ conn_id = 0
  /\ now = 0 /\ wake = 0
  /\ held = [a \in Axis |-> [level |-> 0, direction |-> 0]]
  /\ fresh = FALSE /\ report = NoReport

-----------------------------------------------------------------------------
(* The callbacks: hidd_event_callback.                                     *)

\* What the end of the registration makes the application ask for.
OnRegFinish == {"adv_data"}

\* Mutant of OnConnect: the directions are not reset.
KeepsDirections(c) ==
  /\ hid_conn_id' = c
  /\ connected' = TRUE
  /\ held' = [a \in Axis |-> [level |-> now, direction |-> now]]
  /\ fresh' = FALSE
  /\ UNCHANGED dir

OnConnect(c) ==
  /\ hid_conn_id' = c
  /\ connected' = TRUE
  /\ dir' = [a \in Axis |-> [dir[a] EXCEPT !.active = FALSE]]
  /\ held' = [a \in Axis |-> [level |-> now, direction |-> now]]
  /\ fresh' = FALSE

OnDisconnect ==
  /\ connected' = FALSE
  /\ UNCHANGED <<hid_conn_id, dir, held, fresh>>

OnOtherEvent == UNCHANGED <<callbackVars, dir, held, fresh>>

-----------------------------------------------------------------------------
(* The task: imu_mouse_task.                                               *)

StartTask == pc = "none" /\ pc' = "detect"

\* The sensor answers at one of its two addresses, or the task deletes itself.
DetectSensor ==
  /\ pc = "detect"
  /\ pc' \in {"wait", "deleted"}
  /\ UNCHANGED <<axis, sample, now_ms, delta, conn_id, dir, held, fresh, timeVars>>

\* It polls for the first connection; later ones it does not wait for.
Connected ==
  /\ pc = "wait" /\ connected
  /\ pc' = "read"
  /\ wake' = now
  /\ UNCHANGED <<axis, sample, now_ms, delta, conn_id, dir, held, fresh, now>>

\* The loop starts over after the delay.
DelayThenRead ==
  /\ pc' = "read"
  /\ wake' = now + Period

Awake == pc = "read" /\ now >= wake

\* A tilt of the same level, or direction, as in the last sample goes on.
Hold(s) ==
  held' = [a \in Axis |->
    [level |-> IF get_tilt_level(s[a]) = get_tilt_level(sample[a]) THEN held[a].level ELSE now,
     direction |-> IF Direction(s[a]) = Direction(sample[a]) THEN held[a].direction ELSE now]]

ReadSample ==
  /\ Awake
  /\ \E s \in [Axis -> -2 .. 2] :
       /\ \A a \in Axis : s[a] \in Tilt[a]
       /\ sample' = s
       /\ Hold(s)
  /\ fresh' = TRUE
  /\ pc' = "clock" /\ axis' = 1
  /\ wake' = now
  /\ UNCHANGED <<now_ms, delta, conn_id, dir, now>>

\* A failed read leaves the directions as they are.
ReadFails ==
  /\ Awake
  /\ DelayThenRead
  /\ UNCHANGED <<axis, sample, now_ms, delta, conn_id, dir, held, fresh, now>>

\* calculate_mouse_delta reads the clock before it looks at the direction.
ReadClock ==
  /\ pc = "clock"
  /\ now_ms' = now
  /\ pc' = "check"
  /\ UNCHANGED <<axis, sample, delta, conn_id, dir, held, fresh, timeVars>>

\* Mutant of Move: the second axis is not the last.
MoveOn(d) ==
  /\ delta' = [delta EXCEPT ![axis] = d]
  /\ axis' = axis + 1
  /\ pc' = IF axis = 1 THEN "clock" ELSE "test"

\* The movement of an axis is known.
Move(d) ==
  /\ delta' = [delta EXCEPT ![axis] = d]
  /\ IF axis = 1 THEN axis' = 2 /\ pc' = "clock"
                 ELSE pc' = "test" /\ UNCHANGED axis

new_level == get_tilt_level(sample[axis])

Stopped == new_level = TILT_NONE \/ ~dir[axis].active

CheckStopped ==
  /\ pc = "check" /\ Stopped
  /\ pc' = "restart"
  /\ UNCHANGED <<axis, sample, now_ms, delta, conn_id, dir, held, fresh, timeVars>>

Restart ==
  /\ pc = "restart"
  /\ dir' = [dir EXCEPT ![axis] = [active |-> new_level # TILT_NONE, level |-> new_level,
                                   start_time_ms |-> now_ms]]
  /\ Move(0)
  /\ UNCHANGED <<sample, now_ms, conn_id, held, fresh, timeVars>>

base_speed(level) == IF level = TILT_A_BIT THEN 3 ELSE 8

accel_mult(duration_ms) ==
  IF duration_ms > Long THEN 3 ELSE IF duration_ms > Medium THEN 2 ELSE 1

\* A new level starts the time anew; a new direction does not.
CheckMoves ==
  /\ pc = "check" /\ ~Stopped
  /\ dir' = IF new_level = dir[axis].level THEN dir
            ELSE [dir EXCEPT ![axis].level = new_level, ![axis].start_time_ms = now_ms]
  /\ LET step == base_speed(new_level) * accel_mult(now_ms - dir'[axis].start_time_ms)
     IN  Move(IF sample[axis] > 0 THEN step ELSE -step)
  /\ UNCHANGED <<sample, now_ms, conn_id, held, fresh, timeVars>>

Calculate == ReadClock \/ CheckStopped \/ Restart \/ CheckMoves

Moved == \E a \in Axis : delta[a] # 0

\* Mutant of SkipSend: the loop ends instead of starting over.
LeaveLoop ==
  /\ \/ pc = "test" /\ ~(connected /\ Moved)
     \/ pc = "again" /\ ~connected
  /\ pc' = "none"
  /\ UNCHANGED <<axis, sample, now_ms, delta, conn_id, dir, held, fresh, timeVars>>

\* Nothing to send, or no connection at one of the two tests.
SkipSend ==
  /\ \/ pc = "test" /\ ~(connected /\ Moved)
     \/ pc = "again" /\ ~connected
  /\ DelayThenRead
  /\ UNCHANGED <<axis, sample, now_ms, delta, conn_id, dir, held, fresh, now>>

TestMove ==
  /\ pc = "test" /\ connected /\ Moved
  /\ pc' = "again"
  /\ UNCHANGED <<axis, sample, now_ms, delta, conn_id, dir, held, fresh, timeVars>>

TestConnected ==
  /\ pc = "again" /\ connected
  /\ pc' = "load"
  /\ UNCHANGED <<axis, sample, now_ms, delta, conn_id, dir, held, fresh, timeVars>>

LoadConnection ==
  /\ pc = "load"
  /\ conn_id' = hid_conn_id
  /\ pc' = "post"
  /\ UNCHANGED <<axis, sample, now_ms, delta, dir, held, fresh, timeVars>>

\* The loop's end: the report went to host h through the attribute, or nowhere.
FinishSend(h, handle, sent) ==
  /\ pc = "post"
  /\ DelayThenRead
  /\ report' = IF ~sent THEN NoReport
               ELSE [host |-> h, handle |-> handle, delta |-> delta, now_ms |-> now_ms,
                     held |-> held, fresh |-> fresh]
  /\ UNCHANGED <<axis, sample, now_ms, delta, conn_id, dir, held, fresh, now>>

\* The task is never held up for longer than Preemption.
TaskMayWait ==
  /\ pc = "read" => now < wake + Preemption
  /\ pc \notin {"none", "detect", "deleted", "wait", "read"} => now < wake + Preemption
=============================================================================

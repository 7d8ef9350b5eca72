--------------------------- MODULE ScriptedMouse ---------------------------
(***************************************************************************)
(* The application of lab 4.2, beside that of lab 4.3: a task that, after  *)
(* the first connection, moves the pointer to the right and back for ever, *)
(* connected or not.  Its callbacks are those of lab 4.3 without the       *)
(* directions, which it leaves inactive, and it sends in the same way.     *)
(***************************************************************************)
EXTENDS AirMouse

CONSTANTS
  Labs,     \* the programs that may run
  Steps     \* the moves of a half cycle (20)

ASSUME ScriptedMouseAssumption == Labs \subseteq {"lab4_2", "lab4_3"} /\ Steps \in Nat \ {0}

VARIABLES
  lab,      \* the program that runs
  i,        \* the moves made in this cycle
  pos       \* how many moves to the right the connected host has seen

scriptVars == <<lab, i, pos>>

ScriptTypeOK == lab \in Labs /\ i \in 0 .. 2 * Steps - 1 /\ pos \in Int

ScriptInit == lab \in Labs /\ i = 0 /\ pos = 0

\* mouse_move_task needs no sensor.
StartScript == lab = "lab4_2" /\ pc = "none" /\ pc' = "wait"

\* Mutant of NextMove: one more move to the right than back.
OneMoreRight == (i + 1) % (2 * Steps + 1)

NextMove == (i + 1) % (2 * Steps)

\* A move of 10 to the right or back, passed to send_mouse_move.
MoveOfScript ==
  /\ lab = "lab4_2" /\ Awake
  /\ delta' = [a \in Axis |-> IF a = 2 THEN 0 ELSE IF i < Steps THEN 10 ELSE -10]
  /\ i' = NextMove
  /\ pc' = "again"
  /\ wake' = now
  /\ UNCHANGED <<lab, axis, sample, now_ms, conn_id, dir, held, fresh, now>>

\* What a report of the script adds to the host's pointer.
Seen(sent) == IF lab = "lab4_2" /\ sent THEN pos + delta[1] \div 10 ELSE pos
=============================================================================

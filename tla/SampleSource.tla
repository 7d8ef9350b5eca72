---------------------------- MODULE SampleSource ----------------------------
(***************************************************************************)
(* What the task that reads the motion sensor promises the code that uses  *)
(* the samples, whatever the sensor and its wires do: every attempt to     *)
(* read ends in a sample or a miss; after Limit misses with no sample in   *)
(* between, and only then, the source is repaired; and a repair ends.      *)
(***************************************************************************)
EXTENDS Integers

CONSTANT Limit      \* the misses in a row that start a repair

VARIABLES phase, misses

vars == <<phase, misses>>

Init == phase = "search" /\ misses = 0

Stop == phase = "search" /\ phase' = "off" /\ UNCHANGED misses

Start == phase = "search" /\ phase' = "read" /\ UNCHANGED misses

Get == phase = "read" /\ phase' = "sample" /\ UNCHANGED misses

Use == phase = "sample" /\ phase' = "read" /\ misses' = 0

Miss ==
  /\ phase = "read" /\ misses + 1 < Limit
  /\ misses' = misses + 1
  /\ UNCHANGED phase

Repair ==
  /\ phase = "read" /\ misses + 1 = Limit
  /\ misses' = Limit /\ phase' = "repair"

Repaired == phase = "repair" /\ phase' = "read" /\ misses' = 0

Next == Stop \/ Start \/ Get \/ Use \/ Miss \/ Repair \/ Repaired

Spec ==
  /\ Init /\ [][Next]_vars
  /\ WF_vars(Get \/ Miss \/ Repair) /\ WF_vars(Use) /\ WF_vars(Repaired)
=============================================================================

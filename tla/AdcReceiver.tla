---------------------------- MODULE AdcReceiver ----------------------------
(***************************************************************************)
(* The polling receiver, lab5_2/main/lab5_2.c: a task that samples the     *)
(* photodiode every SAMPLE_RATE_MS, works out from the samples when the    *)
(* light changed, and prints a letter when the gap after it is long enough *)
(* or nothing has happened for TIMEOUT_MS.                                 *)
(*                                                                         *)
(* History: of is the letter of the last symbol stored in the buffer.      *)
(***************************************************************************)
EXTENDS MorseLine

CONSTANTS
  DOT_DURATION, DASH_MIN_DURATION, LETTER_GAP_MIN, WORD_GAP_MIN, TIMEOUT_MS,
  SAMPLE_RATE_MS,
  SampleLate,     \* how much later than SAMPLE_RATE_MS the next sample may be
  BufferSize      \* sizeof(morse_buffer)

ASSUME ReceiverAssumption ==
  /\ DOT_DURATION \in Nat /\ DASH_MIN_DURATION \in Nat
  /\ LETTER_GAP_MIN \in Nat /\ WORD_GAP_MIN \in Nat /\ TIMEOUT_MS \in Nat
  /\ SAMPLE_RATE_MS \in Nat \ {0} /\ SampleLate \in Nat
  /\ BufferSize \in Nat \ {0}

VARIABLES
  sampled,        \* when the last sample was taken
  light_on, light_start_time, gap_start_time, last_activity_time,
  morse_buffer,   \* the first morse_idx symbols of the buffer
  out,            \* what has been printed
  of

receiverVars == <<sampled, light_on, light_start_time, gap_start_time,
                  last_activity_time, morse_buffer, out, of>>

Shown == [char : Letters \cup {Unknown}, sep : Separator, of : Nat]

ReceiverTypeOK ==
  /\ sampled \in Nat
  /\ light_on \in BOOLEAN
  /\ light_start_time \in Nat /\ gap_start_time \in Nat
  /\ last_activity_time \in Nat
  /\ morse_buffer \in Seq(Symbol) /\ Len(morse_buffer) < BufferSize
  /\ out \in Seq(Shown)
  /\ of \in Nat

ReceiverInit ==
  /\ sampled = 0
  /\ light_on = FALSE
  /\ light_start_time = 0 /\ gap_start_time = 0 /\ last_activity_time = 0
  /\ morse_buffer = <<>>
  /\ out = <<>>
  /\ of = 0

SampleDue == now >= sampled + SAMPLE_RATE_MS

\* printf of the buffered letter; a loop iteration prints at most one.
PrintLetter(separator) ==
  /\ out' = Append(out, [char |-> decode_morse(morse_buffer), sep |-> separator, of |-> of])
  /\ morse_buffer' = <<>>

PrintNothing == UNCHANGED <<out, morse_buffer>>

(* The first test of the loop body: nothing has happened for too long.     *)
TimedOut ==
  /\ morse_buffer # <<>> /\ last_activity_time > 0
  /\ now - last_activity_time > TIMEOUT_MS

\* Mutant of PrintAfter: the word gap is tested after the letter gap.
LetterGapFirst(gap_duration) ==
  IF gap_duration > LETTER_GAP_MIN THEN PrintLetter("")
  ELSE IF gap_duration > WORD_GAP_MIN THEN PrintLetter(" ")
  ELSE PrintNothing

\* A gap that has ended is a word gap, a letter gap or neither.
PrintAfter(gap_duration) ==
  IF gap_duration > WORD_GAP_MIN THEN PrintLetter(" ")
  ELSE IF gap_duration > LETTER_GAP_MIN THEN PrintLetter("")
  ELSE PrintNothing

(* The light has come on since the last sample.  A timeout in the same     *)
(* iteration has already emptied the buffer.                               *)
SampleRising ==
  /\ SampleDue /\ light /\ ~light_on
  /\ sampled' = now
  /\ light_on' = TRUE
  /\ light_start_time' = now /\ last_activity_time' = now
  /\ IF TimedOut THEN PrintLetter("\n")
     ELSE IF gap_start_time > 0 /\ morse_buffer # <<>> THEN PrintAfter(now - gap_start_time)
     ELSE PrintNothing
  /\ UNCHANGED <<gap_start_time, of>>

SymbolsOf(pulse_duration) ==
  IF pulse_duration >= DASH_MIN_DURATION THEN <<Dash>>
  ELSE IF pulse_duration >= DOT_DURATION \div 2 THEN <<Dot>>
  ELSE <<>>

(* The light has gone off since the last sample: a pulse is stored while   *)
(* the buffer has room, after a timeout in the same iteration.             *)
SampleFalling ==
  LET kept == IF TimedOut THEN <<>> ELSE morse_buffer
      stored == IF Len(kept) < BufferSize - 1
                THEN SymbolsOf(now - light_start_time) ELSE <<>>
  IN  /\ SampleDue /\ ~light /\ light_on
      /\ sampled' = now
      /\ light_on' = FALSE
      /\ gap_start_time' = now /\ last_activity_time' = now
      /\ out' = IF TimedOut
                THEN Append(out, [char |-> decode_morse(morse_buffer), sep |-> "\n", of |-> of])
                ELSE out
      /\ morse_buffer' = kept \o stored
      /\ of' = IF stored = <<>> THEN of ELSE Len(sent)
      /\ UNCHANGED light_start_time

\* Mutant of SampleSteady: the timeout is tested only when the light changes.
NoTimeout ==
  /\ SampleDue /\ light = light_on
  /\ sampled' = now
  /\ PrintNothing
  /\ UNCHANGED <<light_on, light_start_time, gap_start_time, last_activity_time, of>>

\* No change of the light: only the timeout can do something.
SampleSteady ==
  /\ SampleDue /\ light = light_on
  /\ sampled' = now
  /\ IF TimedOut THEN PrintLetter("\n") /\ last_activity_time' = 0
                 ELSE PrintNothing /\ UNCHANGED last_activity_time
  /\ UNCHANGED <<light_on, light_start_time, gap_start_time, of>>

ReceiverNext ==
  /\ SampleRising \/ SampleFalling \/ SampleSteady
  /\ UNCHANGED <<now, light, sent, si>>

ReceiverMayWait == now < sampled + SAMPLE_RATE_MS + SampleLate
=============================================================================

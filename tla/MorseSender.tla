---------------------------- MODULE MorseSender ----------------------------
(***************************************************************************)
(* The Raspberry Pi program that keys a message on an LED (lab5_3/sender/  *)
(* send.c; lab5_1/send.c is the same program with fixed durations, see     *)
(* AdcLink).                                                               *)
(*                                                                         *)
(* The program is a chain of gpio_write and sleep calls.  A sleep of d     *)
(* started at time t sets wake to t + d; the process runs again at some    *)
(* moment between wake and wake + OverSleep, since a sleep may return late *)
(* but never early.  control says which call comes next:                   *)
(*   "exited"  no process is running (before a launch, and after main)     *)
(*   "next"    send_message's loop is about to look at message[ci]         *)
(*   "on"      the LED is lit for element si of the current letter         *)
(*   "off"     the gap that follows that element                           *)
(*   "gap"     the sleep that ends send_morse_char                         *)
(*   "rep"     the sleep between two repetitions                           *)
(*                                                                         *)
(* brk is history: the kind of gap since the last letter.                  *)
(***************************************************************************)
EXTENDS MorseLine

CONSTANTS
  Commands,      \* the command lines: records [message, repetitions]
  Launches,      \* how often the operator starts the program
  dot_duration_us,
  RepetitionGap, \* the sleep between two repetitions
  OverSleep,     \* how late a sleep may return
  IdleMax        \* how long the clock runs on while no process is running

ASSUME SenderAssumption ==
  /\ Commands \subseteq [message : Seq(STRING), repetitions : Nat \ {0}]
  /\ Launches \in Nat
  /\ dot_duration_us \in Nat \ {0}
  /\ RepetitionGap \in Nat /\ OverSleep \in Nat /\ IdleMax \in Nat

VARIABLES
  control,       \* the call that comes next
  command,       \* argv of the running (or last) process
  rep, ci,       \* the loop variables of main and of send_message
  wake,          \* when the current sleep is over
  launched,      \* how many processes have been started
  brk

senderVars == <<control, command, rep, ci, wake, launched, brk>>

(* calculate_timing: the standard ratios. *)
dash_duration_us == 3 * dot_duration_us
symbol_gap_us == dot_duration_us
letter_gap_us == 3 * dot_duration_us
word_gap_us == 7 * dot_duration_us

message == command.message
Morse == get_morse_code(message[ci])

SenderTypeOK ==
  /\ wake \in Nat
  /\ control \in {"exited", "next", "on", "off", "gap", "rep"}
  /\ command \in Commands
  /\ rep \in Nat /\ ci \in Nat \ {0}
  /\ launched \in 0 .. Launches
  /\ brk \in Break

SenderInit ==
  /\ wake = 1
  /\ control = "exited"
  /\ command \in Commands
  /\ rep = 0 /\ ci = 1
  /\ launched = 0
  /\ brk = "idle"

Awake == now >= wake
Sleep(d) == wake' = now + d

\* How long element s of a letter keeps the LED lit.
Duration(s) == IF s = Dot THEN dot_duration_us ELSE dash_duration_us

(* main, up to the first send_message: the arguments are good and the GPIO *)
(* line was obtained.  A new process knows nothing of the gap since the    *)
(* previous one ended.                                                     *)
Launch ==
  /\ control = "exited" /\ launched < Launches
  /\ command' \in Commands
  /\ launched' = launched + 1
  /\ control' = "next"
  /\ light' = FALSE
  /\ rep' = 1 /\ ci' = 1
  /\ wake' = now
  /\ brk' = IF brk = "letter" THEN "idle" ELSE brk
  /\ UNCHANGED <<si, sent>>

(* A usage error or a failing gpio_init ends main before the LED is used. *)
LaunchFails ==
  /\ control = "exited" /\ launched < Launches
  /\ launched' = launched + 1
  /\ UNCHANGED <<light, control, command, rep, ci, si, wake, sent, brk>>

(* message[ci] has no code: send_message goes on with the next character. *)
SkipCharacter ==
  /\ control = "next" /\ Awake /\ ci <= Len(message)
  /\ Morse = NoCode
  /\ ci' = ci + 1
  /\ UNCHANGED <<light, control, command, rep, si, wake, launched, sent, brk>>

(* A space: the letter gap has been slept already, the rest of the word    *)
(* gap is slept now.                                                       *)
SendSpace ==
  /\ control = "next" /\ Awake /\ ci <= Len(message)
  /\ Morse = WordSeparator
  /\ Sleep(word_gap_us - letter_gap_us)
  /\ control' = "gap"
  /\ brk' = "word"
  /\ UNCHANGED <<light, command, rep, ci, si, launched, sent>>

(* send_morse_char starts a letter: the first half of send_dot/send_dash. *)
StartLetter ==
  /\ control = "next" /\ Awake /\ ci <= Len(message)
  /\ IsLetter(message[ci])
  /\ light' = TRUE
  /\ Sleep(Duration(Morse[1]))
  /\ control' = "on" /\ si' = 1
  /\ sent' = Append(sent, [char |-> toupper(message[ci]), code |-> Morse, brk |-> brk])
  /\ brk' = "letter"
  /\ UNCHANGED <<command, rep, ci, launched>>

(* The second half of send_dot/send_dash. *)
EndSymbol ==
  /\ control = "on" /\ Awake
  /\ light' = FALSE
  /\ Sleep(symbol_gap_us)
  /\ control' = "off"
  /\ UNCHANGED <<command, rep, ci, si, launched, sent, brk>>

StartSymbol ==
  /\ control = "off" /\ Awake /\ si < Len(Morse)
  /\ si' = si + 1
  /\ light' = TRUE
  /\ Sleep(Duration(Morse[si + 1]))
  /\ control' = "on"
  /\ UNCHANGED <<command, rep, ci, launched, sent, brk>>

\* Mutant of EndLetter: the symbol gap is not deducted.
FullLetterGap ==
  /\ control = "off" /\ Awake /\ si = Len(Morse)
  /\ Sleep(letter_gap_us)
  /\ control' = "gap"
  /\ UNCHANGED <<light, command, rep, ci, si, launched, sent, brk>>

\* send_morse_char's final sleep; the symbol gap has been slept already.
EndLetter ==
  /\ control = "off" /\ Awake /\ si = Len(Morse)
  /\ Sleep(letter_gap_us - symbol_gap_us)
  /\ control' = "gap"
  /\ UNCHANGED <<light, command, rep, ci, si, launched, sent, brk>>

NextCharacter ==
  /\ control = "gap" /\ Awake
  /\ ci' = ci + 1
  /\ control' = "next"
  /\ UNCHANGED <<light, command, rep, si, wake, launched, sent, brk>>

\* Mutant of Repeat: the index starts from 0.
RepeatFromZero ==
  /\ control = "next" /\ Awake /\ ci > Len(message)
  /\ rep < command.repetitions
  /\ rep' = rep + 1 /\ ci' = 0
  /\ Sleep(RepetitionGap)
  /\ control' = "rep"
  /\ brk' = "word"
  /\ UNCHANGED <<light, command, si, launched, sent>>

(* The end of send_message, when main has repetitions left. *)
Repeat ==
  /\ control = "next" /\ Awake /\ ci > Len(message)
  /\ rep < command.repetitions
  /\ rep' = rep + 1 /\ ci' = 1
  /\ Sleep(RepetitionGap)
  /\ control' = "rep"
  /\ brk' = "word"
  /\ UNCHANGED <<light, command, si, launched, sent>>

NextRepetition ==
  /\ control = "rep" /\ Awake
  /\ control' = "next"
  /\ UNCHANGED <<light, command, rep, ci, si, wake, launched, sent, brk>>

(* gpio_cleanup and the return from main. *)
Exit ==
  /\ control = "next" /\ Awake /\ ci > Len(message)
  /\ rep = command.repetitions
  /\ light' = FALSE
  /\ control' = "exited"
  /\ UNCHANGED <<command, rep, ci, si, wake, launched, sent, brk>>

\* The steps of a process that is running; all but Launch and LaunchFails.
SenderRuns ==
  \/ SkipCharacter \/ SendSpace \/ StartLetter \/ EndSymbol \/ StartSymbol
  \/ EndLetter \/ NextCharacter \/ Repeat \/ NextRepetition \/ Exit

SenderNext == (Launch \/ LaunchFails \/ SenderRuns) /\ UNCHANGED now

\* Time may pass only while the process is allowed to be asleep.
SenderMayWait ==
  now < wake + (IF control = "exited" THEN IdleMax ELSE OverSleep)
=============================================================================

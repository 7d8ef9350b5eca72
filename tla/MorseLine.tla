----------------------------- MODULE MorseLine -----------------------------
(***************************************************************************)
(* What a lab 5 sender and a receiver share: the time, and the light       *)
(* between the LED and the photodiode.  Two history variables say what the *)
(* light means: sent is every letter keyed so far, and the latest change   *)
(* of the light belongs to element si of the last of them.                 *)
(***************************************************************************)
EXTENDS MorseCode, Integers

VARIABLES
  now,    \* the clock; sender and receiver differ by a constant offset
  light,  \* TRUE while the LED is lit
  sent,   \* the letters keyed so far, each with the gap that came before it
  si      \* which element of Last(sent) is being keyed (send_morse_char's i)

LineTypeOK ==
  /\ now \in Nat \ {0}
  /\ light \in BOOLEAN
  /\ sent \in Seq(SentLetter)
  /\ si \in Nat

(* esp_timer_get_time() is positive by the time the receiver listens.      *)
LineInit ==
  /\ now = 1
  /\ light = FALSE
  /\ sent = <<>>
  /\ si = 1
=============================================================================

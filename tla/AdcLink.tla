------------------------------ MODULE AdcLink ------------------------------
(***************************************************************************)
(* Labs 5.1 and 5.2: the fixed-speed sender and the polling receiver.  The *)
(* sender of lab 5.1 makes the calls MorseSender describes, with the       *)
(* durations below; it lights its LED by driving the pin low.              *)
(***************************************************************************)
EXTENDS MorseSender, AdcReceiver

lineVars == <<now, light, sent, si>>
vars == <<lineVars, senderVars, receiverVars>>

TypeOK == LineTypeOK /\ SenderTypeOK /\ ReceiverTypeOK

Init == LineInit /\ SenderInit /\ ReceiverInit

Send == SenderNext /\ UNCHANGED receiverVars

Receive == ReceiverNext /\ UNCHANGED senderVars

Tick ==
  /\ SenderMayWait /\ ReceiverMayWait
  /\ now' = now + 1
  /\ UNCHANGED <<light, sent, si, senderVars, receiverVars>>

Next == Send \/ Receive \/ Tick

Spec == Init /\ [][Next]_vars

(* A started sleep ends and the receiver's task keeps sampling. *)
FairSpec ==
  /\ Spec
  /\ WF_vars(Tick)
  /\ WF_vars(Send /\ control # "exited")
  /\ WF_vars(Receive)

-----------------------------------------------------------------------------
(* The durations of the two programs fit each other when, with sleeps that *)
(* last up to OverSleep longer and changes of the light seen up to a       *)
(* sample late, every pulse and every gap still falls in the range meant   *)
(* for it, no change escapes the samples, and no letter times out before   *)
(* the next one of its word begins.                                        *)
TimingFits ==
  LET early == SAMPLE_RATE_MS + SampleLate
      late == OverSleep + early
  IN  /\ early < dot_duration_us
      /\ DOT_DURATION \div 2 <= dot_duration_us - early
      /\ dot_duration_us + late < DASH_MIN_DURATION
      /\ DASH_MIN_DURATION <= dash_duration_us - early
      /\ symbol_gap_us + late <= LETTER_GAP_MIN
      /\ LETTER_GAP_MIN < letter_gap_us - early
      /\ letter_gap_us + OverSleep + late <= WORD_GAP_MIN
      /\ WORD_GAP_MIN < word_gap_us - early
      /\ letter_gap_us + OverSleep + late <= TIMEOUT_MS
      /\ word_gap_us - letter_gap_us <= RepetitionGap
      /\ BufferSize > 5

\* The letters on the screen, without the history.
display == [k \in DOMAIN out |-> [char |-> out[k].char, sep |-> out[k].sep]]

Display == INSTANCE MorseDisplay WITH shown <- display

(* The link implements the abstract display, the last letter included:     *)
(* every letter is printed once, in order, with a fitting separator, even  *)
(* when the gap between two repetitions ends just as the receiver's        *)
(* timeout expires.                                                        *)
ImplementsDisplay == Display!FairSpec

(* A letter waits in the buffer for the timeout and one sample at most:    *)
(* the last letter of a transmission is not kept from the reader.          *)
LettersDoNotLinger ==
  morse_buffer # <<>> =>
    now - last_activity_time <= TIMEOUT_MS + SAMPLE_RATE_MS + SampleLate
=============================================================================

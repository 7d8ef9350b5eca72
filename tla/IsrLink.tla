------------------------------ MODULE IsrLink ------------------------------
(***************************************************************************)
(* Lab 5.3: the high-speed sender and the interrupt-driven receiver, with  *)
(* the LED and the photodiode between them.                                *)
(***************************************************************************)
EXTENDS MorseSender, IsrReceiver

lineVars == <<now, light, sent, si>>
vars == <<lineVars, senderVars, receiverVars>>

TypeOK == LineTypeOK /\ SenderTypeOK /\ ReceiverTypeOK

Init == LineInit /\ SenderInit /\ ReceiverInit

\* The rest of the receiver does not see the light.
Send ==
  /\ SenderNext
  /\ DetectEdge
  /\ UNCHANGED <<stamp, gpio_evt_queue, decoderVars, hurt>>

Receive == ReceiverNext /\ UNCHANGED senderVars

Tick ==
  /\ SenderMayWait /\ ReceiverMayWait
  /\ now' = now + 1
  /\ UNCHANGED <<light, sent, si, senderVars, receiverVars>>

Next == Send \/ Receive \/ Tick

Spec == Init /\ [][Next]_vars

(* A started sleep ends, an interrupt that is not masked forever is served *)
(* and the decoder, the board's highest-priority task, gets to run.  An    *)
(* operator need not start the program again.                              *)
FairSpec ==
  /\ Spec
  /\ WF_vars(Tick)
  /\ WF_vars(Send /\ control # "exited")
  /\ WF_vars(Handler /\ Receive)
  /\ WF_vars(Decoder /\ Receive)

-----------------------------------------------------------------------------
(* The durations of the two programs fit each other when, with sleeps that *)
(* last up to OverSleep longer and stamps that come up to Latency late,    *)
(* every pulse and every gap still falls in the range meant for it, and    *)
(* two edges are too far apart to share an interrupt.                      *)
TimingFits ==
  LET early == Latency
      late == OverSleep + Latency
  IN  /\ Latency < dot_duration_us
      /\ dot_min_us <= dot_duration_us - early
      /\ dot_duration_us + late <= dot_max_us
      /\ dot_duration_us + late < dash_min_us
      /\ dash_min_us <= dash_duration_us - early
      /\ dash_duration_us + late <= dash_max_us
      /\ symbol_gap_us + late <= letter_gap_min_us
      /\ letter_gap_min_us < letter_gap_us - early
      /\ letter_gap_us + OverSleep + late <= word_gap_min_us
      /\ word_gap_min_us < word_gap_us - early
      /\ word_gap_us - letter_gap_us <= RepetitionGap
      /\ BufferSize > 5

\* No edge is on its way: everything the LED did has been decoded.
Quiet == ~pending /\ stamp = 0 /\ gpio_evt_queue = <<>>

(* While no event was lost and no duration overflowed, the letters printed *)
(* are the letters keyed, in the order they were keyed, each once, and the *)
(* separator after each fits the gap the sender left: the whole path from  *)
(* send_morse_char to printf, whatever the interleaving and the lateness.  *)
InOrder ==
  hurt = {} =>
    /\ Len(out) <= Len(sent)
    /\ \A k \in 1 .. Len(out) :
         /\ out[k].char = sent[k].char
         /\ k < Len(sent) => out[k].sep \in SeparatorFor(sent[k + 1].brk)

\* The letters on the screen, without the history.
display == [k \in 1 .. Len(out) |-> [char |-> out[k].char, sep |-> out[k].sep]]

Display == INSTANCE MorseDisplay WITH shown <- display

(* The abstract display's safety part: until an event is lost or a         *)
(* duration overflows, every step keys the next letter, shows the next     *)
(* letter whole and with its final separator, or changes neither; what has *)
(* been printed is never taken back, and no letter is shown before the gap *)
(* that decides its separator is over.                                     *)
ImplementsDisplay ==
  /\ Display!Init
  /\ [][hurt' = {} => Display!Next]_<<sent, display>>

(* A lost event or an overflowed duration spoils the letters next to it    *)
(* and no other: once everything is decoded, every letter that was not     *)
(* hurt, except the one still in the buffer, has been printed exactly once *)
(* and correctly, whatever happened to the letters before it.              *)
DamageIsLocal ==
  Quiet =>
    \A n \in (1 .. Len(sent) - 1) \ hurt :
      LET prints == {k \in DOMAIN out : out[k].of = n}
      IN  \E k \in prints : prints = {k} /\ out[k].char = sent[n].char

(* However late the handler runs, and whichever edges melt into one event, *)
(* the decoder ends up with the level the pin has: an edge between the     *)
(* driver's clearing of the pending bit and the handler's read of the pin  *)
(* is never lost.                                                          *)
LevelSettles ==
  Quiet /\ hurt = {} => (taken.level = 1 <=> light)

(* The queue is long enough for a decoder that stalls for as long as the   *)
(* sender needs for QueueLength edges, the handler's latency deducted.     *)
QueueSuffices ==
  DecoderLag < QueueLength * dot_duration_us - Latency => hurt = {}

\* How many letters the liveness properties follow.
Followed == 1 .. 4

(* Every letter that is followed by another is eventually printed.         *)
LettersArePrinted ==
  \A n \in Followed : Len(sent) > n ~> Len(out) >= n \/ hurt # {}

(* README: after one transmission of "hello ESP32" the receiver displays   *)
(* HELLO ESP32, the last letter included.                                  *)
MessageIsPrinted ==
  \A n \in Followed : Len(sent) >= n ~> Len(out) >= n \/ hurt # {}

(* Comment on word_gap_min_us: a gap of six units or more ends the word,   *)
(* so the letter before it is printed with a space.                        *)
LongGapsEndWords ==
  Quiet =>
    \A n \in 1 .. Len(sent) - 1 :
      sent[n + 1].brk = "word" => \E k \in DOMAIN out : out[k].of = n /\ out[k].sep = " "
=============================================================================

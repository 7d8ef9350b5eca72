----------------------------- MODULE IsrLinkInv -----------------------------
(***************************************************************************)
(* The inductive invariant behind IsrLink's InOrder.  The idea: an edge    *)
(* that is on its way (seen by the pin, stamped, queued) follows the one   *)
(* before it as the sender's program says, at a distance the program's     *)
(* sleeps, the handler's latency and nothing else decide; so the decoder   *)
(* finds each pulse and each gap in the range meant for it, and after each *)
(* event it holds exactly the symbols keyed so far of the current letter.  *)
(***************************************************************************)
EXTENDS IsrLink

Level == IF light THEN 1 ELSE 0
Code(n) == sent[n].code

-----------------------------------------------------------------------------
(* The sender's clock: how long ago the latest edge was, at pendingSince.  *)

\* The sleeps since the last letter ended, in the dark between two letters.
BetweenLetters ==
  /\ si = Len(Code(Len(sent)))
  /\ wake >= pendingSince + letter_gap_us
  /\ brk = "letter" =>
       /\ control \in {"gap", "next", "exited"}
       /\ wake <= pendingSince + letter_gap_us + OverSleep
  /\ brk = "word" => wake >= pendingSince + word_gap_us
  /\ control = "exited" => now >= wake

SenderClock ==
  /\ light <=> control = "on"
  /\ control # "exited" => now <= wake + OverSleep
  /\ control \in {"on", "off"} =>
       /\ sent # <<>>
       /\ ci <= Len(message) /\ IsLetter(message[ci])
       /\ Code(Len(sent)) = Morse
       /\ si \in 1 .. Len(Morse)
       /\ brk = "letter"
  /\ control = "on" => wake = pendingSince + Duration(Morse[si])
  /\ control = "off" => wake = pendingSince + symbol_gap_us
  /\ sent # <<>> /\ control \notin {"on", "off"} => BetweenLetters
  /\ sent = <<>> => brk # "letter"
  /\ \A n \in 1 .. Len(sent) :
       /\ Len(Code(n)) \in 1 .. 5
       /\ decode_morse(Code(n)) = sent[n].char

\* An interrupt is served before the next edge can come.
InterruptClock ==
  /\ pendingSince <= now
  /\ pending => stamp = 0 /\ now <= pendingSince + Latency
  /\ stamp # 0 => stamp = now /\ ~pending /\ now <= pendingSince + Latency
  /\ sent = <<>> => ~pending /\ stamp = 0

-----------------------------------------------------------------------------
(* The edges between the pin and the decoder.                              *)

\* An edge at this position of the message comes next after edge a, elapsed
\* later; it may be measured up to slack too long.
Follows(a, letter, element, level, elapsed, slack) ==
  \/ a = NoEvent /\ letter = 1 /\ element = 1 /\ level = 1
  \/ /\ a.level = 1 /\ level = 0
     /\ letter = a.letter /\ element = a.element
     /\ elapsed >= Duration(Code(letter)[element]) - Latency
     /\ elapsed <= Duration(Code(letter)[element]) + OverSleep + slack
  \/ /\ a.level = 0 /\ level = 1
     /\ letter = a.letter /\ element = a.element + 1
     /\ elapsed <= symbol_gap_us + OverSleep + slack
  \/ /\ a.level = 0 /\ level = 1
     /\ letter = a.letter + 1 /\ element = 1
     /\ a.letter > 0 /\ a.element = Len(Code(a.letter))
     /\ elapsed >= letter_gap_us - Latency
     /\ sent[letter].brk = "letter" =>
          elapsed <= letter_gap_us + 2 * OverSleep + slack
     /\ sent[letter].brk = "word" => elapsed >= word_gap_us - Latency

Keyed(event) ==
  /\ event.letter \in 1 .. Len(sent)
  /\ event.element \in 1 .. Len(Code(event.letter))

FollowsEvent(a, b) ==
  Follows(a, b.letter, b.element, b.level, b.timestamp_us - a.timestamp_us, Latency)

EventsInOrder ==
  /\ \A k \in 1 .. Len(gpio_evt_queue) : Keyed(gpio_evt_queue[k])
  /\ gpio_evt_queue # <<>> => FollowsEvent(taken, gpio_evt_queue[1])
  /\ \A k \in 1 .. Len(gpio_evt_queue) - 1 :
       FollowsEvent(gpio_evt_queue[k], gpio_evt_queue[k + 1])

\* The last edge that got as far as the queue.
Latest == IF gpio_evt_queue = <<>> THEN taken ELSE gpio_evt_queue[Len(gpio_evt_queue)]

Delivery ==
  /\ sent = <<>> => Latest = NoEvent
  /\ sent # <<>> /\ ~pending /\ stamp = 0 =>
       /\ Latest.letter = Len(sent) /\ Latest.element = si /\ Latest.level = Level
       /\ Latest.timestamp_us \in pendingSince .. pendingSince + Latency
  /\ pending =>
       Follows(Latest, Len(sent), si, Level, pendingSince - Latest.timestamp_us, 0)
  /\ stamp # 0 =>
       Follows(Latest, Len(sent), si, Level, stamp - Latest.timestamp_us, Latency)

-----------------------------------------------------------------------------
(* The decoder: what it holds and has printed after the event it took.     *)

Printed(k) ==
  /\ out[k].char = sent[k].char
  /\ out[k].sep \in SeparatorFor(sent[k + 1].brk)

DecoderInStep ==
  /\ taken = NoEvent => /\ morse_buffer = <<>> /\ out = <<>>
                        /\ last_rising_edge = 0 /\ last_falling_edge = 0
  /\ taken # NoEvent =>
       /\ Keyed(taken)
       /\ Len(out) = taken.letter - 1
       /\ taken.level = 1 => /\ last_rising_edge = taken.timestamp_us
                             /\ morse_buffer = SubSeq(Code(taken.letter), 1, taken.element - 1)
       /\ taken.level = 0 => /\ last_falling_edge = taken.timestamp_us
                             /\ morse_buffer = SubSeq(Code(taken.letter), 1, taken.element)
  /\ \A k \in 1 .. Len(out) : k < Len(sent) /\ Printed(k)

IInv ==
  /\ TypeOK
  /\ SenderClock
  /\ InterruptClock
  /\ hurt = {} => EventsInOrder /\ Delivery /\ DecoderInStep
=============================================================================

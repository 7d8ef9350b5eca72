---------------------------- MODULE IsrReceiver ----------------------------
(***************************************************************************)
(* The high-speed receiver, lab5_3/receiver/main/lab5_3.c: an interrupt on *)
(* both edges of the photodiode's pin stamps each edge and puts it in a    *)
(* queue, and a decoder task takes the edges out and prints letters.       *)
(*                                                                         *)
(* An edge sets the pin's pending bit.  The driver clears the bit before   *)
(* it calls the handler, and the handler first reads the clock (stamp) and *)
(* then the pin, so another edge can come between the two reads.           *)
(*                                                                         *)
(* History: an event carries the letter and element it was keyed for,      *)
(* taken is the event the decoder took last, of is the letter of the last  *)
(* symbol stored in the buffer, and hurt is the set of letters whose       *)
(* reception met a full queue or a duration that does not fit an int.      *)
(***************************************************************************)
EXTENDS MorseLine

CONSTANTS
  expected_dot_us, tol_us, \* configure_timing's dot duration and tolerance
  QueueLength,   \* xQueueCreate's first argument
  BufferSize,    \* sizeof(morse_buffer)
  IntRange,      \* number of values of an int
  Latency,       \* the longest an edge waits for its interrupt handler
  DecoderLag     \* the longest an event waits for the decoder task

ASSUME ReceiverAssumption ==
  /\ expected_dot_us \in Nat \ {0} /\ tol_us \in Nat
  /\ QueueLength \in Nat \ {0} /\ BufferSize \in Nat \ {0}
  /\ IntRange \in Nat \ {0}
  /\ Latency \in Nat /\ DecoderLag \in Nat

VARIABLES
  pending, pendingSince, \* the pin's interrupt status bit, and its edge's time
  stamp,                 \* the handler's event.timestamp_us; 0: not running
  gpio_evt_queue,
  morse_buffer,          \* the first morse_idx symbols of the buffer
  last_rising_edge, last_falling_edge,
  out,                   \* what has been printed
  taken, of, hurt

isrVars == <<pending, pendingSince, stamp>>
decoderVars ==
  <<morse_buffer, last_rising_edge, last_falling_edge, out, taken, of>>
receiverVars == <<isrVars, gpio_evt_queue, decoderVars, hurt>>

(* configure_timing: the thresholds. *)
dot_min_us == expected_dot_us - tol_us
dot_max_us == expected_dot_us + tol_us
dash_min_us == 3 * expected_dot_us - tol_us
dash_max_us == 3 * expected_dot_us + tol_us
TwiceTheGap == 4 * expected_dot_us \* mutant of letter_gap_min_us
letter_gap_min_us == 2 * expected_dot_us
SevenUnits == 7 * expected_dot_us \* mutant of word_gap_min_us
word_gap_min_us == 6 * expected_dot_us

Event == [timestamp_us : Nat \ {0}, level : {0, 1}, letter : Nat, element : Nat]
NoEvent == [timestamp_us |-> 0, level |-> 0, letter |-> 0, element |-> 0]
Shown == [char : Letters \cup {Unknown}, sep : Separator, of : Nat]

ReceiverTypeOK ==
  /\ pending \in BOOLEAN
  /\ pendingSince \in Nat /\ stamp \in Nat
  /\ gpio_evt_queue \in Seq(Event) /\ Len(gpio_evt_queue) <= QueueLength
  /\ morse_buffer \in Seq(Symbol) /\ Len(morse_buffer) < BufferSize
  /\ last_rising_edge \in Nat /\ last_falling_edge \in Nat
  /\ out \in Seq(Shown)
  /\ taken \in Event \cup {NoEvent} /\ of \in Nat
  /\ hurt \in SUBSET Int

ReceiverInit ==
  /\ pending = FALSE /\ pendingSince = 0 /\ stamp = 0
  /\ gpio_evt_queue = <<>>
  /\ morse_buffer = <<>>
  /\ last_rising_edge = 0 /\ last_falling_edge = 0
  /\ out = <<>>
  /\ taken = NoEvent /\ of = 0 /\ hurt = {}

-----------------------------------------------------------------------------
(* The interrupt                                                           *)

\* Mutant of DetectEdge: the interrupt type is GPIO_INTR_POSEDGE.
DetectRisingEdge ==
  /\ pending' = (pending \/ (light' /\ ~light))
  /\ pendingSince' = IF light' /\ ~light /\ ~pending THEN now ELSE pendingSince

\* The pin's edge detector, GPIO_INTR_ANYEDGE: it runs in every step of the sender.
DetectEdge ==
  /\ pending' = (pending \/ light' # light)
  /\ pendingSince' = IF light' # light /\ ~pending THEN now ELSE pendingSince

\* The driver clears the pending bit, the handler reads the clock.
HandlerReadsClock ==
  /\ pending /\ stamp = 0
  /\ pending' = FALSE
  /\ stamp' = now
  /\ UNCHANGED <<pendingSince, gpio_evt_queue, decoderVars, hurt>>

\* Two letters may suffer when the event that separates them is lost.
LettersAround(letter, element, level) ==
  IF level = 1 /\ element = 1 THEN {letter - 1, letter} ELSE {letter}

\* Mutant of xQueueSendFromISR: a queue one shorter.
OneShort(event) ==
  IF Len(gpio_evt_queue) < QueueLength - 1
  THEN gpio_evt_queue' = Append(gpio_evt_queue, event) /\ UNCHANGED hurt
  ELSE /\ hurt' = hurt \cup LettersAround(event.letter, event.element, event.level)
       /\ UNCHANGED gpio_evt_queue

\* Mutant of xQueueSendFromISR: the oldest event makes room.
Overwrites(event) ==
  IF Len(gpio_evt_queue) < QueueLength
  THEN gpio_evt_queue' = Append(gpio_evt_queue, event) /\ UNCHANGED hurt
  ELSE /\ hurt' = hurt \cup LettersAround(event.letter, event.element, event.level)
       /\ gpio_evt_queue' = Append(Tail(gpio_evt_queue), event)

\* A full queue loses the event, and the handler ignores that result.
xQueueSendFromISR(event) ==
  IF Len(gpio_evt_queue) < QueueLength
  THEN gpio_evt_queue' = Append(gpio_evt_queue, event) /\ UNCHANGED hurt
  ELSE /\ hurt' = hurt \cup LettersAround(event.letter, event.element, event.level)
       /\ UNCHANGED gpio_evt_queue

EventAt(time) ==
  [timestamp_us |-> time, level |-> IF light THEN 1 ELSE 0,
   letter |-> Len(sent), element |-> si]

\* The handler reads the pin and queues the event.
HandlerSends ==
  /\ stamp # 0
  /\ xQueueSendFromISR(EventAt(stamp))
  /\ stamp' = 0
  /\ UNCHANGED <<pending, pendingSince, decoderVars>>

-----------------------------------------------------------------------------
(* The decoder task                                                        *)

\* The conversion of an int64_t to an int.
ToInt(x) == ((x + IntRange \div 2) % IntRange) - IntRange \div 2

\* Mutant of PrintLetter: the symbols stay in the buffer.
PrintsAndKeeps(separator) ==
  /\ out' = Append(out, [char |-> decode_morse(morse_buffer), sep |-> separator, of |-> of])
  /\ UNCHANGED morse_buffer

PrintLetter(separator) ==
  /\ out' = Append(out, [char |-> decode_morse(morse_buffer), sep |-> separator, of |-> of])
  /\ morse_buffer' = <<>>

(* A rising edge ends a gap.  A long gap ends a letter, a longer one ends  *)
(* a word; nothing is printed while the buffer is empty.                   *)
TakeRisingEdge ==
  LET event == Head(gpio_evt_queue)
      elapsed == event.timestamp_us - last_falling_edge
      gap_us == ToInt(elapsed)
      ends == last_falling_edge > 0 /\ morse_buffer # <<>>
  IN  /\ gpio_evt_queue # <<>> /\ event.level = 1
      /\ gpio_evt_queue' = Tail(gpio_evt_queue) /\ taken' = event
      /\ last_rising_edge' = event.timestamp_us
      /\ IF ends /\ gap_us > letter_gap_min_us
         THEN PrintLetter(IF gap_us > word_gap_min_us THEN " " ELSE "")
         ELSE UNCHANGED <<morse_buffer, out>>
      /\ hurt' = IF last_falling_edge > 0 /\ gap_us # elapsed
                 THEN hurt \cup LettersAround(event.letter, event.element, 1)
                 ELSE hurt
      /\ UNCHANGED <<isrVars, last_falling_edge, of>>

(* The two accepted ranges; anything else is logged and dropped. *)
SymbolsOf(pulse_us) ==
  IF dash_min_us <= pulse_us /\ pulse_us <= dash_max_us THEN <<Dash>>
  ELSE IF dot_min_us <= pulse_us /\ pulse_us <= dot_max_us THEN <<Dot>>
  ELSE <<>>

\* Mutant of Stored: no look at the room in the buffer.
StoredAnyway(pulse_us) == SymbolsOf(pulse_us)

\* A symbol is stored while the buffer has room for it and a final '\0'.
Stored(pulse_us) ==
  IF Len(morse_buffer) < BufferSize - 1 THEN SymbolsOf(pulse_us) ELSE <<>>

(* A falling edge ends a pulse. *)
TakeFallingEdge ==
  LET event == Head(gpio_evt_queue)
      elapsed == event.timestamp_us - last_rising_edge
      pulse_us == ToInt(elapsed)
      stored == IF last_rising_edge > 0 THEN Stored(pulse_us) ELSE <<>>
  IN  /\ gpio_evt_queue # <<>> /\ event.level = 0
      /\ gpio_evt_queue' = Tail(gpio_evt_queue) /\ taken' = event
      /\ last_falling_edge' = event.timestamp_us
      /\ morse_buffer' = morse_buffer \o stored
      /\ of' = IF stored = <<>> THEN of ELSE event.letter
      /\ hurt' = IF last_rising_edge > 0 /\ pulse_us # elapsed
                 THEN hurt \cup {event.letter} ELSE hurt
      /\ UNCHANGED <<isrVars, last_rising_edge, out>>

Handler == HandlerReadsClock \/ HandlerSends
Decoder == TakeRisingEdge \/ TakeFallingEdge

ReceiverNext == (Handler \/ Decoder) /\ UNCHANGED <<now, light, sent, si>>

\* Time may pass while neither interrupt nor decoder is overdue; the handler's
\* two reads are a few instructions apart and take no time.
ReceiverMayWait ==
  /\ stamp = 0
  /\ pending => now < pendingSince + Latency
  /\ gpio_evt_queue # <<>> => now < Head(gpio_evt_queue).timestamp_us + DecoderLag
=============================================================================

--------------------------- MODULE IsrLink_proofs ---------------------------
(***************************************************************************)
(* Theorems about the interrupt-driven link, for every message, queue      *)
(* length and choice of durations.  Its variables keep their types         *)
(* whatever the timing; and IInv of IsrLinkInv is inductive when the       *)
(* durations fit, so what the receiver prints is what the sender keyed,    *)
(* for every number of launches and interleaving.                          *)
(***************************************************************************)
EXTENDS IsrLinkInv, MorseSender_proofs

USE SenderAssumption, ReceiverAssumption

-----------------------------------------------------------------------------
(* Type correctness                                                        *)

LEMMA SendType ==
  ASSUME TypeOK, Send
  PROVE  TypeOK'
<1>1. LineTypeOK' /\ SenderTypeOK'
  BY SenderType DEF Send, TypeOK
<1>2. pending' \in BOOLEAN /\ pendingSince' \in Nat
  BY DEF Send, DetectEdge, TypeOK, LineTypeOK, ReceiverTypeOK
<1>3. ReceiverTypeOK'
  BY <1>2 DEF Send, TypeOK, ReceiverTypeOK, decoderVars
<1> QED
  BY <1>1, <1>3 DEF TypeOK

LEMMA EventType ==
  ASSUME TypeOK, gpio_evt_queue # <<>>
  PROVE  /\ Head(gpio_evt_queue) \in Event
         /\ Tail(gpio_evt_queue) \in Seq(Event)
         /\ Len(Tail(gpio_evt_queue)) = Len(gpio_evt_queue) - 1
BY DEF TypeOK, ReceiverTypeOK

LEMMA SymbolsType ==
  ASSUME NEW pulse
  PROVE  SymbolsOf(pulse) \in Seq(Symbol) /\ Len(SymbolsOf(pulse)) <= 1
<1>1. <<Dash>> \in Seq(Symbol) /\ <<Dot>> \in Seq(Symbol) /\ <<>> \in Seq(Symbol)
  BY DEF Symbol
<1> QED
  BY <1>1 DEF SymbolsOf

LEMMA LettersType ==
  ASSUME NEW letter \in Nat, NEW element, NEW level
  PROVE  LettersAround(letter, element, level) \in SUBSET Int
BY DEF LettersAround

LEMMA ReceiveType ==
  ASSUME TypeOK, Receive
  PROVE  TypeOK'
<1>1. LineTypeOK' /\ SenderTypeOK'
  BY DEF Receive, ReceiverNext, senderVars, TypeOK, LineTypeOK, SenderTypeOK
<1>2. CASE HandlerReadsClock
  <2>1. pending' \in BOOLEAN
    BY <1>2 DEF HandlerReadsClock
  <2> QED
    BY <1>1, <1>2, <2>1 DEF HandlerReadsClock, decoderVars, TypeOK, LineTypeOK, ReceiverTypeOK
<1>3. CASE HandlerSends
  <2> DEFINE event == EventAt(stamp)
  <2>1. event \in Event
    BY <1>3 DEF HandlerSends, EventAt, Event, TypeOK, LineTypeOK, ReceiverTypeOK
  <2>2. gpio_evt_queue' \in Seq(Event) /\ Len(gpio_evt_queue') <= QueueLength
    <3>1. CASE Len(gpio_evt_queue) < QueueLength
      <4>1. gpio_evt_queue' = Append(gpio_evt_queue, event)
        BY <1>3, <3>1 DEF HandlerSends, xQueueSendFromISR
      <4> HIDE DEF event
      <4> QED
        BY <2>1, <3>1, <4>1 DEF TypeOK, ReceiverTypeOK
    <3>2. CASE ~ (Len(gpio_evt_queue) < QueueLength)
      BY <1>3, <3>2 DEF HandlerSends, xQueueSendFromISR, TypeOK, ReceiverTypeOK
    <3> QED
      BY <3>1, <3>2
  <2>3. hurt' \in SUBSET Int
    <3>1. event.letter \in Nat
      BY <2>1 DEF Event
    <3> QED
      BY <1>3, <3>1, LettersType DEF HandlerSends, xQueueSendFromISR, TypeOK, ReceiverTypeOK
  <2> QED
    BY <1>1, <1>3, <2>2, <2>3 DEF HandlerSends, decoderVars, TypeOK, ReceiverTypeOK
<1>4. CASE TakeRisingEdge
  <2> DEFINE event == Head(gpio_evt_queue)
  <2>1. event \in Event /\ event.timestamp_us \in Nat /\ event.letter \in Nat
    BY <1>4, EventType DEF TakeRisingEdge, Event
  <2>2. gpio_evt_queue' \in Seq(Event) /\ Len(gpio_evt_queue') <= QueueLength
    <3>1. gpio_evt_queue # <<>> /\ gpio_evt_queue' = Tail(gpio_evt_queue)
      BY <1>4 DEF TakeRisingEdge
    <3> QED
      BY <3>1, EventType DEF TypeOK, ReceiverTypeOK
  <2>3. \A separator \in Separator :
          PrintLetter(separator) => out' \in Seq(Shown)
    BY DecodeType DEF PrintLetter, Shown, TypeOK, ReceiverTypeOK
  <2>4. out' \in Seq(Shown)
    BY <1>4, <2>3 DEF TakeRisingEdge, Separator, TypeOK, ReceiverTypeOK
  <2>5. morse_buffer' \in Seq(Symbol) /\ Len(morse_buffer') < BufferSize
    <3>1. morse_buffer' = morse_buffer \/ morse_buffer' = <<>>
      BY <1>4 DEF TakeRisingEdge, PrintLetter
    <3>2. <<>> \in Seq(Symbol) /\ Len(<<>>) = 0
      BY EmptySeq
    <3>3. morse_buffer \in Seq(Symbol) /\ Len(morse_buffer) < BufferSize
      BY DEF TypeOK, ReceiverTypeOK
    <3>4. CASE morse_buffer' = morse_buffer
      BY <3>3, <3>4
    <3>5. CASE morse_buffer' = <<>>
      BY <3>2, <3>5
    <3> QED
      BY <3>1, <3>4, <3>5
  <2>6. hurt' \in SUBSET Int
    BY <1>4, <2>1, LettersType DEF TakeRisingEdge, TypeOK, ReceiverTypeOK
  <2> QED
    BY <1>1, <1>4, <2>1, <2>2, <2>4, <2>5, <2>6
       DEF TakeRisingEdge, isrVars, TypeOK, ReceiverTypeOK
<1>5. CASE TakeFallingEdge
  <2> DEFINE event == Head(gpio_evt_queue)
             stored == IF last_rising_edge > 0
                       THEN Stored(ToInt(event.timestamp_us - last_rising_edge))
                       ELSE <<>>
  <2>1. event \in Event /\ event.timestamp_us \in Nat /\ event.letter \in Nat
    BY <1>5, EventType DEF TakeFallingEdge, Event
  <2>2. gpio_evt_queue' \in Seq(Event) /\ Len(gpio_evt_queue') <= QueueLength
    <3>1. gpio_evt_queue # <<>> /\ gpio_evt_queue' = Tail(gpio_evt_queue)
      BY <1>5 DEF TakeFallingEdge
    <3> QED
      BY <3>1, EventType DEF TypeOK, ReceiverTypeOK
  <2>3. /\ stored \in Seq(Symbol)
        /\ Len(morse_buffer) + Len(stored) < BufferSize
    BY SymbolsType DEF Stored, TypeOK, ReceiverTypeOK
  <2>4. morse_buffer' = morse_buffer \o stored
    BY <1>5 DEF TakeFallingEdge
  <2>5. morse_buffer' \in Seq(Symbol) /\ Len(morse_buffer') < BufferSize
    <3> HIDE DEF stored
    <3> QED
      BY <2>3, <2>4 DEF TypeOK, ReceiverTypeOK
  <2>6. of' \in Nat /\ hurt' \in SUBSET Int
    <3>1. /\ of' \in {of, event.letter}
          /\ hurt' \in {hurt, hurt \cup {event.letter}}
      BY <1>5 DEF TakeFallingEdge
    <3> QED
      BY <2>1, <3>1 DEF TypeOK, ReceiverTypeOK
  <2> QED
    BY <1>1, <1>5, <2>1, <2>2, <2>5, <2>6
       DEF TakeFallingEdge, isrVars, TypeOK, ReceiverTypeOK
<1> QED
  BY <1>2, <1>3, <1>4, <1>5 DEF Receive, ReceiverNext, Handler, Decoder

LEMMA TypeInit == Init => TypeOK
<1>1. Init => light \in BOOLEAN /\ pending \in BOOLEAN
  BY DEF Init, LineInit, ReceiverInit
<1> QED
  BY <1>1 DEF Init, LineInit, SenderInit, ReceiverInit, TypeOK, LineTypeOK, SenderTypeOK,
       ReceiverTypeOK, Break

LEMMA TypeStep ==
  ASSUME TypeOK, [Next]_vars
  PROVE  TypeOK'
<1>1. CASE Send
  BY <1>1, SendType
<1>2. CASE Receive
  BY <1>2, ReceiveType
<1>3. CASE Tick
  BY <1>3 DEF Tick, senderVars, receiverVars, isrVars, decoderVars, TypeOK,
              LineTypeOK, SenderTypeOK, ReceiverTypeOK
<1>4. CASE UNCHANGED vars
  BY <1>4 DEF vars, lineVars, senderVars, receiverVars, isrVars, decoderVars, TypeOK,
              LineTypeOK, SenderTypeOK, ReceiverTypeOK
<1> QED
  BY <1>1, <1>2, <1>3, <1>4 DEF Next

(* The values of every variable stay in their sets; in particular the      *)
(* queue and the symbol buffer never hold more than they have room for,    *)
(* whatever the timing.                                                    *)
THEOREM TypeCorrect == Spec => []TypeOK
BY TypeInit, TypeStep, PTL DEF Spec

-----------------------------------------------------------------------------
(* The clocks                                                              *)

LEMMA Numbers ==
  ASSUME TypeOK
  PROVE  /\ now \in Nat /\ wake \in Nat /\ pendingSince \in Nat /\ stamp \in Nat
         /\ light \in BOOLEAN /\ pending \in BOOLEAN
         /\ sent \in Seq(SentLetter) /\ si \in Nat
BY DEF TypeOK, LineTypeOK, SenderTypeOK, ReceiverTypeOK

\* What the detector does when the light stays as it is, and when it changes.
LEMMA NoEdge ==
  ASSUME Send, light' = light, TypeOK
  PROVE  pending' = pending /\ pendingSince' = pendingSince
BY DEF Send, DetectEdge, TypeOK, ReceiverTypeOK

LEMMA Edge ==
  ASSUME Send, light' # light, ~pending
  PROVE  pending' /\ pendingSince' = now
BY DEF Send, DetectEdge

\* By the time the sender moves the LED again the handler has been served.
LEMMA Served ==
  ASSUME TypeOK, TimingFits, InterruptClock,
         now >= pendingSince + dot_duration_us
  PROVE  ~pending /\ stamp = 0
<1>1. Latency < dot_duration_us
  BY DEF TimingFits
<1>2. ~pending
  BY <1>1, Numbers DEF InterruptClock
<1>3. stamp = 0
  BY <1>1, Numbers DEF InterruptClock
<1> QED
  BY <1>2, <1>3

\* How long the sender has slept since the latest edge when it wakes up.
LEMMA WakeUp ==
  ASSUME TypeOK, TimingFits, SenderClock, Awake, sent # <<>>
  PROVE  now >= pendingSince + dot_duration_us
<1>1. CASE control = "on"
  <2>1. wake = pendingSince + Duration(Morse[si])
    BY <1>1 DEF SenderClock
  <2> QED
    BY <2>1, DurationType, Numbers DEF Awake
<1>2. CASE control = "off"
  BY <1>2, Numbers DEF SenderClock, Awake, symbol_gap_us
<1>3. CASE control \notin {"on", "off"}
  <2>1. wake >= pendingSince + letter_gap_us
    BY <1>3 DEF SenderClock, BetweenLetters
  <2> QED
    BY <2>1, Numbers DEF Awake, letter_gap_us
<1> QED
  BY <1>1, <1>2, <1>3

LEMMA WakeUpServed ==
  ASSUME TypeOK, TimingFits, SenderClock, InterruptClock, Awake
  PROVE  ~pending /\ stamp = 0
BY WakeUp, Served DEF InterruptClock

\* The steps of the sender that leave the light alone.
LEMMA DarkStep ==
  ASSUME TypeOK, SenderClock, Send, ~ StartLetter, ~ EndSymbol, ~ StartSymbol
  PROVE  light' = light /\ sent' = sent /\ si' = si /\ now' = now
<1>1. CASE Launch \/ Exit
  <2>1. control # "on" /\ light' = FALSE
    BY <1>1 DEF Launch, Exit
  <2>2. light = FALSE
    BY <2>1, Numbers DEF SenderClock
  <2> QED
    BY <1>1, <2>1, <2>2 DEF Launch, Exit, Send, SenderNext
<1>3. CASE LaunchFails \/ SkipCharacter \/ SendSpace \/ EndLetter \/ NextCharacter
           \/ Repeat \/ NextRepetition
  BY <1>3 DEF LaunchFails, SkipCharacter, SendSpace, EndLetter, NextCharacter, Repeat,
              NextRepetition, Send, SenderNext
<1> QED
  BY <1>1, <1>3 DEF Send, SenderNext, SenderRuns

\* What such a step has to establish.
LEMMA DarkClock ==
  ASSUME TypeOK, SenderClock, InterruptClock, Send,
         ~ StartLetter, ~ EndSymbol, ~ StartSymbol,
         control' \notin {"on", "off"},
         control' # "exited" => now <= wake' + OverSleep,
         sent # <<>> => BetweenLetters',
         sent = <<>> => brk' # "letter"
  PROVE  SenderClock' /\ InterruptClock'
<1> USE DarkStep, NoEdge
<1>1. stamp' = stamp
  BY DEF Send
<1>2. InterruptClock'
  BY <1>1 DEF InterruptClock
<1>3. (light <=> control = "on")'
  <2>1. light' = FALSE \/ UNCHANGED <<light, control>>
    BY DEF Send, SenderNext, SenderRuns, Launch, LaunchFails, SkipCharacter, SendSpace,
           EndLetter, NextCharacter, Repeat, NextRepetition, Exit, SenderClock
  <2> QED
    BY <2>1, Numbers DEF SenderClock
<1>4. (\A n \in 1 .. Len(sent) : /\ Len(Code(n)) \in 1 .. 5
                                /\ decode_morse(Code(n)) = sent[n].char)'
  BY DEF SenderClock, Code
<1> QED
  BY <1>2, <1>3, <1>4 DEF SenderClock

LEMMA LaunchClock ==
  ASSUME TypeOK, SenderClock, InterruptClock, Send, Launch
  PROVE  SenderClock' /\ InterruptClock'
<1>1. sent # <<>> => BetweenLetters'
  <2> SUFFICES ASSUME sent # <<>> PROVE BetweenLetters'
    OBVIOUS
  <2>1. BetweenLetters /\ control = "exited"
    BY DEF SenderClock, Launch
  <2>2. pendingSince' = pendingSince /\ UNCHANGED <<si, sent, now>>
    BY DarkStep, NoEdge DEF Launch, StartLetter, EndSymbol, StartSymbol
  <2> QED
    BY <2>1, <2>2, Numbers, SMTT(30) DEF BetweenLetters, Launch, Code, letter_gap_us, word_gap_us
<1>2. control' = "next" /\ now <= wake' + OverSleep
  BY Numbers DEF Launch
<1>3. brk' # "letter"
  BY DEF Launch
<1>4. ~ StartLetter /\ ~ EndSymbol /\ ~ StartSymbol
  BY DEF Launch, StartLetter, EndSymbol, StartSymbol
<1> QED
  BY <1>1, <1>2, <1>3, <1>4, DarkClock

\* The steps that end or extend the dark between two letters, all but Launch.
DarkActions ==
  LaunchFails \/ SkipCharacter \/ SendSpace \/ EndLetter \/ NextCharacter
    \/ Repeat \/ NextRepetition \/ Exit

LEMMA DarkActionsClock ==
  ASSUME TypeOK, TimingFits, SenderClock, InterruptClock, Send, DarkActions
  PROVE  SenderClock' /\ InterruptClock'
<1>1. ~ StartLetter /\ ~ EndSymbol /\ ~ StartSymbol /\ control' \notin {"on", "off"}
  BY DEF DarkActions, LaunchFails, SkipCharacter, SendSpace, EndLetter, NextCharacter,
         Repeat, NextRepetition, Exit, StartLetter, EndSymbol, StartSymbol
<1>2. UNCHANGED <<light, sent, si, now, pending, pendingSince>>
  BY <1>1, DarkStep, NoEdge
<1>3. control' # "exited" => now <= wake' + OverSleep
  <2>1. CASE wake' = wake
    <3>1. control' # "exited" => control # "exited"
      BY <2>1 DEF DarkActions, LaunchFails, SkipCharacter, SendSpace, EndLetter,
                  NextCharacter, Repeat, NextRepetition, Exit
    <3> QED
      BY <2>1, <3>1 DEF SenderClock
  <2>2. CASE SendSpace \/ EndLetter \/ Repeat
    <3>1. wake' >= now
      BY <2>2, Numbers DEF SendSpace, EndLetter, Repeat, Sleep, word_gap_us, letter_gap_us,
                           symbol_gap_us
    <3>2. wake' \in Nat
      BY SendType DEF TypeOK, SenderTypeOK
    <3> QED
      BY <3>1, <3>2, Numbers
  <2> QED
    BY <2>1, <2>2 DEF DarkActions, LaunchFails, SkipCharacter, NextCharacter,
                      NextRepetition, Exit
<1>4. sent # <<>> => BetweenLetters'
  <2> SUFFICES ASSUME sent # <<>> PROVE BetweenLetters'
    OBVIOUS
  <2>1. CASE EndLetter
    <3>1. /\ control = "off" /\ now >= wake /\ si = Len(Morse)
          /\ control' = "gap" /\ wake' = now + 2 * dot_duration_us /\ brk' = brk
      BY <2>1 DEF EndLetter, Awake, Sleep, letter_gap_us, symbol_gap_us
    <3>2. /\ wake = pendingSince + dot_duration_us /\ now <= wake + OverSleep
          /\ brk = "letter" /\ Code(Len(sent)) = Morse
      BY <3>1 DEF SenderClock, symbol_gap_us
    <3> QED
      BY <1>2, <3>1, <3>2, Numbers, SMTT(60) DEF BetweenLetters, Code, letter_gap_us, word_gap_us
  <2>2. CASE ~ EndLetter
    <3>1. control \notin {"on", "off"}
      BY <2>2 DEF DarkActions, LaunchFails, SkipCharacter, SendSpace, NextCharacter,
                  Repeat, NextRepetition, Exit
    <3>2. BetweenLetters
      BY <3>1 DEF SenderClock
    <3>3. CASE LaunchFails \/ SkipCharacter \/ NextCharacter \/ NextRepetition \/ Exit
      BY <1>2, <3>2, <3>3, Numbers
         DEF LaunchFails, SkipCharacter, NextCharacter, NextRepetition, Exit,
             BetweenLetters, Awake, Code, letter_gap_us, word_gap_us
    <3>4. CASE SendSpace \/ Repeat
      <4>1. /\ now >= wake /\ wake' >= now + 4 * dot_duration_us /\ brk' = "word"
            /\ control' # "exited"
        BY <3>4 DEF SendSpace, Repeat, Awake, Sleep, TimingFits, letter_gap_us, word_gap_us,
                    TypeOK, LineTypeOK
      <4>2. wake' \in Nat
        BY SendType DEF TypeOK, SenderTypeOK
      <4> QED
        BY <1>2, <3>2, <4>1, <4>2, Numbers, SMTT(30) DEF BetweenLetters, Code, letter_gap_us, word_gap_us
    <3> QED
      BY <2>2, <3>3, <3>4 DEF DarkActions
  <2> QED
    BY <2>1, <2>2
<1>5. sent = <<>> => brk' # "letter"
  BY DEF DarkActions, LaunchFails, SkipCharacter, SendSpace, EndLetter, NextCharacter,
         Repeat, NextRepetition, Exit, SenderClock
<1> QED
  BY <1>1, <1>3, <1>4, <1>5, DarkClock

\* The three steps that move the LED.
LEMMA EdgeClock ==
  ASSUME TypeOK, TimingFits, SenderClock, InterruptClock, Send,
         Awake, light' # light, sent' # <<>>
  PROVE  /\ pending' = TRUE /\ pendingSince' = now /\ now' = now /\ stamp' = stamp
         /\ ~pending /\ stamp = 0
         /\ InterruptClock'
<1>1. ~pending /\ stamp = 0
  BY WakeUpServed
<1>2. pending' /\ pendingSince' = now
  BY <1>1, Edge
<1>3. now' = now /\ stamp' = stamp
  BY DEF Send, SenderNext
<1>4. pending' = TRUE
  BY <1>2, SendType DEF TypeOK, ReceiverTypeOK
<1>5. InterruptClock'
  BY <1>1, <1>2, <1>3, Numbers DEF InterruptClock
<1> QED
  BY <1>1, <1>2, <1>3, <1>4, <1>5

\* The letter a StartLetter appends is well formed and decodes to itself.
LEMMA NewLetter ==
  ASSUME TypeOK, SenderClock, StartLetter
  PROVE  /\ Len(sent') = Len(sent) + 1
         /\ \A n \in 1 .. Len(sent) : sent'[n] = sent[n]
         /\ sent'[Len(sent')] = [char |-> toupper(message[ci]), code |-> Morse, brk |-> brk]
         /\ Len(Morse) \in 1 .. 5
         /\ \A n \in 1 .. Len(sent') : /\ Len(sent'[n].code) \in 1 .. 5
                                      /\ decode_morse(sent'[n].code) = sent'[n].char
<1>1. \A n \in 1 .. Len(sent) : /\ Len(sent[n].code) \in 1 .. 5
                               /\ decode_morse(sent[n].code) = sent[n].char
  BY DEF SenderClock, Code
<1> QED
  BY <1>1, KeyedLetter DEF TypeOK

LEMMA StartLetterClock ==
  ASSUME TypeOK, TimingFits, SenderClock, InterruptClock, Send, StartLetter
  PROVE  SenderClock' /\ InterruptClock'
<1>1. light = FALSE /\ light' = TRUE /\ Awake /\ control' = "on" /\ sent' # <<>>
  <2>1. sent' # <<>>
    BY NewLetter, Numbers
  <2> QED
    BY <2>1, Numbers DEF StartLetter, SenderClock
<1>2. /\ pendingSince' = now /\ now' = now /\ InterruptClock'
  BY <1>1, EdgeClock
<1>3. /\ command' = command /\ ci' = ci /\ si' = 1 /\ Morse' = Morse /\ message' = message
      /\ ci <= Len(message) /\ IsLetter(message[ci])
      /\ wake' = now + Duration(Morse[1]) /\ brk' = "letter"
  BY DEF StartLetter, Morse, message, Sleep
<1>4. sent'[Len(sent')].code = Morse
  BY NewLetter
<1>5. now <= wake' + OverSleep
  BY <1>3, DurationType, Numbers
<1> QED
  BY <1>1, <1>2, <1>3, <1>4, <1>5, NewLetter DEF SenderClock, Code

LEMMA StartSymbolClock ==
  ASSUME TypeOK, TimingFits, SenderClock, InterruptClock, Send, StartSymbol
  PROVE  SenderClock' /\ InterruptClock'
<1>1. /\ light = FALSE /\ light' = TRUE /\ Awake /\ control' = "on" /\ control = "off"
      /\ sent' = sent /\ sent # <<>>
  BY Numbers DEF StartSymbol, SenderClock
<1>2. /\ pendingSince' = now /\ now' = now /\ InterruptClock'
  BY <1>1, EdgeClock
<1>3. /\ command' = command /\ ci' = ci /\ si' = si + 1 /\ si < Len(Morse)
      /\ Morse' = Morse /\ message' = message /\ brk' = brk
      /\ wake' = now + Duration(Morse[si + 1])
  BY DEF StartSymbol, Morse, message, Sleep
<1>4. now <= wake' + OverSleep
  BY <1>3, DurationType, Numbers, SMTT(30)
<1>5. si' \in 1 .. Len(Morse)
  BY <1>1, <1>3, Numbers, SMTT(30) DEF SenderClock
<1> QED
  BY <1>1, <1>2, <1>3, <1>4, <1>5 DEF SenderClock, Code

LEMMA EndSymbolClock ==
  ASSUME TypeOK, TimingFits, SenderClock, InterruptClock, Send, EndSymbol
  PROVE  SenderClock' /\ InterruptClock'
<1>1. /\ light = TRUE /\ light' = FALSE /\ Awake /\ control' = "off" /\ control = "on"
      /\ sent' = sent /\ sent # <<>>
  BY Numbers DEF EndSymbol, SenderClock
<1>2. /\ pendingSince' = now /\ now' = now /\ InterruptClock'
  BY <1>1, EdgeClock
<1>3. /\ command' = command /\ ci' = ci /\ si' = si
      /\ Morse' = Morse /\ message' = message /\ brk' = brk
      /\ wake' = now + symbol_gap_us
  BY DEF EndSymbol, Morse, message, Sleep
<1>4. now <= wake' + OverSleep
  BY <1>3, Numbers DEF symbol_gap_us
<1> QED
  BY <1>1, <1>2, <1>3, <1>4 DEF SenderClock, Code, symbol_gap_us

LEMMA SendClock ==
  ASSUME TypeOK, TimingFits, SenderClock, InterruptClock, Send
  PROVE  SenderClock' /\ InterruptClock'
BY LaunchClock, DarkActionsClock, StartLetterClock, StartSymbolClock, EndSymbolClock
   DEF Send, SenderNext, SenderRuns, DarkActions

LEMMA TickClock ==
  ASSUME TypeOK, SenderClock, InterruptClock, Tick
  PROVE  SenderClock' /\ InterruptClock'
<1>1. UNCHANGED <<light, sent, si, control, command, ci, wake, brk, pending, pendingSince, stamp>>
  BY DEF Tick, senderVars, receiverVars, isrVars
<1>2. /\ now' = now + 1 /\ stamp = 0
      /\ control # "exited" => now < wake + OverSleep
      /\ pending => now < pendingSince + Latency
  BY DEF Tick, SenderMayWait, ReceiverMayWait
<1>3. InterruptClock'
  <2>1. (pendingSince <= now)'
    BY <1>1, <1>2, Numbers DEF InterruptClock
  <2>2. (pending => stamp = 0 /\ now <= pendingSince + Latency)'
    BY <1>1, <1>2, Numbers DEF InterruptClock
  <2>3. (sent = <<>> => ~pending /\ stamp = 0)'
    BY <1>1, <1>2 DEF InterruptClock
  <2> QED
    BY <1>1, <1>2, <2>1, <2>2, <2>3 DEF InterruptClock
<1>4. (control # "exited" => now <= wake + OverSleep)'
  BY <1>1, <1>2, Numbers
<1>5. BetweenLetters => BetweenLetters'
  BY <1>1, <1>2, Numbers DEF BetweenLetters, Code
<1> QED
  BY <1>1, <1>3, <1>4, <1>5 DEF SenderClock, Code, Morse, message

LEMMA ReceiveClock ==
  ASSUME TypeOK, SenderClock, InterruptClock, Receive
  PROVE  SenderClock' /\ InterruptClock'
<1>1. UNCHANGED <<now, light, sent, si, control, command, ci, wake, brk, pendingSince>>
  BY DEF Receive, ReceiverNext, senderVars, Handler, Decoder, HandlerReadsClock, HandlerSends,
         TakeRisingEdge, TakeFallingEdge, isrVars
<1>2. InterruptClock'
  <2>1. CASE HandlerReadsClock
    <3>1. pending /\ ~pending' /\ stamp' = now
      BY <2>1 DEF HandlerReadsClock
    <3> QED
      BY <1>1, <3>1 DEF InterruptClock
  <2>2. CASE HandlerSends
    <3>1. stamp # 0 /\ stamp' = 0 /\ pending' = pending
      BY <2>2 DEF HandlerSends
    <3> QED
      BY <1>1, <3>1 DEF InterruptClock
  <2>3. CASE Decoder
    <3>1. stamp' = stamp /\ pending' = pending
      BY <2>3 DEF Decoder, TakeRisingEdge, TakeFallingEdge, isrVars
    <3> QED
      BY <1>1, <3>1 DEF InterruptClock
  <2> QED
    BY <2>1, <2>2, <2>3 DEF Receive, ReceiverNext, Handler
<1>3. SenderClock'
  BY <1>1 DEF SenderClock, BetweenLetters, Code, Morse, message
<1> QED
  BY <1>2, <1>3

-----------------------------------------------------------------------------
(* The edges                                                               *)

Messages == EventsInOrder /\ Delivery /\ DecoderInStep

LEMMA CodeType ==
  ASSUME TypeOK, NEW n \in 1 .. Len(sent)
  PROVE  sent[n] \in SentLetter /\ Code(n) \in Seq(Symbol)
<1>1. sent[n] \in SentLetter
  BY Numbers
<1> QED
  BY <1>1 DEF Code, SentLetter

LEMMA QueueType ==
  ASSUME TypeOK
  PROVE  /\ gpio_evt_queue \in Seq(Event)
         /\ taken \in Event \cup {NoEvent}
         /\ Latest \in Event \cup {NoEvent}
<1>1. gpio_evt_queue \in Seq(Event) /\ taken \in Event \cup {NoEvent}
  BY DEF TypeOK, ReceiverTypeOK
<1> QED
  BY <1>1 DEF Latest

LEMMA EventFields ==
  ASSUME NEW e \in Event \cup {NoEvent}
  PROVE  /\ e.timestamp_us \in Nat /\ e.level \in {0, 1}
         /\ e.letter \in Nat /\ e.element \in Nat
         /\ e # NoEvent => e.timestamp_us > 0
BY SMTT(30) DEF Event, NoEvent

LEMMA SameEvents ==
  ASSUME EventsInOrder, DecoderInStep, UNCHANGED <<sent, gpio_evt_queue, decoderVars>>
  PROVE  EventsInOrder' /\ DecoderInStep'
BY DEF EventsInOrder, DecoderInStep, Keyed, FollowsEvent, Follows, Code, Printed, decoderVars

\* What is on its way does not change when nothing it depends on does.
LEMMA SameMessages ==
  ASSUME Messages,
         UNCHANGED <<sent, si, light, pending, pendingSince, stamp, gpio_evt_queue,
                     decoderVars>>
  PROVE  Messages'
<1>1. EventsInOrder' /\ DecoderInStep'
  BY SameEvents DEF Messages
<1>2. Latest' = Latest /\ Level' = Level
  BY DEF Latest, Level, decoderVars
<1>3. Delivery'
  BY <1>2, ZenonT(30) DEF Delivery, Follows, Code, Messages
<1> QED
  BY <1>1, <1>3 DEF Messages

LEMMA DarkMessages ==
  ASSUME TypeOK, SenderClock, Messages, Send, ~ StartLetter, ~ EndSymbol, ~ StartSymbol
  PROVE  Messages'
BY DarkStep, NoEdge, SameMessages DEF Send

\* The latest edge got as far as the queue.
Settled ==
  /\ Latest.letter = Len(sent) /\ Latest.element = si /\ Latest.level = Level
  /\ Latest.timestamp_us \in pendingSince .. pendingSince + Latency

LEMMA SettledIs ==
  ASSUME TypeOK, Settled
  PROVE  /\ Latest.letter = Len(sent) /\ Latest.element = si /\ Latest.level = Level
         /\ Latest.timestamp_us \in Nat
         /\ pendingSince <= Latest.timestamp_us
         /\ Latest.timestamp_us <= pendingSince + Latency
<1>1. Latest.timestamp_us \in Nat
  BY QueueType, EventFields
<1>2. Latest.timestamp_us \in pendingSince .. pendingSince + Latency
  BY DEF Settled
<1> QED
  BY <1>1, <1>2, Numbers DEF Settled

\* An edge of a letter already begun sets the pending bit and nothing else.
LEMMA SymbolEdge ==
  ASSUME TypeOK, TimingFits, SenderClock, InterruptClock, Send, StartSymbol \/ EndSymbol
  PROVE  /\ light \in BOOLEAN /\ light' # light /\ light' \in BOOLEAN /\ Awake
         /\ sent' = sent /\ sent # <<>>
         /\ pending' = TRUE /\ pendingSince' = now /\ now' = now /\ stamp' = 0
         /\ ~pending /\ stamp = 0
         /\ UNCHANGED <<gpio_evt_queue, decoderVars, hurt>>
         /\ Latest' = Latest
<1>1. /\ light \in BOOLEAN /\ light' # light /\ light' \in BOOLEAN /\ Awake
      /\ sent' = sent /\ sent # <<>>
  BY Numbers DEF StartSymbol, EndSymbol, SenderClock
<1>2. /\ pending' = TRUE /\ pendingSince' = now /\ now' = now /\ stamp' = 0
      /\ ~pending /\ stamp = 0
  BY <1>1, EdgeClock
<1>3. UNCHANGED <<gpio_evt_queue, decoderVars, hurt>>
  BY DEF Send
<1>4. Latest' = Latest
  BY <1>3 DEF Latest, decoderVars
<1> QED
  BY <1>1, <1>2, <1>3, <1>4

\* It follows the latest event as the sender's sleeps say.
LEMMA SymbolFollows ==
  ASSUME TypeOK, TimingFits, SenderClock, InterruptClock, Send, StartSymbol \/ EndSymbol,
         Settled
  PROVE  Follows(Latest, Len(sent), si, Level, pendingSince - Latest.timestamp_us, 0)'
<1>1. /\ light \in BOOLEAN /\ light' # light /\ light' \in BOOLEAN /\ Awake
      /\ sent' = sent /\ sent # <<>>
  BY SymbolEdge
<1>2. /\ pending' = TRUE /\ pendingSince' = now /\ now' = now /\ stamp' = 0
      /\ ~pending /\ stamp = 0
  BY SymbolEdge
<1>5. Latest' = Latest
  BY SymbolEdge
<1>6. /\ Latest.letter = Len(sent) /\ Latest.element = si /\ Latest.level = Level
      /\ Latest.timestamp_us \in Nat
      /\ pendingSince <= Latest.timestamp_us
      /\ Latest.timestamp_us <= pendingSince + Latency
  BY SettledIs
<1>7. CASE EndSymbol
  <2>1. control = "on" /\ now >= wake /\ Level = 1 /\ Level' = 0 /\ si' = si
    BY <1>7 DEF EndSymbol, Awake, Level, SenderClock
  <2>2. /\ wake = pendingSince + Duration(Code(Len(sent))[si])
        /\ now <= wake + OverSleep
    BY <2>1 DEF SenderClock
  <2> DEFINE d == Duration(Code(Len(sent))[si])
  <2>3. /\ now - Latest.timestamp_us >= d - Latency
        /\ now - Latest.timestamp_us <= d + OverSleep + 0
    <3>1. d \in Nat /\ wake = pendingSince + d
      BY <2>2, DurationType
    <3> HIDE DEF d
    <3>2. now \in Nat /\ wake \in Nat /\ pendingSince \in Nat /\ OverSleep \in Nat
          /\ Latency \in Nat
      BY Numbers
    <3>3. /\ Latest.timestamp_us \in Nat /\ pendingSince <= Latest.timestamp_us
          /\ Latest.timestamp_us <= pendingSince + Latency
      BY <1>6
    <3>4. now >= wake /\ now <= wake + OverSleep
      BY <2>1, <2>2
    <3> QED
      BY ONLY <3>1, <3>2, <3>3, <3>4
  <2>4. d' = d
    BY <1>1, <2>1 DEF Code, Duration
  <2> HIDE DEF d
  <2>5. /\ Latest'.level = 1 /\ Level' = 0
        /\ Len(sent)' = Latest'.letter /\ si' = Latest'.element
        /\ (pendingSince - Latest.timestamp_us)' >= d' - Latency
        /\ (pendingSince - Latest.timestamp_us)' <= d' + OverSleep + 0
    BY <1>1, <1>2, <1>5, <1>6, <2>1, <2>3, <2>4
  <2> QED
    BY <2>5 DEF Follows, d
<1>8. CASE StartSymbol
  <2>1. /\ control = "off" /\ now >= wake /\ Level = 0 /\ Level' = 1 /\ si' = si + 1
    BY <1>8 DEF StartSymbol, Awake, Level, SenderClock
  <2>2. wake = pendingSince + symbol_gap_us /\ now <= wake + OverSleep
    BY <2>1 DEF SenderClock
  <2>3. now - Latest.timestamp_us <= symbol_gap_us + OverSleep + 0
    <3>1. now \in Nat /\ wake \in Nat /\ pendingSince \in Nat
      BY Numbers
    <3>2. symbol_gap_us \in Nat /\ OverSleep \in Nat
      BY DEF symbol_gap_us
    <3>3. Latest.timestamp_us \in Nat /\ pendingSince <= Latest.timestamp_us
      BY <1>6
    <3>4. wake = pendingSince + symbol_gap_us /\ now <= wake + OverSleep
      BY <2>2
    <3> QED
      BY ONLY <3>1, <3>2, <3>3, <3>4
  <2>4. /\ Latest'.level = 0 /\ Level' = 1
        /\ Len(sent)' = Latest'.letter /\ si' = Latest'.element + 1
        /\ (pendingSince - Latest.timestamp_us)' <= symbol_gap_us + OverSleep + 0
    BY <1>1, <1>2, <1>5, <1>6, <2>1, <2>3
  <2> QED
    BY <2>4 DEF Follows
<1> QED
  BY <1>7, <1>8

LEMMA SymbolMessages ==
  ASSUME TypeOK, TimingFits, SenderClock, InterruptClock, Messages, Send,
         StartSymbol \/ EndSymbol
  PROVE  Messages'
<1>1. EventsInOrder' /\ DecoderInStep'
  BY SymbolEdge, SameEvents DEF Messages
<1>2. Settled
  BY SymbolEdge DEF Messages, Delivery, Settled
<1>3. Delivery'
  BY <1>2, SymbolEdge, SymbolFollows DEF Delivery
<1> QED
  BY <1>1, <1>3 DEF Messages

\* A new letter does not disturb the order of what has been keyed before.
LEMMA OldLetters ==
  ASSUME \A n \in 1 .. Len(sent) : sent'[n] = sent[n],
         NEW a, NEW letter \in 1 .. Len(sent), NEW element, NEW level, NEW elapsed, NEW slack,
         a = NoEvent \/ a.letter \in 1 .. Len(sent),
         Follows(a, letter, element, level, elapsed, slack)
  PROVE  Follows(a, letter, element, level, elapsed, slack)'
<1>1. sent'[letter] = sent[letter]
  OBVIOUS
<1>2. a # NoEvent => sent'[a.letter] = sent[a.letter]
  OBVIOUS
<1>3. a = NoEvent => a.letter = 0 /\ a.level = 0
  BY DEF NoEvent
<1>4. Code(letter)' = Code(letter) /\ (a # NoEvent => Code(a.letter)' = Code(a.letter))
  BY <1>1, <1>2 DEF Code
<1>5. CASE a = NoEvent /\ letter = 1 /\ element = 1 /\ level = 1
  BY <1>5 DEF Follows
<1>6. CASE a # NoEvent
  BY <1>1, <1>4, <1>6 DEF Follows
<1>7. CASE a = NoEvent /\ ~ (letter = 1 /\ element = 1 /\ level = 1)
  BY <1>1, <1>3, <1>4, <1>7 DEF Follows
<1> QED
  BY <1>5, <1>6, <1>7

LEMMA OldKeyed ==
  ASSUME \A n \in 1 .. Len(sent) : sent'[n] = sent[n],
         Len(sent') = Len(sent) + 1, Len(sent) \in Nat,
         NEW e, Keyed(e)
  PROVE  Keyed(e)'
BY DEF Keyed, Code

\* The events in the queue and the last one taken are keyed edges.
LEMMA QueueKeyed ==
  ASSUME TypeOK, Messages
  PROVE  /\ taken = NoEvent \/ Keyed(taken)
         /\ Latest = NoEvent \/ Keyed(Latest)
         /\ \A k \in 1 .. Len(gpio_evt_queue) : Keyed(gpio_evt_queue[k])
<1>1. taken = NoEvent \/ Keyed(taken)
  BY DEF Messages, DecoderInStep
<1>2. \A k \in 1 .. Len(gpio_evt_queue) : Keyed(gpio_evt_queue[k])
  BY DEF Messages, EventsInOrder
<1>3. gpio_evt_queue # <<>> => Len(gpio_evt_queue) \in 1 .. Len(gpio_evt_queue)
  BY QueueType
<1> QED
  BY <1>1, <1>2, <1>3 DEF Latest

\* The first edge of a letter sets the pending bit and nothing else.
LEMMA LetterEdge ==
  ASSUME TypeOK, TimingFits, SenderClock, InterruptClock, Send, StartLetter
  PROVE  /\ light = FALSE /\ light' = TRUE /\ Awake /\ si' = 1 /\ sent' # <<>>
         /\ Level = 0 /\ Level' = 1 /\ control = "next"
         /\ pending' = TRUE /\ pendingSince' = now /\ now' = now /\ stamp' = 0
         /\ ~pending /\ stamp = 0
         /\ UNCHANGED <<gpio_evt_queue, decoderVars, taken, out, hurt>>
         /\ \A m \in 1 .. Len(sent) : sent'[m] = sent[m]
         /\ Len(sent') = Len(sent) + 1 /\ Len(sent) \in Nat /\ sent'[Len(sent) + 1].brk = brk
         /\ Latest' = Latest
<1>1. /\ light = FALSE /\ light' = TRUE /\ Awake /\ si' = 1 /\ sent' # <<>>
      /\ Level = 0 /\ Level' = 1 /\ control = "next"
  <2>1. sent' # <<>>
    BY NewLetter, Numbers
  <2> QED
    BY <2>1, Numbers DEF StartLetter, SenderClock, Level
<1>2. /\ pending' = TRUE /\ pendingSince' = now /\ now' = now /\ stamp' = 0
      /\ ~pending /\ stamp = 0
  BY <1>1, EdgeClock
<1>3. UNCHANGED <<gpio_evt_queue, decoderVars, taken, out, hurt>>
  BY DEF Send, decoderVars
<1>4. /\ \A m \in 1 .. Len(sent) : sent'[m] = sent[m]
      /\ Len(sent') = Len(sent) + 1 /\ Len(sent) \in Nat /\ sent'[Len(sent) + 1].brk = brk
  BY NewLetter, Numbers
<1>5. Latest' = Latest
  BY <1>3 DEF Latest
<1> QED
  BY <1>1, <1>2, <1>3, <1>4, <1>5

\* It follows the latest event, of the letter before, as the sender's sleeps say.
LEMMA LetterFollows ==
  ASSUME TypeOK, TimingFits, SenderClock, InterruptClock, Send, StartLetter, sent # <<>>,
         Settled
  PROVE  Follows(Latest, Len(sent), si, Level, pendingSince - Latest.timestamp_us, 0)'
<1> DEFINE n == Len(sent)
<1>1. /\ light = FALSE /\ light' = TRUE /\ Awake /\ si' = 1 /\ sent' # <<>>
      /\ Level = 0 /\ Level' = 1 /\ control = "next"
  BY LetterEdge
<1>2. /\ pending' = TRUE /\ pendingSince' = now /\ now' = now /\ stamp' = 0
      /\ ~pending /\ stamp = 0
  BY LetterEdge
<1>3. Latest' = Latest
  BY LetterEdge
<1>4. /\ \A m \in 1 .. n : sent'[m] = sent[m]
      /\ Len(sent') = n + 1 /\ n \in Nat /\ sent'[n + 1].brk = brk
  BY LetterEdge
<1>5. /\ Latest.letter = n /\ Latest.element = si /\ Latest.level = 0 /\ n > 0
      /\ Latest.timestamp_us \in Nat
      /\ pendingSince <= Latest.timestamp_us
      /\ Latest.timestamp_us <= pendingSince + Latency
  <2>1. n > 0
    BY Numbers
  <2> QED
    BY <1>1, <2>1, SettledIs
<1>6. BetweenLetters /\ now >= wake /\ now <= wake + OverSleep
  BY <1>1 DEF SenderClock, Awake
<1>7. /\ now - Latest.timestamp_us >= letter_gap_us - Latency
      /\ brk = "letter" =>
           now - Latest.timestamp_us <= letter_gap_us + 2 * OverSleep + 0
      /\ brk = "word" => now - Latest.timestamp_us >= word_gap_us - Latency
  <2>1. now \in Nat /\ wake \in Nat /\ pendingSince \in Nat /\ OverSleep \in Nat
        /\ Latency \in Nat /\ letter_gap_us \in Nat /\ word_gap_us \in Nat
    BY Numbers DEF letter_gap_us, word_gap_us
  <2>2. /\ wake >= pendingSince + letter_gap_us
        /\ brk = "letter" => wake <= pendingSince + letter_gap_us + OverSleep
        /\ brk = "word" => wake >= pendingSince + word_gap_us
    BY <1>6 DEF BetweenLetters
  <2>3. /\ Latest.timestamp_us \in Nat /\ pendingSince <= Latest.timestamp_us
        /\ Latest.timestamp_us <= pendingSince + Latency
        /\ now >= wake /\ now <= wake + OverSleep
    BY <1>5, <1>6
  <2> QED
    BY ONLY <2>1, <2>2, <2>3
<1>8. Latest.element = Len(sent'[n].code)
  <2>1. n \in 1 .. n
    BY <1>4, <1>5
  <2>2. sent'[n] = sent[n]
    BY <1>4, <2>1
  <2> QED
    BY <1>5, <1>6, <2>2 DEF BetweenLetters, Code
<1>9. /\ Latest'.level = 0 /\ Level' = 1 /\ Latest'.letter = n /\ n > 0
      /\ Len(sent)' = n + 1 /\ si' = 1 /\ Latest'.element = Len(sent'[n].code)
      /\ (pendingSince - Latest.timestamp_us)' >= letter_gap_us - Latency
      /\ sent'[n + 1].brk = "letter" =>
           (pendingSince - Latest.timestamp_us)' <= letter_gap_us + 2 * OverSleep + 0
      /\ sent'[n + 1].brk = "word" =>
           (pendingSince - Latest.timestamp_us)' >= word_gap_us - Latency
  BY <1>1, <1>2, <1>3, <1>4, <1>5, <1>7, <1>8
<1> QED
  BY <1>9 DEF Follows, Code

LEMMA StartLetterMessages ==
  ASSUME TypeOK, TimingFits, SenderClock, InterruptClock, Messages, Send, StartLetter
  PROVE  Messages'
<1> DEFINE n == Len(sent)
<1>1. /\ si' = 1 /\ sent' # <<>> /\ Level' = 1 /\ ~pending /\ stamp = 0
      /\ pending' = TRUE /\ stamp' = 0
      /\ Latest' = Latest
  BY LetterEdge
<1>3. UNCHANGED <<gpio_evt_queue, decoderVars, taken, out>>
  BY LetterEdge
<1>4. /\ \A m \in 1 .. n : sent'[m] = sent[m]
      /\ Len(sent') = n + 1 /\ n \in Nat /\ sent'[n + 1].brk = brk
  BY LetterEdge
<1>5. EventsInOrder'
  <2>1. \A k \in 1 .. Len(gpio_evt_queue) : Keyed(gpio_evt_queue[k])'
    BY <1>3, <1>4, QueueKeyed, OldKeyed
  <2>2. ASSUME NEW a, NEW b, a = NoEvent \/ Keyed(a), Keyed(b), FollowsEvent(a, b)
        PROVE  FollowsEvent(a, b)'
    BY <1>4, <2>2, OldLetters DEF FollowsEvent, Keyed
  <2>3. (gpio_evt_queue # <<>> => FollowsEvent(taken, gpio_evt_queue[1]))'
    <3>1. gpio_evt_queue # <<>> => 1 \in 1 .. Len(gpio_evt_queue)
      BY QueueType
    <3> QED
      BY <1>3, <2>2, <3>1, QueueKeyed DEF Messages, EventsInOrder
  <2>4. (\A k \in 1 .. Len(gpio_evt_queue) - 1 :
           FollowsEvent(gpio_evt_queue[k], gpio_evt_queue[k + 1]))'
    <3>1. \A k \in 1 .. Len(gpio_evt_queue) - 1 :
            k \in 1 .. Len(gpio_evt_queue) /\ k + 1 \in 1 .. Len(gpio_evt_queue)
      BY QueueType
    <3> QED
      BY <1>3, <2>2, <3>1, QueueKeyed DEF Messages, EventsInOrder
  <2> QED
    BY <1>3, <2>1, <2>3, <2>4 DEF EventsInOrder
<1>6. DecoderInStep'
  <2>1. taken # NoEvent => Keyed(taken)' /\ Code(taken.letter)' = Code(taken.letter)
    BY <1>3, <1>4, QueueKeyed, OldKeyed DEF Keyed, Code
  <2>2. \A k \in 1 .. Len(out) : k < Len(sent') /\ sent'[k] = sent[k] /\ sent'[k + 1] = sent[k + 1]
    <3>1. \A k \in 1 .. Len(out) : k \in Nat /\ k >= 1 /\ k < n
      <4>1. Len(out) \in Nat
        BY DEF TypeOK, ReceiverTypeOK
      <4> QED
        BY <4>1 DEF Messages, DecoderInStep
    <3> QED
      BY <1>4, <3>1
  <2>3. (\A k \in 1 .. Len(out) : k < Len(sent) /\ Printed(k))'
    BY <1>3, <2>2 DEF Messages, DecoderInStep, Printed
  <2> QED
    BY <1>3, <2>1, <2>3 DEF Messages, DecoderInStep, decoderVars
<1>8. Follows(Latest, Len(sent), si, Level, pendingSince - Latest.timestamp_us, 0)'
  <2>1. CASE sent = <<>>
    <3>1. Latest = NoEvent /\ Len(sent') = 1
      BY <1>4, <2>1 DEF Messages, Delivery
    <3> QED
      BY <1>1, <3>1 DEF Follows
  <2>2. CASE sent # <<>>
    <3>1. Settled
      BY <1>1, <2>2 DEF Messages, Delivery, Settled
    <3> QED
      BY <2>2, <3>1, LetterFollows
  <2> QED
    BY <2>1, <2>2
<1>9. Delivery'
  BY <1>1, <1>8 DEF Delivery
<1> QED
  BY <1>5, <1>6, <1>9 DEF Messages

LEMMA SendMessages ==
  ASSUME TypeOK, TimingFits, SenderClock, InterruptClock, Messages, Send
  PROVE  Messages'
BY DarkMessages, SymbolMessages, StartLetterMessages

LEMMA TickMessages ==
  ASSUME Messages, Tick
  PROVE  Messages'
BY SameMessages DEF Tick, receiverVars, isrVars

\* The handler stamps the edge at most Latency after it happened.
LEMMA StampFollows ==
  ASSUME TypeOK, InterruptClock, Receive, HandlerReadsClock,
         Follows(Latest, Len(sent), si, Level, pendingSince - Latest.timestamp_us, 0)
  PROVE  Follows(Latest, Len(sent), si, Level, stamp - Latest.timestamp_us, Latency)'
<1>1. /\ UNCHANGED <<sent, si, light, gpio_evt_queue, decoderVars, taken>>
      /\ pending /\ pending' = FALSE /\ stamp' = now
  BY DEF Receive, ReceiverNext, HandlerReadsClock, decoderVars
<1>3. Latest' = Latest /\ Level' = Level
  BY <1>1 DEF Latest, Level
<1>5. ASSUME NEW d \in Nat, NEW slack \in Nat
      PROVE  /\ pendingSince - Latest.timestamp_us >= d - Latency
                  => now - Latest.timestamp_us >= d - Latency
             /\ pendingSince - Latest.timestamp_us <= d + slack + 0
                  => now - Latest.timestamp_us <= d + slack + Latency
  <2>1. pendingSince <= now /\ now <= pendingSince + Latency
    BY <1>1 DEF InterruptClock
  <2>2. now \in Nat /\ pendingSince \in Nat /\ Latest.timestamp_us \in Nat /\ Latency \in Nat
    BY Numbers, QueueType, EventFields
  <2> QED
    BY ONLY <1>5, <2>1, <2>2
<1>6. Follows(Latest, Len(sent), si, Level, now - Latest.timestamp_us, Latency)
  <2>1. /\ symbol_gap_us \in Nat /\ letter_gap_us \in Nat /\ word_gap_us \in Nat
        /\ OverSleep \in Nat /\ 2 * OverSleep \in Nat
    BY DEF symbol_gap_us, letter_gap_us, word_gap_us
  <2> QED
    BY <1>5, <2>1, DurationType DEF Follows
<1> QED
  BY <1>1, <1>3, <1>6 DEF Follows, Code

LEMMA ReadsClockMessages ==
  ASSUME TypeOK, InterruptClock, Messages, Receive, HandlerReadsClock
  PROVE  Messages'
<1>1. /\ UNCHANGED <<sent, si, light, gpio_evt_queue, decoderVars, taken>>
      /\ pending /\ pending' = FALSE /\ stamp' = now
  BY DEF Receive, ReceiverNext, HandlerReadsClock, decoderVars
<1>2. EventsInOrder' /\ DecoderInStep'
  BY <1>1, SameEvents DEF Messages
<1>4. Follows(Latest, Len(sent), si, Level, pendingSince - Latest.timestamp_us, 0)
  BY <1>1 DEF Messages, Delivery
<1>7. Follows(Latest, Len(sent), si, Level, stamp - Latest.timestamp_us, Latency)'
  BY <1>4, StampFollows
<1>8. sent # <<>>
  BY <1>1 DEF InterruptClock
<1>9. stamp' # 0
  BY <1>1 DEF TypeOK, LineTypeOK
<1>10. Delivery'
  BY <1>1, <1>7, <1>8, <1>9 DEF Delivery
<1> QED
  BY <1>2, <1>10 DEF Messages

\* The edge that is being keyed belongs to an element of the last letter.
LEMMA ElementKeyed ==
  ASSUME TypeOK, SenderClock, sent # <<>>
  PROVE  /\ Len(sent) \in 1 .. Len(sent)
         /\ si \in 1 .. Len(Code(Len(sent)))
<1>1. Len(sent) \in 1 .. Len(sent)
  BY Numbers
<1>2. Len(Code(Len(sent))) \in 1 .. 5
  BY <1>1 DEF SenderClock
<1>3. CASE control \in {"on", "off"}
  BY <1>3 DEF SenderClock
<1>4. CASE control \notin {"on", "off"}
  BY <1>2, <1>4 DEF SenderClock, BetweenLetters
<1> QED
  BY <1>1, <1>3, <1>4

\* An event that found room in the queue follows the one before it.
LEMMA HandlerSendsMessages ==
  ASSUME TypeOK, SenderClock, InterruptClock, Messages, Receive, HandlerSends, hurt' = {}
  PROVE  Messages'
<1> DEFINE event == EventAt(stamp)
           q == gpio_evt_queue
<1>1. /\ UNCHANGED <<sent, si, light, pending, pendingSince, decoderVars, taken>>
      /\ stamp # 0 /\ stamp' = 0
  BY DEF Receive, ReceiverNext, HandlerSends, decoderVars
<1>2. gpio_evt_queue' = Append(gpio_evt_queue, event)
  <2>1. LettersAround(event.letter, event.element, event.level) # {}
    BY DEF LettersAround
  <2> QED
    BY <2>1 DEF HandlerSends, xQueueSendFromISR
<1>3. sent # <<>> /\ ~pending /\ pendingSince <= stamp /\ stamp <= pendingSince + Latency
  BY <1>1 DEF InterruptClock
<1>4. /\ event.timestamp_us = stamp /\ event.level = Level /\ event.letter = Len(sent)
      /\ event.element = si
  BY DEF EventAt, Level
<1>5. event \in Event
  BY <1>1, Numbers DEF EventAt, Event
<1>6. FollowsEvent(Latest, event)
  BY <1>1, <1>4 DEF Messages, Delivery, FollowsEvent
<1>7. Keyed(event)
  BY <1>3, <1>4, ElementKeyed DEF Keyed
<1> HIDE DEF event
<1>8. /\ Len(q') = Len(q) + 1 /\ Len(q) \in Nat /\ q' # <<>>
      /\ \A k \in 1 .. Len(q) : q'[k] = q[k]
      /\ q'[Len(q) + 1] = event
      /\ (q = <<>> <=> Len(q) = 0)
  BY <1>2, <1>5, QueueType
<1>9. Latest' = event
  BY <1>8, SMTT(30) DEF Latest
<1>10. EventsInOrder'
  <2>1. ASSUME NEW k \in 1 .. Len(q') PROVE Keyed(q'[k])
    <3>1. k \in 1 .. Len(q) \/ k = Len(q) + 1
      BY <1>8
    <3> QED
      BY <1>7, <1>8, <3>1 DEF Messages, EventsInOrder
  <2>2. FollowsEvent(taken, q'[1])
    <3>1. CASE q = <<>>
      BY <1>6, <1>8, <3>1 DEF Latest
    <3>2. CASE q # <<>>
      BY <1>8, <3>2 DEF Messages, EventsInOrder
    <3> QED
      BY <3>1, <3>2
  <2>3. ASSUME NEW k \in 1 .. Len(q') - 1 PROVE FollowsEvent(q'[k], q'[k + 1])
    <3>1. CASE k = Len(q)
      <4>1. q # <<>> /\ k \in 1 .. Len(q) /\ Latest = q[k]
        BY <1>8, <3>1 DEF Latest
      <4> QED
        BY <1>6, <1>8, <3>1, <4>1
    <3>2. CASE k # Len(q)
      <4>1. k \in 1 .. Len(q) - 1 /\ k \in 1 .. Len(q) /\ k + 1 \in 1 .. Len(q)
        BY <1>8, <3>2
      <4> QED
        BY <1>8, <4>1 DEF Messages, EventsInOrder
    <3> QED
      BY <3>1, <3>2
  <2>4. (\A k \in 1 .. Len(gpio_evt_queue) : Keyed(gpio_evt_queue[k]))'
    BY <1>1, <2>1, ZenonT(30) DEF Keyed, Code
  <2>5. (gpio_evt_queue # <<>> => FollowsEvent(taken, gpio_evt_queue[1]))'
    BY <1>1, <2>2, ZenonT(60) DEF FollowsEvent, Follows, Code
  <2>6. (\A k \in 1 .. Len(gpio_evt_queue) - 1 :
           FollowsEvent(gpio_evt_queue[k], gpio_evt_queue[k + 1]))'
    BY <1>1, <2>3, ZenonT(120) DEF FollowsEvent, Follows, Code
  <2> QED
    BY <2>4, <2>5, <2>6 DEF EventsInOrder
<1>11. DecoderInStep'
  BY <1>1 DEF Messages, DecoderInStep, Keyed, Code, Printed, decoderVars
<1>12. Delivery'
  <2>1. Level' = Level /\ pending' = FALSE
    BY <1>1, <1>3, Numbers DEF Level
  <2>2. stamp \in pendingSince .. pendingSince + Latency
    BY <1>3, Numbers
  <2> QED
    BY <1>1, <1>3, <1>4, <1>9, <2>1, <2>2 DEF Delivery
<1> QED
  BY <1>10, <1>11, <1>12 DEF Messages

-----------------------------------------------------------------------------
(* The decoder                                                             *)

\* What is left of a sequence without its first element.
LEMMA RestOf ==
  ASSUME NEW q \in Seq(Event), q # <<>>
  PROVE  /\ Len(q) \in Nat \ {0} /\ Head(q) = q[1] /\ q[1] \in Event
         /\ Tail(q) \in Seq(Event) /\ Len(Tail(q)) = Len(q) - 1
         /\ \A k \in 1 .. Len(q) - 1 : Tail(q)[k] = q[k + 1]
<1>1. Len(q) \in Nat \ {0}
  BY EmptySeq, LenProperties
<1>2. Tail(q) \in Seq(Event) /\ Len(Tail(q)) = Len(q) - 1
  BY HeadTailProperties
<1>3. \A k \in 1 .. Len(Tail(q)) : Tail(q)[k] = q[k + 1]
  BY HeadTailProperties
<1>4. Head(q) = q[1]
  BY <1>1
<1>5. q[1] \in Event
  BY <1>1, ElementOfSeq
<1> QED
  BY <1>1, <1>2, <1>3, <1>4, <1>5

\* A relation between edges that the letters keyed so far decide stays.
LEMMA SameSent ==
  ASSUME sent' = sent
  PROVE  /\ \A e : Keyed(e) => Keyed(e)'
         /\ \A a, b : FollowsEvent(a, b) => FollowsEvent(a, b)'
<1>1. \A e : Keyed(e) => Keyed(e)'
  BY DEF Keyed, Code
<1>2. \A a, b : FollowsEvent(a, b) => FollowsEvent(a, b)'
  BY DEF FollowsEvent, Follows, Code
<1> QED
  BY <1>1, <1>2

\* Taking the first event leaves the rest of the queue in order.
LEMMA TakeEvents ==
  ASSUME TypeOK, Messages, Receive, gpio_evt_queue # <<>>,
         gpio_evt_queue' = Tail(gpio_evt_queue), taken' = Head(gpio_evt_queue)
  PROVE  /\ taken' = gpio_evt_queue[1] /\ taken' \in Event /\ Keyed(taken')
         /\ FollowsEvent(taken, taken')
         /\ EventsInOrder'
         /\ Latest' = Latest
<1> PICK q : q = gpio_evt_queue
  OBVIOUS
<1> PICK r : r = Tail(q)
  OBVIOUS
<1>1. /\ q \in Seq(Event) /\ q # <<>>
      /\ Len(q) \in Nat \ {0} /\ q[1] \in Event /\ Len(r) = Len(q) - 1
      /\ \A k \in 1 .. Len(q) - 1 : r[k] = q[k + 1]
  BY QueueType, RestOf
<1>2. gpio_evt_queue = q /\ gpio_evt_queue' = r /\ taken' = q[1]
  BY QueueType, RestOf
<1>3. r \in Seq(Event) /\ (r = <<>> <=> Len(r) = 0)
  BY <1>1, RestOf, EmptySeq
<1>4. /\ \A k \in 1 .. Len(q) : Keyed(q[k])
      /\ FollowsEvent(taken, q[1])
      /\ \A k \in 1 .. Len(q) - 1 : FollowsEvent(q[k], q[k + 1])
  BY <1>1, <1>2 DEF Messages, EventsInOrder
<1>5. /\ \A e : Keyed(e) => Keyed(e)'
      /\ \A a, b : FollowsEvent(a, b) => FollowsEvent(a, b)'
  BY SameSent DEF Receive, ReceiverNext
<1>6. Keyed(taken') /\ FollowsEvent(taken, taken')
  BY <1>1, <1>2, <1>4
<1>7. Latest' = Latest
  <2>1. CASE Len(q) = 1
    BY <1>1, <1>2, <1>3, <2>1 DEF Latest
  <2>2. CASE Len(q) # 1
    <3>1. r # <<>> /\ Len(r) \in 1 .. Len(q) - 1 /\ Len(r) + 1 = Len(q)
      BY <1>1, <1>3, <2>2
    <3> QED
      BY <1>1, <1>2, <3>1 DEF Latest
  <2> QED
    BY <2>1, <2>2
<1>8. EventsInOrder'
  <2>1. ASSUME NEW k \in 1 .. Len(r) PROVE Keyed(r[k])'
    <3>1. k + 1 \in 1 .. Len(q) /\ k \in 1 .. Len(q) - 1
      BY <1>1
    <3>2. Keyed(r[k])
      BY <1>1, <1>4, <3>1
    <3> QED
      BY <1>5, <3>2
  <2>2. r # <<>> => FollowsEvent(q[1], r[1])'
    <3>1. r # <<>> => 1 \in 1 .. Len(q) - 1
      BY <1>1, <1>3
    <3>2. r # <<>> => FollowsEvent(q[1], r[1])
      BY <1>1, <1>4, <3>1
    <3> QED
      BY <1>5, <3>2
  <2>3. ASSUME NEW k \in 1 .. Len(r) - 1 PROVE FollowsEvent(r[k], r[k + 1])'
    <3>1. /\ k \in 1 .. Len(q) - 1 /\ k + 1 \in 1 .. Len(q) - 1
      BY <1>1
    <3>2. FollowsEvent(r[k], r[k + 1])
      BY <1>1, <1>4, <3>1
    <3> QED
      BY <1>5, <3>2
  <2> QED
    BY <1>2, <2>1, <2>2, <2>3 DEF EventsInOrder
<1> QED
  BY <1>1, <1>2, <1>6, <1>7, <1>8

LEMMA TakeDelivery ==
  ASSUME Messages, Latest' = Latest,
         UNCHANGED <<sent, si, light, pending, pendingSince, stamp>>
  PROVE  Delivery'
BY DEF Messages, Delivery, Follows, Level, Code

\* A pulse of a keyed element is stored as that element.
LEMMA PulseDecodes ==
  ASSUME TimingFits, NEW s \in Symbol, NEW pulse \in Int,
         pulse >= Duration(s) - Latency, pulse <= Duration(s) + OverSleep + Latency
  PROVE  SymbolsOf(pulse) = <<s>>
<1>1. CASE s = Dot
  BY <1>1 DEF TimingFits, Duration, SymbolsOf, Dot, Dash, dash_min_us, dash_max_us,
              dot_min_us, dot_max_us, dash_duration_us
<1>2. CASE s = Dash
  BY <1>2 DEF TimingFits, Duration, SymbolsOf, Dot, Dash, dash_min_us, dash_max_us,
              dot_min_us, dot_max_us, dash_duration_us
<1> QED
  BY <1>1, <1>2 DEF Symbol

LEMMA TakeFallingMessages ==
  ASSUME TypeOK, TimingFits, SenderClock, Messages, Receive, TakeFallingEdge, hurt' = {}
  PROVE  Messages'
<1> PICK event : event = Head(gpio_evt_queue)
  OBVIOUS
<1> PICK c : c = Code(event.letter)
  OBVIOUS
<1> DEFINE n == event.letter
           j == event.element
           elapsed == event.timestamp_us - last_rising_edge
<1>1. /\ UNCHANGED <<sent, si, light, pending, pendingSince, stamp, last_rising_edge, out>>
      /\ gpio_evt_queue # <<>> /\ gpio_evt_queue' = Tail(gpio_evt_queue) /\ taken' = event
      /\ event.level = 0 /\ last_falling_edge' = event.timestamp_us
  BY DEF Receive, ReceiverNext, TakeFallingEdge, isrVars
<1>2. /\ event \in Event /\ Keyed(event) /\ FollowsEvent(taken, event)
      /\ EventsInOrder' /\ Latest' = Latest
  BY <1>1, TakeEvents
<1>3. Delivery'
  BY <1>1, <1>2, TakeDelivery
<1>4. /\ taken # NoEvent /\ taken.level = 1 /\ taken.letter = n /\ taken.element = j
      /\ event.timestamp_us - taken.timestamp_us >= Duration(c[j]) - Latency
      /\ event.timestamp_us - taken.timestamp_us <= Duration(c[j]) + OverSleep + Latency
  BY <1>1, <1>2 DEF FollowsEvent, Follows, NoEvent
<1>5. /\ last_rising_edge = taken.timestamp_us /\ last_rising_edge > 0
      /\ morse_buffer = SubSeq(c, 1, j - 1)
      /\ Len(out) = n - 1
  BY <1>4, QueueType, EventFields DEF Messages, DecoderInStep
<1>6. n \in 1 .. Len(sent) /\ j \in 1 .. Len(c) /\ c \in Seq(Symbol) /\ Len(c) \in 1 .. 5
  BY <1>2, CodeType DEF Keyed, SenderClock
<1>7. /\ SubSeq(c, 1, j) = morse_buffer \o <<c[j]>>
      /\ Len(morse_buffer) < BufferSize - 1
      /\ c[j] \in Symbol
  <2>1. BufferSize > 5 /\ BufferSize \in Nat
    BY DEF TimingFits
  <2>2. /\ SubSeq(c, 1, j) = morse_buffer \o <<c[j]>>
        /\ Len(morse_buffer) < 5
        /\ c[j] \in Symbol
    BY <1>5, <1>6, OneMoreSymbol
  <2>3. Len(morse_buffer) \in Nat
    BY LenProperties DEF TypeOK, ReceiverTypeOK
  <2>4. Len(morse_buffer) < BufferSize - 1
    BY ONLY <2>1, <2>2, <2>3
  <2> QED
    BY <2>2, <2>4
<1>8. ToInt(elapsed) = elapsed
  <2>1. hurt \cup {event.letter} # {}
    OBVIOUS
  <2> QED
    BY <1>5, <2>1 DEF TakeFallingEdge
<1>9. SymbolsOf(ToInt(elapsed)) = <<c[j]>>
  <2>1. elapsed \in Int
    BY <1>2, <1>5, QueueType, EventFields, SMTT(30)
  <2> QED
    BY <1>4, <1>5, <1>7, <1>8, <2>1, PulseDecodes, SMTT(30)
<1>10. morse_buffer' = SubSeq(c, 1, j)
  BY <1>5, <1>7, <1>9 DEF TakeFallingEdge, Stored
<1>11. DecoderInStep'
  <2>1. taken' # NoEvent
    BY <1>1, <1>2 DEF Event, NoEvent
  <2>2. Keyed(event)' /\ c = Code(event.letter)'
    BY <1>1, <1>2, SameSent DEF Code
  <2>3. (\A k \in 1 .. Len(out) : k < Len(sent) /\ Printed(k))'
    BY <1>1 DEF Messages, DecoderInStep, Printed
  <2>4. Len(out') = event.letter - 1
    BY <1>1, <1>5
  <2> QED
    BY <1>1, <1>10, <2>1, <2>2, <2>3, <2>4 DEF DecoderInStep, Keyed, Code
<1> QED
  BY <1>2, <1>3, <1>11 DEF Messages

\* A letter gap is told from a symbol gap, and a word gap from a letter gap.
LEMMA GapDecodes ==
  ASSUME TimingFits, NEW gap \in Int
  PROVE  /\ gap <= symbol_gap_us + OverSleep + Latency => ~(gap > letter_gap_min_us)
         /\ gap >= letter_gap_us - Latency => gap > letter_gap_min_us
         /\ gap <= letter_gap_us + 2 * OverSleep + Latency => ~(gap > word_gap_min_us)
         /\ gap >= word_gap_us - Latency => gap > word_gap_min_us
<1>1. /\ symbol_gap_us \in Nat /\ letter_gap_us \in Nat /\ word_gap_us \in Nat
      /\ letter_gap_min_us \in Nat /\ word_gap_min_us \in Nat
      /\ OverSleep \in Nat /\ Latency \in Nat
  BY DEF symbol_gap_us, letter_gap_us, word_gap_us, letter_gap_min_us, word_gap_min_us
<1>2. /\ symbol_gap_us + (OverSleep + Latency) <= letter_gap_min_us
      /\ letter_gap_min_us < letter_gap_us - Latency
      /\ letter_gap_us + OverSleep + (OverSleep + Latency) <= word_gap_min_us
      /\ word_gap_min_us < word_gap_us - Latency
  BY DEF TimingFits
<1> QED
  BY ONLY <1>1, <1>2, gap \in Int

\* The parts of a rising edge's handling, one fact at a time.
LEMMA RisingEdge ==
  ASSUME TakeRisingEdge, NEW event, event = Head(gpio_evt_queue), hurt' = {}
  PROVE  LET gap == event.timestamp_us - last_falling_edge
         IN  /\ last_falling_edge > 0 => ToInt(gap) = gap
             /\ last_falling_edge > 0 /\ morse_buffer # <<>> /\ gap > letter_gap_min_us =>
                  PrintLetter(IF gap > word_gap_min_us THEN " " ELSE "")
             /\ ~(last_falling_edge > 0 /\ morse_buffer # <<>> /\ gap > letter_gap_min_us) =>
                  UNCHANGED <<morse_buffer, out>>
<1> DEFINE gap == event.timestamp_us - last_falling_edge
<1>1. last_falling_edge > 0 => ToInt(gap) = gap
  <2>1. hurt \cup LettersAround(event.letter, event.element, 1) # {}
    BY DEF LettersAround
  <2> QED
    BY <2>1 DEF TakeRisingEdge
<1>2. last_falling_edge > 0 /\ morse_buffer # <<>> /\ ToInt(gap) > letter_gap_min_us =>
        PrintLetter(IF ToInt(gap) > word_gap_min_us THEN " " ELSE "")
  BY DEF TakeRisingEdge
<1>3. ~(last_falling_edge > 0 /\ morse_buffer # <<>> /\ ToInt(gap) > letter_gap_min_us) =>
        UNCHANGED <<morse_buffer, out>>
  BY DEF TakeRisingEdge
<1> HIDE DEF gap
<1>4. /\ last_falling_edge > 0 => ToInt(gap) = gap
      /\ last_falling_edge > 0 /\ morse_buffer # <<>> /\ gap > letter_gap_min_us =>
           PrintLetter(IF gap > word_gap_min_us THEN " " ELSE "")
      /\ ~(last_falling_edge > 0 /\ morse_buffer # <<>> /\ gap > letter_gap_min_us) =>
           UNCHANGED <<morse_buffer, out>>
  <2>1. CASE last_falling_edge > 0
    <3>1. ToInt(gap) = gap
      BY <1>1, <2>1
    <3> QED
      BY <1>2, <1>3, <2>1, <3>1
  <2>2. CASE ~(last_falling_edge > 0)
    BY <1>3, <2>2
  <2> QED
    BY <2>1, <2>2
<1> QED
  BY <1>4 DEF gap

\* The letter in the buffer is printed, with a separator that fits its gap.
LEMMA PrintsLetter ==
  ASSUME TypeOK, TimingFits, SenderClock, DecoderInStep, sent' = sent,
         taken # NoEvent, taken.level = 0, taken.letter > 0,
         taken.element = Len(Code(taken.letter)),
         NEW n \in 1 .. Len(sent), n = taken.letter + 1,
         NEW gap \in Int, gap >= letter_gap_us - Latency,
         sent[n].brk = "letter" => gap <= letter_gap_us + 2 * OverSleep + Latency,
         sent[n].brk = "word" => gap >= word_gap_us - Latency,
         PrintLetter(IF gap > word_gap_min_us THEN " " ELSE "")
  PROVE  /\ Len(out') = n - 1
         /\ (\A k \in 1 .. Len(out) : k < Len(sent) /\ Printed(k))'
<1> DEFINE sep == IF gap > word_gap_min_us THEN " " ELSE ""
           m == taken.letter
<1>1. /\ Len(sent) \in Nat /\ m \in 1 .. Len(sent) /\ m < Len(sent) /\ m = n - 1
      /\ m \in Nat
  <2>1. m \in Nat /\ m > 0 /\ n = m + 1
    BY QueueType, EventFields
  <2>2. Len(sent) \in Nat /\ n <= Len(sent)
    <3>1. Len(sent) \in Nat
      BY Numbers, LenProperties
    <3> QED
      BY ONLY <3>1, n \in 1 .. Len(sent)
  <2> HIDE DEF m
  <2> QED
    BY ONLY <2>1, <2>2
<1>2. /\ out \in Seq(Shown) /\ Len(out) = m - 1
      /\ morse_buffer = SubSeq(Code(m), 1, Len(Code(m)))
  BY DEF DecoderInStep, TypeOK, ReceiverTypeOK
<1>3. morse_buffer = Code(m) /\ decode_morse(Code(m)) = sent[m].char
  BY <1>1, <1>2, CodeType, SubSeqFull DEF SenderClock
<1>4. sep \in Separator /\ sep \in SeparatorFor(sent[n].brk)
  <2>1. sent[n].brk \in {"letter", "word", "idle"}
    BY CodeType DEF SentLetter, Break
  <2>2. sent[n].brk = "letter" => sep = ""
    BY GapDecodes
  <2>3. sent[n].brk = "word" => sep = " "
    BY GapDecodes
  <2>4. sep \in Separator
    BY DEF Separator
  <2> HIDE DEF sep
  <2> QED
    BY <2>1, <2>2, <2>3, <2>4 DEF SeparatorFor, Separator
<1> HIDE DEF sep
<1>5. /\ Len(out') = m
      /\ \A k \in 1 .. m - 1 : out'[k] = out[k]
      /\ out'[m].char = sent[m].char /\ out'[m].sep = sep
  <2> DEFINE shown == [char |-> sent[m].char, sep |-> sep, of |-> of]
  <2>1. out' = Append(out, shown)
    BY <1>3 DEF PrintLetter, sep
  <2>2. shown.char = sent[m].char /\ shown.sep = sep
    OBVIOUS
  <2>3. shown \in Shown
    <3>1. sent[m].char \in Letters /\ of \in Nat
      BY <1>1, CodeType DEF SentLetter, TypeOK, ReceiverTypeOK
    <3> QED
      BY <1>4, <3>1 DEF Shown
  <2> HIDE DEF shown
  <2>4. /\ Len(out') = Len(out) + 1
        /\ \A k \in 1 .. Len(out) : out'[k] = out[k]
        /\ out'[Len(out) + 1] = shown
    <3>1. out \in Seq(Shown)
      BY <1>2
    <3>2. /\ Len(Append(out, shown)) = Len(out) + 1
          /\ \A k \in 1 .. Len(out) : Append(out, shown)[k] = out[k]
          /\ Append(out, shown)[Len(out) + 1] = shown
      BY ONLY <2>3, <3>1, AppendProperties
    <3> QED
      BY ONLY <2>1, <3>2
  <2>5. Len(out) + 1 = m
    BY ONLY <1>1, <1>2
  <2> HIDE DEF m
  <2> QED
    BY ONLY <1>2, <2>2, <2>4, <2>5
<1>6. ASSUME NEW k \in 1 .. m
      PROVE  /\ k < Len(sent) /\ out'[k].char = sent[k].char
             /\ out'[k].sep \in SeparatorFor(sent[k + 1].brk)
  <2>1. CASE k = m
    BY <1>1, <1>4, <1>5, <2>1
  <2>2. CASE k # m
    <3>1. k \in 1 .. m - 1
      <4> HIDE DEF m
      <4> QED
        BY ONLY <1>1, <2>2, k \in 1 .. m
    <3>2. k \in 1 .. Len(out)
      BY <1>2, <3>1
    <3> QED
      BY <1>5, <3>1, <3>2 DEF DecoderInStep, Printed
  <2> QED
    BY <2>1, <2>2
<1> QED
  BY <1>1, <1>5, <1>6 DEF Printed

LEMMA TakeRisingMessages ==
  ASSUME TypeOK, TimingFits, SenderClock, Messages, Receive, TakeRisingEdge, hurt' = {}
  PROVE  Messages'
<1> PICK event : event = Head(gpio_evt_queue)
  OBVIOUS
<1> PICK c : c = Code(event.letter)
  OBVIOUS
<1> DEFINE n == event.letter
           j == event.element
           gap == event.timestamp_us - last_falling_edge
<1>1. /\ UNCHANGED <<sent, si, light, pending, pendingSince, stamp, last_falling_edge>>
      /\ gpio_evt_queue # <<>> /\ gpio_evt_queue' = Tail(gpio_evt_queue) /\ taken' = event
      /\ event.level = 1 /\ last_rising_edge' = event.timestamp_us
  BY DEF Receive, ReceiverNext, TakeRisingEdge, isrVars
<1>2. /\ event \in Event /\ Keyed(event) /\ FollowsEvent(taken, event)
      /\ EventsInOrder' /\ Latest' = Latest
  BY <1>1, TakeEvents
<1>3. Delivery'
  BY <1>1, <1>2, TakeDelivery
<1>4. n \in 1 .. Len(sent) /\ j \in 1 .. Len(c) /\ c \in Seq(Symbol) /\ Len(c) \in 1 .. 5
  BY <1>2, CodeType DEF Keyed, SenderClock
<1>5. /\ Len(out') = n - 1
      /\ morse_buffer' = SubSeq(c, 1, j - 1)
      /\ (\A k \in 1 .. Len(out) : k < Len(sent) /\ Printed(k))'
  <2>1. CASE taken = NoEvent
    <3>1. n = 1 /\ j = 1
      BY <1>1, <1>2, <1>4, <2>1 DEF FollowsEvent, Follows, NoEvent
    <3>2. morse_buffer = <<>> /\ out = <<>> /\ last_falling_edge = 0
      BY <2>1 DEF Messages, DecoderInStep
    <3>3. morse_buffer' = <<>> /\ out' = <<>>
      BY <3>2, RisingEdge
    <3>4. SubSeq(c, 1, 0) = <<>>
      BY SubSeqEmpty
    <3> QED
      BY <3>1, <3>3, <3>4
  <2>2. CASE taken # NoEvent
    <3>1. /\ taken \in Event /\ taken.level = 0 /\ taken.timestamp_us > 0
          /\ last_falling_edge = taken.timestamp_us
      BY <1>1, <1>2, <2>2, QueueType, EventFields
         DEF FollowsEvent, Follows, Messages, DecoderInStep
    <3>2. gap \in Int
      BY <1>2, <3>1, EventFields
    <3>3. /\ Len(out) = taken.letter - 1
          /\ morse_buffer = SubSeq(Code(taken.letter), 1, taken.element)
      BY <2>2, <3>1 DEF Messages, DecoderInStep
    <3>4. CASE n = taken.letter /\ j = taken.element + 1 /\ gap <= symbol_gap_us + OverSleep + Latency
      <4>1. UNCHANGED <<morse_buffer, out>>
        BY <3>2, <3>4, RisingEdge, GapDecodes
      <4>2. taken.element = j - 1
        BY <3>1, <3>4, EventFields
      <4> QED
        BY <1>1, <3>3, <3>4, <4>1, <4>2 DEF Messages, DecoderInStep, Printed
    <3>5. CASE /\ n = taken.letter + 1 /\ j = 1
               /\ taken.letter > 0 /\ taken.element = Len(Code(taken.letter))
               /\ gap >= letter_gap_us - Latency
               /\ sent[n].brk = "letter" => gap <= letter_gap_us + 2 * OverSleep + Latency
               /\ sent[n].brk = "word" => gap >= word_gap_us - Latency
      <4>1. taken.letter \in 1 .. Len(sent)
        BY <2>2 DEF Messages, DecoderInStep, Keyed
      <4>2. morse_buffer # <<>>
        <5>1. Code(taken.letter) \in Seq(Symbol) /\ Len(Code(taken.letter)) \in 1 .. 5
          BY <4>1, CodeType DEF SenderClock
        <5>2. morse_buffer = Code(taken.letter)
          BY <3>3, <3>5, <5>1, SubSeqFull
        <5>3. Code(taken.letter) # <<>>
          BY <5>1, SomeSymbols
        <5> QED
          BY <5>2, <5>3
      <4>3. gap > letter_gap_min_us
        BY <3>2, <3>5, GapDecodes
      <4>4. PrintLetter(IF gap > word_gap_min_us THEN " " ELSE "") /\ morse_buffer' = <<>>
        BY <3>1, <4>2, <4>3, RisingEdge DEF PrintLetter
      <4>5. /\ Len(out') = n - 1
            /\ (\A k \in 1 .. Len(out) : k < Len(sent) /\ Printed(k))'
        BY <1>1, <1>4, <2>2, <3>1, <3>2, <3>5, <4>4, PrintsLetter DEF Messages
      <4>6. SubSeq(c, 1, 0) = <<>>
        BY SubSeqEmpty
      <4>7. j - 1 = 0
        BY <3>5
      <4> QED
        BY <4>4, <4>5, <4>6, <4>7
    <3> QED
      BY <1>1, <1>2, <2>2, <3>1, <3>4, <3>5 DEF FollowsEvent, Follows
  <2> QED
    BY <2>1, <2>2
<1>6. DecoderInStep'
  <2>1. taken' # NoEvent
    BY <1>1, <1>2 DEF Event, NoEvent
  <2>2. Keyed(event)' /\ c = Code(event.letter)'
    BY <1>1, <1>2, SameSent DEF Code
  <2> QED
    BY <1>1, <1>5, <2>1, <2>2 DEF DecoderInStep, Keyed, Code
<1> QED
  BY <1>2, <1>3, <1>6 DEF Messages

-----------------------------------------------------------------------------
(* The theorem                                                             *)

LEMMA ReceiveMessages ==
  ASSUME TypeOK, TimingFits, SenderClock, InterruptClock, Messages, Receive, hurt' = {}
  PROVE  Messages'
BY ReadsClockMessages, HandlerSendsMessages, TakeRisingMessages, TakeFallingMessages
   DEF Receive, ReceiverNext, Handler, Decoder

\* A letter that was hurt stays hurt.
LEMMA HurtGrows ==
  ASSUME [Next]_vars
  PROVE  hurt \subseteq hurt'
<1>1. CASE Send
  BY <1>1 DEF Send
<1>2. CASE Receive
  <2>1. CASE HandlerReadsClock
    BY <2>1 DEF HandlerReadsClock
  <2>2. CASE HandlerSends
    BY <2>2 DEF HandlerSends, xQueueSendFromISR
  <2>3. CASE TakeRisingEdge
    BY <2>3 DEF TakeRisingEdge
  <2>4. CASE TakeFallingEdge
    BY <2>4 DEF TakeFallingEdge
  <2> QED
    BY <1>2, <2>1, <2>2, <2>3, <2>4 DEF Receive, ReceiverNext, Handler, Decoder
<1>3. CASE Tick
  BY <1>3 DEF Tick, receiverVars
<1>4. CASE UNCHANGED vars
  BY <1>4 DEF vars, receiverVars
<1> QED
  BY <1>1, <1>2, <1>3, <1>4 DEF Next

LEMMA InvInit == Init => IInv
<1> SUFFICES ASSUME Init PROVE IInv
  OBVIOUS
<1>1. TypeOK
  BY TypeInit
<1>2. /\ now = 1 /\ light = FALSE /\ sent = <<>> /\ si = 1 /\ wake = 1
      /\ control = "exited" /\ brk = "idle"
      /\ pending = FALSE /\ pendingSince = 0 /\ stamp = 0 /\ gpio_evt_queue = <<>>
      /\ morse_buffer = <<>> /\ last_rising_edge = 0 /\ last_falling_edge = 0
      /\ out = <<>> /\ taken = NoEvent
  BY DEF Init, LineInit, SenderInit, ReceiverInit
<1>3. SenderClock
  BY <1>2 DEF SenderClock
<1>4. InterruptClock
  BY <1>2 DEF InterruptClock
<1>5. Messages
  BY <1>2 DEF Messages, EventsInOrder, Delivery, DecoderInStep, Latest
<1> QED
  BY <1>1, <1>3, <1>4, <1>5 DEF IInv, Messages

LEMMA InvStep ==
  ASSUME TimingFits, IInv, [Next]_vars
  PROVE  IInv'
<1>1. TypeOK'
  BY TypeStep DEF IInv
<1>2. SenderClock' /\ InterruptClock'
  <2>1. CASE Next
    BY <2>1, SendClock, TickClock, ReceiveClock DEF IInv, Next
  <2>2. CASE UNCHANGED vars
    BY <2>2 DEF IInv, vars, lineVars, senderVars, receiverVars, isrVars, SenderClock,
                InterruptClock, BetweenLetters, Code, Morse, message
  <2> QED
    BY <2>1, <2>2
<1>3. ASSUME hurt' = {} PROVE Messages'
  <2>1. Messages
    BY <1>3, HurtGrows DEF IInv, Messages
  <2>2. CASE Next
    BY <1>3, <2>1, <2>2, SendMessages, TickMessages, ReceiveMessages DEF IInv, Next
  <2>3. CASE UNCHANGED vars
    BY <2>1, <2>3, SameMessages DEF vars, lineVars, receiverVars, isrVars
  <2> QED
    BY <2>2, <2>3
<1> QED
  BY <1>1, <1>2, <1>3 DEF IInv, Messages

LEMMA InvImpliesInOrder == IInv => InOrder
<1> SUFFICES ASSUME IInv, hurt = {} PROVE /\ Len(out) <= Len(sent)
                                          /\ \A k \in 1 .. Len(out) : Printed(k)
  BY DEF InOrder, Printed
<1>1. \A k \in 1 .. Len(out) : k < Len(sent) /\ Printed(k)
  BY DEF IInv, DecoderInStep
<1>2. Len(out) \in Nat /\ Len(sent) \in Nat
  <2>1. TypeOK
    BY DEF IInv
  <2>2. out \in Seq(Shown) /\ sent \in Seq(SentLetter)
    BY <2>1 DEF TypeOK, ReceiverTypeOK, LineTypeOK
  <2> QED
    BY ONLY <2>2, LenProperties
<1>3. Len(out) # 0 => Len(out) < Len(sent)
  <2>1. Len(out) # 0 => Len(out) \in 1 .. Len(out)
    BY <1>2
  <2> QED
    BY <1>1, <2>1
<1> QED
  BY <1>1, <1>2, <1>3

(* The pipeline from the LED over the pin, the queue and the decoder is in *)
(* order at every moment: each edge on its way follows the one before it   *)
(* as send_morse_char keyed it, and morse_decoder_task stands where the    *)
(* last event it took belongs.                                             *)
THEOREM InvariantHolds ==
  ASSUME TimingFits
  PROVE  Spec => []IInv
<1>1. IInv /\ [Next]_vars => IInv'
  BY InvStep
<1> QED
  BY <1>1, InvInit, PTL DEF Spec

(* Whatever is sent, for as long as no event is lost and no duration       *)
(* overflows, the receiver prints the letters keyed, each once and in      *)
(* order, with the gaps told apart, provided that the two programs'        *)
(* durations fit: sleeps that return up to OverSleep late and interrupts   *)
(* served up to Latency late, interleaved with a decoder of any speed.     *)
THEOREM LettersInOrder ==
  ASSUME TimingFits
  PROVE  Spec => []InOrder
<1>1. IInv /\ [Next]_vars => IInv'
  BY InvStep
<1> QED
  BY <1>1, InvInit, InvImpliesInOrder, PTL DEF Spec

-----------------------------------------------------------------------------
(* The refinement                                                          *)

\* Every letter printed so far is followed by a keyed one.
LEMMA PrintedBefore ==
  ASSUME IInv, hurt = {}
  PROVE  /\ Len(out) \in Nat /\ Len(sent) \in Nat
         /\ \A k \in 1 .. Len(out) : k < Len(sent) /\ Printed(k)
<1>1. out \in Seq(Shown) /\ sent \in Seq(SentLetter)
  BY DEF IInv, TypeOK, ReceiverTypeOK, LineTypeOK
<1>2. Len(out) \in Nat /\ Len(sent) \in Nat
  BY ONLY <1>1, LenProperties
<1> QED
  BY <1>2 DEF IInv, DecoderInStep

LEMMA DisplayLength ==
  ASSUME IInv
  PROVE  Len(display) = Len(out)
<1>1. out \in Seq(Shown)
  BY DEF IInv, TypeOK, ReceiverTypeOK
<1>2. Len(out) \in Nat
  BY ONLY <1>1, LenProperties
<1> QED
  BY <1>2 DEF display

\* The instance's vocabulary is the link's.
LEMMA SameVocabulary ==
  /\ Display!Separator = Separator
  /\ \A b : Display!SeparatorFor(b) = SeparatorFor(b)
  /\ \A s, t : Display!IsPrefix(s, t) <=> IsPrefix(s, t)
<1>1. Display!Separator = Separator
  BY DEF Display!Separator, Separator
<1>2. \A b : Display!SeparatorFor(b) = SeparatorFor(b)
  BY DEF Display!SeparatorFor, SeparatorFor, Display!Separator, Separator
<1>3. \A s, t : Display!IsPrefix(s, t) <=> IsPrefix(s, t)
  BY DEF Display!IsPrefix, IsPrefix
<1> QED
  BY <1>1, <1>2, <1>3

\* A key stroke is the abstract display's Key.
LEMMA KeyStep ==
  ASSUME IInv, hurt = {}, StartLetter, out' = out
  PROVE  Display!Key
<1> PICK letter : letter = [char |-> toupper(message[ci]), code |-> Morse, brk |-> brk]
  OBVIOUS
<1>1. sent \in Seq(SentLetter) /\ sent' = Append(sent, letter)
  BY DEF IInv, TypeOK, LineTypeOK, StartLetter
<1>2. display' = display
  BY DEF display
<1>3. Len(display) = Len(sent) => Len(sent) = 0
  <2>1. Len(out) > 0 => Len(out) \in 1 .. Len(out)
    BY PrintedBefore
  <2> QED
    BY <2>1, DisplayLength, PrintedBefore
<1>4. Len(display) = 0 => display = <<>>
  BY DisplayLength DEF display
<1>5. Len(sent') = Len(sent) + 1 /\ \A k \in 1 .. Len(sent) : sent'[k] = sent[k]
  BY ONLY <1>1
<1>6. IsPrefix(sent, sent')
  <2>1. Len(sent) \in Nat
    BY PrintedBefore
  <2>2. SubSeq(sent, 1, Len(sent)) = SubSeq(sent', 1, Len(sent))
    BY <1>1, <1>5, <2>1
  <2> QED
    BY <1>5, <2>1, <2>2 DEF IsPrefix
<1> QED
  BY <1>2, <1>3, <1>4, <1>5, <1>6, SameVocabulary DEF Display!Key

\* A printed letter is the abstract display's Show.
LEMMA ShowStep ==
  ASSUME IInv, IInv', hurt' = {}, sent' = sent,
         NEW separator, PrintLetter(separator)
  PROVE  Display!Show
<1> PICK n : n = Len(out) + 1
  OBVIOUS
<1>1. out \in Seq(Shown) /\ Len(out) \in Nat
  <2>1. out \in Seq(Shown)
    BY DEF IInv, TypeOK, ReceiverTypeOK
  <2> QED
    BY ONLY <2>1, LenProperties
<1> PICK shown : shown = [char |-> decode_morse(morse_buffer), sep |-> separator, of |-> of]
  OBVIOUS
<1>2. out' = Append(out, shown) /\ shown.sep = separator
  BY DEF PrintLetter
<1>3. /\ Len(out') = n /\ out'[n] = shown
      /\ \A k \in 1 .. Len(out) : out'[k] = out[k]
  BY ONLY <1>1, <1>2, n = Len(out) + 1
<1>4. n \in 1 .. n /\ n \in Nat
  BY ONLY <1>1, n = Len(out) + 1
<1>5. n < Len(sent) /\ Len(sent) \in Nat
      /\ shown.char = sent[n].char /\ shown.sep \in SeparatorFor(sent[n + 1].brk)
  <2>1. DecoderInStep'
    BY DEF IInv
  <2>2. n < Len(sent') /\ Printed(n)'
    BY <1>3, <1>4, <2>1 DEF DecoderInStep
  <2>3. Len(sent) \in Nat
    <3>1. sent \in Seq(SentLetter)
      BY DEF IInv, TypeOK, LineTypeOK
    <3> QED
      BY ONLY <3>1, LenProperties
  <2> QED
    BY <1>3, <2>2, <2>3 DEF Printed
<1>6. display' = Append(display, [char |-> sent[n].char, sep |-> separator])
  <2>1. display' = [k \in 1 .. n |-> [char |-> out'[k].char, sep |-> out'[k].sep]]
    BY <1>3 DEF display
  <2>2. \A k \in 1 .. n : k \in 1 .. Len(out) \/ k = n
    BY ONLY <1>1, n = Len(out) + 1
  <2> QED
    BY <1>1, <1>2, <1>3, <1>5, <2>1, <2>2 DEF display
<1>7. separator \in Separator
  <2>1. sent[n + 1].brk \in Break
    <3>1. TypeOK /\ n + 1 \in 1 .. Len(sent)
      BY <1>4, <1>5 DEF IInv
    <3> QED
      BY <3>1, CodeType DEF SentLetter
  <2> QED
    BY <1>2, <1>5, <2>1 DEF SeparatorFor, Separator, Break
<1>8. Display!Fits(n, separator)
  BY <1>2, <1>5, SameVocabulary DEF Display!Fits
<1> QED
  BY <1>4, <1>5, <1>6, <1>7, <1>8, DisplayLength, SameVocabulary DEF Display!Show

LEMMA DisplayStep ==
  ASSUME IInv, IInv', [Next]_vars, hurt' = {}
  PROVE  Display!Next \/ UNCHANGED <<sent, display>>
<1>1. hurt = {}
  BY HurtGrows
<1>2. CASE out' = out /\ sent' = sent
  BY <1>2 DEF display
<1>3. CASE Send /\ StartLetter
  BY <1>1, <1>3, KeyStep DEF Send, decoderVars, Display!Next
<1>4. CASE Send /\ ~ StartLetter
  BY <1>2, <1>4 DEF Send, decoderVars, SenderNext, SenderRuns, Launch, LaunchFails,
     SkipCharacter, SendSpace, EndSymbol, StartSymbol, EndLetter, NextCharacter, Repeat,
     NextRepetition, Exit
<1>5. CASE Receive /\ ~ TakeRisingEdge
  BY <1>2, <1>5 DEF Receive, ReceiverNext, Handler, Decoder, HandlerReadsClock,
     HandlerSends, TakeFallingEdge, decoderVars
<1>6. CASE Receive /\ TakeRisingEdge
  <2>1. sent' = sent
    BY <1>6 DEF Receive, ReceiverNext
  <2>2. out' = out \/ \E separator : PrintLetter(separator)
    BY <1>6 DEF TakeRisingEdge
  <2> QED
    BY <1>2, <2>1, <2>2, ShowStep DEF Display!Next
<1>7. CASE Tick \/ UNCHANGED vars
  BY <1>2, <1>7 DEF Tick, vars, lineVars, receiverVars, decoderVars
<1> QED
  BY <1>3, <1>4, <1>5, <1>6, <1>7 DEF Next

(* The interrupt-driven link implements the abstract display for as long   *)
(* as no letter is hurt: send_morse_char's letters are keyed and the       *)
(* decoder's printf calls show them, one at a time and never back.         *)
THEOREM LinkImplementsDisplay ==
  ASSUME TimingFits
  PROVE  Spec => ImplementsDisplay
<1>1. Init => Display!Init
  BY DEF Init, LineInit, ReceiverInit, Display!Init, display
<1>2. IInv /\ [Next]_vars => IInv'
  BY InvStep
<1>3. IInv /\ IInv' /\ [Next]_vars => [hurt' = {} => Display!Next]_<<sent, display>>
  BY DisplayStep
<1> QED
  BY <1>1, <1>2, <1>3, InvInit, PTL DEF Spec, ImplementsDisplay
=============================================================================

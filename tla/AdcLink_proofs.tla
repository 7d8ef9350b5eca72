---------------------------- MODULE AdcLink_proofs ----------------------------
(***************************************************************************)
(* Theorems about the polling link, for every message, choice of durations *)
(* and lateness of the samples: types, how long a letter can wait in the   *)
(* buffer and, when the durations fit, that the link implements the        *)
(* abstract display.                                                       *)
(***************************************************************************)
EXTENDS AdcLinkInv, MorseSender_proofs

USE SenderAssumption, ReceiverAssumption

-----------------------------------------------------------------------------
(* Type correctness                                                        *)

LEMMA Numbers ==
  ASSUME TypeOK
  PROVE  /\ now \in Nat /\ now > 0 /\ wake \in Nat /\ sampled \in Nat
         /\ light \in BOOLEAN /\ light_on \in BOOLEAN
         /\ light_start_time \in Nat /\ gap_start_time \in Nat /\ last_activity_time \in Nat
         /\ sent \in Seq(SentLetter) /\ si \in Nat /\ Len(sent) \in Nat
         /\ out \in Seq(Shown) /\ of \in Nat /\ Len(out) \in Nat
         /\ morse_buffer \in Seq(Symbol) /\ Len(morse_buffer) < BufferSize
         /\ Slack \in Nat \ {0}
BY LenProperties DEF TypeOK, LineTypeOK, SenderTypeOK, ReceiverTypeOK, Slack

\* What is printed when a letter is.
PrintedLetter(separator) ==
  [char |-> decode_morse(morse_buffer), sep |-> separator, of |-> of]

LEMMA PrintedType ==
  ASSUME TypeOK, NEW separator \in Separator
  PROVE  PrintedLetter(separator) \in Shown
BY DecodeType, Numbers DEF PrintedLetter, Shown

\* A sample prints at most the letter in the buffer.
LEMMA SamplePrints ==
  ASSUME Receive
  PROVE  \/ out' = out
         \/ /\ morse_buffer # <<>>
            /\ \E separator \in Separator : out' = Append(out, PrintedLetter(separator))
<1>1. " " \in Separator /\ "" \in Separator /\ "\n" \in Separator
  BY DEF Separator
<1>2. CASE SampleRising
  BY <1>1, <1>2 DEF SampleRising, PrintLetter, PrintNothing, PrintAfter, TimedOut, PrintedLetter
<1>3. CASE SampleFalling
  BY <1>1, <1>3 DEF SampleFalling, TimedOut, PrintedLetter
<1>4. CASE SampleSteady
  BY <1>1, <1>4 DEF SampleSteady, PrintLetter, PrintNothing, TimedOut, PrintedLetter
<1> QED
  BY <1>2, <1>3, <1>4 DEF Receive, ReceiverNext

LEMMA SymbolsType ==
  ASSUME NEW pulse
  PROVE  SymbolsOf(pulse) \in Seq(Symbol) /\ Len(SymbolsOf(pulse)) <= 1
<1>1. <<Dash>> \in Seq(Symbol) /\ <<Dot>> \in Seq(Symbol) /\ <<>> \in Seq(Symbol)
  BY DEF Symbol
<1> QED
  BY <1>1 DEF SymbolsOf

LEMMA EmptyBuffer == <<>> \in Seq(Symbol) /\ Len(<<>>) = 0 /\ Len(<<>>) < BufferSize
BY EmptySeq

LEMMA BufferType ==
  ASSUME TypeOK, Receive
  PROVE  morse_buffer' \in Seq(Symbol) /\ Len(morse_buffer') < BufferSize
<1>1. CASE SampleRising \/ SampleSteady
  <2>1. morse_buffer' = morse_buffer \/ morse_buffer' = <<>>
    BY <1>1 DEF SampleRising, SampleSteady, PrintLetter, PrintNothing, PrintAfter
  <2> QED
    BY <2>1, Numbers, EmptyBuffer
<1>2. CASE SampleFalling
  <2> DEFINE kept == IF TimedOut THEN <<>> ELSE morse_buffer
             stored == IF Len(kept) < BufferSize - 1
                       THEN SymbolsOf(now - light_start_time) ELSE <<>>
  <2>1. morse_buffer' = kept \o stored
    BY <1>2 DEF SampleFalling
  <2>2. kept \in Seq(Symbol) /\ Len(kept) < BufferSize /\ Len(kept) \in Nat
    BY Numbers, EmptyBuffer, LenProperties
  <2> HIDE DEF kept
  <2>3. stored \in Seq(Symbol) /\ Len(stored) \in Nat /\ Len(kept) + Len(stored) < BufferSize
    <3>1. CASE Len(kept) < BufferSize - 1
      BY <2>2, <3>1, SymbolsType, LenProperties
    <3>2. CASE ~(Len(kept) < BufferSize - 1)
      BY <2>2, <3>2, EmptyBuffer
    <3> QED
      BY <3>1, <3>2
  <2> HIDE DEF stored
  <2> QED
    BY <2>1, <2>2, <2>3
<1> QED
  BY <1>1, <1>2 DEF Receive, ReceiverNext

LEMMA ReceiveType ==
  ASSUME TypeOK, Receive
  PROVE  TypeOK'
<1>1. LineTypeOK' /\ SenderTypeOK'
  BY DEF Receive, ReceiverNext, senderVars, TypeOK, LineTypeOK, SenderTypeOK
<1>2. out' \in Seq(Shown)
  <2>1. CASE out' = out
    BY <2>1, Numbers
  <2>2. CASE out' # out
    <3>1. PICK separator \in Separator : out' = Append(out, PrintedLetter(separator))
      BY <2>2, SamplePrints
    <3>2. out \in Seq(Shown) /\ PrintedLetter(separator) \in Shown
      BY PrintedType, Numbers
    <3> QED
      BY <3>1, <3>2, AppendProperties
  <2> QED
    BY <2>1, <2>2
<1>3. light_on' \in BOOLEAN
  BY Numbers DEF Receive, ReceiverNext, SampleRising, SampleFalling, SampleSteady
<1>4. /\ sampled' = now /\ light_start_time' \in {light_start_time, now}
      /\ gap_start_time' \in {gap_start_time, now}
      /\ last_activity_time' \in {last_activity_time, now, 0}
  BY DEF Receive, ReceiverNext, SampleRising, SampleFalling, SampleSteady
<1>5. /\ sampled' \in Nat /\ light_start_time' \in Nat /\ gap_start_time' \in Nat
      /\ last_activity_time' \in Nat
  BY <1>4, Numbers
<1>6. of' \in Nat
  <2>1. of' = of \/ of' = Len(sent)
    BY DEF Receive, ReceiverNext, SampleRising, SampleFalling, SampleSteady
  <2> QED
    BY <2>1, Numbers
<1> QED
  BY <1>1, <1>2, <1>3, <1>5, <1>6, BufferType DEF TypeOK, ReceiverTypeOK

LEMMA TypeInit == Init => TypeOK
<1> SUFFICES ASSUME Init
             PROVE  TypeOK
  OBVIOUS
<1>1. light \in BOOLEAN /\ light_on \in BOOLEAN
  BY DEF Init, LineInit, ReceiverInit
<1>2. LineTypeOK /\ SenderTypeOK
  BY <1>1 DEF Init, LineInit, SenderInit, LineTypeOK, SenderTypeOK, Break
<1>3. ReceiverTypeOK
  BY <1>1, EmptyBuffer DEF Init, ReceiverInit, ReceiverTypeOK
<1> QED
  BY <1>2, <1>3 DEF TypeOK

LEMMA TypeStep ==
  ASSUME TypeOK, [Next]_vars
  PROVE  TypeOK'
<1>1. CASE Send
  BY <1>1, SenderType DEF Send, TypeOK, ReceiverTypeOK, receiverVars
<1>2. CASE Receive
  BY <1>2, ReceiveType
<1>3. CASE Tick
  BY <1>3 DEF Tick, senderVars, receiverVars, TypeOK, LineTypeOK, SenderTypeOK, ReceiverTypeOK
<1>4. CASE UNCHANGED vars
  BY <1>4 DEF vars, lineVars, senderVars, receiverVars, TypeOK, LineTypeOK, SenderTypeOK,
              ReceiverTypeOK
<1> QED
  BY <1>1, <1>2, <1>3, <1>4 DEF Next

(* The values of every variable stay in their sets, whatever the timing:   *)
(* morse_receiver_task's buffer always has room for its final '\0'.        *)
THEOREM TypeCorrect == Spec => []TypeOK
BY TypeInit, TypeStep, PTL DEF Spec

-----------------------------------------------------------------------------
(* How long a letter waits                                                 *)

LEMMA SampleInit == Init => SampleInv
<1> SUFFICES ASSUME Init
             PROVE  SampleInv
  OBVIOUS
<1>1. sampled = 0 /\ now = 1 /\ morse_buffer = <<>>
  BY DEF Init, LineInit, ReceiverInit
<1> QED
  BY <1>1 DEF SampleInv, Slack

LEMMA SampleStep ==
  ASSUME TypeOK, SampleInv, [Next]_vars
  PROVE  SampleInv'
<1>1. CASE Send \/ UNCHANGED vars
  BY <1>1 DEF Send, SenderNext, vars, lineVars, receiverVars, SampleInv, Slack
<1>2. CASE Tick
  <2>1. now' = now + 1 /\ now < sampled + Slack
    BY <1>2, Numbers DEF Tick, ReceiverMayWait, Slack
  <2>2. UNCHANGED <<sampled, morse_buffer, last_activity_time>>
    BY <1>2 DEF Tick, receiverVars
  <2> QED
    BY <2>1, <2>2, Numbers DEF SampleInv, Slack
<1>3. CASE Receive
  <2>1. sampled' = now /\ now' = now
    BY <1>3 DEF Receive, ReceiverNext, SampleRising, SampleFalling, SampleSteady
  <2>2. CASE SampleRising \/ SampleFalling
    <3>1. last_activity_time' = now
      BY <2>2 DEF SampleRising, SampleFalling
    <3> QED
      BY <2>1, <3>1, Numbers DEF SampleInv, Slack
  <2>3. CASE SampleSteady
    <3>1. CASE TimedOut
      BY <2>1, <2>3, <3>1, Numbers DEF SampleSteady, PrintLetter, SampleInv, Slack
    <3>2. CASE ~TimedOut
      BY <2>1, <2>3, <3>2, Numbers DEF SampleSteady, PrintNothing, TimedOut, SampleInv, Slack
    <3> QED
      BY <3>1, <3>2
  <2> QED
    BY <1>3, <2>2, <2>3 DEF Receive, ReceiverNext
<1> QED
  BY <1>1, <1>2, <1>3 DEF Next

(* The timeout keeps no letter from the reader, for every choice of the    *)
(* durations and whatever the light does: the loop body looks at the       *)
(* timeout in every sample, also in one that sees the light change.        *)
THEOREM NoLetterLingers == Spec => []LettersDoNotLinger
<1>1. TypeOK /\ SampleInv /\ [Next]_vars => TypeOK' /\ SampleInv'
  BY TypeStep, SampleStep
<1>2. TypeOK /\ SampleInv => LettersDoNotLinger
  BY Numbers DEF SampleInv, LettersDoNotLinger, Slack
<1> QED
  BY <1>1, <1>2, TypeInit, SampleInit, PTL DEF Spec

-----------------------------------------------------------------------------
(* The sender's steps                                                      *)

\* TimingFits, one comparison at a time.
LEMMA Timing ==
  ASSUME TimingFits
  PROVE  /\ Slack \in Nat \ {0} /\ OverSleep \in Nat /\ dot_duration_us \in Nat \ {0}
         /\ symbol_gap_us = dot_duration_us /\ dash_duration_us = 3 * dot_duration_us
         /\ letter_gap_us = 3 * dot_duration_us /\ word_gap_us = 7 * dot_duration_us
         /\ Slack < dot_duration_us
         /\ symbol_gap_us + OverSleep + Slack <= LETTER_GAP_MIN
         /\ LETTER_GAP_MIN < letter_gap_us - Slack
         /\ letter_gap_us + 2 * OverSleep + Slack <= WORD_GAP_MIN
         /\ WORD_GAP_MIN < word_gap_us - Slack
         /\ letter_gap_us + 2 * OverSleep + Slack <= TIMEOUT_MS
         /\ word_gap_us - letter_gap_us <= RepetitionGap /\ RepetitionGap \in Nat
         /\ LETTER_GAP_MIN \in Nat /\ WORD_GAP_MIN \in Nat /\ TIMEOUT_MS \in Nat
         /\ BufferSize > 5 /\ BufferSize \in Nat
BY DEF TimingFits, Slack, symbol_gap_us, dash_duration_us, letter_gap_us, word_gap_us

LEMMA CodeType ==
  ASSUME TypeOK, SenderInv, NEW n \in 1 .. Len(sent)
  PROVE  /\ sent[n] \in SentLetter /\ sent[n].brk \in Break /\ sent[n].char \in Letters
         /\ Code(n) \in Seq(Symbol) /\ Len(Code(n)) \in 1 .. 5
         /\ Code(n) # <<>> /\ SubSeq(Code(n), 1, Len(Code(n))) = Code(n)
         /\ decode_morse(Code(n)) = sent[n].char
<1>1. sent[n] \in SentLetter
  BY Numbers, ElementOfSeq
<1>2. sent[n].brk \in Break /\ sent[n].char \in Letters /\ Code(n) \in Seq(Symbol)
  BY <1>1 DEF SentLetter, Code
<1>3. Len(Code(n)) \in 1 .. 5 /\ decode_morse(Code(n)) = sent[n].char
  BY DEF SenderInv
<1> QED
  BY <1>1, <1>2, <1>3, SomeSymbols, SubSeqFull

LEMMA LastIs ==
  ASSUME TypeOK, sent # <<>>
  PROVE  Len(sent) \in 1 .. Len(sent) /\ Len(sent) > 0
BY Numbers, EmptySeq

\* A change of the light has been seen by the time the sender wakes up.
LEMMA SeenAwake ==
  ASSUME TypeOK, TimingFits, SampleInv, SenderInv, LightInv, DarkInv, InLetter, Awake
  PROVE  light_on = light
<1>1. now <= sampled + Slack /\ wake <= now
  BY DEF SampleInv, Awake
<1>2. CASE control = "on"
  <2>1. Began = wake - Duration(Morse[si])
    BY <1>2 DEF Began
  <2>2. ~light_on => sampled <= Began
    BY <1>2 DEF LightInv
  <2>3. PICK d : d = Duration(Morse[si])
    OBVIOUS
  <2>4. d \in Nat /\ d >= dot_duration_us
    BY <2>3, DurationType, Timing
  <2>5. light_on
    <3>1. Slack < dot_duration_us /\ Slack \in Nat /\ dot_duration_us \in Nat
      BY Timing
    <3>2. wake \in Nat /\ now \in Nat /\ sampled \in Nat
      BY Numbers
    <3> QED
      BY ONLY <1>1, <2>1, <2>2, <2>3, <2>4, <3>1, <3>2
  <2>6. light
    BY <1>2 DEF SenderInv
  <2> QED
    BY <2>5, <2>6, Numbers
<1>3. CASE control = "off"
  <2>1. Began = wake - symbol_gap_us
    BY <1>3 DEF Began
  <2>2. ~light_on
    <3>1. light_on => sampled <= Began
      BY <1>3 DEF DarkInv
    <3>2. Slack < symbol_gap_us /\ Slack \in Nat /\ symbol_gap_us \in Nat
      BY Timing
    <3>3. wake \in Nat /\ now \in Nat /\ sampled \in Nat
      BY Numbers
    <3> QED
      BY ONLY <1>1, <2>1, <3>1, <3>2, <3>3
  <2>3. ~light
    BY <1>3 DEF SenderInv
  <2> QED
    BY <2>2, <2>3, Numbers
<1> QED
  BY <1>2, <1>3 DEF InLetter

\* The steps of the sender that leave the light alone.
DarkActions ==
  Launch \/ LaunchFails \/ SkipCharacter \/ SendSpace \/ EndLetter \/ NextCharacter
    \/ Repeat \/ NextRepetition \/ Exit

LEMMA DarkStep ==
  ASSUME TypeOK, TimingFits, SenderInv, Send, DarkActions
  PROVE  /\ UNCHANGED <<sent, si, now, light>> /\ ~light /\ ~InLetter'
         /\ SenderInv'
<1>1. UNCHANGED <<sent, si, now>>
  BY DEF Send, SenderNext, DarkActions, Launch, LaunchFails, SkipCharacter, SendSpace,
     EndLetter, NextCharacter, Repeat, NextRepetition, Exit
<1>2. control # "on" /\ ~InLetter'
  BY DEF DarkActions, Launch, LaunchFails, SkipCharacter, SendSpace, EndLetter, NextCharacter,
     Repeat, NextRepetition, Exit, InLetter
<1>3. light = FALSE /\ light' = FALSE
  <2>1. light = FALSE
    BY <1>2, Numbers DEF SenderInv
  <2> QED
    BY <2>1 DEF DarkActions, Launch, LaunchFails, SkipCharacter, SendSpace, EndLetter,
       NextCharacter, Repeat, NextRepetition, Exit
<1>4. wake' \in Nat
  BY SenderType DEF Send, TypeOK, SenderTypeOK
<1>5. IF control' = "exited" THEN now >= wake' ELSE now <= wake' + OverSleep
  <2>1. CASE Launch \/ SendSpace \/ EndLetter \/ Repeat
    <3>1. PICK d : /\ d \in {0, word_gap_us - letter_gap_us, letter_gap_us - symbol_gap_us, RepetitionGap}
                   /\ wake' = now + d
      <4>1. CASE Launch
        <5>1. wake' = now + 0
          BY <4>1, Numbers DEF Launch
        <5> QED
          BY <5>1
      <4>2. CASE SendSpace \/ EndLetter \/ Repeat
        BY <4>2 DEF SendSpace, EndLetter, Repeat, Sleep
      <4> QED
        BY <2>1, <4>1, <4>2
    <3>2. d \in Nat
      BY <3>1, Timing
    <3>3. control' # "exited"
      BY <2>1 DEF Launch, SendSpace, EndLetter, Repeat
    <3>4. OverSleep \in Nat /\ now \in Nat
      BY Timing, Numbers
    <3> QED
      BY <3>1, <3>2, <3>3, <3>4
  <2>2. CASE LaunchFails \/ SkipCharacter \/ NextCharacter \/ NextRepetition \/ Exit
    BY <2>2, Numbers DEF LaunchFails, SkipCharacter, NextCharacter, NextRepetition, Exit,
       SenderInv, Awake
  <2> QED
    BY <2>1, <2>2 DEF DarkActions
<1>6. brk' = "letter" => brk = "letter" /\ control' \in {"gap", "next", "exited"}
  BY DEF DarkActions, Launch, LaunchFails, SkipCharacter, SendSpace, EndLetter, NextCharacter,
     Repeat, NextRepetition, Exit, SenderInv, InLetter
<1>7. SenderInv'
  <2>1. (light <=> control = "on")'
    BY <1>2, <1>3 DEF InLetter
  <2>2. (\A n \in 1 .. Len(sent) : /\ Len(Code(n)) \in 1 .. 5
                                  /\ decode_morse(Code(n)) = sent[n].char)'
    BY <1>1 DEF SenderInv, Code
  <2> QED
    BY <1>1, <1>2, <1>5, <1>6, <2>1, <2>2 DEF SenderInv
<1> QED
  BY <1>1, <1>2, <1>3, <1>7

\* How the dark gets longer.
LEMMA DarkBreak ==
  ASSUME TypeOK, TimingFits, SenderInv, DarkActions, ~EndLetter
  PROVE  /\ ~InLetter /\ wake' >= wake
         /\ NextBreak' = "letter" => NextBreak = "letter" /\ wake' = wake
         /\ NextBreak' = "word" =>
              NextBreak = "word" \/ wake' >= wake + (word_gap_us - letter_gap_us)
<1>1. CASE Launch
  BY <1>1, Numbers DEF Launch, SenderInv, InLetter, NextBreak
<1>2. CASE LaunchFails \/ SkipCharacter \/ NextCharacter \/ NextRepetition
  BY <1>2, Numbers DEF LaunchFails, SkipCharacter, NextCharacter, NextRepetition, InLetter,
     NextBreak
<1>3. CASE Exit
  BY <1>3, Numbers DEF Exit, InLetter, NextBreak
<1>4. CASE SendSpace \/ Repeat
  <2>1. /\ now >= wake /\ control = "next" /\ brk' = "word" /\ control' # "exited"
        /\ wake' = now + (word_gap_us - letter_gap_us) \/ wake' = now + RepetitionGap
    BY <1>4 DEF SendSpace, Repeat, Sleep, Awake
  <2>2. NextBreak' = "word" /\ ~InLetter
    BY <2>1 DEF InLetter, NextBreak
  <2>3. /\ word_gap_us - letter_gap_us <= RepetitionGap /\ RepetitionGap \in Nat
        /\ word_gap_us - letter_gap_us \in Nat
    BY Timing
  <2>4. now \in Nat /\ wake \in Nat
    BY Numbers
  <2>5. wake' >= wake /\ wake' >= wake + (word_gap_us - letter_gap_us)
    BY ONLY <2>1, <2>3, <2>4
  <2> QED
    BY <2>2, <2>5
<1> QED
  BY <1>1, <1>2, <1>3, <1>4 DEF DarkActions

LEMMA LongerGap ==
  ASSUME NEW t \in Nat, NEW u \in Nat, NEW start \in Nat, NEW gap \in Nat, NEW d \in Nat,
         NEW more \in Nat, t - start >= gap - d, u >= t + more
  PROVE  u - start >= gap + more - d
OBVIOUS

\* While the light stays off, a complete letter stays printed or about to be.
LEMMA DarkBetween ==
  ASSUME TypeOK, TimingFits, SampleInv, SenderInv, LightInv, DarkInv, BetweenInv,
         Send, DarkActions
  PROVE  BetweenInv'
<1>1. UNCHANGED <<sent, out, morse_buffer, gap_start_time, last_activity_time, light_on>>
  BY DarkStep DEF Send, receiverVars
<1>2. wake \in Nat /\ gap_start_time \in Nat /\ wake' \in Nat /\ now \in Nat
  BY Numbers, SenderType DEF Send, TypeOK, SenderTypeOK
<1>3. PICK n : n = Len(sent)
  OBVIOUS
<1>4. CASE ~EndLetter
  <2>1. /\ ~InLetter /\ wake' >= wake
        /\ NextBreak' = "letter" => NextBreak = "letter" /\ wake' = wake
        /\ NextBreak' = "word" =>
             NextBreak = "word" \/ wake' >= wake + (word_gap_us - letter_gap_us)
    BY <1>4, DarkBreak
  <2>2. ~light_on /\ Pause(n, NextBreak, wake, OverSleep)
    BY <1>3, <2>1 DEF BetweenInv
  <2>3. CASE Len(out) = n /\ morse_buffer = <<>> /\ NextBreak # "letter"
    BY <1>1, <1>3, <2>1, <2>2, <2>3 DEF BetweenInv, Pause
  <2>4. CASE ~(Len(out) = n /\ morse_buffer = <<>> /\ NextBreak # "letter")
    <3>1. /\ n > 0 /\ Len(out) = n - 1 /\ morse_buffer = Code(n)
          /\ gap_start_time > 0 /\ last_activity_time = gap_start_time
      BY <2>2, <2>4 DEF Pause
    <3>2. wake - gap_start_time >= letter_gap_us - Slack
      BY <2>2, <2>4 DEF Pause
    <3>3. NextBreak = "letter" => wake - gap_start_time <= letter_gap_us + OverSleep
      BY <2>2, <2>4 DEF Pause
    <3>4. letter_gap_us \in Nat /\ word_gap_us \in Nat /\ Slack \in Nat
      BY Timing
    <3>5. wake' - gap_start_time >= letter_gap_us - Slack
      <4>1. wake' >= wake
        BY <2>1
      <4>2. wake' >= wake + 0 /\ 0 \in Nat
        BY <1>2, <4>1
      <4>3. wake' - gap_start_time >= letter_gap_us + 0 - Slack
        BY ONLY <1>2, <3>2, <3>4, <4>2, LongerGap
      <4> QED
        BY ONLY <3>4, <4>3
    <3>6. NextBreak' = "letter" => wake' - gap_start_time <= letter_gap_us + OverSleep
      BY <2>1, <3>3
    <3>7. NextBreak' = "word" => wake' - gap_start_time >= word_gap_us - Slack
      <4>1. CASE NextBreak = "word"
        <5>1. wake - gap_start_time >= word_gap_us - Slack /\ wake' >= wake
          BY <2>1, <2>2, <2>4, <4>1 DEF Pause
        <5>2. wake' >= wake + 0 /\ 0 \in Nat
          BY <1>2, <5>1
        <5>3. wake' - gap_start_time >= word_gap_us + 0 - Slack
          BY ONLY <1>2, <3>4, <5>1, <5>2, LongerGap
        <5> QED
          BY ONLY <3>4, <5>3
      <4>2. CASE wake' >= wake + (word_gap_us - letter_gap_us)
        <5>1. word_gap_us - letter_gap_us \in Nat
          BY Timing
        <5>2. wake' - gap_start_time >= letter_gap_us + (word_gap_us - letter_gap_us) - Slack
          BY ONLY <1>2, <3>2, <3>4, <4>2, <5>1, LongerGap
        <5> QED
          BY ONLY <3>4, <5>2
      <4> QED
        BY <2>1, <4>1, <4>2
    <3>8. Code(n)' = Code(n)
      BY <1>1 DEF Code
    <3> QED
      BY <1>1, <1>3, <2>2, <3>1, <3>5, <3>6, <3>7, <3>8 DEF BetweenInv, Pause, letter_gap_us,
         word_gap_us, Slack
  <2> QED
    BY <2>3, <2>4
<1>5. CASE EndLetter
  <2>1. /\ control = "off" /\ now >= wake /\ si = Len(Morse) /\ control' = "gap"
        /\ wake' = now + (letter_gap_us - symbol_gap_us) /\ brk' = brk
    BY <1>5 DEF EndLetter, Awake, Sleep
  <2>2. InLetter
    BY <2>1 DEF InLetter
  <2>3. ~light_on
    <3>1. light_on = light /\ (light <=> control = "on")
      BY <1>5, <2>2, SeenAwake DEF EndLetter, SenderInv
    <3> QED
      BY <2>1, <3>1, Numbers
  <2>4. /\ wake - symbol_gap_us <= gap_start_time
        /\ gap_start_time <= wake - symbol_gap_us + Slack
        /\ gap_start_time > 0 /\ last_activity_time = gap_start_time /\ Stored(si)
    BY <2>1, <2>3 DEF DarkInv, Began
  <2>5. sent # <<>> /\ Code(Len(sent)) = Morse /\ brk = "letter" /\ now <= wake + OverSleep
    BY <2>1, <2>2 DEF SenderInv
  <2>6. n > 0 /\ Len(out) = n - 1 /\ morse_buffer = Code(n)
    <3>1. n \in 1 .. Len(sent)
      BY <1>3, <2>5, LastIs
    <3> QED
      BY <1>3, <2>1, <2>4, <2>5, <3>1, LastIs, CodeType DEF Stored
  <2>7. letter_gap_us \in Nat /\ symbol_gap_us \in Nat /\ Slack \in Nat /\ OverSleep \in Nat
    BY Timing
  <2>8. wake' - gap_start_time >= letter_gap_us - Slack
        /\ wake' - gap_start_time <= letter_gap_us + OverSleep
    BY ONLY <1>2, <2>1, <2>4, <2>5, <2>7
  <2>9. NextBreak' = "letter"
    BY <2>1, <2>5 DEF NextBreak
  <2>10. Code(n)' = Code(n)
    BY <1>1 DEF Code
  <2> QED
    BY <1>1, <1>3, <2>3, <2>4, <2>6, <2>8, <2>9, <2>10 DEF BetweenInv, Pause, letter_gap_us, Slack
<1> QED
  BY <1>4, <1>5

LEMMA SamePrinted ==
  ASSUME PrintedInv, UNCHANGED <<sent, out>>
  PROVE  PrintedInv'
BY DEF PrintedInv, Printed

LEMMA DarkLink ==
  ASSUME LinkInv, TimingFits, Send, DarkActions
  PROVE  LinkInv'
<1>1. TypeOK' /\ SampleInv'
  BY TypeStep, SampleStep DEF LinkInv, Next
<1>2. SenderInv' /\ ~InLetter' /\ UNCHANGED sent
  BY DarkStep DEF LinkInv
<1>3. BetweenInv'
  BY DarkBetween DEF LinkInv
<1>4. LightInv' /\ DarkInv'
  BY <1>2 DEF LightInv, DarkInv, InLetter
<1>5. PrintedInv'
  BY <1>2, SamePrinted DEF LinkInv, Send, receiverVars
<1> QED
  BY <1>1, <1>2, <1>3, <1>4, <1>5 DEF LinkInv

\* The symbol being keyed ends, and the light has been seen.
LEMMA EndSymbolLink ==
  ASSUME LinkInv, TimingFits, Send, EndSymbol
  PROVE  LinkInv'
<1> USE DEF LinkInv
<1>1. TypeOK' /\ SampleInv'
  BY TypeStep, SampleStep DEF Next
<1>2. /\ control = "on" /\ now >= wake /\ light' = FALSE /\ control' = "off"
      /\ wake' = now + symbol_gap_us
      /\ UNCHANGED <<command, rep, ci, si, launched, sent, brk, now>>
      /\ UNCHANGED receiverVars
  BY DEF EndSymbol, Awake, Sleep, Send, SenderNext
<1>3. InLetter /\ InLetter'
  BY <1>2 DEF InLetter
<1>4. Morse' = Morse
  BY <1>2 DEF Morse, message
<1>5. wake \in Nat /\ now \in Nat /\ symbol_gap_us \in Nat /\ OverSleep \in Nat
      /\ light_start_time \in Nat /\ Slack \in Nat
  BY Numbers, Timing
<1>6. SenderInv'
  <2>1. SenderInv
    OBVIOUS
  <2>2. now' <= wake' + OverSleep
    BY ONLY <1>2, <1>5
  <2>3. (\A n \in 1 .. Len(sent) : /\ Len(Code(n)) \in 1 .. 5
                                  /\ decode_morse(Code(n)) = sent[n].char)'
    BY <1>2, <2>1 DEF SenderInv, Code
  <2>4. (/\ sent # <<>>
         /\ ci <= Len(message) /\ IsLetter(message[ci])
         /\ Code(Len(sent)) = Morse
         /\ si \in 1 .. Len(Morse)
         /\ brk = "letter")'
    BY <1>2, <1>3, <1>4, <2>1 DEF SenderInv, Code, message
  <2> QED
    BY <1>2, <1>3, <2>2, <2>3, <2>4 DEF SenderInv
<1>7. Began' = now
  BY <1>2, <1>5 DEF Began, symbol_gap_us
<1>8. light_on
  BY <1>2, <1>3, SeenAwake, Numbers DEF SenderInv, Awake
<1>9. DarkInv'
  <2> PICK d : d = Duration(Morse[si])
    OBVIOUS
  <2>1. d \in Nat
    BY DurationType
  <2>2. /\ wake - d <= light_start_time /\ light_start_time <= wake - d + Slack
        /\ last_activity_time = light_start_time /\ Stored(si - 1)
    BY <1>2, <1>8 DEF LightInv, Began
  <2>3. now <= wake + OverSleep
    BY <1>2 DEF SenderInv
  <2>4. now - light_start_time >= d - Slack /\ now - light_start_time <= d + OverSleep
    BY ONLY <1>2, <1>5, <2>1, <2>2, <2>3
  <2>5. sampled <= now
    BY DEF SampleInv
  <2>6. Stored(si - 1)' /\ Duration(Morse[si])' = d
    BY <1>2, <1>4, <2>2 DEF Stored, Code, receiverVars, Duration, dash_duration_us
  <2>7. light_on' /\ UNCHANGED <<sampled, light_start_time, last_activity_time, now>>
    BY <1>2, <1>8 DEF receiverVars
  <2>8. Began' <= now' /\ sampled' <= Began'
    BY <1>5, <1>7, <2>5, <2>7
  <2>9. /\ Began' - light_start_time' >= d - Slack
        /\ Began' - light_start_time' <= d + OverSleep
    BY <1>7, <2>4, <2>7
  <2> QED
    BY <2>2, <2>6, <2>7, <2>8, <2>9 DEF DarkInv, Slack
<1>10. LightInv' /\ BetweenInv'
  BY <1>2, <1>3 DEF LightInv, BetweenInv
<1>11. PrintedInv'
  BY <1>2, SamePrinted DEF receiverVars
<1> QED
  BY <1>1, <1>6, <1>9, <1>10, <1>11

\* The next symbol of the letter begins, and the gap has been seen.
LEMMA StartSymbolLink ==
  ASSUME LinkInv, TimingFits, Send, StartSymbol
  PROVE  LinkInv'
<1> USE DEF LinkInv
<1>1. TypeOK' /\ SampleInv'
  BY TypeStep, SampleStep DEF Next
<1>2. /\ control = "off" /\ now >= wake /\ light' = TRUE /\ control' = "on"
      /\ si < Len(Morse) /\ si' = si + 1
      /\ wake' = now + Duration(Morse[si + 1])
      /\ UNCHANGED <<command, rep, ci, launched, sent, brk, now>>
      /\ UNCHANGED receiverVars
  BY DEF StartSymbol, Awake, Sleep, Send, SenderNext
<1>3. InLetter /\ InLetter'
  BY <1>2 DEF InLetter
<1>4. Morse' = Morse
  BY <1>2 DEF Morse, message
<1>5. wake \in Nat /\ now \in Nat /\ symbol_gap_us \in Nat /\ OverSleep \in Nat
      /\ gap_start_time \in Nat /\ Slack \in Nat
  BY Numbers, Timing
<1> PICK d : d = Duration(Morse[si + 1])
  OBVIOUS
<1>6. d \in Nat
  BY DurationType
<1>7. /\ sent # <<>> /\ ci <= Len(message) /\ IsLetter(message[ci])
      /\ Code(Len(sent)) = Morse /\ si \in 1 .. Len(Morse) /\ brk = "letter"
      /\ now <= wake + OverSleep
  BY <1>2, <1>3 DEF SenderInv
<1>8. si + 1 \in 1 .. Len(Morse) /\ si + 1 > 1 /\ (si + 1) - 1 = si
  <2>1. Len(sent) \in 1 .. Len(sent)
    BY <1>7, LastIs
  <2>2. Len(Morse) \in 1 .. 5
    BY <1>7, <2>1, CodeType
  <2> QED
    BY ONLY <1>2, <1>7, <2>2
<1>9. SenderInv'
  <2>1. now' <= wake' + OverSleep
    <3>1. wake' = now + d /\ now' = now
      BY <1>2
    <3> QED
      BY ONLY <1>5, <1>6, <3>1
  <2>2. (\A n \in 1 .. Len(sent) : /\ Len(Code(n)) \in 1 .. 5
                                  /\ decode_morse(Code(n)) = sent[n].char)'
    BY <1>2 DEF SenderInv, Code
  <2>3. (/\ sent # <<>>
         /\ ci <= Len(message) /\ IsLetter(message[ci])
         /\ Code(Len(sent)) = Morse
         /\ si \in 1 .. Len(Morse)
         /\ brk = "letter")'
    BY <1>2, <1>4, <1>7, <1>8 DEF Code, message
  <2> QED
    BY <1>2, <1>3, <2>1, <2>2, <2>3 DEF SenderInv
<1>10. Began' = now
  <2>1. Duration(Morse[si])' = d
    BY <1>2, <1>4 DEF Duration, dash_duration_us
  <2>2. Began' = wake' - d
    BY <1>2, <2>1 DEF Began
  <2> QED
    BY <1>2, <1>5, <1>6, <2>2
<1>11. ~light_on
  BY <1>2, <1>3, SeenAwake, Numbers DEF SenderInv, Awake
<1>12. /\ wake - symbol_gap_us <= gap_start_time
       /\ last_activity_time = gap_start_time /\ Stored(si)
  BY <1>2, <1>11 DEF DarkInv, Began
<1>13. now - gap_start_time <= symbol_gap_us + OverSleep
  BY ONLY <1>5, <1>7, <1>12
<1>14. LightInv'
  <2>1. sampled <= now
    BY DEF SampleInv
  <2>2. si' > 1 /\ si' # 1 /\ (Stored(si - 1))'
    BY <1>2, <1>7, <1>8, <1>12 DEF Stored, Code, receiverVars
  <2>3. ~light_on' /\ UNCHANGED <<sampled, gap_start_time, last_activity_time, now>>
    BY <1>2, <1>11 DEF receiverVars
  <2>4. Began' <= now' /\ sampled' <= Began'
    BY <1>5, <1>10, <2>1, <2>3
  <2>5. Began' - gap_start_time' <= symbol_gap_us + OverSleep
    BY <1>10, <1>13, <2>3
  <2> QED
    BY <1>12, <2>2, <2>3, <2>4, <2>5 DEF LightInv, symbol_gap_us
<1>15. DarkInv' /\ BetweenInv'
  BY <1>2, <1>3 DEF DarkInv, BetweenInv
<1>16. PrintedInv'
  BY <1>2, SamePrinted DEF receiverVars
<1> QED
  BY <1>1, <1>9, <1>14, <1>15, <1>16

\* A new letter begins, after a gap that decides what follows the last one.
LEMMA StartLetterLink ==
  ASSUME LinkInv, TimingFits, Send, StartLetter
  PROVE  LinkInv'
<1> USE DEF LinkInv
<1>1. TypeOK' /\ SampleInv'
  BY TypeStep, SampleStep DEF Next
<1>2. /\ control = "next" /\ now >= wake /\ light' = TRUE /\ control' = "on"
      /\ ci <= Len(message) /\ IsLetter(message[ci])
      /\ si' = 1 /\ brk' = "letter"
      /\ wake' = now + Duration(Morse[1])
      /\ UNCHANGED <<command, rep, ci, launched, now>>
      /\ UNCHANGED receiverVars
  BY DEF StartLetter, Awake, Sleep, Send, SenderNext
<1>3. ~InLetter /\ InLetter' /\ NextBreak = brk
  BY <1>2 DEF InLetter, NextBreak
<1>4. Morse' = Morse
  BY <1>2 DEF Morse, message
<1>5. wake \in Nat /\ now \in Nat /\ OverSleep \in Nat /\ letter_gap_us \in Nat
      /\ word_gap_us \in Nat /\ gap_start_time \in Nat /\ Slack \in Nat /\ Len(sent) \in Nat
  BY Numbers, Timing
<1> PICK d : d = Duration(Morse[1])
  OBVIOUS
<1> PICK n : n = Len(sent)
  OBVIOUS
<1>6. d \in Nat
  BY DurationType
<1>7. now <= wake + OverSleep
  BY <1>2 DEF SenderInv
<1>8. /\ Len(sent') = n + 1 /\ n \in Nat
      /\ \A k \in 1 .. n : sent'[k] = sent[k]
      /\ sent'[n + 1] = [char |-> toupper(message[ci]), code |-> Morse, brk |-> brk]
      /\ Len(Morse) \in 1 .. 5
      /\ \A k \in 1 .. Len(sent') : /\ Len(sent'[k].code) \in 1 .. 5
                                   /\ decode_morse(sent'[k].code) = sent'[k].char
  <2>1. LineTypeOK /\ SenderTypeOK
    BY DEF TypeOK
  <2>2. \A k \in 1 .. Len(sent) : /\ Len(sent[k].code) \in 1 .. 5
                                 /\ decode_morse(sent[k].code) = sent[k].char
    BY DEF SenderInv, Code
  <2>3. /\ Len(sent') = Len(sent) + 1
        /\ \A k \in 1 .. Len(sent) : sent'[k] = sent[k]
        /\ sent'[Len(sent')] = [char |-> toupper(message[ci]), code |-> Morse, brk |-> brk]
        /\ Len(Morse) \in 1 .. 5
        /\ \A k \in 1 .. Len(sent') : /\ Len(sent'[k].code) \in 1 .. 5
                                     /\ decode_morse(sent'[k].code) = sent'[k].char
    BY <2>1, <2>2, KeyedLetter
  <2>4. Len(sent') = n + 1 /\ sent'[Len(sent')] = sent'[n + 1]
    BY <2>3
  <2> QED
    BY <1>5, <2>3, <2>4
<1>9. SenderInv'
  <2>1. now' <= wake' + OverSleep
    <3>1. wake' = now + d /\ now' = now
      BY <1>2
    <3> QED
      BY ONLY <1>5, <1>6, <3>1
  <2>2. (/\ sent # <<>>
         /\ ci <= Len(message) /\ IsLetter(message[ci])
         /\ Code(Len(sent)) = Morse
         /\ si \in 1 .. Len(Morse)
         /\ brk = "letter")'
    <3>1. sent' # <<>>
      BY <1>8, EmptySeq
    <3>2. Code(Len(sent))' = Morse
      BY <1>8 DEF Code
    <3>3. 1 \in 1 .. Len(Morse)
      <4>1. Len(Morse) \in 1 .. 5
        BY <1>8
      <4> QED
        BY ONLY <4>1
    <3> QED
      BY <1>2, <1>4, <3>1, <3>2, <3>3 DEF message
  <2>3. (\A k \in 1 .. Len(sent) : /\ Len(Code(k)) \in 1 .. 5
                                  /\ decode_morse(Code(k)) = sent[k].char)'
    BY <1>8 DEF Code
  <2> QED
    BY <1>2, <1>3, <2>1, <2>2, <2>3 DEF SenderInv
<1>10. Began' = now
  <2>1. Duration(Morse[si])' = d
    BY <1>2, <1>4 DEF Duration, dash_duration_us
  <2>2. Began' = wake' - d
    BY <1>2, <2>1 DEF Began
  <2> QED
    BY <1>2, <1>5, <1>6, <2>2
<1>11. ~light_on /\ Pause(n, brk, wake, OverSleep)
  BY <1>3 DEF BetweenInv
<1>12. UNCHANGED <<out, morse_buffer, gap_start_time, last_activity_time, sampled, light_on>>
  BY <1>2 DEF receiverVars
<1>13. Pause(n, brk, now, 2 * OverSleep)
  <2>1. CASE Len(out) = n /\ morse_buffer = <<>> /\ brk # "letter"
    BY <2>1 DEF Pause
  <2>2. CASE ~(Len(out) = n /\ morse_buffer = <<>> /\ brk # "letter")
    <3>1. /\ n > 0 /\ Len(out) = n - 1 /\ morse_buffer = Code(n)
          /\ gap_start_time > 0 /\ last_activity_time = gap_start_time
      BY <1>11, <2>2 DEF Pause
    <3>2. wake - gap_start_time >= letter_gap_us - Slack
      BY <1>11, <2>2 DEF Pause
    <3>3. now >= wake + 0 /\ 0 \in Nat
      BY <1>2, <1>5
    <3>4. now - gap_start_time >= letter_gap_us + 0 - Slack
      BY ONLY <1>5, <3>2, <3>3, LongerGap
    <3>5. brk = "letter" => now - gap_start_time <= letter_gap_us + 2 * OverSleep
      <4>1. brk = "letter" => wake - gap_start_time <= letter_gap_us + OverSleep
        BY <1>11, <2>2 DEF Pause
      <4> QED
        BY ONLY <1>5, <1>7, <4>1
    <3>6. brk = "word" => now - gap_start_time >= word_gap_us - Slack
      <4>1. CASE brk = "word"
        <5>1. wake - gap_start_time >= word_gap_us - Slack
          BY <1>11, <2>2, <4>1 DEF Pause
        <5>2. now - gap_start_time >= word_gap_us + 0 - Slack
          BY ONLY <1>5, <3>3, <5>1, LongerGap
        <5> QED
          BY ONLY <1>5, <5>2
      <4> QED
        BY <4>1
    <3>7. now - gap_start_time >= letter_gap_us - Slack
      BY ONLY <1>5, <3>4
    <3> QED
      BY <3>1, <3>5, <3>6, <3>7 DEF Pause
  <2> QED
    BY <2>1, <2>2
<1>14. Pause(Len(sent) - 1, sent[Len(sent)].brk, Began, 2 * OverSleep)'
  <2>1. /\ (Len(sent) - 1)' = n /\ sent'[Len(sent')].brk = brk
        /\ n > 0 => Code(n)' = Code(n)
    BY <1>8 DEF Code
  <2> QED
    BY <1>10, <1>12, <1>13, <2>1 DEF Pause, letter_gap_us, word_gap_us, Slack
<1>15. LightInv'
  <2>1. sampled <= now
    BY DEF SampleInv
  <2> QED
    BY <1>2, <1>5, <1>10, <1>11, <1>12, <1>14, <2>1 DEF LightInv
<1>16. DarkInv' /\ BetweenInv'
  BY <1>2, <1>3 DEF DarkInv, BetweenInv
<1>17. PrintedInv'
  <2>1. Len(out) <= n /\ Len(out) \in Nat
    BY Numbers DEF PrintedInv
  <2>2. ASSUME NEW k \in 1 .. Len(out)
        PROVE  Printed(k)'
    <3>1. /\ out[k].char = sent[k].char
          /\ IF k < n THEN out[k].sep \in SeparatorFor(sent[k + 1].brk) ELSE out[k].sep = "\n"
      BY DEF PrintedInv, Printed
    <3>2. k \in 1 .. n /\ k \in Nat /\ k < n + 1 /\ (k < n => k + 1 \in 1 .. n) /\ (~(k < n) => k = n)
      BY <1>8, <2>1
    <3>3. out[k].sep \in SeparatorFor(sent'[k + 1].brk)
      <4>1. CASE k < n
        BY <1>8, <3>1, <3>2, <4>1
      <4>2. CASE ~(k < n)
        <5>1. k = n /\ out[k].sep = "\n"
          BY <3>1, <3>2, <4>2
        <5>2. Len(out) = n
          BY <1>8, <2>1, <5>1
        <5>3. brk # "letter"
          BY <1>8, <1>11, <5>2 DEF Pause
        <5>4. brk \in Break /\ sent'[n + 1].brk = brk
          BY <1>8 DEF TypeOK, SenderTypeOK
        <5> QED
          BY <5>1, <5>3, <5>4 DEF Break, SeparatorFor, Separator
      <4> QED
        BY <4>1, <4>2
    <3> QED
      BY <1>8, <1>12, <3>1, <3>2, <3>3 DEF Printed
  <2>3. Len(out') <= Len(sent') /\ Len(out') = Len(out)
    BY <1>8, <1>12, <2>1
  <2> QED
    BY <1>12, <2>2, <2>3 DEF PrintedInv
<1> QED
  BY <1>1, <1>9, <1>15, <1>16, <1>17

LEMMA SendLink ==
  ASSUME LinkInv, TimingFits, Send
  PROVE  LinkInv'
BY DarkLink, EndSymbolLink, StartSymbolLink, StartLetterLink
   DEF Send, SenderNext, SenderRuns, DarkActions

-----------------------------------------------------------------------------
(* The receiver's samples                                                  *)

\* What the pulses of the two symbols are measured as.
LEMMA PulseTiming ==
  ASSUME TimingFits
  PROVE  /\ dot_duration_us + OverSleep + Slack < DASH_MIN_DURATION
         /\ DASH_MIN_DURATION <= dash_duration_us - Slack
         /\ DOT_DURATION \div 2 <= dot_duration_us - Slack
         /\ DASH_MIN_DURATION \in Nat /\ DOT_DURATION \div 2 \in Int
BY DEF TimingFits, Slack

\* A sample leaves the sender alone.
LEMMA SenderStays ==
  ASSUME LinkInv, Receive
  PROVE  /\ SenderInv' /\ sent' = sent /\ now' = now /\ si' = si /\ control' = control
         /\ light' = light /\ wake' = wake
         /\ Began' = Began /\ Morse' = Morse /\ NextBreak' = NextBreak /\ (InLetter' <=> InLetter)
         /\ \A n : Code(n)' = Code(n)
<1>1. UNCHANGED <<now, light, sent, si, control, command, rep, ci, wake, launched, brk>>
  BY DEF Receive, ReceiverNext, senderVars
<1>2. Morse' = Morse /\ NextBreak' = NextBreak /\ (InLetter' <=> InLetter)
  BY <1>1 DEF Morse, message, NextBreak, InLetter
<1>3. Began' = Began
  BY <1>1, <1>2 DEF Began, Duration, symbol_gap_us, dash_duration_us
<1>4. \A n : Code(n)' = Code(n)
  BY <1>1 DEF Code
<1>5. SenderInv'
  BY <1>1 DEF LinkInv, SenderInv, Code, InLetter, Morse, message
<1> QED
  BY <1>1, <1>2, <1>3, <1>4, <1>5

\* The letter that is printed is the next one.
LEMMA PrintsNext ==
  ASSUME LinkInv, sent' = sent, NEW separator \in Separator, NEW k \in 1 .. Len(sent),
         Len(out) = k - 1, morse_buffer = Code(k), PrintLetter(separator),
         IF k < Len(sent) THEN separator \in SeparatorFor(sent[k + 1].brk) ELSE separator = "\n"
  PROVE  PrintedInv' /\ Len(out') = k /\ morse_buffer' = <<>>
<1> PICK shown : shown = PrintedLetter(separator)
  OBVIOUS
<1>1. out \in Seq(Shown) /\ out' = Append(out, shown) /\ morse_buffer' = <<>>
  BY Numbers DEF LinkInv, PrintLetter, PrintedLetter
<1>2. k \in Nat /\ k <= Len(sent) /\ Len(sent) \in Nat
  BY Numbers DEF LinkInv
<1>3. Len(out') = k /\ out'[k] = shown /\ \A j \in 1 .. k - 1 : out'[j] = out[j]
  BY <1>1, <1>2
<1>4. shown.char = sent[k].char /\ shown.sep = separator
  BY CodeType DEF LinkInv, PrintedLetter
<1>5. ASSUME NEW j \in 1 .. k
      PROVE  Printed(j)'
  <2>1. CASE j = k
    BY <1>3, <1>4, <2>1 DEF Printed
  <2>2. CASE j # k
    <3>1. j \in 1 .. k - 1
      BY ONLY <1>2, <2>2, j \in 1 .. k
    <3>2. Printed(j)
      BY <3>1 DEF LinkInv, PrintedInv
    <3> QED
      BY <1>3, <3>1, <3>2 DEF Printed
  <2> QED
    BY <2>1, <2>2
<1> QED
  BY <1>1, <1>2, <1>3, <1>5 DEF PrintedInv

\* A change of the light that a sample sees is at most Slack old.
LEMMA EdgeAge ==
  ASSUME NEW edge \in Int, NEW t \in Nat, NEW slack \in Nat, NEW clock \in Nat,
         t <= edge, clock <= t + slack
  PROVE  clock <= edge + slack
OBVIOUS

LEMMA BeganType ==
  ASSUME LinkInv, TimingFits
  PROVE  Began \in Int
<1>1. PICK d : d = Duration(Morse[si])
  OBVIOUS
<1>2. d \in Nat /\ symbol_gap_us \in Nat /\ wake \in Nat
  BY <1>1, DurationType, Timing, Numbers DEF LinkInv
<1> QED
  BY <1>1, <1>2 DEF Began

\* The light comes on within a letter.
LEMMA RisingSymbol ==
  ASSUME LinkInv, TimingFits, Receive, SampleRising, si > 1
  PROVE  UNCHANGED <<out, morse_buffer>>
<1>1. control = "on" /\ ~light_on /\ InLetter
  BY DEF LinkInv, SenderInv, SampleRising, InLetter
<1>2. /\ sampled <= Began /\ Began - gap_start_time <= symbol_gap_us + OverSleep
      /\ last_activity_time = gap_start_time
  BY <1>1 DEF LinkInv, LightInv
<1>3. now \in Nat /\ sampled \in Nat /\ gap_start_time \in Nat /\ Began \in Int
      /\ Slack \in Nat /\ OverSleep \in Nat /\ symbol_gap_us \in Nat
  BY BeganType, Numbers, Timing DEF LinkInv
<1>4. now <= sampled + Slack
  BY DEF LinkInv, SampleInv
<1>5. now <= Began + Slack
  BY ONLY <1>2, <1>3, <1>4, EdgeAge
<1>6. now - gap_start_time <= symbol_gap_us + OverSleep + Slack
  BY ONLY <1>2, <1>3, <1>5
<1>7. /\ symbol_gap_us + OverSleep + Slack <= LETTER_GAP_MIN
      /\ symbol_gap_us + OverSleep + Slack <= WORD_GAP_MIN
      /\ symbol_gap_us + OverSleep + Slack <= TIMEOUT_MS
      /\ LETTER_GAP_MIN \in Nat /\ WORD_GAP_MIN \in Nat /\ TIMEOUT_MS \in Nat
  BY Timing
<1>8. ~(now - gap_start_time > LETTER_GAP_MIN) /\ ~(now - gap_start_time > WORD_GAP_MIN)
      /\ ~(now - gap_start_time > TIMEOUT_MS)
  BY ONLY <1>3, <1>6, <1>7
<1>9. ~TimedOut
  BY <1>2, <1>8 DEF TimedOut
<1> QED
  BY <1>8, <1>9 DEF SampleRising, PrintAfter, PrintNothing

\* The light comes on for a new letter: the one before it is printed.
LEMMA RisingLetter ==
  ASSUME LinkInv, TimingFits, Receive, SampleRising, si = 1
  PROVE  Len(out') = Len(sent) - 1 /\ morse_buffer' = <<>> /\ PrintedInv'
<1>1. control = "on" /\ ~light_on /\ InLetter
  BY DEF LinkInv, SenderInv, SampleRising, InLetter
<1> PICK n : n = Len(sent) - 1
  OBVIOUS
<1> PICK break : break = sent[Len(sent)].brk
  OBVIOUS
<1>2. sampled <= Began /\ Pause(n, break, Began, 2 * OverSleep)
  BY <1>1 DEF LinkInv, LightInv
<1>3. now \in Nat /\ sampled \in Nat /\ gap_start_time \in Nat /\ Began \in Int
      /\ Slack \in Nat /\ OverSleep \in Nat /\ letter_gap_us \in Nat /\ word_gap_us \in Nat
      /\ LETTER_GAP_MIN \in Nat /\ WORD_GAP_MIN \in Nat /\ TIMEOUT_MS \in Nat
  BY BeganType, Numbers, Timing DEF LinkInv
<1>4. Len(sent) \in 1 .. Len(sent) /\ Len(sent) \in Nat /\ Len(sent) > 0 /\ n \in Nat
  <2>1. sent # <<>>
    BY <1>1 DEF LinkInv, SenderInv
  <2>2. Len(sent) \in 1 .. Len(sent) /\ Len(sent) \in Nat /\ Len(sent) > 0
    BY <2>1, LastIs, Numbers DEF LinkInv
  <2> QED
    BY ONLY <2>2, n = Len(sent) - 1
<1>5. sent' = sent
  BY SenderStays
<1>6. CASE Len(out) = n /\ morse_buffer = <<>>
  <2>1. UNCHANGED <<out, morse_buffer>>
    BY <1>6 DEF SampleRising, TimedOut, PrintNothing
  <2> QED
    BY <1>5, <1>6, <2>1, SamePrinted DEF LinkInv
<1>7. CASE ~(Len(out) = n /\ morse_buffer = <<>>)
  <2>1. /\ n > 0 /\ Len(out) = n - 1 /\ morse_buffer = Code(n)
        /\ gap_start_time > 0 /\ last_activity_time = gap_start_time
    BY <1>2, <1>7 DEF Pause
  <2>2. Began - gap_start_time >= letter_gap_us - Slack
    BY <1>2, <1>7 DEF Pause
  <2>3. n \in 1 .. Len(sent) /\ n < Len(sent) /\ n + 1 = Len(sent)
    BY ONLY <1>4, <2>1, n = Len(sent) - 1
  <2>4. morse_buffer # <<>> /\ break \in Break
    BY <1>4, <2>1, <2>3, CodeType DEF LinkInv
  <2>5. Began <= now /\ now <= Began + Slack
    <3>1. now <= sampled + Slack /\ Began <= now
      BY <1>1 DEF LinkInv, SampleInv, LightInv
    <3> QED
      BY ONLY <1>2, <1>3, <3>1, EdgeAge
  <2>6. now - gap_start_time > LETTER_GAP_MIN
    <3>1. LETTER_GAP_MIN < letter_gap_us - Slack
      BY Timing
    <3> QED
      BY ONLY <1>3, <2>2, <2>5, <3>1
  <2>7. break = "letter" => /\ ~(now - gap_start_time > WORD_GAP_MIN)
                            /\ ~(now - gap_start_time > TIMEOUT_MS)
    <3>1. /\ letter_gap_us + 2 * OverSleep + Slack <= WORD_GAP_MIN
          /\ letter_gap_us + 2 * OverSleep + Slack <= TIMEOUT_MS
      BY Timing
    <3>2. break = "letter" => Began - gap_start_time <= letter_gap_us + 2 * OverSleep
      BY <1>2, <1>7 DEF Pause
    <3> QED
      BY ONLY <1>3, <2>5, <3>1, <3>2
  <2>8. break = "word" => now - gap_start_time > WORD_GAP_MIN
    <3>1. WORD_GAP_MIN < word_gap_us - Slack
      BY Timing
    <3>2. break = "word" => Began - gap_start_time >= word_gap_us - Slack
      BY <1>2, <1>7 DEF Pause
    <3> QED
      BY ONLY <1>3, <2>5, <3>1, <3>2
  <2>9. TimedOut <=> now - gap_start_time > TIMEOUT_MS
    BY <2>1, <2>4 DEF TimedOut
  <2>10. PICK separator \in SeparatorFor(break) : PrintLetter(separator)
    <3>1. CASE TimedOut
      <4>1. PrintLetter("\n") /\ break \in {"word", "idle"}
        BY <2>4, <2>7, <2>9, <3>1 DEF SampleRising, Break
      <4>2. "\n" \in SeparatorFor(break)
        BY <4>1 DEF SeparatorFor, Separator
      <4> QED
        BY <4>1, <4>2
    <3>2. CASE ~TimedOut /\ now - gap_start_time > WORD_GAP_MIN
      <4>1. PrintLetter(" ") /\ break \in {"word", "idle"}
        BY <2>1, <2>4, <2>7, <3>2 DEF SampleRising, PrintAfter, Break
      <4>2. " " \in SeparatorFor(break)
        BY <4>1 DEF SeparatorFor, Separator
      <4> QED
        BY <4>1, <4>2
    <3>3. CASE ~TimedOut /\ ~(now - gap_start_time > WORD_GAP_MIN)
      <4>1. PrintLetter("") /\ break \in {"letter", "idle"}
        BY <2>1, <2>4, <2>6, <2>8, <3>3 DEF SampleRising, PrintAfter, Break
      <4>2. "" \in SeparatorFor(break)
        BY <4>1 DEF SeparatorFor, Separator
      <4> QED
        BY <4>1, <4>2
    <3> QED
      BY <3>1, <3>2, <3>3
  <2>11. separator \in Separator
    BY <2>4 DEF SeparatorFor, Separator, Break
  <2>12. separator \in SeparatorFor(sent[n + 1].brk)
    BY <2>3
  <2>13. PrintedInv' /\ Len(out') = n /\ morse_buffer' = <<>>
    BY <1>5, <2>1, <2>3, <2>10, <2>11, <2>12, PrintsNext
  <2> QED
    BY <2>13
<1> QED
  BY <1>6, <1>7

LEMMA RisingLink ==
  ASSUME LinkInv, TimingFits, Receive, SampleRising
  PROVE  LinkInv'
<1>1. TypeOK' /\ SampleInv'
  BY TypeStep, SampleStep DEF LinkInv, Next
<1>2. control = "on" /\ ~light_on /\ InLetter
  BY DEF LinkInv, SenderInv, SampleRising, InLetter
<1>3. light_on' /\ light_start_time' = now /\ last_activity_time' = now
  BY DEF SampleRising
<1>4. Began <= now /\ now <= Began + Slack
  <2>1. now <= sampled + Slack /\ Began <= now /\ sampled <= Began
    BY <1>2 DEF LinkInv, SampleInv, LightInv
  <2>2. now \in Nat /\ sampled \in Nat /\ Began \in Int /\ Slack \in Nat
    BY BeganType, Numbers DEF LinkInv
  <2> QED
    BY ONLY <2>1, <2>2, EdgeAge
<1>5. si \in Nat /\ si >= 1
  <2>1. Len(sent) \in 1 .. Len(sent) /\ Code(Len(sent)) = Morse /\ si \in 1 .. Len(Morse)
    BY <1>2, LastIs DEF LinkInv, SenderInv
  <2> QED
    BY <2>1, Numbers DEF LinkInv
<1>6. PrintedInv' /\ Len(out') = Len(sent) - 1
      /\ morse_buffer' = SubSeq(Code(Len(sent)), 1, si - 1)
  <2>1. CASE si > 1
    <3>1. Stored(si - 1) /\ UNCHANGED <<out, morse_buffer>>
      BY <1>2, <2>1, RisingSymbol DEF LinkInv, LightInv
    <3> QED
      BY <3>1, SamePrinted, SenderStays DEF LinkInv, Stored
  <2>2. CASE si = 1
    <3>1. SubSeq(Code(Len(sent)), 1, si - 1) = <<>>
      <4>1. Code(Len(sent)) \in Seq(Symbol)
        BY <1>2, LastIs, CodeType DEF LinkInv, SenderInv
      <4>2. si - 1 = 0
        BY <2>2
      <4> QED
        BY <4>1, <4>2, SubSeqEmpty
    <3> QED
      BY <2>2, <3>1, RisingLetter
  <2> QED
    BY <1>5, <2>1, <2>2
<1>7. Stored(si - 1)'
  BY <1>6, SenderStays DEF Stored
<1>8. LightInv'
  BY <1>3, <1>4, <1>7, SenderStays DEF LightInv, Slack
<1>9. DarkInv' /\ BetweenInv'
  BY <1>2, SenderStays DEF DarkInv, BetweenInv
<1> QED
  BY <1>1, <1>6, <1>8, <1>9, SenderStays DEF LinkInv

\* A timeout needs a letter that waits longer than any gap within a word.
LEMMA SoonEnough ==
  ASSUME LinkInv, TimingFits, NEW age \in Int, age <= letter_gap_us + 2 * OverSleep + Slack
  PROVE  ~(age > TIMEOUT_MS)
<1>1. letter_gap_us \in Nat /\ OverSleep \in Nat /\ Slack \in Nat /\ TIMEOUT_MS \in Nat
      /\ letter_gap_us + 2 * OverSleep + Slack <= TIMEOUT_MS
  BY Timing
<1> QED
  BY ONLY <1>1, age \in Int, age <= letter_gap_us + 2 * OverSleep + Slack

LEMMA SymbolTiming ==
  ASSUME TimingFits, NEW s
  PROVE  /\ Duration(s) \in Nat /\ Duration(s) <= letter_gap_us
         /\ symbol_gap_us <= letter_gap_us
BY Timing DEF Duration

\* Within a letter nothing times out.
LEMMA NoTimeoutInLetter ==
  ASSUME LinkInv, TimingFits, InLetter, light_on \/ control = "off"
  PROVE  ~TimedOut
<1> PICK d : d = Duration(Morse[si])
  OBVIOUS
<1>1. d \in Nat /\ d <= letter_gap_us /\ symbol_gap_us <= letter_gap_us
  BY SymbolTiming
<1>2. now <= wake + OverSleep /\ now <= sampled + Slack
  BY DEF LinkInv, SenderInv, InLetter, SampleInv
<1>3. now \in Nat /\ wake \in Nat /\ sampled \in Nat /\ OverSleep \in Nat /\ Slack \in Nat
      /\ symbol_gap_us \in Nat /\ letter_gap_us \in Nat
      /\ last_activity_time \in Nat /\ light_start_time \in Nat /\ gap_start_time \in Nat
  BY Numbers, Timing DEF LinkInv
<1>4. CASE control = "on"
  <2>1. wake - d <= last_activity_time
    BY <1>4 DEF LinkInv, LightInv, Began
  <2>2. now - last_activity_time <= letter_gap_us + 2 * OverSleep + Slack
    BY ONLY <1>1, <1>2, <1>3, <2>1
  <2> QED
    BY <1>3, <2>2, SoonEnough DEF TimedOut
<1>5. CASE control = "off"
  <2>1. CASE light_on
    <3>1. /\ sampled <= wake - symbol_gap_us /\ last_activity_time = light_start_time
          /\ wake - symbol_gap_us - light_start_time <= d + OverSleep
      BY <1>5, <2>1 DEF LinkInv, DarkInv, Began
    <3>2. now <= wake - symbol_gap_us + Slack
      BY ONLY <1>2, <1>3, <3>1
    <3>3. now - last_activity_time <= letter_gap_us + 2 * OverSleep + Slack
      BY ONLY <1>1, <1>3, <3>1, <3>2
    <3> QED
      BY <1>3, <3>3, SoonEnough DEF TimedOut
  <2>2. CASE ~light_on
    <3>1. /\ wake - symbol_gap_us <= gap_start_time /\ last_activity_time = gap_start_time
      BY <1>5, <2>2 DEF LinkInv, DarkInv, Began
    <3>2. now - last_activity_time <= letter_gap_us + 2 * OverSleep + Slack
      BY ONLY <1>1, <1>2, <1>3, <3>1
    <3> QED
      BY <1>3, <3>2, SoonEnough DEF TimedOut
  <2> QED
    BY <2>1, <2>2
<1> QED
  BY <1>4, <1>5 DEF InLetter

\* The light goes off: the pulse is stored as the symbol that was keyed.
LEMMA FallingLink ==
  ASSUME LinkInv, TimingFits, Receive, SampleFalling
  PROVE  LinkInv'
<1>1. TypeOK' /\ SampleInv'
  BY TypeStep, SampleStep DEF LinkInv, Next
<1>2. control = "off" /\ light_on /\ InLetter
  <2>1. ~light /\ light_on
    BY DEF SampleFalling
  <2>2. InLetter /\ control # "on"
    BY <2>1 DEF LinkInv, SenderInv, BetweenInv
  <2> QED
    BY <2>1, <2>2 DEF InLetter
<1> PICK d : d = Duration(Morse[si])
  OBVIOUS
<1> PICK n : n = Len(sent)
  OBVIOUS
<1>3. /\ sampled <= Began /\ Began <= now /\ Stored(si - 1)
      /\ last_activity_time = light_start_time
      /\ Began - light_start_time >= d - Slack /\ Began - light_start_time <= d + OverSleep
  BY <1>2 DEF LinkInv, DarkInv
<1>4. now \in Nat /\ now > 0 /\ sampled \in Nat /\ light_start_time \in Nat /\ Began \in Int
      /\ Slack \in Nat /\ OverSleep \in Nat /\ d \in Nat
  BY BeganType, Numbers, Timing, DurationType DEF LinkInv
<1>5. now <= Began + Slack
  <2>1. now <= sampled + Slack
    BY DEF LinkInv, SampleInv
  <2> QED
    BY ONLY <1>3, <1>4, <2>1, EdgeAge
<1>6. now - light_start_time >= d - Slack /\ now - light_start_time <= d + OverSleep + Slack
  BY ONLY <1>3, <1>4, <1>5
<1>7. ~TimedOut
  BY <1>2, NoTimeoutInLetter
<1>8. /\ n \in 1 .. Len(sent) /\ Code(n) = Morse /\ si \in 1 .. Len(Code(n))
      /\ Code(n) \in Seq(Symbol) /\ Len(Code(n)) \in 1 .. 5
  BY <1>2, LastIs, CodeType DEF LinkInv, SenderInv
<1>9. /\ SubSeq(Code(n), 1, si) = SubSeq(Code(n), 1, si - 1) \o <<Morse[si]>>
      /\ Len(SubSeq(Code(n), 1, si - 1)) < 5 /\ Len(SubSeq(Code(n), 1, si - 1)) = si - 1
      /\ Morse[si] \in Symbol
  BY <1>8, OneMoreSymbol
<1>10. Len(morse_buffer) < BufferSize - 1
  <2>1. morse_buffer = SubSeq(Code(n), 1, si - 1)
    BY <1>3 DEF Stored
  <2>2. Len(morse_buffer) < 5 /\ Len(morse_buffer) \in Nat
    BY <1>9, <2>1, Numbers, LenProperties DEF LinkInv
  <2>3. BufferSize > 5 /\ BufferSize \in Nat
    BY Timing
  <2> QED
    BY ONLY <2>2, <2>3
<1>11. SymbolsOf(now - light_start_time) = <<Morse[si]>>
  <2> PICK pulse : pulse = now - light_start_time
    OBVIOUS
  <2>1. pulse \in Int /\ pulse >= d - Slack /\ pulse <= d + OverSleep + Slack
    BY <1>4, <1>6
  <2>2. CASE Morse[si] = Dot
    <3>1. d = dot_duration_us /\ dot_duration_us \in Nat
      BY <2>2, Timing DEF Duration
    <3>2. /\ dot_duration_us + OverSleep + Slack < DASH_MIN_DURATION
          /\ DOT_DURATION \div 2 <= dot_duration_us - Slack
          /\ DASH_MIN_DURATION \in Nat /\ DOT_DURATION \div 2 \in Int
      BY PulseTiming
    <3> PICK half : half = DOT_DURATION \div 2
      OBVIOUS
    <3>3. half <= dot_duration_us - Slack /\ half \in Int
      BY <3>2
    <3>4. ~(pulse >= DASH_MIN_DURATION) /\ pulse >= half
      BY ONLY <1>4, <2>1, <3>1, <3>2, <3>3
    <3> QED
      BY <2>2, <3>4 DEF SymbolsOf
  <2>3. CASE Morse[si] = Dash
    <3>1. d = dash_duration_us /\ dash_duration_us \in Nat
      BY <2>3, Timing DEF Duration, Dash, Dot
    <3>2. DASH_MIN_DURATION <= dash_duration_us - Slack /\ DASH_MIN_DURATION \in Nat
      BY PulseTiming
    <3>3. pulse >= DASH_MIN_DURATION
      BY ONLY <1>4, <2>1, <3>1, <3>2
    <3> QED
      BY <2>3, <3>3 DEF SymbolsOf
  <2> QED
    BY <1>9, <2>2, <2>3 DEF Symbol
<1>12. /\ light_on' = FALSE /\ gap_start_time' = now /\ last_activity_time' = now
       /\ out' = out /\ morse_buffer' = SubSeq(Code(n), 1, si)
  BY <1>3, <1>7, <1>9, <1>10, <1>11 DEF SampleFalling, Stored
<1>13. Stored(si)'
  BY <1>3, <1>12, SenderStays DEF Stored
<1>14. DarkInv'
  BY <1>3, <1>4, <1>5, <1>12, <1>13, SenderStays DEF DarkInv, Slack
<1>15. LightInv' /\ BetweenInv'
  BY <1>2, SenderStays DEF LightInv, BetweenInv
<1>16. PrintedInv'
  BY <1>12, SenderStays, SamePrinted DEF LinkInv
<1> QED
  BY <1>1, <1>14, <1>15, <1>16, SenderStays DEF LinkInv

\* A sample that sees no change prints a letter only at the end of a word.
LEMMA SteadyLink ==
  ASSUME LinkInv, TimingFits, Receive, SampleSteady
  PROVE  LinkInv'
<1>1. TypeOK' /\ SampleInv'
  BY TypeStep, SampleStep DEF LinkInv, Next
<1>2. light = light_on /\ light \in BOOLEAN /\ light_on' = light_on
      /\ UNCHANGED <<light_start_time, gap_start_time>>
  BY Numbers DEF LinkInv, SampleSteady
<1>3. CASE InLetter
  <2>1. light_on \/ control = "off"
    BY <1>2, <1>3 DEF LinkInv, SenderInv, InLetter
  <2>2. UNCHANGED <<out, morse_buffer, last_activity_time>>
    BY <1>3, <2>1, NoTimeoutInLetter DEF SampleSteady, PrintNothing
  <2>3. PrintedInv'
    BY <2>2, SenderStays, SamePrinted DEF LinkInv
  <2>4. control = "on" => light_on
    BY <1>2 DEF LinkInv, SenderInv
  <2>5. control = "off" => ~light_on
    BY <1>2 DEF LinkInv, SenderInv
  <2>6. \A k : Stored(k)' <=> Stored(k)
    BY <2>2, SenderStays DEF Stored
  <2>7. LightInv'
    BY <1>2, <2>2, <2>4, <2>6, SenderStays DEF LightInv, LinkInv, Slack
  <2>8. DarkInv'
    BY <1>2, <2>2, <2>5, <2>6, SenderStays DEF DarkInv, LinkInv, Slack
  <2>9. BetweenInv'
    BY <1>3, SenderStays DEF BetweenInv
  <2> QED
    BY <1>1, <2>3, <2>7, <2>8, <2>9, SenderStays DEF LinkInv
<1>4. CASE ~InLetter
  <2> PICK n : n = Len(sent)
    OBVIOUS
  <2>1. ~light_on /\ Pause(n, NextBreak, wake, OverSleep)
    BY <1>4 DEF LinkInv, BetweenInv
  <2>2. CASE ~TimedOut
    <3>1. UNCHANGED <<out, morse_buffer, last_activity_time>>
      BY <2>2 DEF SampleSteady, PrintNothing
    <3>2. Pause(n, NextBreak, wake, OverSleep)'
      BY <1>2, <2>1, <3>1, SenderStays DEF Pause, letter_gap_us, word_gap_us, Slack
    <3>3. BetweenInv'
      BY <1>2, <2>1, <3>2, SenderStays DEF BetweenInv
    <3>4. PrintedInv'
      BY <3>1, SenderStays, SamePrinted DEF LinkInv
    <3> QED
      BY <1>1, <1>4, <3>3, <3>4, SenderStays DEF LinkInv, LightInv, DarkInv, InLetter
  <2>3. CASE TimedOut
    <3>1. morse_buffer # <<>> /\ now - last_activity_time > TIMEOUT_MS /\ PrintLetter("\n")
      BY <2>3 DEF TimedOut, SampleSteady
    <3>2. n > 0 /\ Len(out) = n - 1 /\ morse_buffer = Code(n)
          /\ last_activity_time = gap_start_time
      BY <2>1, <3>1 DEF Pause
    <3>3. NextBreak # "letter"
      <4>1. SUFFICES ASSUME NextBreak = "letter"
                     PROVE  FALSE
        OBVIOUS
      <4>2. wake - gap_start_time <= letter_gap_us + OverSleep
        BY <2>1, <3>1, <4>1 DEF Pause
      <4>3. now <= wake + OverSleep
        BY <4>1 DEF NextBreak, LinkInv, SenderInv
      <4>4. now \in Nat /\ wake \in Nat /\ gap_start_time \in Nat /\ letter_gap_us \in Nat
            /\ OverSleep \in Nat /\ Slack \in Nat
        BY Numbers, Timing DEF LinkInv
      <4>5. now - gap_start_time <= letter_gap_us + 2 * OverSleep + Slack
        BY ONLY <4>2, <4>3, <4>4
      <4> QED
        BY <3>1, <3>2, <4>4, <4>5, SoonEnough
    <3>4. n \in 1 .. Len(sent) /\ ~(n < Len(sent))
      <4>1. n \in Nat
        BY Numbers DEF LinkInv
      <4> QED
        BY ONLY <3>2, <4>1, n = Len(sent)
    <3>5. PrintedInv' /\ Len(out') = n /\ morse_buffer' = <<>>
      BY <3>1, <3>2, <3>4, PrintsNext, SenderStays DEF Separator
    <3>6. BetweenInv'
      BY <1>2, <2>1, <3>3, <3>5, SenderStays DEF BetweenInv, Pause
    <3> QED
      BY <1>1, <1>4, <3>5, <3>6, SenderStays DEF LinkInv, LightInv, DarkInv, InLetter
  <2> QED
    BY <2>2, <2>3
<1> QED
  BY <1>3, <1>4

LEMMA ReceiveLink ==
  ASSUME LinkInv, TimingFits, Receive
  PROVE  LinkInv'
BY RisingLink, FallingLink, SteadyLink DEF Receive, ReceiverNext

-----------------------------------------------------------------------------
(* The invariant and the refinement                                        *)

LEMMA TickLink ==
  ASSUME LinkInv, TimingFits, Tick
  PROVE  LinkInv'
<1>1. TypeOK' /\ SampleInv'
  BY TypeStep, SampleStep DEF LinkInv, Next
<1>2. /\ now' = now + 1 /\ UNCHANGED <<light, sent, si, senderVars, receiverVars>>
      /\ IF control = "exited" THEN TRUE ELSE now < wake + OverSleep
  BY DEF Tick, SenderMayWait
<1>3. UNCHANGED <<control, command, rep, ci, wake, launched, brk>>
      /\ UNCHANGED <<sampled, light_on, light_start_time, gap_start_time, last_activity_time,
                     morse_buffer, out, of>>
  BY <1>2 DEF senderVars, receiverVars
<1>4. now \in Nat /\ wake \in Nat /\ OverSleep \in Nat /\ Began \in Int
  BY Numbers, Timing, BeganType DEF LinkInv
<1>5. Morse' = Morse /\ NextBreak' = NextBreak /\ (InLetter' <=> InLetter)
  BY <1>3 DEF Morse, message, NextBreak, InLetter
<1>6. Began' = Began
  BY <1>3, <1>2, <1>5 DEF Began, Duration, symbol_gap_us, dash_duration_us
<1>7. \A n : Code(n)' = Code(n)
  BY <1>2 DEF Code
<1>8. \A k : Stored(k)' <=> Stored(k)
  BY <1>2, <1>3, <1>7 DEF Stored
<1>9. \A n, break, edge, late : Pause(n, break, edge, late)' <=> Pause(n, break, edge, late)
  BY <1>3, <1>7 DEF Pause, letter_gap_us, word_gap_us, Slack
<1>10. SenderInv'
  <2>1. (IF control = "exited" THEN now >= wake ELSE now <= wake + OverSleep)'
    <3>1. IF control = "exited" THEN now >= wake ELSE now <= wake + OverSleep
      BY DEF LinkInv, SenderInv
    <3> QED
      BY <1>2, <1>3, <1>4, <3>1
  <2> QED
    BY <1>2, <1>3, <1>5, <1>7, <2>1 DEF LinkInv, SenderInv, message
<1>11. Began <= now => Began <= now'
  BY <1>2, <1>4
<1>12. LightInv'
  BY <1>2, <1>3, <1>5, <1>6, <1>8, <1>9, <1>11 DEF LinkInv, LightInv, Pause, Stored, Slack,
     symbol_gap_us, Code
<1>13. DarkInv'
  BY <1>2, <1>3, <1>5, <1>6, <1>8, <1>11 DEF LinkInv, DarkInv, Stored, Slack, Duration,
     dash_duration_us, Code
<1>14. BetweenInv'
  BY <1>2, <1>3, <1>5, <1>7 DEF LinkInv, BetweenInv, Pause, letter_gap_us, word_gap_us, Slack
<1>15. PrintedInv'
  BY <1>2, <1>3, SamePrinted DEF LinkInv
<1> QED
  BY <1>1, <1>10, <1>12, <1>13, <1>14, <1>15 DEF LinkInv

LEMMA LinkInit == Init => LinkInv
<1> SUFFICES ASSUME Init
             PROVE  LinkInv
  OBVIOUS
<1>1. TypeOK /\ SampleInv
  BY TypeInit, SampleInit
<1>2. /\ now = 1 /\ light = FALSE /\ sent = <<>> /\ si = 1 /\ wake = 1
      /\ control = "exited" /\ brk = "idle"
      /\ light_on = FALSE /\ morse_buffer = <<>> /\ out = <<>>
  BY DEF Init, LineInit, SenderInit, ReceiverInit
<1>3. Len(sent) = 0 /\ Len(out) = 0
  BY <1>2
<1>4. SenderInv
  BY <1>2, <1>3 DEF SenderInv, InLetter
<1>5. LightInv /\ DarkInv
  BY <1>2 DEF LightInv, DarkInv
<1>6. BetweenInv
  BY <1>2, <1>3 DEF BetweenInv, Pause, NextBreak
<1>7. PrintedInv
  BY <1>3 DEF PrintedInv
<1> QED
  BY <1>1, <1>4, <1>5, <1>6, <1>7 DEF LinkInv

LEMMA LinkStep ==
  ASSUME LinkInv, TimingFits, [Next]_vars
  PROVE  LinkInv'
<1>1. CASE UNCHANGED vars
  <2>1. UNCHANGED <<now, light, sent, si, control, command, rep, ci, wake, launched, brk>>
        /\ UNCHANGED <<sampled, light_on, light_start_time, gap_start_time, last_activity_time,
                       morse_buffer, out, of>>
    BY <1>1 DEF vars, lineVars, senderVars, receiverVars
  <2>2. TypeOK' /\ SampleInv'
    BY TypeStep, SampleStep DEF LinkInv
  <2>3. SenderInv'
    BY <2>1 DEF LinkInv, SenderInv, Code, InLetter, Morse, message
  <2>4. LightInv' /\ DarkInv'
    BY <2>1 DEF LinkInv, LightInv, DarkInv, Began, Stored, Pause, Code, Morse, message, Duration,
       dash_duration_us, symbol_gap_us, letter_gap_us, word_gap_us, Slack
  <2>5. BetweenInv' /\ PrintedInv'
    BY <2>1 DEF LinkInv, BetweenInv, PrintedInv, Printed, Pause, NextBreak, InLetter, Code,
       letter_gap_us, word_gap_us, Slack
  <2> QED
    BY <2>2, <2>3, <2>4, <2>5 DEF LinkInv
<1> QED
  BY <1>1, SendLink, ReceiveLink, TickLink DEF Next

LEMMA DisplayLength ==
  ASSUME TypeOK
  PROVE  Len(display) = Len(out)
BY Numbers DEF display

\* The instance's vocabulary is the link's.
LEMMA SameVocabulary ==
  /\ Display!Separator = Separator
  /\ \A b : Display!SeparatorFor(b) = SeparatorFor(b)
  /\ \A s, t : Display!IsPrefix(s, t) <=> IsPrefix(s, t)
<1>1. Display!Separator = Separator
  BY DEF Display!Separator, Separator
<1>2. \A b : Display!SeparatorFor(b) = SeparatorFor(b)
  BY DEF Display!SeparatorFor, SeparatorFor, Display!Separator, Separator
<1>3. \A s, t : Display!IsPrefix(s, t) <=> IsPrefix(s, t)
  BY DEF Display!IsPrefix, IsPrefix
<1> QED
  BY <1>1, <1>2, <1>3

\* A key stroke is the abstract display's Key: a letter that is printed before
\* the next one is keyed has ended a line, and no letter of its word is keyed now.
LEMMA KeyStep ==
  ASSUME LinkInv, StartLetter, out' = out
  PROVE  Display!Key
<1> PICK letter : letter = [char |-> toupper(message[ci]), code |-> Morse, brk |-> brk]
  OBVIOUS
<1> PICK n : n = Len(sent)
  OBVIOUS
<1>1. sent \in Seq(SentLetter) /\ sent' = Append(sent, letter) /\ n \in Nat
  BY Numbers DEF LinkInv, StartLetter
<1>2. display' = display
  BY DEF display
<1>3. Len(sent') = n + 1 /\ (\A k \in 1 .. n : sent'[k] = sent[k]) /\ sent'[n + 1] = letter
  BY ONLY <1>1, n = Len(sent)
<1>4. IsPrefix(sent, sent')
  <2>1. SubSeq(sent, 1, n) = SubSeq(sent', 1, n)
    BY <1>1, <1>3
  <2> QED
    BY <1>1, <1>3, <2>1 DEF IsPrefix
<1>5. Len(display) = Len(out) /\ Len(out) \in Nat
  BY DisplayLength, Numbers DEF LinkInv
<1>6. Last(sent').brk = brk
  <2>1. Last(sent') = letter
    BY <1>3 DEF Last
  <2> QED
    BY <2>1
<1>7. ASSUME display # <<>>, Len(display) = n
      PROVE  Last(display).sep \in SeparatorFor(brk)
  <2>1. Len(out) = n /\ n > 0
    <3>1. Len(out) = 0 => display = <<>>
      BY <1>5 DEF display
    <3> QED
      BY <1>1, <1>5, <1>7, <3>1
  <2>2. brk # "letter"
    <3>1. Pause(n, brk, wake, OverSleep)
      BY DEF LinkInv, BetweenInv, StartLetter, InLetter, NextBreak
    <3> QED
      BY <1>1, <2>1, <3>1 DEF Pause
  <2>3. n \in 1 .. n /\ Last(display) = [char |-> out[n].char, sep |-> out[n].sep]
    <3>1. n \in 1 .. n
      BY ONLY <1>1, <2>1
    <3>2. display = [k \in 1 .. n |-> [char |-> out[k].char, sep |-> out[k].sep]]
      BY <2>1, Numbers DEF display, LinkInv
    <3>3. Last(display) = display[n]
      BY <1>7 DEF Last
    <3> QED
      BY <3>1, <3>2, <3>3
  <2>4. out[n].sep = "\n"
    <3>1. Printed(n)
      BY <2>1, <2>3 DEF LinkInv, PrintedInv
    <3> QED
      BY <1>1, <3>1 DEF Printed
  <2>5. brk \in Break
    BY DEF LinkInv, TypeOK, SenderTypeOK
  <2> QED
    BY <2>2, <2>3, <2>4, <2>5 DEF Break, SeparatorFor, Separator
<1>8. Display!Last(sent') = Last(sent') /\ Display!Last(display) = Last(display)
  BY DEF Display!Last, Last
<1> QED
  BY <1>2, <1>3, <1>4, <1>6, <1>7, <1>8, SameVocabulary DEF Display!Key

\* A printed letter is the abstract display's Show.
LEMMA ShowStep ==
  ASSUME LinkInv, LinkInv', sent' = sent,
         NEW separator \in Separator, out' = Append(out, PrintedLetter(separator))
  PROVE  Display!Show
<1> PICK n : n = Len(out) + 1
  OBVIOUS
<1> PICK shown : shown = PrintedLetter(separator)
  OBVIOUS
<1>1. out \in Seq(Shown) /\ Len(out) \in Nat /\ Len(sent) \in Nat
  BY Numbers DEF LinkInv
<1>2. out' = Append(out, shown) /\ shown.sep = separator
  BY DEF PrintedLetter
<1>3. Len(out') = n /\ out'[n] = shown /\ \A k \in 1 .. Len(out) : out'[k] = out[k]
  BY ONLY <1>1, <1>2, n = Len(out) + 1
<1>4. n \in 1 .. n /\ n \in Nat
  BY ONLY <1>1, n = Len(out) + 1
<1>5. /\ n <= Len(sent) /\ shown.char = sent[n].char
      /\ IF n < Len(sent) THEN separator \in SeparatorFor(sent[n + 1].brk)
                          ELSE separator = "\n"
  <2>1. PrintedInv'
    BY DEF LinkInv
  <2>2. n <= Len(sent') /\ Printed(n)'
    BY <1>3, <1>4, <2>1 DEF PrintedInv
  <2> QED
    BY <1>2, <1>3, <2>2 DEF Printed
<1>6. display' = Append(display, [char |-> sent[n].char, sep |-> separator])
  <2>1. display' = [k \in 1 .. n |-> [char |-> out'[k].char, sep |-> out'[k].sep]]
    <3>1. DOMAIN out' = 1 .. n
      BY <1>1, <1>2, n = Len(out) + 1
    <3> QED
      BY <3>1 DEF display
  <2>2. \A k \in 1 .. n : k \in 1 .. Len(out) \/ k = n
    BY ONLY <1>1, n = Len(out) + 1
  <2> QED
    BY <1>1, <1>2, <1>3, <1>5, <2>1, <2>2 DEF display
<1>7. Display!Fits(n, separator)
  BY <1>5, SameVocabulary DEF Display!Fits
<1>8. Len(display) = Len(out)
  BY DisplayLength DEF LinkInv
<1> QED
  BY <1>4, <1>5, <1>6, <1>7, <1>8, SameVocabulary DEF Display!Show

LEMMA DisplayStep ==
  ASSUME LinkInv, LinkInv', [Next]_vars
  PROVE  Display!Next \/ UNCHANGED <<sent, display>>
<1>1. CASE out' = out /\ sent' = sent
  BY <1>1 DEF display
<1>2. CASE Send /\ StartLetter
  BY <1>2, KeyStep DEF Send, receiverVars, Display!Next
<1>3. CASE Send /\ ~StartLetter
  BY <1>1, <1>3 DEF Send, receiverVars, SenderNext, SenderRuns, Launch, LaunchFails,
     SkipCharacter, SendSpace, EndSymbol, StartSymbol, EndLetter, NextCharacter, Repeat,
     NextRepetition, Exit
<1>4. CASE Receive
  <2>1. sent' = sent
    BY <1>4 DEF Receive, ReceiverNext
  <2> QED
    BY <1>1, <1>4, <2>1, SamplePrints, ShowStep DEF Display!Next
<1>5. CASE Tick \/ UNCHANGED vars
  BY <1>1, <1>5 DEF Tick, vars, lineVars, receiverVars
<1> QED
  BY <1>2, <1>3, <1>4, <1>5 DEF Next

(* At every moment the receiver's times are the sender's up to the delay   *)
(* of a sample, and what morse_receiver_task holds and has printed is what *)
(* send_message has keyed so far.                                          *)
THEOREM InvariantHolds ==
  ASSUME TimingFits
  PROVE  Spec => []LinkInv
<1>1. LinkInv /\ [Next]_vars => LinkInv'
  BY LinkStep
<1> QED
  BY <1>1, LinkInit, PTL DEF Spec

(* When the durations fit, the polling link implements the abstract        *)
(* display, for every message and however late sleeps and samples are:     *)
(* send_morse_char's letters are keyed and the printf calls of             *)
(* morse_receiver_task's loop show each of them once, in order and with a  *)
(* separator that fits, the end of a message included.  (That the last     *)
(* letter is shown at all needs fairness: see ImplementsDisplay.)          *)
THEOREM LinkImplementsDisplay ==
  ASSUME TimingFits
  PROVE  Spec => Display!Spec
<1>1. Init => Display!Init
  BY DEF Init, LineInit, ReceiverInit, Display!Init, display
<1>2. Spec => []LinkInv
  BY InvariantHolds
<1>3. LinkInv /\ LinkInv' /\ [Next]_vars => [Display!Next]_<<sent, display>>
  BY DisplayStep
<1> QED
  BY <1>1, <1>2, <1>3, PTL DEF Spec, Display!Spec, Display!displayVars

=============================================================================

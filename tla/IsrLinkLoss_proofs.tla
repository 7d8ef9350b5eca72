------------------------- MODULE IsrLinkLoss_proofs -------------------------
(***************************************************************************)
(* The interrupt-driven link when it is late: how long a queue keeps the   *)
(* handler from losing an edge, for any latency of the interrupt, also one *)
(* in which several edges melt into one; and what the decoder ends up with *)
(* whatever the timing.                                                    *)
(***************************************************************************)
EXTENDS IsrLink_proofs

USE SenderAssumption, ReceiverAssumption

-----------------------------------------------------------------------------
(* The level of the pin                                                    *)

\* The event that got furthest shows the pin's level, unless an edge is on its way.
LevelInv == hurt = {} /\ ~pending /\ stamp = 0 => (Latest.level = 1 <=> light)

-----------------------------------------------------------------------------
(* The distances between the edges that wait                               *)

Count(b) == IF b THEN 1 ELSE 0

\* n edges take the sender at least this long.
Gaps(n) == n * dot_duration_us

\* The edges seen by the pin, or stamped, and not yet in the queue.
OnTheWay == Count(pending) + Count(stamp # 0)

Waits(k) == gpio_evt_queue[k].timestamp_us

\* The LED does not change until a dot after the latest edge that was not served.
SleepInv ==
  /\ light <=> control = "on"
  /\ control = "exited" => now >= wake
  /\ Quiet \/ wake >= pendingSince + dot_duration_us

\* Between an event and the latest edge lie the edges of the events after it.
DistanceInv ==
  /\ pendingSince <= now
  /\ pending /\ stamp = 0 => now <= pendingSince + Latency
  /\ stamp # 0 => stamp = now /\ stamp + Gaps(Count(pending)) <= pendingSince + Latency
  /\ \A k \in 1 .. Len(gpio_evt_queue) :
       Waits(k) + Gaps(Len(gpio_evt_queue) - k + OnTheWay) <= pendingSince + Latency

\* Events wait in the order of their stamps, the first not longer than DecoderLag.
WaitInv ==
  /\ \A k \in 1 .. Len(gpio_evt_queue) : Waits(k) <= now
  /\ \A j, k \in 1 .. Len(gpio_evt_queue) : j <= k => Waits(j) <= Waits(k)
  /\ gpio_evt_queue # <<>> => now <= Waits(1) + DecoderLag

\* The decoder's two times are of events it has taken.
DecoderTimes ==
  /\ last_rising_edge <= now /\ last_falling_edge <= now
  /\ \A k \in 1 .. Len(gpio_evt_queue) :
       last_rising_edge <= Waits(k) /\ last_falling_edge <= Waits(k)

LatenessInv == TypeOK /\ SleepInv /\ DistanceInv /\ WaitInv /\ DecoderTimes

LongEnough == DecoderLag < QueueLength * dot_duration_us - Latency

\* The handler finds room in the queue.
RoomInQueue == LongEnough /\ stamp # 0 => Len(gpio_evt_queue) < QueueLength

\* The clock has not yet counted to the limit of an int.
BeforeOverflow == now <= IntRange \div 2

NothingHurt == LongEnough /\ BeforeOverflow => hurt = {}

-----------------------------------------------------------------------------
(* The level of the pin: proof                                             *)

\* The sender does not touch the queue.
LEMMA SendLeaves ==
  ASSUME Send
  PROVE  UNCHANGED <<stamp, gpio_evt_queue, taken, hurt, last_rising_edge, last_falling_edge, now,
                     out, of, morse_buffer>>
BY DEF Send, SenderNext, decoderVars

\* A level that changes sets the pin's pending bit.
LEMMA SendLevel ==
  ASSUME TypeOK, LevelInv, Send
  PROVE  LevelInv'
<1>1. CASE light' = light
  BY <1>1, SendLeaves, NoEdge DEF LevelInv, Latest
<1>2. CASE light' # light
  BY <1>2 DEF LevelInv, Send, DetectEdge
<1> QED
  BY <1>1, <1>2

\* The last event of a queue that grows is the new one.
LEMMA LastOfAppend ==
  ASSUME NEW q \in Seq(Event), NEW e \in Event
  PROVE  /\ Append(q, e) # <<>> /\ Len(Append(q, e)) = Len(q) + 1 /\ Len(q) \in Nat
         /\ Append(q, e)[Len(q) + 1] = e
         /\ \A k \in 1 .. Len(q) : Append(q, e)[k] = q[k]
OBVIOUS

LEMMA EventAtIs ==
  ASSUME TypeOK, stamp # 0
  PROVE  /\ EventAt(stamp) \in Event /\ EventAt(stamp).timestamp_us = stamp
         /\ (EventAt(stamp).level = 1 <=> light)
         /\ EventAt(stamp).letter = Len(sent) /\ EventAt(stamp).element = si
<1>1. Len(sent) \in Nat /\ si \in Nat /\ stamp \in Nat
  BY Numbers
<1> QED
  BY <1>1 DEF EventAt, Event

\* The handler queues the level it reads, or hurts a letter.
LEMMA SendsOrHurts ==
  ASSUME TypeOK, HandlerSends
  PROVE  \/ /\ Len(gpio_evt_queue) < QueueLength /\ hurt' = hurt
            /\ gpio_evt_queue' = Append(gpio_evt_queue, EventAt(stamp))
         \/ /\ ~(Len(gpio_evt_queue) < QueueLength) /\ gpio_evt_queue' = gpio_evt_queue
            /\ hurt' = hurt \cup LettersAround(Len(sent), si, IF light THEN 1 ELSE 0)
            /\ hurt' # {}
<1>1. LettersAround(Len(sent), si, IF light THEN 1 ELSE 0) # {}
  BY DEF LettersAround
<1>2. /\ EventAt(stamp).letter = Len(sent) /\ EventAt(stamp).element = si
      /\ EventAt(stamp).level = IF light THEN 1 ELSE 0
  BY DEF EventAt
<1> QED
  BY <1>1, <1>2 DEF HandlerSends, xQueueSendFromISR

\* An event that is taken got furthest, or a later one did.
LEMMA SameLatest ==
  ASSUME TypeOK, gpio_evt_queue # <<>>, gpio_evt_queue' = Tail(gpio_evt_queue),
         taken' = Head(gpio_evt_queue)
  PROVE  Latest' = Latest
<1> PICK q : q = gpio_evt_queue
  OBVIOUS
<1> PICK r : r = Tail(q)
  OBVIOUS
<1>1. /\ q \in Seq(Event) /\ Len(q) \in Nat \ {0} /\ Len(r) = Len(q) - 1 /\ Head(q) = q[1]
      /\ \A k \in 1 .. Len(q) - 1 : r[k] = q[k + 1]
  BY QueueType, RestOf
<1>2. r \in Seq(Event) /\ (r = <<>> <=> Len(r) = 0)
  BY <1>1, RestOf, EmptySeq
<1>3. CASE Len(q) = 1
  BY <1>1, <1>2, <1>3 DEF Latest
<1>4. CASE Len(q) # 1
  <2>1. r # <<>> /\ Len(r) \in 1 .. Len(q) - 1 /\ Len(r) + 1 = Len(q)
    BY <1>1, <1>2, <1>4
  <2> QED
    BY <1>1, <2>1 DEF Latest
<1> QED
  BY <1>3, <1>4

LEMMA ReceiveLevel ==
  ASSUME TypeOK, TypeOK', LevelInv, Receive
  PROVE  LevelInv'
<1>1. light' = light /\ now' = now
  BY DEF Receive, ReceiverNext
<1>2. CASE HandlerReadsClock
  BY <1>2 DEF HandlerReadsClock, LevelInv, TypeOK, LineTypeOK
<1>3. CASE HandlerSends
  <2>1. taken' = taken /\ stamp # 0
    BY <1>3 DEF HandlerSends, decoderVars
  <2>2. CASE hurt' = {} /\ gpio_evt_queue' = Append(gpio_evt_queue, EventAt(stamp))
    <3>1. gpio_evt_queue \in Seq(Event) /\ EventAt(stamp) \in Event
      BY <2>1, QueueType, EventAtIs
    <3>2. Latest' = EventAt(stamp)
      BY <2>2, <3>1, LastOfAppend DEF Latest
    <3> QED
      BY <1>1, <2>1, <3>2, EventAtIs DEF LevelInv
  <2> QED
    BY <1>3, <2>2, SendsOrHurts DEF LevelInv
<1>4. CASE Decoder
  <2>1. /\ gpio_evt_queue # <<>> /\ gpio_evt_queue' = Tail(gpio_evt_queue)
        /\ taken' = Head(gpio_evt_queue) /\ UNCHANGED <<pending, stamp>>
        /\ hurt' = {} => hurt = {}
    BY <1>4 DEF Decoder, TakeRisingEdge, TakeFallingEdge, isrVars
  <2>2. Latest' = Latest
    BY <2>1, SameLatest
  <2> QED
    BY <1>1, <2>1, <2>2 DEF LevelInv
<1> QED
  BY <1>2, <1>3, <1>4 DEF Receive, ReceiverNext, Handler

LEMMA LevelStep ==
  ASSUME TypeOK, LevelInv, [Next]_vars
  PROVE  LevelInv'
<1>1. TypeOK'
  BY TypeStep
<1>2. CASE Tick \/ UNCHANGED vars
  BY <1>2 DEF LevelInv, Latest, Tick, vars, lineVars, receiverVars, isrVars, decoderVars
<1> QED
  BY <1>1, <1>2, SendLevel, ReceiveLevel DEF Next

(* However late the handler runs, and whichever edges melt into one event, *)
(* the level the decoder took last is the level of the pin once nothing is *)
(* on its way: for every timing, as long as no event was lost.             *)
THEOREM LevelIsSettled == Spec => []LevelSettles
<1>1. Init => LevelInv
  BY DEF Init, LineInit, ReceiverInit, LevelInv, Latest, NoEvent
<1>2. TypeOK /\ LevelInv /\ [Next]_vars => TypeOK' /\ LevelInv'
  BY TypeStep, LevelStep
<1>3. LevelInv => LevelSettles
  BY DEF LevelInv, LevelSettles, Quiet, Latest
<1> QED
  BY <1>1, <1>2, <1>3, TypeInit, PTL DEF Spec

-----------------------------------------------------------------------------
(* Room in the queue: proof                                                *)

LEMMA GapsAre ==
  ASSUME NEW n \in Nat
  PROVE  /\ Gaps(n) \in Nat /\ Gaps(n + 1) = Gaps(n) + dot_duration_us
         /\ Gaps(0) = 0 /\ Gaps(1) = dot_duration_us
BY DEF Gaps

\* What the sender does to the light and to its sleep.
Steady == UNCHANGED <<light, pending, pendingSince>> /\ wake' >= wake

Moves ==
  /\ now >= wake /\ wake' >= now + dot_duration_us /\ pending'
  /\ pendingSince' = IF pending THEN pendingSince ELSE now

LEMMA SendIs ==
  ASSUME TypeOK, SleepInv, Send
  PROVE  /\ light' <=> control' = "on"
         /\ control' = "exited" => now >= wake'
         /\ Steady \/ Moves
<1>1. now \in Nat /\ wake \in Nat /\ light \in BOOLEAN /\ pending \in BOOLEAN
  BY Numbers
<1>2. /\ pending' = (pending \/ light' # light)
      /\ pendingSince' = IF light' # light /\ ~pending THEN now ELSE pendingSince
  BY DEF Send, DetectEdge
<1>3. (light <=> control = "on") /\ (control = "exited" => now >= wake)
  BY DEF SleepInv
<1>4. dot_duration_us \in Nat /\ \A s : Duration(s) \in Nat /\ Duration(s) >= dot_duration_us
  BY DurationType
<1>5. ASSUME light' = light, wake' >= wake
      PROVE  Steady
  BY <1>1, <1>2, <1>5 DEF Steady
<1>6. ASSUME light' # light, Awake, NEW d \in Nat, d >= dot_duration_us, wake' = now + d
      PROVE  Moves
  <2>1. pending' = TRUE
    BY <1>2, <1>6
  <2>2. pendingSince' = IF pending THEN pendingSince ELSE now
    BY <1>2, <1>6
  <2>3. now >= wake /\ wake' >= now + dot_duration_us
    BY <1>1, <1>4, <1>6 DEF Awake
  <2> QED
    BY <2>1, <2>2, <2>3 DEF Moves
<1>7. CASE Launch \/ LaunchFails
  <2>1. /\ light = FALSE /\ light' = FALSE /\ wake' \in {wake, now} /\ control = "exited"
        /\ control' \in {"next", "exited"} /\ (control' = "exited" => wake' = wake)
    BY <1>1, <1>3, <1>7 DEF Launch, LaunchFails
  <2>2. wake' >= wake
    BY <1>1, <1>3, <2>1
  <2>3. Steady
    BY <1>5, <2>1, <2>2
  <2>4. (light' <=> control' = "on") /\ (control' = "exited" => now >= wake')
    BY <1>3, <2>1
  <2> QED
    BY <2>3, <2>4
<1>8. CASE SkipCharacter \/ NextCharacter \/ NextRepetition \/ Exit
  <2>1. /\ light = FALSE /\ light' = FALSE /\ wake' = wake /\ control' \in {"next", "exited"}
        /\ (control' = "exited" => Awake)
    BY <1>1, <1>3, <1>8 DEF SkipCharacter, NextCharacter, NextRepetition, Exit
  <2>2. wake' >= wake
    BY <1>1, <2>1
  <2>3. Steady
    BY <1>5, <2>1, <2>2
  <2>4. (light' <=> control' = "on") /\ (control' = "exited" => now >= wake')
    BY <2>1 DEF Awake
  <2> QED
    BY <2>3, <2>4
<1>9. CASE SendSpace \/ EndLetter \/ Repeat
  <2>1. /\ light = FALSE /\ light' = light /\ control' \in {"gap", "rep"} /\ now >= wake
        /\ wake' >= now
    BY <1>1, <1>3, <1>4, <1>9 DEF SendSpace, EndLetter, Repeat, Sleep, Awake, word_gap_us,
      letter_gap_us, symbol_gap_us
  <2>2. wake' \in Nat
    <3>1. TypeOK'
      BY SendType
    <3> QED
      BY <3>1 DEF TypeOK, SenderTypeOK
  <2> QED
    BY <1>1, <1>5, <2>1, <2>2
<1>10. CASE StartLetter \/ StartSymbol
  <2>1. /\ light = FALSE /\ light' = TRUE /\ control' = "on" /\ Awake
        /\ \E s : wake' = now + Duration(s)
    BY <1>1, <1>3, <1>10 DEF StartLetter, StartSymbol, Sleep
  <2> QED
    BY <1>4, <1>6, <2>1
<1>11. CASE EndSymbol
  <2>1. /\ light = TRUE /\ light' = FALSE /\ control' = "off" /\ Awake
        /\ wake' = now + dot_duration_us
    BY <1>1, <1>3, <1>11 DEF EndSymbol, Sleep, symbol_gap_us
  <2>2. dot_duration_us >= dot_duration_us
    BY <1>4
  <2>3. Moves
    BY <1>4, <1>6, <2>1, <2>2
  <2> QED
    BY <2>1, <2>3
<1> QED
  BY <1>7, <1>8, <1>9, <1>10, <1>11 DEF Send, SenderNext, SenderRuns

LEMMA QueueTimes ==
  ASSUME TypeOK
  PROVE  /\ Len(gpio_evt_queue) \in Nat
         /\ \A k \in 1 .. Len(gpio_evt_queue) : Waits(k) \in Nat
         /\ gpio_evt_queue # <<>> => 1 \in 1 .. Len(gpio_evt_queue)
<1>1. gpio_evt_queue \in Seq(Event)
  BY QueueType
<1>2. Len(gpio_evt_queue) \in Nat /\ (gpio_evt_queue # <<>> => 1 \in 1 .. Len(gpio_evt_queue))
  BY <1>1, LenProperties, EmptySeq
<1>3. \A k \in 1 .. Len(gpio_evt_queue) : gpio_evt_queue[k] \in Event
  BY <1>1
<1> QED
  BY <1>2, <1>3 DEF Waits, Event

LEMMA CountIs ==
  ASSUME NEW b \in BOOLEAN
  PROVE  Count(b) \in {0, 1} /\ (b => Count(b) = 1) /\ (~b => Count(b) = 0)
BY DEF Count

\* An edge is a dot away from the one before it.
LEMMA SendDistance ==
  ASSUME LatenessInv, Send, TypeOK'
  PROVE  LatenessInv'
<1>1. /\ now \in Nat /\ wake \in Nat /\ pendingSince \in Nat /\ stamp \in Nat
      /\ light \in BOOLEAN /\ pending \in BOOLEAN
      /\ wake' \in Nat /\ pendingSince' \in Nat /\ pending' \in BOOLEAN
      /\ Latency \in Nat /\ dot_duration_us \in Nat
  BY Numbers DEF LatenessInv, TypeOK, SenderTypeOK, ReceiverTypeOK
<1>2. UNCHANGED <<stamp, gpio_evt_queue, last_rising_edge, last_falling_edge, now>>
  BY SendLeaves
<1>3. /\ light' <=> control' = "on"
      /\ control' = "exited" => now >= wake'
      /\ Steady \/ Moves
  BY SendIs DEF LatenessInv
<1>4. WaitInv' /\ DecoderTimes'
  BY <1>2 DEF LatenessInv, WaitInv, DecoderTimes, Waits
<1>5. CASE Steady
  <2>1. SleepInv'
    BY <1>1, <1>2, <1>3, <1>5 DEF LatenessInv, SleepInv, Steady, Quiet
  <2>2. DistanceInv'
    BY <1>2, <1>5 DEF LatenessInv, DistanceInv, Steady, OnTheWay, Waits
  <2> QED
    BY <1>4, <2>1, <2>2 DEF LatenessInv
<1>6. CASE Moves /\ pending
  <2>1. pending' = pending /\ pendingSince' = pendingSince
    BY <1>1, <1>6 DEF Moves
  <2>2. wake' >= pendingSince + dot_duration_us
    BY <1>1, <1>6 DEF LatenessInv, DistanceInv, Moves
  <2>3. SleepInv'
    BY <1>2, <1>3, <2>1, <2>2 DEF SleepInv
  <2>4. DistanceInv'
    BY <1>2, <2>1 DEF LatenessInv, DistanceInv, OnTheWay, Waits
  <2> QED
    BY <1>4, <2>3, <2>4 DEF LatenessInv
<1>7. CASE Moves /\ ~pending
  <2>1. pending' /\ pendingSince' = now /\ now >= wake /\ wake' >= now + dot_duration_us
    BY <1>7 DEF Moves
  <2>2. SleepInv'
    BY <1>2, <1>3, <2>1 DEF SleepInv
  <2>3. Quiet \/ now >= pendingSince + dot_duration_us
    BY <1>1, <2>1 DEF LatenessInv, SleepInv
  <2>4. Count(pending) = 0 /\ Count(pending') = 1 /\ Count(stamp # 0) \in {0, 1}
    BY <1>7, <2>1 DEF Count
  <2>5. ASSUME stamp # 0
        PROVE  stamp = now /\ stamp + Gaps(Count(pending')) <= now + Latency
    <3>1. stamp = now /\ stamp + Gaps(0) <= pendingSince + Latency
      BY <2>4, <2>5 DEF LatenessInv, DistanceInv
    <3>2. Gaps(0) = 0 /\ Gaps(1) = dot_duration_us
      BY GapsAre
    <3> QED
      BY <1>1, <2>3, <2>4, <2>5, <3>1, <3>2 DEF Quiet
  <2>6. ASSUME NEW k \in 1 .. Len(gpio_evt_queue)
        PROVE  Waits(k) + Gaps(Len(gpio_evt_queue) - k + OnTheWay') <= now + Latency
    <3> DEFINE n == Len(gpio_evt_queue) - k + OnTheWay
    <3>1. Len(gpio_evt_queue) \in Nat /\ Waits(k) \in Nat
      BY QueueTimes DEF LatenessInv
    <3>2. n \in Nat /\ Len(gpio_evt_queue) - k + OnTheWay' = n + 1
      BY <1>2, <2>4, <3>1 DEF OnTheWay
    <3>3. Waits(k) + Gaps(n) <= pendingSince + Latency
      BY DEF LatenessInv, DistanceInv
    <3> HIDE DEF n
    <3>4. Gaps(n) \in Nat /\ Gaps(n + 1) = Gaps(n) + dot_duration_us
      BY <3>2, GapsAre
    <3>5. now >= pendingSince + dot_duration_us
      <4>1. gpio_evt_queue # <<>>
        BY <3>1, EmptySeq
      <4> QED
        BY <2>3, <4>1 DEF Quiet
    <3>6. Waits(k) + Gaps(n + 1) <= now + Latency
      BY <1>1, <3>1, <3>3, <3>4, <3>5
    <3> QED
      BY <3>2, <3>6
  <2>7. DistanceInv'
    <3>1. (pendingSince <= now)' /\ (pending /\ stamp = 0 => now <= pendingSince + Latency)'
      BY <1>1, <1>2, <2>1
    <3>2. (stamp # 0 => stamp = now /\ stamp + Gaps(Count(pending)) <= pendingSince + Latency)'
      BY <1>2, <2>1, <2>5 DEF Gaps
    <3>3. (\A k \in 1 .. Len(gpio_evt_queue) :
             Waits(k) + Gaps(Len(gpio_evt_queue) - k + OnTheWay) <= pendingSince + Latency)'
      BY <1>2, <2>1, <2>6 DEF Gaps, Waits
    <3> QED
      BY <3>1, <3>2, <3>3 DEF DistanceInv
  <2> QED
    BY <1>4, <2>2, <2>7 DEF LatenessInv
<1> QED
  BY <1>3, <1>5, <1>6, <1>7

LEMMA TickDistance ==
  ASSUME LatenessInv, Tick
  PROVE  SleepInv' /\ DistanceInv' /\ WaitInv' /\ DecoderTimes'
<1>1. /\ UNCHANGED <<light, control, wake, pending, pendingSince, stamp, gpio_evt_queue,
                     last_rising_edge, last_falling_edge>>
      /\ now' = now + 1 /\ stamp = 0
      /\ pending => now < pendingSince + Latency
      /\ gpio_evt_queue # <<>> => now < Head(gpio_evt_queue).timestamp_us + DecoderLag
  BY DEF Tick, ReceiverMayWait, senderVars, receiverVars, isrVars, decoderVars
<1>2. /\ now \in Nat /\ wake \in Nat /\ pendingSince \in Nat /\ Latency \in Nat
      /\ last_rising_edge \in Nat /\ last_falling_edge \in Nat
  BY Numbers DEF LatenessInv, TypeOK, ReceiverTypeOK
<1>3. Len(gpio_evt_queue) \in Nat /\ \A k \in 1 .. Len(gpio_evt_queue) : Waits(k) \in Nat
  BY QueueTimes DEF LatenessInv
<1>4. SleepInv'
  BY <1>1, <1>2 DEF LatenessInv, SleepInv, Quiet
<1>5. DistanceInv'
  <2>1. (pendingSince <= now)' /\ (pending /\ stamp = 0 => now <= pendingSince + Latency)'
    BY <1>1, <1>2 DEF LatenessInv, DistanceInv
  <2>2. (\A k \in 1 .. Len(gpio_evt_queue) :
           Waits(k) + Gaps(Len(gpio_evt_queue) - k + OnTheWay) <= pendingSince + Latency)'
    BY <1>1 DEF LatenessInv, DistanceInv, Waits, OnTheWay
  <2> QED
    BY <1>1, <2>1, <2>2 DEF DistanceInv
<1>6. WaitInv'
  <2>1. gpio_evt_queue # <<>> => now + 1 <= Waits(1) + DecoderLag
    <3>1. gpio_evt_queue # <<>> => Head(gpio_evt_queue).timestamp_us = Waits(1) /\ Waits(1) \in Nat
      BY QueueTimes, QueueType, RestOf DEF LatenessInv, Waits
    <3> QED
      BY <1>1, <1>2, <3>1
  <2> QED
    BY <1>1, <1>2, <1>3, <2>1 DEF LatenessInv, WaitInv, Waits
<1>7. DecoderTimes'
  BY <1>1, <1>2 DEF LatenessInv, DecoderTimes, Waits
<1> QED
  BY <1>4, <1>5, <1>6, <1>7

LEMMA ReadsClockDistance ==
  ASSUME LatenessInv, Receive, HandlerReadsClock
  PROVE  SleepInv' /\ DistanceInv' /\ WaitInv' /\ DecoderTimes'
<1>1. /\ UNCHANGED <<light, control, wake, pendingSince, gpio_evt_queue, last_rising_edge,
                     last_falling_edge, now>>
      /\ pending /\ stamp = 0 /\ pending' = FALSE /\ stamp' = now
  BY DEF Receive, ReceiverNext, HandlerReadsClock, senderVars, decoderVars
<1>2. now \in Nat \ {0} /\ pendingSince \in Nat /\ Latency \in Nat /\ pending = TRUE
  BY <1>1, Numbers DEF LatenessInv, TypeOK, LineTypeOK
<1>3. OnTheWay' = OnTheWay /\ Count(pending') = 0
  BY <1>1, <1>2 DEF OnTheWay, Count
<1>4. SleepInv'
  BY <1>1, <1>2 DEF LatenessInv, SleepInv, Quiet
<1>5. DistanceInv'
  <2>1. now + Gaps(0) <= pendingSince + Latency
    BY <1>1, <1>2, GapsAre DEF LatenessInv, DistanceInv
  <2>2. (\A k \in 1 .. Len(gpio_evt_queue) :
           Waits(k) + Gaps(Len(gpio_evt_queue) - k + OnTheWay) <= pendingSince + Latency)'
    BY <1>1, <1>3 DEF LatenessInv, DistanceInv, Waits, Gaps
  <2>3. (stamp # 0 => stamp = now /\ stamp + Gaps(Count(pending)) <= pendingSince + Latency)'
    BY <1>1, <1>3, <2>1 DEF Gaps
  <2>4. (pendingSince <= now)'
    BY <1>1 DEF LatenessInv, DistanceInv
  <2> QED
    BY <1>1, <2>2, <2>3, <2>4 DEF DistanceInv
<1>6. WaitInv' /\ DecoderTimes'
  BY <1>1 DEF LatenessInv, WaitInv, DecoderTimes, Waits
<1> QED
  BY <1>4, <1>5, <1>6

\* The handler is the last to wait: the event it queues is the youngest.
LEMMA SendsDistance ==
  ASSUME LatenessInv, Receive, HandlerSends
  PROVE  SleepInv' /\ DistanceInv' /\ WaitInv' /\ DecoderTimes'
<1> DEFINE q == gpio_evt_queue
<1>1. /\ UNCHANGED <<light, control, wake, pending, pendingSince, last_rising_edge,
                     last_falling_edge, now>>
      /\ stamp # 0 /\ stamp' = 0
  BY DEF Receive, ReceiverNext, HandlerSends, senderVars, decoderVars
<1>2. /\ now \in Nat /\ stamp \in Nat /\ pendingSince \in Nat /\ Latency \in Nat /\ wake \in Nat
      /\ pending \in BOOLEAN /\ dot_duration_us \in Nat /\ DecoderLag \in Nat
      /\ last_rising_edge \in Nat /\ last_falling_edge \in Nat
  BY Numbers DEF LatenessInv, TypeOK, ReceiverTypeOK
<1>3. /\ stamp = now /\ stamp + Gaps(Count(pending)) <= pendingSince + Latency
      /\ pendingSince <= now
  BY <1>1 DEF LatenessInv, DistanceInv
<1>4. /\ OnTheWay = Count(pending) + 1 /\ OnTheWay' = Count(pending) /\ Count(pending) \in {0, 1}
      /\ (pending <=> Count(pending) = 1)
  BY <1>1, <1>2 DEF OnTheWay, Count
<1>5. Len(q) \in Nat /\ \A k \in 1 .. Len(q) : Waits(k) \in Nat
  BY QueueTimes DEF LatenessInv
<1>6. (pendingSince <= now)' /\ (pending /\ stamp = 0 => now <= pendingSince + Latency)'
  <2>1. Gaps(Count(pending)) \in Nat
    BY <1>4, GapsAre
  <2> QED
    BY <1>1, <1>2, <1>3, <2>1
<1>7. ~Quiet
  BY <1>1 DEF Quiet
<1>8. SleepInv'
  BY <1>1, <1>7 DEF LatenessInv, SleepInv
<1>9. CASE q' = q
  <2>1. ASSUME NEW k \in 1 .. Len(q)
        PROVE  Waits(k) + Gaps(Len(q) - k + Count(pending)) <= pendingSince + Latency
    <3> DEFINE n == Len(q) - k + Count(pending)
    <3>1. n \in Nat /\ Len(q) - k + OnTheWay = n + 1
      BY <1>4, <1>5
    <3>2. Waits(k) + Gaps(Len(q) - k + OnTheWay) <= pendingSince + Latency
      BY DEF LatenessInv, DistanceInv
    <3> HIDE DEF n
    <3>3. Gaps(n) \in Nat /\ Gaps(n + 1) = Gaps(n) + dot_duration_us
      BY <3>1, GapsAre
    <3>4. Waits(k) + Gaps(n) <= pendingSince + Latency
      BY <1>2, <1>5, <3>1, <3>2, <3>3
    <3> QED
      BY <3>4 DEF n
  <2>2. (\A k \in 1 .. Len(gpio_evt_queue) :
           Waits(k) + Gaps(Len(gpio_evt_queue) - k + OnTheWay) <= pendingSince + Latency)'
    BY <1>1, <1>4, <1>9, <2>1 DEF Waits, Gaps
  <2>3. DistanceInv'
    BY <1>1, <1>6, <2>2 DEF DistanceInv
  <2>4. WaitInv' /\ DecoderTimes'
    BY <1>1, <1>9 DEF LatenessInv, WaitInv, DecoderTimes, Waits
  <2> QED
    BY <1>8, <2>3, <2>4
<1>10. CASE q' = Append(q, EventAt(stamp))
  <2>1. /\ Len(q') = Len(q) + 1 /\ q'[Len(q) + 1] = EventAt(stamp)
        /\ \A k \in 1 .. Len(q) : q'[k] = q[k]
    <3>1. q \in Seq(Event) /\ EventAt(stamp) \in Event
      BY <1>1, QueueType, EventAtIs DEF LatenessInv
    <3> QED
      BY <1>10, <3>1, LastOfAppend
  <2> DEFINE Later(k) == gpio_evt_queue'[k].timestamp_us
  <2>2. Later(Len(q) + 1) = now /\ \A k \in 1 .. Len(q) : Later(k) = Waits(k)
    <3>1. EventAt(stamp).timestamp_us = stamp
      BY <1>1, EventAtIs DEF LatenessInv
    <3> QED
      BY <1>3, <2>1, <3>1 DEF Waits
  <2> HIDE DEF q, Later
  <2>3. ASSUME NEW k \in 1 .. Len(q) + 1
        PROVE  Later(k) + Gaps(Len(q) + 1 - k + Count(pending)) <= pendingSince + Latency
    <3>1. CASE k = Len(q) + 1
      <4>1. Len(q) + 1 - k + Count(pending) = Count(pending)
        BY <1>4, <1>5, <3>1
      <4> QED
        BY <1>3, <2>2, <3>1, <4>1
    <3>2. CASE k \in 1 .. Len(q)
      <4>1. Len(q) + 1 - k + Count(pending) = Len(q) - k + OnTheWay
        BY <1>4, <1>5
      <4>2. Waits(k) + Gaps(Len(q) - k + OnTheWay) <= pendingSince + Latency
        BY <3>2 DEF LatenessInv, DistanceInv, q
      <4> QED
        BY <2>2, <3>2, <4>1, <4>2
    <3> QED
      BY <1>5, <3>1, <3>2
  <2>4. (\A k \in 1 .. Len(gpio_evt_queue) :
           Waits(k) + Gaps(Len(gpio_evt_queue) - k + OnTheWay) <= pendingSince + Latency)'
    BY <1>1, <1>4, <2>1, <2>3 DEF Gaps, Waits, Later, q
  <2>5. DistanceInv'
    BY <1>1, <1>6, <2>4 DEF DistanceInv
  <2>6. \A k \in 1 .. Len(q) : Waits(k) <= now
    BY DEF LatenessInv, WaitInv, q
  <2>7. \A j, k \in 1 .. Len(q) : j <= k => Waits(j) <= Waits(k)
    BY DEF LatenessInv, WaitInv, q
  <2>8. \A k \in 1 .. Len(q) + 1 : Later(k) <= now
    BY <1>2, <1>5, <2>2, <2>6
  <2>9. ASSUME NEW j \in 1 .. Len(q) + 1, NEW k \in 1 .. Len(q) + 1, j <= k
        PROVE  Later(j) <= Later(k)
    <3>1. CASE k = Len(q) + 1
      BY <2>2, <2>8, <3>1
    <3>2. CASE k \in 1 .. Len(q)
      <4>1. j \in 1 .. Len(q)
        BY <1>5, <2>9, <3>2
      <4> QED
        BY <2>2, <2>7, <2>9, <3>2, <4>1
    <3> QED
      BY <1>5, <3>1, <3>2
  <2>10. now <= Later(1) + DecoderLag
    <3>1. CASE q = <<>>
      <4>1. Len(q) + 1 = 1
        BY <3>1
      <4> QED
        BY <1>2, <2>2, <4>1
    <3>2. CASE q # <<>>
      <4>1. 1 \in 1 .. Len(q) /\ now <= Waits(1) + DecoderLag
        BY <3>2, QueueTimes DEF LatenessInv, WaitInv, q
      <4> QED
        BY <2>2, <4>1
    <3> QED
      BY <3>1, <3>2
  <2>11. WaitInv'
    <3>1. (\A k \in 1 .. Len(gpio_evt_queue) : Waits(k) <= now)'
      BY <1>1, <2>1, <2>8 DEF Waits, Later, q
    <3>2. (\A j, k \in 1 .. Len(gpio_evt_queue) : j <= k => Waits(j) <= Waits(k))'
      BY <2>1, <2>9 DEF Waits, Later, q
    <3>3. (now <= Waits(1) + DecoderLag)'
      BY <1>1, <2>10 DEF Waits, Later
    <3> QED
      BY <3>1, <3>2, <3>3 DEF WaitInv
  <2>12. DecoderTimes'
    <3>1. /\ last_rising_edge <= now /\ last_falling_edge <= now
          /\ \A k \in 1 .. Len(q) : last_rising_edge <= Waits(k) /\ last_falling_edge <= Waits(k)
      BY DEF LatenessInv, DecoderTimes, q
    <3>2. \A k \in 1 .. Len(q) + 1 : last_rising_edge <= Later(k) /\ last_falling_edge <= Later(k)
      BY <1>5, <2>2, <3>1
    <3>3. (\A k \in 1 .. Len(gpio_evt_queue) :
             last_rising_edge <= Waits(k) /\ last_falling_edge <= Waits(k))'
      BY <1>1, <2>1, <3>2 DEF Waits, Later, q
    <3> QED
      BY <1>1, <3>1, <3>3 DEF DecoderTimes
  <2> QED
    BY <1>8, <2>5, <2>11, <2>12
<1> QED
  BY <1>9, <1>10, SendsOrHurts DEF LatenessInv

\* What the decoder's step does, whichever edge it takes.
LEMMA TakeIs ==
  ASSUME TypeOK, Receive, Decoder
  PROVE  /\ gpio_evt_queue # <<>> /\ gpio_evt_queue' = Tail(gpio_evt_queue)
         /\ taken' = Head(gpio_evt_queue) /\ Head(gpio_evt_queue) = gpio_evt_queue[1]
         /\ UNCHANGED <<light, control, wake, pending, pendingSince, stamp, now, sent>>
         /\ \/ last_rising_edge' = Waits(1) /\ last_falling_edge' = last_falling_edge
            \/ last_falling_edge' = Waits(1) /\ last_rising_edge' = last_rising_edge
<1>1. gpio_evt_queue # <<>>
  BY DEF Decoder, TakeRisingEdge, TakeFallingEdge
<1>2. Head(gpio_evt_queue) = gpio_evt_queue[1]
  BY <1>1, QueueType, RestOf
<1>3. UNCHANGED <<light, control, wake, pending, pendingSince, stamp, now, sent>>
  BY DEF Receive, ReceiverNext, senderVars, Decoder, TakeRisingEdge, TakeFallingEdge, isrVars
<1> QED
  BY <1>1, <1>2, <1>3 DEF Decoder, TakeRisingEdge, TakeFallingEdge, Waits

\* The events that wait behind the one that is taken move up.
LEMMA TakeDistance ==
  ASSUME LatenessInv, Receive, Decoder
  PROVE  SleepInv' /\ DistanceInv' /\ WaitInv' /\ DecoderTimes'
<1> DEFINE q == gpio_evt_queue
           r == gpio_evt_queue'
           Later(k) == gpio_evt_queue'[k].timestamp_us
<1>1. /\ q # <<>> /\ r = Tail(q)
      /\ UNCHANGED <<light, control, wake, pending, pendingSince, stamp, now>>
      /\ \/ last_rising_edge' = Waits(1) /\ last_falling_edge' = last_falling_edge
         \/ last_falling_edge' = Waits(1) /\ last_rising_edge' = last_rising_edge
  BY TakeIs DEF LatenessInv
<1>2. /\ Len(q) \in Nat \ {0} /\ Len(r) = Len(q) - 1
      /\ \A k \in 1 .. Len(r) : r[k] = q[k + 1]
  <2>1. q \in Seq(Event)
    BY QueueType DEF LatenessInv
  <2> QED
    BY <1>1, <2>1, RestOf
<1>3. \A k \in 1 .. Len(r) : k + 1 \in 1 .. Len(q) /\ Later(k) = Waits(k + 1)
  BY <1>2 DEF Waits
<1>4. r # <<>> => 1 \in 1 .. Len(r)
  <2>1. r \in Seq(Event)
    BY <1>1, QueueType, RestOf DEF LatenessInv
  <2> QED
    BY <2>1, LenProperties, EmptySeq
<1>5. /\ now \in Nat /\ pendingSince \in Nat /\ Latency \in Nat /\ DecoderLag \in Nat
      /\ \A k \in 1 .. Len(q) : Waits(k) \in Nat
  BY Numbers, QueueTimes DEF LatenessInv
<1>6. SleepInv'
  BY <1>1 DEF LatenessInv, SleepInv, Quiet
<1> HIDE DEF q, r, Later
<1>7. DistanceInv'
  <2>1. ASSUME NEW k \in 1 .. Len(r)
        PROVE  Later(k) + Gaps(Len(r) - k + OnTheWay) <= pendingSince + Latency
    <3>1. Waits(k + 1) + Gaps(Len(q) - (k + 1) + OnTheWay) <= pendingSince + Latency
      BY <1>3 DEF LatenessInv, DistanceInv, q
    <3>2. Len(q) - (k + 1) = Len(r) - k
      BY <1>2
    <3> QED
      BY <1>3, <3>1, <3>2
  <2>2. (\A k \in 1 .. Len(gpio_evt_queue) :
           Waits(k) + Gaps(Len(gpio_evt_queue) - k + OnTheWay) <= pendingSince + Latency)'
    BY <1>1, <2>1 DEF Later, r, Waits, OnTheWay, Gaps
  <2> QED
    BY <1>1, <2>2 DEF LatenessInv, DistanceInv
<1>8. WaitInv'
  <2>1. \A k \in 1 .. Len(r) : Later(k) <= now
    BY <1>3 DEF LatenessInv, WaitInv, q
  <2>2. ASSUME NEW j \in 1 .. Len(r), NEW k \in 1 .. Len(r), j <= k
        PROVE  Later(j) <= Later(k)
    <3>1. j + 1 <= k + 1
      BY <1>2, <2>2
    <3> QED
      BY <1>3, <3>1 DEF LatenessInv, WaitInv, q
  <2>3. r # <<>> => now <= Later(1) + DecoderLag
    <3> SUFFICES ASSUME r # <<>>
                 PROVE  now <= Later(1) + DecoderLag
      OBVIOUS
    <3>1. 1 \in 1 .. Len(q) /\ 2 \in 1 .. Len(q) /\ Later(1) = Waits(2)
      BY <1>2, <1>3, <1>4
    <3>2. now <= Waits(1) + DecoderLag /\ Waits(1) <= Waits(2)
      BY <1>1, <3>1 DEF LatenessInv, WaitInv, q
    <3> QED
      BY <1>5, <3>1, <3>2
  <2>4. (\A k \in 1 .. Len(gpio_evt_queue) : Waits(k) <= now)'
    BY <1>1, <2>1 DEF Waits, Later, r
  <2>5. (\A j, k \in 1 .. Len(gpio_evt_queue) : j <= k => Waits(j) <= Waits(k))'
    BY <2>2 DEF Waits, Later, r
  <2>6. (gpio_evt_queue # <<>> => now <= Waits(1) + DecoderLag)'
    BY <1>1, <2>3 DEF Waits, Later, r
  <2> QED
    BY <2>4, <2>5, <2>6 DEF WaitInv
<1>9. DecoderTimes'
  <2>1. /\ last_rising_edge <= now /\ last_falling_edge <= now /\ 1 \in 1 .. Len(q)
        /\ \A k \in 1 .. Len(q) : last_rising_edge <= Waits(k) /\ last_falling_edge <= Waits(k)
    BY <1>2 DEF LatenessInv, DecoderTimes, q
  <2>2. Waits(1) <= now /\ \A k \in 1 .. Len(r) : Waits(1) <= Later(k)
    BY <1>2, <1>3, <2>1 DEF LatenessInv, WaitInv, q
  <2>3. \A k \in 1 .. Len(r) : last_rising_edge <= Later(k) /\ last_falling_edge <= Later(k)
    BY <1>3, <2>1
  <2>4. last_rising_edge' <= now /\ last_falling_edge' <= now
    BY <1>1, <2>1, <2>2
  <2>5. \A k \in 1 .. Len(r) : last_rising_edge' <= Later(k) /\ last_falling_edge' <= Later(k)
    BY <1>1, <2>2, <2>3
  <2> QED
    BY <1>1, <2>4, <2>5 DEF DecoderTimes, Waits, Later, r
<1> QED
  BY <1>6, <1>7, <1>8, <1>9

LEMMA LatenessInit == Init => LatenessInv
<1> SUFFICES ASSUME Init
             PROVE  LatenessInv
  OBVIOUS
<1>1. /\ control = "exited" /\ wake = 1 /\ now = 1 /\ light = FALSE /\ pending = FALSE
      /\ pendingSince = 0 /\ stamp = 0 /\ gpio_evt_queue = <<>>
      /\ last_rising_edge = 0 /\ last_falling_edge = 0
  BY DEF Init, LineInit, SenderInit, ReceiverInit
<1>2. Len(gpio_evt_queue) = 0
  BY <1>1
<1> QED
  BY <1>1, <1>2, TypeInit DEF LatenessInv, SleepInv, DistanceInv, WaitInv, DecoderTimes, Quiet

LEMMA LatenessStep ==
  ASSUME LatenessInv, [Next]_vars
  PROVE  LatenessInv'
<1>1. TypeOK'
  BY TypeStep DEF LatenessInv
<1>2. CASE UNCHANGED vars
  BY <1>1, <1>2 DEF vars, lineVars, senderVars, receiverVars, isrVars, decoderVars, LatenessInv,
    SleepInv, DistanceInv, WaitInv, DecoderTimes, Quiet, OnTheWay, Waits
<1>3. CASE Receive
  BY <1>1, <1>3, ReadsClockDistance, SendsDistance, TakeDistance
    DEF LatenessInv, Receive, ReceiverNext, Handler
<1> QED
  BY <1>1, <1>2, <1>3, SendDistance, TickDistance DEF Next, LatenessInv

LEMMA GapsGrow ==
  ASSUME NEW m \in Nat, NEW n \in Nat, m <= n
  PROVE  Gaps(m) <= Gaps(n)
BY DEF Gaps

\* A full queue spans the time the sender needs for as many edges.
LEMMA RoomHolds == LatenessInv => RoomInQueue
<1> SUFFICES ASSUME LatenessInv, LongEnough, stamp # 0, Len(gpio_evt_queue) >= QueueLength
             PROVE  FALSE
  BY QueueTimes DEF RoomInQueue, LatenessInv
<1>1. /\ now \in Nat /\ pendingSince \in Nat /\ Latency \in Nat /\ DecoderLag \in Nat
      /\ pending \in BOOLEAN /\ QueueLength \in Nat \ {0}
  BY Numbers DEF LatenessInv
<1>2. Len(gpio_evt_queue) \in Nat /\ 1 \in 1 .. Len(gpio_evt_queue) /\ Waits(1) \in Nat
  BY <1>1, QueueTimes DEF LatenessInv
<1> DEFINE n == Len(gpio_evt_queue) - 1 + OnTheWay
<1>3. n \in Nat /\ QueueLength <= n
  BY <1>1, <1>2 DEF OnTheWay, Count
<1>4. Waits(1) + Gaps(n) <= pendingSince + Latency /\ pendingSince <= now
  BY <1>2 DEF LatenessInv, DistanceInv
<1>5. now <= Waits(1) + DecoderLag
  <2>1. gpio_evt_queue # <<>>
    BY <1>2
  <2> QED
    BY <2>1 DEF LatenessInv, WaitInv
<1> HIDE DEF n
<1>6. Gaps(QueueLength) <= Gaps(n) /\ Gaps(n) \in Nat /\ Gaps(QueueLength) \in Nat
  BY <1>1, <1>3, GapsGrow, GapsAre
<1>7. DecoderLag < Gaps(QueueLength) - Latency
  BY DEF LongEnough, Gaps
<1> QED
  BY <1>1, <1>2, <1>4, <1>5, <1>6, <1>7

(* The handler never meets a full queue if the decoder never stalls for as *)
(* long as the sender needs for QueueLength edges, the handler's latency   *)
(* deducted: for every queue length, rate, latency and lag.                *)
THEOREM HandlerFindsRoom == Spec => []RoomInQueue
<1>1. LatenessInv /\ [Next]_vars => LatenessInv'
  BY LatenessStep
<1> QED
  BY <1>1, LatenessInit, RoomHolds, PTL DEF Spec

-----------------------------------------------------------------------------
(* Nothing is hurt: proof                                                  *)

LEMMA SmallFits ==
  ASSUME NEW x \in Nat, x < IntRange \div 2
  PROVE  ToInt(x) = x
<1> DEFINE h == IntRange \div 2
<1>1. IntRange \in Nat \ {0} /\ h \in Nat /\ 2 * h <= IntRange
  BY ReceiverAssumption
<1>2. (x + h) % IntRange = x + h
  BY <1>1
<1> QED
  BY <1>1, <1>2 DEF ToInt

LEMMA NothingHurtStep ==
  ASSUME LatenessInv, NothingHurt, [Next]_vars
  PROVE  NothingHurt'
<1> SUFFICES ASSUME LongEnough, now' <= IntRange \div 2
             PROVE  hurt' = {}
  BY DEF NothingHurt, BeforeOverflow, LongEnough
<1>1. now \in Nat /\ now' \in {now, now + 1}
  BY Numbers, SendLeaves DEF LatenessInv, Next, Receive, ReceiverNext, Tick, vars, lineVars
<1>2. hurt = {}
  <2>1. now <= IntRange \div 2
    BY <1>1, ReceiverAssumption
  <2> QED
    BY <2>1 DEF NothingHurt, BeforeOverflow
<1>3. CASE Send \/ Tick \/ UNCHANGED vars
  BY <1>2, <1>3, SendLeaves DEF Tick, vars, receiverVars
<1>4. CASE Receive /\ Handler
  BY <1>2, <1>4, RoomHolds
    DEF Handler, HandlerReadsClock, HandlerSends, xQueueSendFromISR, RoomInQueue
<1>5. CASE Receive /\ Decoder
  <2> DEFINE event == Head(gpio_evt_queue)
  <2>1. event.timestamp_us = Waits(1) /\ gpio_evt_queue # <<>> /\ now' = now
    BY <1>5, TakeIs DEF LatenessInv, Waits
  <2>2. /\ Waits(1) \in Nat /\ last_rising_edge \in Nat /\ last_falling_edge \in Nat
        /\ Waits(1) <= now /\ last_rising_edge <= Waits(1) /\ last_falling_edge <= Waits(1)
    BY <2>1, Numbers, QueueTimes DEF LatenessInv, TypeOK, ReceiverTypeOK, WaitInv, DecoderTimes
  <2> HIDE DEF event
  <2>3. ASSUME NEW last \in {last_rising_edge, last_falling_edge}, last > 0
        PROVE  ToInt(event.timestamp_us - last) = event.timestamp_us - last
    <3>1. Waits(1) - last \in Nat /\ Waits(1) - last < IntRange \div 2
      BY <1>1, <2>1, <2>2, <2>3, ReceiverAssumption
    <3> QED
      BY <2>1, <3>1, SmallFits
  <2>4. CASE TakeRisingEdge
    BY <1>2, <2>3, <2>4 DEF TakeRisingEdge, event
  <2>5. CASE TakeFallingEdge
    BY <1>2, <2>3, <2>5 DEF TakeFallingEdge, event
  <2> QED
    BY <1>5, <2>4, <2>5 DEF Decoder
<1> QED
  BY <1>3, <1>4, <1>5 DEF Next, Receive, ReceiverNext

(* A queue that is long enough for the decoder's lag keeps every letter    *)
(* whole, for every queue length, rate, latency and lag, up to the moment  *)
(* (half an hour after the start on the board) when the clock outgrows an  *)
(* int: from then on a pause of the sender can overflow the decoder's gap. *)
THEOREM QueueIsEnough == Spec => [](BeforeOverflow => QueueSuffices)
<1>1. LatenessInv /\ NothingHurt /\ [Next]_vars => LatenessInv' /\ NothingHurt'
  BY LatenessStep, NothingHurtStep
<1>2. Init => NothingHurt
  BY DEF Init, ReceiverInit, NothingHurt
<1>3. NothingHurt => (BeforeOverflow => QueueSuffices)
  BY DEF NothingHurt, QueueSuffices, LongEnough
<1> QED
  BY <1>1, <1>2, <1>3, LatenessInit, PTL DEF Spec

-----------------------------------------------------------------------------
(* Damage stays local: between two events that follow each other in the    *)
(* queue others may be missing; every letter one of them was keyed for is  *)
(* hurt.                                                                   *)

\* From event a on to an edge at this position of the message every letter met
\* a loss; that edge's letter need not, when it begins with the edge.
Skips(a, letter, element, level, elapsed) ==
  /\ a.letter <= letter
  /\ \A n \in a.letter .. letter :
       n \in hurt \/ (a.letter < n /\ n = letter /\ element = 1 /\ level = 1)
  /\ a # NoEvent /\ element = 1 /\ level = 1 => elapsed >= letter_gap_us - Latency

Comes(a, letter, element, level, elapsed, slack) ==
  \/ Follows(a, letter, element, level, elapsed, slack)
  \/ Skips(a, letter, element, level, elapsed)

ComesAfter(a, b) ==
  Comes(a, b.letter, b.element, b.level, b.timestamp_us - a.timestamp_us, Latency)

EventsAscend ==
  /\ \A k \in 1 .. Len(gpio_evt_queue) : Keyed(gpio_evt_queue[k])
  /\ gpio_evt_queue # <<>> => ComesAfter(taken, gpio_evt_queue[1])
  /\ \A k \in 1 .. Len(gpio_evt_queue) - 1 :
       ComesAfter(gpio_evt_queue[k], gpio_evt_queue[k + 1])

Arrival ==
  /\ Latest.timestamp_us <= pendingSince + Latency
  /\ sent = <<>> => Latest = NoEvent
  /\ sent # <<>> /\ ~pending /\ stamp = 0 =>
       Settled \/ \A n \in Latest.letter .. Len(sent) : n \in hurt
  /\ pending => Comes(Latest, Len(sent), si, Level, pendingSince - Latest.timestamp_us, 0)
  /\ stamp # 0 => Comes(Latest, Len(sent), si, Level, stamp - Latest.timestamp_us, Latency)

PrintedOnce(n) ==
  \E k \in 1 .. Len(out) :
    /\ out[k].of = n /\ out[k].char = sent[n].char
    /\ \A j \in 1 .. Len(out) : out[j].of = n => j = k

\* The symbols in the buffer are of the letter that is taken, or of one that was hurt.
BufferInv ==
  /\ last_rising_edge <= taken.timestamp_us /\ last_falling_edge <= taken.timestamp_us
  /\ of <= taken.letter /\ \A k \in 1 .. Len(out) : out[k].of <= taken.letter
  /\ taken = NoEvent => morse_buffer = <<>> /\ out = <<>>
  /\ morse_buffer # <<>> => last_falling_edge > 0 /\ (of = taken.letter \/ of \in hurt)

\* A letter that is not hurt is decoded as if nothing had happened before.
WholeInv ==
  taken # NoEvent =>
    /\ Keyed(taken)
    /\ taken.letter \notin hurt =>
         /\ \A k \in 1 .. Len(out) : out[k].of < taken.letter
         /\ taken.level = 1 => /\ last_rising_edge = taken.timestamp_us
                               /\ morse_buffer = SubSeq(Code(taken.letter), 1, taken.element - 1)
         /\ taken.level = 0 => /\ last_falling_edge = taken.timestamp_us
                               /\ morse_buffer = SubSeq(Code(taken.letter), 1, taken.element)
                               /\ of = taken.letter
    /\ \A n \in 1 .. taken.letter - 1 : n \notin hurt => PrintedOnce(n)

DamageInv == EventsAscend /\ Arrival /\ BufferInv /\ WholeInv

-----------------------------------------------------------------------------
(* Damage stays local: the edges                                           *)

\* What has been keyed stays, what was hurt stays hurt.
HistoryGrows ==
  /\ hurt \subseteq hurt'
  /\ Len(sent) \in Nat /\ Len(sent') \in Nat /\ Len(sent) <= Len(sent')
  /\ \A n \in 1 .. Len(sent) : sent'[n] = sent[n]

LEMMA KeyedStays ==
  ASSUME HistoryGrows, NEW e, Keyed(e)
  PROVE  Keyed(e)' /\ Code(e.letter)' = Code(e.letter)
<1>1. e.letter \in 1 .. Len(sent) /\ e.letter \in 1 .. Len(sent')
  BY DEF Keyed, HistoryGrows
<1>2. Code(e.letter)' = Code(e.letter)
  BY <1>1 DEF Code, HistoryGrows
<1> QED
  BY <1>1, <1>2 DEF Keyed

LEMMA ComesStays ==
  ASSUME HistoryGrows, NEW a, NEW b, a = NoEvent \/ Keyed(a), Keyed(b), ComesAfter(a, b)
  PROVE  ComesAfter(a, b)'
<1>1. CASE FollowsEvent(a, b)
  <2>1. FollowsEvent(a, b)'
    BY <1>1, OldLetters DEF FollowsEvent, Keyed, HistoryGrows
  <2> QED
    BY <2>1 DEF ComesAfter, Comes, FollowsEvent
<1>2. CASE Skips(a, b.letter, b.element, b.level, b.timestamp_us - a.timestamp_us)
  <2>1. Skips(a, b.letter, b.element, b.level, b.timestamp_us - a.timestamp_us)'
    BY <1>2 DEF Skips, HistoryGrows
  <2> QED
    BY <2>1 DEF ComesAfter, Comes
<1> QED
  BY <1>1, <1>2 DEF ComesAfter, Comes, FollowsEvent

LEMMA NearKeyed ==
  ASSUME TypeOK, EventsAscend, WholeInv
  PROVE  /\ taken = NoEvent \/ Keyed(taken)
         /\ Latest = NoEvent \/ Keyed(Latest)
         /\ \A k \in 1 .. Len(gpio_evt_queue) : Keyed(gpio_evt_queue[k])
<1>1. taken = NoEvent \/ Keyed(taken)
  BY DEF WholeInv
<1>2. \A k \in 1 .. Len(gpio_evt_queue) : Keyed(gpio_evt_queue[k])
  BY DEF EventsAscend
<1>3. gpio_evt_queue # <<>> => Len(gpio_evt_queue) \in 1 .. Len(gpio_evt_queue)
  BY QueueType
<1> QED
  BY <1>1, <1>2, <1>3 DEF Latest

LEMMA AscentStays ==
  ASSUME TypeOK, EventsAscend, WholeInv, HistoryGrows, UNCHANGED <<gpio_evt_queue, taken>>
  PROVE  EventsAscend'
<1> PICK q : q = gpio_evt_queue
  OBVIOUS
<1>1. gpio_evt_queue = q /\ gpio_evt_queue' = q /\ taken' = taken
  OBVIOUS
<1>2. Len(q) \in Nat /\ (q # <<>> => 1 \in 1 .. Len(q))
  BY <1>1, QueueTimes
<1>3. /\ taken = NoEvent \/ Keyed(taken)
      /\ \A k \in 1 .. Len(q) : Keyed(q[k]) /\ Keyed(q[k])'
  BY <1>1, NearKeyed, KeyedStays
<1>4. q # <<>> => ComesAfter(taken, q[1])'
  BY <1>1, <1>2, <1>3, ComesStays DEF EventsAscend
<1>5. ASSUME NEW k \in 1 .. Len(q) - 1
      PROVE  ComesAfter(q[k], q[k + 1])'
  <2>1. k \in 1 .. Len(q) /\ k + 1 \in 1 .. Len(q)
    BY <1>2
  <2> QED
    BY <1>1, <1>3, <2>1, ComesStays DEF EventsAscend
<1> QED
  BY <1>1, <1>3, <1>4, <1>5 DEF EventsAscend

\* A decoder that does nothing stays in step.
LEMMA DecoderStays ==
  ASSUME TypeOK, BufferInv, WholeInv, HistoryGrows, UNCHANGED decoderVars
  PROVE  BufferInv' /\ WholeInv'
<1>1. BufferInv'
  BY DEF BufferInv, HistoryGrows, decoderVars
<1>2. CASE taken = NoEvent
  <2>1. taken' = NoEvent
    BY <1>2 DEF decoderVars
  <2> QED
    BY <1>1, <2>1 DEF WholeInv
<1>3. CASE taken # NoEvent
  <2>1. Keyed(taken)' /\ Code(taken.letter)' = Code(taken.letter) /\ taken' = taken
    BY <1>3, KeyedStays DEF WholeInv, decoderVars
  <2>2. taken.letter \notin hurt' => taken.letter \notin hurt
    BY DEF HistoryGrows
  <2>3. ASSUME NEW n \in 1 .. taken.letter - 1, n \notin hurt'
        PROVE  PrintedOnce(n)'
    <3>1. n \in 1 .. Len(sent)
      BY <1>3 DEF WholeInv, Keyed, HistoryGrows
    <3>2. PrintedOnce(n) /\ sent'[n] = sent[n]
      BY <1>3, <2>3, <3>1 DEF WholeInv, HistoryGrows
    <3> QED
      BY <3>2 DEF PrintedOnce, decoderVars
  <2>4. ASSUME taken.letter \notin hurt'
        PROVE  (/\ \A k \in 1 .. Len(out) : out[k].of < taken.letter
                /\ taken.level = 1 =>
                     /\ last_rising_edge = taken.timestamp_us
                     /\ morse_buffer = SubSeq(Code(taken.letter), 1, taken.element - 1)
                /\ taken.level = 0 =>
                     /\ last_falling_edge = taken.timestamp_us
                     /\ morse_buffer = SubSeq(Code(taken.letter), 1, taken.element)
                     /\ of = taken.letter)'
    BY <1>3, <2>1, <2>2, <2>4 DEF WholeInv, decoderVars
  <2> QED
    BY <1>1, <2>1, <2>3, <2>4 DEF WholeInv
<1> QED
  BY <1>1, <1>2, <1>3

\* A queue that only loses its head, or nothing at all, leaves the latest event.
LEMMA ArrivalStays ==
  ASSUME Arrival, HistoryGrows, Latest' = Latest,
         UNCHANGED <<sent, si, light, pending, pendingSince, stamp>>
  PROVE  Arrival'
<1>1. Level' = Level
  BY DEF Level
<1>2. \A l, e, v, d, s : Follows(Latest, l, e, v, d, s) => Follows(Latest, l, e, v, d, s)'
  BY DEF Follows, Code
<1>3. \A l, e, v, d : Skips(Latest, l, e, v, d) => Skips(Latest, l, e, v, d)'
  BY DEF Skips, HistoryGrows
<1>4. Settled => Settled'
  BY <1>1 DEF Settled
<1>5. (\A n \in Latest.letter .. Len(sent) : n \in hurt)
        => (\A n \in Latest.letter .. Len(sent) : n \in hurt)'
  BY DEF HistoryGrows
<1>6. (pending => Comes(Latest, Len(sent), si, Level, pendingSince - Latest.timestamp_us, 0))'
  BY <1>1, <1>2, <1>3 DEF Arrival, Comes
<1>7. (stamp # 0 => Comes(Latest, Len(sent), si, Level, stamp - Latest.timestamp_us, Latency))'
  BY <1>1, <1>2, <1>3 DEF Arrival, Comes
<1> QED
  BY <1>4, <1>5, <1>6, <1>7 DEF Arrival

LEMMA HistoryStep ==
  ASSUME TypeOK, SenderClock, [Next]_vars
  PROVE  HistoryGrows
<1>1. Len(sent) \in Nat /\ hurt \subseteq hurt'
  BY Numbers, LenProperties, HurtGrows
<1>2. CASE sent' = sent
  BY <1>1, <1>2 DEF HistoryGrows
<1>3. CASE Send /\ StartLetter
  BY <1>1, <1>3, NewLetter DEF HistoryGrows
<1>4. CASE Send /\ ~StartLetter
  <2>1. sent' = sent
    BY <1>4, DarkStep DEF StartSymbol, EndSymbol
  <2> QED
    BY <1>2, <2>1
<1> QED
  BY <1>2, <1>3, <1>4 DEF Next, Receive, ReceiverNext, Tick, vars, lineVars

\* Where an event that got furthest can be: nowhere yet, or at a letter keyed.
LEMMA LatestIs ==
  ASSUME TypeOK, EventsAscend, WholeInv
  PROVE  /\ Latest.timestamp_us \in Nat /\ Latest.letter \in Nat /\ Latest.letter <= Len(sent)
         /\ Latest = NoEvent => Latest.letter = 0
         /\ Len(sent) \in Nat
<1>1. Latest.timestamp_us \in Nat /\ Latest.letter \in Nat
  BY QueueType, EventFields
<1>2. Len(sent) \in Nat
  BY Numbers, LenProperties
<1>3. Latest = NoEvent => Latest.letter = 0
  BY DEF NoEvent
<1>4. Latest # NoEvent => Latest.letter \in 1 .. Len(sent)
  BY NearKeyed DEF Keyed
<1> QED
  BY <1>1, <1>2, <1>3, <1>4

LEMMA SymbolArrival ==
  ASSUME TypeOK, TimingFits, SenderClock, InterruptClock, EventsAscend, WholeInv, Arrival,
         HistoryGrows, Send, StartSymbol \/ EndSymbol
  PROVE  Arrival'
<1>1. /\ sent' = sent /\ sent # <<>> /\ pending' = TRUE /\ pendingSince' = now /\ stamp' = 0
      /\ ~pending /\ stamp = 0 /\ Latest' = Latest /\ hurt' = hurt
  BY SymbolEdge
<1>2. Settled \/ \A n \in Latest.letter .. Len(sent) : n \in hurt
  BY <1>1 DEF Arrival
<1>3. Comes(Latest, Len(sent), si, Level, pendingSince - Latest.timestamp_us, 0)'
  <2>1. CASE Settled
    <3>1. Follows(Latest, Len(sent), si, Level, pendingSince - Latest.timestamp_us, 0)'
      BY <2>1, SymbolFollows
    <3> QED
      BY <3>1 DEF Comes
  <2>2. CASE \A n \in Latest.letter .. Len(sent) : n \in hurt
    <3>1. ~(si' = 1 /\ Level' = 1)
      <4>1. CASE StartSymbol
        <5>1. control = "off" /\ si' = si + 1
          BY <4>1 DEF StartSymbol
        <5>2. si \in 1 .. Len(Morse)
          BY <5>1 DEF SenderClock
        <5> QED
          BY <5>1, <5>2
      <4>2. CASE EndSymbol
        BY <4>2 DEF EndSymbol, Level
      <4> QED
        BY <4>1, <4>2
    <3>2. Latest.letter <= Len(sent)
      BY LatestIs
    <3>3. Skips(Latest, Len(sent), si, Level, pendingSince - Latest.timestamp_us)'
      BY <1>1, <2>2, <3>1, <3>2 DEF Skips
    <3> QED
      BY <3>3 DEF Comes
  <2> QED
    BY <1>2, <2>1, <2>2
<1>4. (Latest.timestamp_us <= pendingSince + Latency)'
  <2>1. Latest.timestamp_us <= pendingSince + Latency /\ pendingSince <= now
    BY DEF Arrival, InterruptClock
  <2> QED
    BY <1>1, <2>1, LatestIs, Numbers
<1> QED
  BY <1>1, <1>3, <1>4 DEF Arrival

LEMMA LetterArrival ==
  ASSUME TypeOK, TimingFits, SenderClock, InterruptClock, EventsAscend, WholeInv, Arrival,
         HistoryGrows, Send, StartLetter
  PROVE  Arrival'
<1>1. /\ si' = 1 /\ Level' = 1 /\ sent' # <<>> /\ Len(sent') = Len(sent) + 1 /\ Awake
      /\ pending' = TRUE /\ pendingSince' = now /\ stamp' = 0 /\ control = "next"
      /\ ~pending /\ stamp = 0 /\ Latest' = Latest /\ hurt' = hurt
  BY LetterEdge
<1>2. Comes(Latest, Len(sent), si, Level, pendingSince - Latest.timestamp_us, 0)'
  <2>1. CASE sent = <<>>
    <3>1. Latest = NoEvent /\ Len(sent') = 1
      BY <1>1, <2>1 DEF Arrival
    <3> QED
      BY <1>1, <3>1 DEF Comes, Follows
  <2>2. CASE sent # <<>> /\ Settled
    <3>1. Follows(Latest, Len(sent), si, Level, pendingSince - Latest.timestamp_us, 0)'
      BY <2>2, LetterFollows
    <3> QED
      BY <3>1 DEF Comes
  <2>3. CASE sent # <<>> /\ \A n \in Latest.letter .. Len(sent) : n \in hurt
    <3>1. wake >= pendingSince + letter_gap_us /\ now >= wake
      BY <1>1, <2>3 DEF SenderClock, BetweenLetters, Awake
    <3>2. now - Latest.timestamp_us >= letter_gap_us - Latency
      <4>1. Latest.timestamp_us <= pendingSince + Latency
        BY DEF Arrival
      <4>2. /\ now \in Nat /\ wake \in Nat /\ pendingSince \in Nat /\ Latency \in Nat
            /\ letter_gap_us \in Nat /\ Latest.timestamp_us \in Nat
        BY Numbers, LatestIs DEF letter_gap_us
      <4> QED
        BY ONLY <3>1, <4>1, <4>2
    <3>3. Latest.letter \in Nat /\ Len(sent) \in Nat /\ Latest.letter <= Len(sent)
      BY LatestIs
    <3>4. Skips(Latest, Len(sent), si, Level, pendingSince - Latest.timestamp_us)'
      BY <1>1, <2>3, <3>2, <3>3 DEF Skips, letter_gap_us
    <3> QED
      BY <3>4 DEF Comes
  <2> QED
    BY <1>1, <2>1, <2>2, <2>3 DEF Arrival
<1>3. (Latest.timestamp_us <= pendingSince + Latency)'
  <2>1. Latest.timestamp_us <= pendingSince + Latency /\ pendingSince <= now
    BY DEF Arrival, InterruptClock
  <2> QED
    BY <1>1, <2>1, LatestIs, Numbers
<1> QED
  BY <1>1, <1>2, <1>3 DEF Arrival

LEMMA SendDamage ==
  ASSUME TypeOK, TimingFits, SenderClock, InterruptClock, DamageInv, Send
  PROVE  DamageInv'
<1>1. HistoryGrows
  BY HistoryStep DEF Next
<1>2. UNCHANGED <<gpio_evt_queue, decoderVars>> /\ taken' = taken /\ stamp' = stamp
  BY DEF Send, decoderVars
<1>3. EventsAscend' /\ BufferInv' /\ WholeInv'
  BY <1>1, <1>2, AscentStays, DecoderStays DEF DamageInv
<1>4. Arrival'
  <2>1. CASE StartSymbol \/ EndSymbol
    BY <1>1, <2>1, SymbolArrival DEF DamageInv
  <2>2. CASE StartLetter
    BY <1>1, <2>2, LetterArrival DEF DamageInv
  <2>3. CASE ~StartLetter /\ ~EndSymbol /\ ~StartSymbol
    <3>1. light' = light /\ sent' = sent /\ si' = si
      BY <2>3, DarkStep
    <3>2. pending' = pending /\ pendingSince' = pendingSince
      BY <3>1, NoEdge
    <3>3. Latest' = Latest
      BY <1>2 DEF Latest
    <3> QED
      BY <1>1, <1>2, <3>1, <3>2, <3>3, ArrivalStays DEF DamageInv
  <2> QED
    BY <2>1, <2>2, <2>3
<1> QED
  BY <1>3, <1>4 DEF DamageInv

LEMMA ReadsClockDamage ==
  ASSUME TypeOK, TimingFits, SenderClock, InterruptClock, DamageInv, Receive, HandlerReadsClock
  PROVE  DamageInv'
<1>1. /\ UNCHANGED <<sent, si, light, pendingSince, gpio_evt_queue, decoderVars, taken, hurt>>
      /\ pending /\ pending' = FALSE /\ stamp' = now
  BY DEF Receive, ReceiverNext, HandlerReadsClock, decoderVars
<1>2. HistoryGrows
  BY HistoryStep DEF Next
<1>3. EventsAscend' /\ BufferInv' /\ WholeInv'
  BY <1>1, <1>2, AscentStays, DecoderStays DEF DamageInv
<1>4. Latest' = Latest /\ Level' = Level /\ stamp' # 0 /\ sent # <<>>
  BY <1>1, Numbers DEF Latest, Level, InterruptClock, TypeOK, LineTypeOK
<1>5. Comes(Latest, Len(sent), si, Level, stamp - Latest.timestamp_us, Latency)'
  <2>1. CASE Follows(Latest, Len(sent), si, Level, pendingSince - Latest.timestamp_us, 0)
    <3>1. Follows(Latest, Len(sent), si, Level, stamp - Latest.timestamp_us, Latency)'
      BY <2>1, StampFollows
    <3> QED
      BY <3>1 DEF Comes
  <2>2. CASE Skips(Latest, Len(sent), si, Level, pendingSince - Latest.timestamp_us)
    <3>1. ASSUME pendingSince - Latest.timestamp_us >= letter_gap_us - Latency
          PROVE  now - Latest.timestamp_us >= letter_gap_us - Latency
      <4>1. pendingSince <= now
        BY DEF InterruptClock
      <4>2. /\ now \in Nat /\ pendingSince \in Nat /\ Latency \in Nat
            /\ letter_gap_us \in Nat /\ Latest.timestamp_us \in Nat
        BY Numbers, LatestIs DEF letter_gap_us, DamageInv
      <4> QED
        BY ONLY <3>1, <4>1, <4>2
    <3>2. Skips(Latest, Len(sent), si, Level, stamp - Latest.timestamp_us)'
      BY <1>1, <1>4, <2>2, <3>1 DEF Skips, letter_gap_us
    <3> QED
      BY <3>2 DEF Comes
  <2> QED
    BY <1>1, <2>1, <2>2 DEF DamageInv, Arrival, Comes
<1>6. Arrival'
  BY <1>1, <1>4, <1>5 DEF DamageInv, Arrival
<1> QED
  BY <1>3, <1>6 DEF DamageInv

\* An event that finds room comes after the one before it; one that does not
\* leaves nothing behind but the letters it hurts.
LEMMA SendsDamage ==
  ASSUME TypeOK, TimingFits, SenderClock, InterruptClock, DamageInv, Receive, HandlerSends
  PROVE  DamageInv'
<1> DEFINE event == EventAt(stamp)
           q == gpio_evt_queue
<1>1. /\ UNCHANGED <<sent, si, light, pending, pendingSince, decoderVars, taken>>
      /\ stamp # 0 /\ stamp' = 0
  BY DEF Receive, ReceiverNext, HandlerSends, decoderVars
<1>2. HistoryGrows
  BY HistoryStep DEF Next
<1>3. BufferInv' /\ WholeInv'
  BY <1>1, <1>2, DecoderStays DEF DamageInv
<1>4. sent # <<>> /\ ~pending /\ pendingSince <= stamp /\ stamp <= pendingSince + Latency
  BY <1>1 DEF InterruptClock
<1>5. Comes(Latest, Len(sent), si, Level, stamp - Latest.timestamp_us, Latency)
  BY <1>1 DEF DamageInv, Arrival
<1>6. Level' = Level
  BY <1>1 DEF Level
<1>7. CASE q' = q /\ hurt' = hurt \cup LettersAround(Len(sent), si, Level)
  <2>1. EventsAscend'
    BY <1>1, <1>2, <1>7, AscentStays DEF DamageInv
  <2>2. Latest' = Latest
    BY <1>1, <1>7 DEF Latest
  <2>3. ASSUME NEW n \in Latest.letter .. Len(sent)
        PROVE  n \in hurt'
    <3>1. Len(sent) \in Nat /\ Latest.letter \in Nat
      BY LatestIs DEF DamageInv
    <3>2. n = Len(sent) => n \in hurt'
      BY <1>7 DEF LettersAround
    <3>3. CASE Skips(Latest, Len(sent), si, Level, stamp - Latest.timestamp_us)
      BY <1>2, <3>2, <3>3 DEF Skips, HistoryGrows
    <3>4. CASE Follows(Latest, Len(sent), si, Level, stamp - Latest.timestamp_us, Latency)
      <4>1. \/ Latest.letter = Len(sent)
            \/ Len(sent) = Latest.letter + 1 /\ si = 1 /\ Level = 1
        <5>1. Latest = NoEvent => Latest.letter + 1 = 1
          BY DEF NoEvent
        <5> QED
          BY <3>4, <5>1 DEF Follows
      <4>2. CASE Latest.letter = Len(sent)
        BY <3>1, <3>2, <4>2
      <4>3. CASE Len(sent) = Latest.letter + 1 /\ si = 1 /\ Level = 1
        <5>1. n \in {Len(sent) - 1, Len(sent)}
          BY <3>1, <4>3
        <5> QED
          BY <1>7, <4>3, <5>1 DEF LettersAround
      <4> QED
        BY <4>1, <4>2, <4>3
    <3> QED
      BY <1>5, <3>3, <3>4 DEF Comes
  <2>4. (Latest.timestamp_us <= pendingSince + Latency)'
    BY <1>1, <2>2 DEF DamageInv, Arrival
  <2>5. Arrival'
    BY <1>1, <1>4, <2>2, <2>3, <2>4 DEF Arrival
  <2> QED
    BY <1>3, <2>1, <2>5 DEF DamageInv
<1>8. CASE q' = Append(q, event)
  <2>1. /\ event.timestamp_us = stamp /\ event.level = Level /\ event.letter = Len(sent)
        /\ event.element = si
    BY DEF EventAt, Level
  <2>2. event \in Event
    BY <1>1, EventAtIs
  <2>3. ComesAfter(Latest, event)
    BY <1>5, <2>1 DEF ComesAfter
  <2>4. Keyed(event)
    BY <1>4, <2>1, ElementKeyed DEF Keyed
  <2>5. /\ Len(q') = Len(q) + 1 /\ Len(q) \in Nat /\ q' # <<>>
        /\ \A k \in 1 .. Len(q) : q'[k] = q[k]
        /\ q'[Len(q) + 1] = event
        /\ (q = <<>> <=> Len(q) = 0)
    <3> HIDE DEF event
    <3> QED
      BY <1>8, <2>2, QueueType
  <2>6. Latest' = event
    <3> HIDE DEF event
    <3> QED
      BY <2>5, SMTT(30) DEF Latest
  <2> PICK e : e = event
    OBVIOUS
  <2> PICK old : old = gpio_evt_queue
    OBVIOUS
  <2> PICK new : new = gpio_evt_queue'
    OBVIOUS
  <2> PICK last : last = Latest
    OBVIOUS
  <2> PICK first : first = taken
    OBVIOUS
  <2> HIDE DEF event, q
  <2>7. /\ Len(new) = Len(old) + 1 /\ Len(old) \in Nat /\ new # <<>>
        /\ \A k \in 1 .. Len(old) : new[k] = old[k]
        /\ new[Len(old) + 1] = e
        /\ (old = <<>> <=> Len(old) = 0)
        /\ gpio_evt_queue' = new /\ taken' = first /\ e = event
    BY <1>1, <2>5 DEF q
  <2>8. /\ \A k \in 1 .. Len(old) : Keyed(old[k])
        /\ last = NoEvent \/ Keyed(last)
        /\ first = NoEvent \/ Keyed(first)
    BY NearKeyed DEF DamageInv
  <2>9. \A k \in 1 .. Len(old) : Keyed(old[k])'
    BY <1>2, <2>8, KeyedStays
  <2>10. Keyed(e)' /\ ComesAfter(last, e)'
    <3>1. Keyed(e) /\ ComesAfter(last, e)
      BY <2>3, <2>4, <2>7
    <3> QED
      BY <1>2, <2>8, <3>1, KeyedStays, ComesStays
  <2>11. ASSUME NEW k \in 1 .. Len(new) PROVE Keyed(new[k])'
    <3>1. k \in 1 .. Len(old) \/ k = Len(old) + 1
      BY <2>7
    <3> QED
      BY <2>7, <2>9, <2>10, <3>1
  <2>12. ComesAfter(first, new[1])'
    <3>1. CASE old = <<>>
      <4>1. last = first /\ new[1] = e
        BY <2>7, <3>1 DEF Latest
      <4> QED
        BY <2>10, <4>1
    <3>2. CASE old # <<>>
      <4>1. ComesAfter(first, old[1]) /\ 1 \in 1 .. Len(old)
        BY <2>7, <3>2 DEF DamageInv, EventsAscend
      <4>2. ComesAfter(first, old[1])'
        BY <1>2, <2>8, <4>1, ComesStays
      <4> QED
        BY <2>7, <4>1, <4>2
    <3> QED
      BY <3>1, <3>2
  <2>13. ASSUME NEW k \in 1 .. Len(new) - 1 PROVE ComesAfter(new[k], new[k + 1])'
    <3>1. CASE k = Len(old)
      <4>1. old # <<>> /\ last = old[k] /\ new[k] = old[k] /\ new[k + 1] = e
        BY <2>7, <3>1 DEF Latest
      <4> QED
        BY <2>10, <4>1
    <3>2. CASE k # Len(old)
      <4>1. /\ k \in 1 .. Len(old) - 1 /\ k \in 1 .. Len(old) /\ k + 1 \in 1 .. Len(old)
            /\ new[k] = old[k] /\ new[k + 1] = old[k + 1]
        BY <2>7, <3>2
      <4>2. ComesAfter(old[k], old[k + 1])
        BY <4>1 DEF DamageInv, EventsAscend
      <4>3. ComesAfter(old[k], old[k + 1])'
        BY <1>2, <2>8, <4>1, <4>2, ComesStays
      <4> QED
        BY <4>1, <4>3
    <3> QED
      BY <3>1, <3>2
  <2>14. EventsAscend'
    BY <2>7, <2>11, <2>12, <2>13 DEF EventsAscend
  <2>15. Settled'
    <3>1. stamp \in pendingSince .. pendingSince + Latency
      BY <1>4, Numbers
    <3> QED
      BY <1>1, <1>6, <2>1, <2>6, <3>1 DEF Settled
  <2>16. Arrival'
    BY <1>1, <1>4, <2>1, <2>6, <2>15 DEF Arrival
  <2> QED
    BY <1>3, <2>14, <2>16 DEF DamageInv
<1> QED
  BY <1>7, <1>8, SendsOrHurts DEF Level

-----------------------------------------------------------------------------
(* Damage stays local: the decoder                                         *)

\* Taking the first event leaves the rest in order.
LEMMA TakeAscends ==
  ASSUME TypeOK, EventsAscend, WholeInv, HistoryGrows, gpio_evt_queue # <<>>,
         gpio_evt_queue' = Tail(gpio_evt_queue), taken' = Head(gpio_evt_queue)
  PROVE  /\ Head(gpio_evt_queue) = gpio_evt_queue[1] /\ Head(gpio_evt_queue) \in Event
         /\ Keyed(Head(gpio_evt_queue)) /\ ComesAfter(taken, Head(gpio_evt_queue))
         /\ EventsAscend'
         /\ Latest' = Latest
<1> PICK q : q = gpio_evt_queue
  OBVIOUS
<1> PICK r : r = Tail(q)
  OBVIOUS
<1> PICK b : b = q[1]
  OBVIOUS
<1>1. /\ q \in Seq(Event) /\ q # <<>> /\ b \in Event /\ Head(q) = b
      /\ Len(q) \in Nat \ {0} /\ Len(r) = Len(q) - 1
      /\ \A k \in 1 .. Len(q) - 1 : r[k] = q[k + 1]
  BY QueueType, RestOf
<1>2. gpio_evt_queue = q /\ gpio_evt_queue' = r /\ taken' = b
  BY <1>1
<1>3. r \in Seq(Event) /\ (r = <<>> <=> Len(r) = 0)
  BY <1>1, RestOf, EmptySeq
<1>4. /\ \A k \in 1 .. Len(q) : Keyed(q[k])
      /\ ComesAfter(taken, b)
      /\ \A k \in 1 .. Len(q) - 1 : ComesAfter(q[k], q[k + 1])
  BY <1>1, <1>2 DEF EventsAscend
<1>5. Keyed(b) /\ 1 \in 1 .. Len(q)
  BY <1>1, <1>4
<1>6. ASSUME NEW k \in 1 .. Len(r) PROVE Keyed(r[k])'
  <2>1. k + 1 \in 1 .. Len(q) /\ k \in 1 .. Len(q) - 1
    BY <1>1
  <2>2. Keyed(r[k])
    BY <1>1, <1>4, <2>1
  <2> QED
    BY <2>2, KeyedStays
<1>7. ASSUME r # <<>> PROVE ComesAfter(b, r[1])'
  <2>1. 1 \in 1 .. Len(q) - 1 /\ 1 + 1 \in 1 .. Len(q)
    BY <1>1, <1>3, <1>7
  <2>2. ComesAfter(b, r[1]) /\ Keyed(r[1])
    BY <1>1, <1>4, <2>1
  <2> QED
    BY <1>5, <2>2, ComesStays
<1>8. ASSUME NEW k \in 1 .. Len(r) - 1 PROVE ComesAfter(r[k], r[k + 1])'
  <2>1. /\ k \in 1 .. Len(q) - 1 /\ k + 1 \in 1 .. Len(q) - 1
        /\ k + 1 \in 1 .. Len(q) /\ k + 1 + 1 \in 1 .. Len(q)
    BY <1>1
  <2>2. ComesAfter(r[k], r[k + 1]) /\ Keyed(r[k]) /\ Keyed(r[k + 1])
    BY <1>1, <1>4, <2>1
  <2> QED
    BY <2>2, ComesStays
<1>9. EventsAscend'
  BY <1>2, <1>6, <1>7, <1>8 DEF EventsAscend
<1>10. Latest' = Latest
  BY SameLatest
<1> QED
  BY <1>1, <1>2, <1>4, <1>5, <1>9, <1>10

\* The edge of b begins a letter after event a, a letter gap later.
Begins(a, b) ==
  /\ a.letter < b.letter /\ b.level = 1 /\ b.element = 1
  /\ a # NoEvent => b.timestamp_us - a.timestamp_us >= letter_gap_us - Latency

\* What an event says of the letters from the one before it up to its own.
LEMMA ComesIs ==
  ASSUME NEW a, NEW b, ComesAfter(a, b), a.letter \in Nat, b.letter \in Nat
  PROVE  /\ a.letter <= b.letter
         /\ a.letter \notin hurt => FollowsEvent(a, b)
         /\ b.letter \notin hurt => FollowsEvent(a, b) \/ Begins(a, b)
         /\ \A n \in a.letter .. b.letter - 1 :
              n \notin hurt => FollowsEvent(a, b) /\ n = a.letter
<1>1. CASE FollowsEvent(a, b)
  <2>1. NoEvent.letter = 0
    BY DEF NoEvent
  <2>2. a.letter = b.letter \/ b.letter = a.letter + 1
    BY <1>1, <2>1 DEF FollowsEvent, Follows
  <2> QED
    BY <1>1, <2>2
<1>2. CASE Skips(a, b.letter, b.element, b.level, b.timestamp_us - a.timestamp_us)
  <2>1. /\ a.letter <= b.letter
        /\ \A n \in a.letter .. b.letter :
             n \in hurt \/ (a.letter < n /\ n = b.letter /\ b.element = 1 /\ b.level = 1)
        /\ a # NoEvent /\ b.element = 1 /\ b.level = 1 =>
             b.timestamp_us - a.timestamp_us >= letter_gap_us - Latency
    BY <1>2 DEF Skips
  <2>2. a.letter \in a.letter .. b.letter /\ b.letter \in a.letter .. b.letter
    BY <2>1
  <2>3. b.letter \notin hurt => Begins(a, b)
    BY <2>1, <2>2 DEF Begins
  <2>4. a.letter \in hurt
    BY <2>1, <2>2
  <2>5. \A n \in a.letter .. b.letter - 1 : n \in hurt
    BY <2>1
  <2> QED
    BY <2>1, <2>3, <2>4, <2>5
<1> QED
  BY <1>1, <1>2 DEF ComesAfter, Comes, FollowsEvent

\* A letter that has been printed is not printed again by another letter's print.
LEMMA StaysPrinted ==
  ASSUME NEW n \in 1 .. Len(sent), PrintedOnce(n), sent' = sent,
         Len(out) \in Nat,
         \/ out' = out
         \/ /\ Len(out') = Len(out) + 1
            /\ \A k \in 1 .. Len(out) : out'[k] = out[k]
            /\ out'[Len(out) + 1].of # n
  PROVE  PrintedOnce(n)'
<1>1. CASE out' = out
  BY <1>1 DEF PrintedOnce
<1>2. CASE out' # out
  <2>1. PICK k \in 1 .. Len(out) :
          /\ out[k].of = n /\ out[k].char = sent[n].char
          /\ \A j \in 1 .. Len(out) : out[j].of = n => j = k
    BY DEF PrintedOnce
  <2>2. k \in 1 .. Len(out') /\ out'[k] = out[k]
    BY <1>2
  <2>3. ASSUME NEW j \in 1 .. Len(out'), out'[j].of = n
        PROVE  j = k
    <3>1. j \in 1 .. Len(out) \/ j = Len(out) + 1
      BY <1>2
    <3> QED
      BY <1>2, <2>1, <2>3, <3>1
  <2> QED
    BY <2>1, <2>2, <2>3 DEF PrintedOnce
<1> QED
  BY <1>1, <1>2

\* A falling edge stores the symbol of a letter that is not hurt.
LEMMA TakeFallingDamage ==
  ASSUME TypeOK, TimingFits, SenderClock, DecoderTimes, DamageInv, HistoryGrows,
         Receive, TakeFallingEdge
  PROVE  BufferInv' /\ WholeInv'
<1> PICK b : b = Head(gpio_evt_queue)
  OBVIOUS
<1> PICK a : a = taken
  OBVIOUS
<1> PICK c : c = Code(b.letter)
  OBVIOUS
<1> DEFINE j == b.element
           elapsed == b.timestamp_us - last_rising_edge
<1>1. /\ UNCHANGED <<sent, last_rising_edge, out>>
      /\ gpio_evt_queue # <<>> /\ gpio_evt_queue' = Tail(gpio_evt_queue) /\ taken' = b
      /\ b.level = 0 /\ last_falling_edge' = b.timestamp_us
  BY DEF Receive, ReceiverNext, TakeFallingEdge
<1>2. b \in Event /\ Keyed(b) /\ ComesAfter(a, b) /\ b = gpio_evt_queue[1]
  BY <1>1, TakeAscends DEF DamageInv
<1>3. /\ a \in Event \cup {NoEvent} /\ a.letter \in Nat /\ b.letter \in Nat
      /\ b.timestamp_us \in Nat /\ b.timestamp_us > 0 /\ b # NoEvent
      /\ of \in Nat /\ out \in Seq(Shown) /\ Len(out) \in Nat
      /\ last_rising_edge \in Nat
  BY <1>2, QueueType, EventFields, LenProperties DEF TypeOK, ReceiverTypeOK, Event, NoEvent
<1>4. /\ a.letter <= b.letter
      /\ a.letter \notin hurt => FollowsEvent(a, b)
      /\ b.letter \notin hurt => FollowsEvent(a, b)
      /\ \A n \in a.letter .. b.letter - 1 : n \notin hurt => FollowsEvent(a, b) /\ n = a.letter
  BY <1>1, <1>2, <1>3, ComesIs DEF Begins
<1>5. FollowsEvent(a, b) =>
        /\ a.level = 1 /\ a.letter = b.letter /\ a.element = j /\ a # NoEvent
        /\ b.timestamp_us - a.timestamp_us >= Duration(c[j]) - Latency
        /\ b.timestamp_us - a.timestamp_us <= Duration(c[j]) + OverSleep + Latency
  BY <1>1, NoEvent.level = 0 DEF FollowsEvent, Follows, NoEvent
<1>6. Keyed(b)' /\ Code(b.letter)' = c
  BY <1>2, KeyedStays
<1>7. b.letter \in 1 .. Len(sent) /\ j \in 1 .. Len(c) /\ c \in Seq(Symbol) /\ Len(c) \in 1 .. 5
  BY <1>2, CodeType DEF Keyed, SenderClock
<1>8. /\ \/ morse_buffer' = morse_buffer /\ of' = of
         \/ of' = b.letter
      /\ hurt \subseteq hurt'
  <2> DEFINE stored == IF last_rising_edge > 0 THEN Stored(ToInt(elapsed)) ELSE <<>>
  <2>1. morse_buffer' = morse_buffer \o stored /\ of' = IF stored = <<>> THEN of ELSE b.letter
    BY DEF TakeFallingEdge
  <2>2. morse_buffer \in Seq(Symbol)
    BY DEF TypeOK, ReceiverTypeOK
  <2> HIDE DEF stored
  <2>3. stored = <<>> => morse_buffer \o stored = morse_buffer
    BY <2>2, ConcatEmptySeq
  <2> QED
    BY <2>1, <2>3 DEF HistoryGrows
<1>9. BufferInv'
  <2>1. (last_rising_edge <= taken.timestamp_us /\ last_falling_edge <= taken.timestamp_us)'
    <3>1. last_rising_edge <= Waits(1)
      BY <1>1, QueueTimes DEF DecoderTimes
    <3> QED
      BY <1>1, <1>2, <1>3, <3>1 DEF Waits
  <2>2. of' <= b.letter /\ \A k \in 1 .. Len(out) : out[k].of <= b.letter
    <3>1. of <= a.letter /\ \A k \in 1 .. Len(out) : out[k].of <= a.letter
      BY DEF DamageInv, BufferInv
    <3>2. \A k \in 1 .. Len(out) : out[k].of \in Nat
      <4>1. \A k \in 1 .. Len(out) : out[k] \in Shown
        BY <1>3, ElementOfSeq
      <4> QED
        BY <4>1 DEF Shown
    <3> QED
      BY <1>3, <1>4, <1>8, <3>1, <3>2
  <2>3. ASSUME morse_buffer' # <<>>
        PROVE  of' = b.letter \/ of' \in hurt'
    <3>1. CASE of' = b.letter
      BY <3>1
    <3>2. CASE morse_buffer' = morse_buffer /\ of' = of
      <4>1. of = a.letter \/ of \in hurt
        BY <2>3, <3>2 DEF DamageInv, BufferInv
      <4> QED
        BY <1>4, <1>5, <1>8, <3>2, <4>1
    <3> QED
      BY <1>8, <3>1, <3>2
  <2> QED
    BY <1>1, <1>3, <2>1, <2>2, <2>3 DEF BufferInv
<1>10. ASSUME b.letter \notin hurt'
       PROVE  /\ \A k \in 1 .. Len(out) : out[k].of < b.letter
              /\ morse_buffer' = SubSeq(c, 1, j)
              /\ of' = b.letter
  <2>1. b.letter \notin hurt
    BY <1>8, <1>10
  <2>2. FollowsEvent(a, b)
    BY <1>4, <2>1
  <2>3. /\ \A k \in 1 .. Len(out) : out[k].of < b.letter
        /\ last_rising_edge = a.timestamp_us /\ last_rising_edge > 0
        /\ morse_buffer = SubSeq(c, 1, j - 1)
    BY <1>3, <1>5, <2>1, <2>2, EventFields DEF DamageInv, WholeInv
  <2>4. /\ SubSeq(c, 1, j) = morse_buffer \o <<c[j]>>
        /\ Len(morse_buffer) < BufferSize - 1
        /\ c[j] \in Symbol
    <3>1. BufferSize > 5 /\ BufferSize \in Nat
      BY DEF TimingFits
    <3>2. /\ SubSeq(c, 1, j) = morse_buffer \o <<c[j]>>
          /\ Len(morse_buffer) < 5
          /\ c[j] \in Symbol
      BY <1>7, <2>3, OneMoreSymbol
    <3>3. Len(morse_buffer) \in Nat
      BY LenProperties DEF TypeOK, ReceiverTypeOK
    <3>4. Len(morse_buffer) < BufferSize - 1
      BY ONLY <3>1, <3>2, <3>3
    <3> QED
      BY <3>2, <3>4
  <2>5. ToInt(elapsed) = elapsed
    BY <1>10, <2>3 DEF TakeFallingEdge
  <2>6. SymbolsOf(ToInt(elapsed)) = <<c[j]>>
    <3>1. elapsed \in Int
      BY <1>3
    <3> QED
      BY <1>5, <2>2, <2>3, <2>4, <2>5, <3>1, PulseDecodes, SMTT(30)
  <2>7. morse_buffer' = SubSeq(c, 1, j) /\ of' = b.letter
    <3>1. Stored(ToInt(elapsed)) = <<c[j]>>
      BY <2>4, <2>6 DEF Stored
    <3>2. <<c[j]>> # <<>>
      OBVIOUS
    <3> QED
      BY <2>3, <2>4, <3>1, <3>2 DEF TakeFallingEdge
  <2> QED
    BY <2>3, <2>7
<1>11. ASSUME NEW n \in 1 .. b.letter - 1, n \notin hurt'
       PROVE  PrintedOnce(n)'
  <2>1. n \notin hurt
    BY <1>8, <1>11
  <2>2. n < a.letter
    BY <1>3, <1>4, <1>5, <2>1
  <2>3. a # NoEvent
    BY <2>2 DEF NoEvent
  <2>4. PrintedOnce(n)
    BY <1>3, <2>1, <2>2, <2>3 DEF DamageInv, WholeInv
  <2> QED
    BY <1>1, <2>4 DEF PrintedOnce
<1>12. WholeInv'
  <2>1. Keyed(taken)'
    BY <1>1, <1>6 DEF Keyed, Code
  <2>2. (taken.letter \notin hurt =>
           /\ \A k \in 1 .. Len(out) : out[k].of < taken.letter
           /\ taken.level = 0 => /\ last_falling_edge = taken.timestamp_us
                                 /\ morse_buffer = SubSeq(Code(taken.letter), 1, taken.element)
                                 /\ of = taken.letter)'
    BY <1>1, <1>6, <1>10 DEF Code
  <2>3. (\A n \in 1 .. taken.letter - 1 : n \notin hurt => PrintedOnce(n))'
    BY <1>1, <1>11
  <2>4. (taken.level # 1)'
    BY <1>1
  <2> QED
    BY <2>1, <2>2, <2>3, <2>4 DEF WholeInv
<1> QED
  BY <1>9, <1>12

\* The letter in the buffer is printed.
Prints ==
  /\ morse_buffer # <<>> /\ morse_buffer' = <<>>
  /\ Len(out') = Len(out) + 1
  /\ \A k \in 1 .. Len(out) : out'[k] = out[k]
  /\ out'[Len(out) + 1].char = decode_morse(morse_buffer) /\ out'[Len(out) + 1].of = of

LEMMA PrintLetterPrints ==
  ASSUME TypeOK, morse_buffer # <<>>, NEW sep \in Separator, PrintLetter(sep)
  PROVE  Prints
<1> DEFINE shown == [char |-> decode_morse(morse_buffer), sep |-> sep, of |-> of]
<1>1. /\ out' = Append(out, shown) /\ morse_buffer' = <<>>
      /\ shown.char = decode_morse(morse_buffer) /\ shown.of = of
  BY DEF PrintLetter
<1>2. out \in Seq(Shown) /\ shown \in Shown
  <2>1. out \in Seq(Shown) /\ of \in Nat /\ morse_buffer \in Seq(Symbol)
    BY DEF TypeOK, ReceiverTypeOK
  <2>2. decode_morse(morse_buffer) \in Letters \cup {Unknown}
    BY <2>1, DecodeType
  <2> QED
    BY <2>1, <2>2 DEF Shown
<1> HIDE DEF shown
<1>3. /\ Len(out') = Len(out) + 1
      /\ \A k \in 1 .. Len(out) : out'[k] = out[k]
      /\ out'[Len(out) + 1] = shown
  BY <1>1, <1>2, AppendProperties
<1> QED
  BY <1>1, <1>3 DEF Prints

\* The parts of a rising edge's handling, whatever the duration of the gap.
LEMMA RisingIs ==
  ASSUME TypeOK, TakeRisingEdge, NEW b, b = Head(gpio_evt_queue),
         NEW gap, gap = b.timestamp_us - last_falling_edge
  PROVE  /\ Prints \/ UNCHANGED <<morse_buffer, out>>
         /\ last_falling_edge > 0 =>
              ToInt(gap) = gap \/ LettersAround(b.letter, b.element, 1) \subseteq hurt'
         /\ last_falling_edge > 0 /\ morse_buffer # <<>> /\ ToInt(gap) = gap
              /\ gap > letter_gap_min_us => Prints
         /\ last_falling_edge > 0 /\ ToInt(gap) = gap /\ ~(gap > letter_gap_min_us) =>
              UNCHANGED <<morse_buffer, out>>
<1> DEFINE ends == last_falling_edge > 0 /\ morse_buffer # <<>> /\ ToInt(gap) > letter_gap_min_us
           sep == IF ToInt(gap) > word_gap_min_us THEN " " ELSE ""
<1>1. IF ends THEN PrintLetter(sep) ELSE UNCHANGED <<morse_buffer, out>>
  BY DEF TakeRisingEdge
<1>2. hurt' = IF last_falling_edge > 0 /\ ToInt(gap) # gap
              THEN hurt \cup LettersAround(b.letter, b.element, 1) ELSE hurt
  BY DEF TakeRisingEdge
<1>3. sep \in Separator
  BY DEF Separator
<1>4. ends => Prints
  <2> HIDE DEF sep
  <2> QED
    BY <1>1, <1>3, PrintLetterPrints
<1>5. last_falling_edge > 0 =>
        ToInt(gap) = gap \/ LettersAround(b.letter, b.element, 1) \subseteq hurt'
  BY <1>2
<1>6. ASSUME ToInt(gap) = gap
      PROVE  ends <=> last_falling_edge > 0 /\ morse_buffer # <<>> /\ gap > letter_gap_min_us
  BY <1>6
<1> HIDE DEF ends, sep
<1> QED
  BY <1>1, <1>4, <1>5, <1>6

\* A rising edge that begins a letter ends the letter before it, unless the gap
\* overflows, which hurts both.
LEMMA BeginningEmpties ==
  ASSUME TypeOK, TimingFits, BufferInv, TakeRisingEdge,
         NEW b, b = Head(gpio_evt_queue), b.timestamp_us \in Nat,
         b.element = 1, taken # NoEvent,
         b.timestamp_us - taken.timestamp_us >= letter_gap_us - Latency,
         morse_buffer # <<>>
  PROVE  Prints \/ {b.letter - 1, b.letter} \subseteq hurt'
<1> PICK gap : gap = b.timestamp_us - last_falling_edge
  OBVIOUS
<1>1. /\ last_falling_edge > 0 /\ last_falling_edge <= taken.timestamp_us
      /\ last_falling_edge \in Nat /\ taken.timestamp_us \in Nat
      /\ letter_gap_us \in Nat /\ Latency \in Nat
  BY QueueType, EventFields DEF BufferInv, TypeOK, ReceiverTypeOK, letter_gap_us
<1>2. gap \in Int /\ gap >= letter_gap_us - Latency
  BY <1>1
<1>3. gap > letter_gap_min_us
  BY <1>2, GapDecodes
<1>4. ToInt(gap) = gap => Prints
  BY <1>1, <1>3, RisingIs
<1>5. ToInt(gap) = gap \/ LettersAround(b.letter, b.element, 1) \subseteq hurt'
  BY <1>1, RisingIs
<1>6. LettersAround(b.letter, b.element, 1) = {b.letter - 1, b.letter}
  BY DEF LettersAround
<1> QED
  BY <1>4, <1>5, <1>6

\* What comes after the last event when a letter is to be continued or begun.
LEMMA RisingFollows ==
  ASSUME NEW a, NEW b, a \in Event \cup {NoEvent}, FollowsEvent(a, b),
         b.level = 1, b.letter > 0
  PROVE  \/ Begins(a, b) /\ a = NoEvent /\ b.letter = 1
         \/ /\ a.level = 0 /\ a # NoEvent /\ b.letter = a.letter /\ b.element = a.element + 1
            /\ b.timestamp_us - a.timestamp_us <= symbol_gap_us + OverSleep + Latency
         \/ /\ Begins(a, b) /\ a # NoEvent /\ a.level = 0 /\ b.letter = a.letter + 1
            /\ a.letter > 0 /\ a.element = Len(Code(a.letter))
<1>1. a.letter \in Nat /\ NoEvent.letter = 0
  BY EventFields DEF NoEvent
<1> QED
  BY <1>1 DEF FollowsEvent, Follows, Begins

\* A rising edge prints a whole letter when the next one begins, and never twice.
LEMMA TakeRisingDamage ==
  ASSUME TypeOK, TimingFits, SenderClock, DecoderTimes, DamageInv, HistoryGrows,
         Receive, TakeRisingEdge
  PROVE  BufferInv' /\ WholeInv'
<1> PICK b : b = Head(gpio_evt_queue)
  OBVIOUS
<1> PICK a : a = taken
  OBVIOUS
<1> PICK gap : gap = b.timestamp_us - last_falling_edge
  OBVIOUS
<1>1. /\ UNCHANGED <<sent, last_falling_edge, of>>
      /\ gpio_evt_queue # <<>> /\ gpio_evt_queue' = Tail(gpio_evt_queue) /\ taken' = b
      /\ b.level = 1 /\ last_rising_edge' = b.timestamp_us
  BY DEF Receive, ReceiverNext, TakeRisingEdge
<1>2. b \in Event /\ Keyed(b) /\ ComesAfter(a, b) /\ b = gpio_evt_queue[1]
  BY <1>1, TakeAscends DEF DamageInv
<1>3. /\ a \in Event \cup {NoEvent} /\ a.letter \in Nat /\ b.letter \in Nat /\ b.letter > 0
      /\ b.element \in Nat /\ a.element \in Nat
      /\ b.timestamp_us \in Nat /\ b.timestamp_us > 0 /\ a.timestamp_us \in Nat /\ b # NoEvent
      /\ of \in Nat /\ out \in Seq(Shown) /\ Len(out) \in Nat
      /\ last_falling_edge \in Nat
      /\ a # NoEvent => a.timestamp_us > 0
  <2>1. a \in Event \cup {NoEvent} /\ b \in Event \cup {NoEvent} /\ b # NoEvent
    <3>1. NoEvent.timestamp_us = 0 /\ \A e \in Event : e.timestamp_us # 0
      BY DEF Event, NoEvent
    <3>2. a \in Event \cup {NoEvent}
      BY QueueType
    <3> QED
      BY <1>2, <3>1, <3>2
  <2>2. /\ of \in Nat /\ out \in Seq(Shown) /\ Len(out) \in Nat /\ last_falling_edge \in Nat
    BY LenProperties DEF TypeOK, ReceiverTypeOK
  <2>3. b.letter > 0
    <3>1. Len(sent) \in Nat /\ b.letter \in 1 .. Len(sent)
      BY <1>2 DEF Keyed, HistoryGrows
    <3> QED
      BY <3>1
  <2> QED
    BY <2>1, <2>2, <2>3, EventFields
<1>4. /\ a.letter <= b.letter
      /\ a.letter \notin hurt => FollowsEvent(a, b)
      /\ b.letter \notin hurt => FollowsEvent(a, b) \/ Begins(a, b)
      /\ \A n \in a.letter .. b.letter - 1 : n \notin hurt => FollowsEvent(a, b) /\ n = a.letter
  BY <1>1, <1>2, <1>3, ComesIs
<1>5. FollowsEvent(a, b) =>
         \/ Begins(a, b) /\ a = NoEvent /\ b.letter = 1
         \/ /\ a.level = 0 /\ a # NoEvent /\ b.letter = a.letter /\ b.element = a.element + 1
            /\ b.timestamp_us - a.timestamp_us <= symbol_gap_us + OverSleep + Latency
         \/ /\ Begins(a, b) /\ a # NoEvent /\ a.level = 0 /\ b.letter = a.letter + 1
            /\ a.letter > 0 /\ a.element = Len(Code(a.letter))
  BY <1>1, <1>3, RisingFollows
<1>6. Keyed(b)' /\ Code(b.letter)' = Code(b.letter)
  BY <1>2, KeyedStays
<1>7. hurt \subseteq hurt'
  BY DEF HistoryGrows
<1>8. Prints \/ UNCHANGED <<morse_buffer, out>>
  BY RisingIs
<1>9. morse_buffer = <<>> => UNCHANGED <<morse_buffer, out>>
  BY <1>8 DEF Prints
<1>10. a = NoEvent => morse_buffer = <<>> /\ out = <<>>
  BY DEF DamageInv, BufferInv
<1>11. /\ of <= a.letter /\ \A k \in 1 .. Len(out) : out[k].of <= a.letter
       /\ morse_buffer # <<>> => of = a.letter \/ of \in hurt
  BY DEF DamageInv, BufferInv
<1>12. \A k \in 1 .. Len(out) : out[k].of \in Nat
  <2>1. \A k \in 1 .. Len(out) : out[k] \in Shown
    BY <1>3, ElementOfSeq
  <2> QED
    BY <2>1 DEF Shown
<1>13. Begins(a, b) /\ morse_buffer # <<>> => Prints \/ {b.letter - 1, b.letter} \subseteq hurt'
  BY <1>1, <1>3, <1>10, BeginningEmpties DEF DamageInv, Begins
<1>14. ASSUME NEW k \in 1 .. Len(out')
       PROVE  out'[k].of <= a.letter
  <2>1. CASE Prints
    <3>1. k \in 1 .. Len(out) \/ k = Len(out) + 1
      BY <1>3, <2>1 DEF Prints
    <3> QED
      BY <1>11, <2>1, <3>1 DEF Prints
  <2> QED
    BY <1>8, <1>11, <2>1
<1>15. BufferInv'
  <2>1. (last_rising_edge <= taken.timestamp_us /\ last_falling_edge <= taken.timestamp_us)'
    <3>1. last_falling_edge <= Waits(1)
      BY <1>1, QueueTimes DEF DecoderTimes
    <3> QED
      BY <1>1, <1>2, <1>3, <3>1 DEF Waits
  <2>2. of' <= b.letter
    BY <1>1, <1>3, <1>4, <1>11
  <2>3. ASSUME NEW k \in 1 .. Len(out')
        PROVE  out'[k].of <= b.letter
    <3>1. out'[k].of \in Nat
      <4>1. CASE Prints
        <5>1. k \in 1 .. Len(out) \/ k = Len(out) + 1
          BY <1>3, <4>1 DEF Prints
        <5> QED
          BY <1>3, <1>12, <4>1, <5>1 DEF Prints
      <4> QED
        BY <1>8, <1>12, <4>1
    <3> QED
      BY <1>3, <1>4, <1>14, <3>1
  <2>4. ASSUME morse_buffer' # <<>>
        PROVE  last_falling_edge' > 0 /\ (of' = b.letter \/ of' \in hurt')
    <3>1. morse_buffer' = morse_buffer /\ morse_buffer # <<>> /\ ~Prints
      BY <1>8, <2>4 DEF Prints
    <3>2. last_falling_edge > 0 /\ (of = a.letter \/ of \in hurt) /\ a # NoEvent
      BY <1>10, <3>1 DEF DamageInv, BufferInv
    <3>3. CASE of = a.letter /\ a.letter \notin hurt
      <4>1. FollowsEvent(a, b)
        BY <1>4, <3>3
      <4>2. CASE b.letter = a.letter
        BY <1>1, <3>2, <3>3, <4>2
      <4>3. CASE Begins(a, b) /\ b.letter = a.letter + 1
        <5>1. a.letter \in hurt'
          BY <1>3, <1>13, <3>1, <4>3
        <5> QED
          BY <1>1, <3>2, <3>3, <5>1
      <4> QED
        BY <1>5, <3>2, <4>1, <4>2, <4>3
    <3> QED
      BY <1>1, <1>7, <3>2, <3>3
  <2> QED
    BY <1>1, <1>3, <2>1, <2>2, <2>3, <2>4 DEF BufferInv
<1>16. ASSUME b.letter \notin hurt'
       PROVE  /\ \A k \in 1 .. Len(out') : out'[k].of < b.letter
              /\ morse_buffer' = SubSeq(Code(b.letter), 1, b.element - 1)
  <2>1. b.letter \notin hurt
    BY <1>7, <1>16
  <2>2. CASE Begins(a, b)
    <3>1. morse_buffer' = <<>>
      BY <1>9, <1>13, <1>16, <2>2 DEF Prints
    <3>2. a.letter < b.letter /\ b.element - 1 = 0
      BY <2>2 DEF Begins
    <3>3. SubSeq(Code(b.letter), 1, 0) = <<>>
      BY SubSeqEmpty
    <3>4. \A k \in 1 .. Len(out') : out'[k].of < b.letter
      <4>1. ASSUME NEW k \in 1 .. Len(out')
            PROVE  out'[k].of < b.letter
        <5>1. out'[k].of <= a.letter /\ out'[k].of \in Nat
          <6>1. CASE Prints
            <7>1. k \in 1 .. Len(out) \/ k = Len(out) + 1
              BY <1>3, <6>1 DEF Prints
            <7> QED
              BY <1>3, <1>12, <1>14, <6>1, <7>1 DEF Prints
          <6> QED
            BY <1>8, <1>12, <1>14, <6>1
        <5> QED
          BY <1>3, <3>2, <5>1
      <4> QED
        BY <4>1
    <3> QED
      BY <3>1, <3>2, <3>3, <3>4
  <2>3. CASE /\ a.level = 0 /\ a # NoEvent /\ b.letter = a.letter /\ b.element = a.element + 1
             /\ b.timestamp_us - a.timestamp_us <= symbol_gap_us + OverSleep + Latency
    <3>1. /\ \A k \in 1 .. Len(out) : out[k].of < b.letter
          /\ last_falling_edge = a.timestamp_us
          /\ morse_buffer = SubSeq(Code(b.letter), 1, a.element)
      BY <2>1, <2>3 DEF DamageInv, WholeInv
    <3>2. last_falling_edge > 0 /\ gap \in Int /\ gap <= symbol_gap_us + OverSleep + Latency
      BY <1>3, <2>3, <3>1
    <3>3. ToInt(gap) = gap
      <4>1. b.letter \in LettersAround(b.letter, b.element, 1)
        BY DEF LettersAround
      <4> QED
        BY <1>16, <3>2, <4>1, RisingIs
    <3>4. ~(gap > letter_gap_min_us)
      BY <3>2, GapDecodes
    <3>5. UNCHANGED <<morse_buffer, out>>
      BY <3>2, <3>3, <3>4, RisingIs
    <3>6. a.element = b.element - 1
      BY <1>3, <2>3
    <3> QED
      BY <3>1, <3>5, <3>6
  <2> QED
    BY <1>4, <1>5, <2>1, <2>2, <2>3
<1>17. ASSUME NEW n \in 1 .. b.letter - 1, n \notin hurt'
       PROVE  PrintedOnce(n)'
  <2>1. n \notin hurt /\ n \in 1 .. Len(sent)
    BY <1>2, <1>3, <1>7, <1>17 DEF Keyed, HistoryGrows
  <2>2. CASE n < a.letter
    <3>1. a # NoEvent
      BY <2>2 DEF NoEvent
    <3>2. PrintedOnce(n)
      BY <1>3, <2>1, <2>2, <3>1 DEF DamageInv, WholeInv
    <3>3. Prints => of # n
      BY <1>3, <1>11, <2>1, <2>2 DEF Prints
    <3>4. \/ out' = out
          \/ /\ Len(out') = Len(out) + 1
             /\ \A k \in 1 .. Len(out) : out'[k] = out[k]
             /\ out'[Len(out) + 1].of # n
      BY <1>8, <3>3 DEF Prints
    <3> QED
      BY <1>1, <1>3, <2>1, <3>2, <3>4, StaysPrinted
  <2>3. CASE ~(n < a.letter)
    <3>1. FollowsEvent(a, b) /\ n = a.letter
      BY <1>3, <1>4, <2>1, <2>3
    <3>2. /\ Begins(a, b) /\ a # NoEvent /\ a.level = 0 /\ b.letter = n + 1
          /\ a.element = Len(Code(n))
      BY <1>3, <1>5, <3>1
    <3>3. /\ \A k \in 1 .. Len(out) : out[k].of < n
          /\ morse_buffer = SubSeq(Code(n), 1, Len(Code(n)))
          /\ of = n
      BY <2>1, <3>1, <3>2 DEF DamageInv, WholeInv
    <3>4. morse_buffer = Code(n) /\ Code(n) # <<>> /\ decode_morse(Code(n)) = sent[n].char
      <4>1. Code(n) \in Seq(Symbol) /\ Len(Code(n)) \in 1 .. 5
        BY <2>1, CodeType DEF SenderClock
      <4>2. Code(n) # <<>>
        BY <4>1, SomeSymbols
      <4> QED
        BY <2>1, <3>3, <4>1, <4>2, SubSeqFull DEF SenderClock
    <3>5. n \notin hurt' /\ n = b.letter - 1
      BY <1>3, <1>17, <3>2
    <3>6. Prints
      BY <1>13, <3>2, <3>4, <3>5
    <3>7. /\ Len(out) + 1 \in 1 .. Len(out') /\ out'[Len(out) + 1].of = n
          /\ out'[Len(out) + 1].char = sent[n].char
      BY <1>3, <3>3, <3>4, <3>6 DEF Prints
    <3>8. ASSUME NEW k \in 1 .. Len(out'), out'[k].of = n
          PROVE  k = Len(out) + 1
      <4>1. k \in 1 .. Len(out) \/ k = Len(out) + 1
        BY <1>3, <3>6 DEF Prints
      <4> QED
        BY <3>3, <3>6, <3>8, <4>1 DEF Prints
    <3> QED
      BY <1>1, <3>7, <3>8 DEF PrintedOnce
  <2> QED
    BY <2>2, <2>3
<1>18. WholeInv'
  <2>1. Keyed(taken)'
    BY <1>1, <1>6 DEF Keyed, Code
  <2>2. (taken.letter \notin hurt =>
           /\ \A k \in 1 .. Len(out) : out[k].of < taken.letter
           /\ taken.level = 1 => /\ last_rising_edge = taken.timestamp_us
                                 /\ morse_buffer = SubSeq(Code(taken.letter), 1, taken.element - 1))'
    BY <1>1, <1>6, <1>16 DEF Code
  <2>3. (\A n \in 1 .. taken.letter - 1 : n \notin hurt => PrintedOnce(n))'
    BY <1>1, <1>17
  <2>4. (taken.level # 0)'
    BY <1>1
  <2> QED
    BY <2>1, <2>2, <2>3, <2>4 DEF WholeInv
<1> QED
  BY <1>15, <1>18

-----------------------------------------------------------------------------
(* Damage stays local: the theorem                                         *)

LEMMA ReceiveDamage ==
  ASSUME TypeOK, TimingFits, SenderClock, InterruptClock, DecoderTimes, DamageInv, Receive
  PROVE  DamageInv'
<1>1. HistoryGrows
  BY HistoryStep DEF Next
<1>2. CASE Decoder
  <2>1. /\ gpio_evt_queue # <<>> /\ gpio_evt_queue' = Tail(gpio_evt_queue)
        /\ taken' = Head(gpio_evt_queue)
        /\ UNCHANGED <<light, pending, pendingSince, stamp, sent>>
    BY <1>2, TakeIs
  <2>2. si' = si
    BY DEF Receive, ReceiverNext
  <2>3. EventsAscend' /\ Latest' = Latest
    BY <1>1, <2>1, TakeAscends DEF DamageInv
  <2>4. Arrival'
    BY <1>1, <2>1, <2>2, <2>3, ArrivalStays DEF DamageInv
  <2>5. BufferInv' /\ WholeInv'
    BY <1>1, <1>2, TakeRisingDamage, TakeFallingDamage DEF Decoder
  <2> QED
    BY <2>3, <2>4, <2>5 DEF DamageInv
<1> QED
  BY <1>2, ReadsClockDamage, SendsDamage DEF Receive, ReceiverNext, Handler

LEMMA DamageInit == Init => DamageInv
<1> SUFFICES ASSUME Init
             PROVE  DamageInv
  OBVIOUS
<1>1. /\ gpio_evt_queue = <<>> /\ taken = NoEvent /\ sent = <<>> /\ stamp = 0
      /\ pending = FALSE /\ pendingSince = 0 /\ out = <<>> /\ morse_buffer = <<>> /\ of = 0
      /\ last_rising_edge = 0 /\ last_falling_edge = 0
  BY DEF Init, LineInit, ReceiverInit
<1>2. Latest = NoEvent /\ NoEvent.timestamp_us = 0 /\ NoEvent.letter = 0
  BY <1>1 DEF Latest, NoEvent
<1>3. EventsAscend
  BY <1>1 DEF EventsAscend
<1>4. Arrival
  BY <1>1, <1>2 DEF Arrival
<1>5. BufferInv
  BY <1>1, <1>2 DEF BufferInv
<1>6. WholeInv
  BY <1>1 DEF WholeInv
<1> QED
  BY <1>3, <1>4, <1>5, <1>6 DEF DamageInv

LEMMA DamageStep ==
  ASSUME TimingFits, IInv, DecoderTimes, DamageInv, [Next]_vars
  PROVE  DamageInv'
<1>1. TypeOK /\ SenderClock /\ InterruptClock
  BY DEF IInv
<1>2. HistoryGrows
  BY <1>1, HistoryStep
<1>3. CASE Tick \/ UNCHANGED vars
  <2>1. UNCHANGED <<sent, si, light, pending, pendingSince, stamp, gpio_evt_queue, decoderVars>>
    BY <1>3 DEF Tick, vars, lineVars, receiverVars, isrVars
  <2>2. taken' = taken /\ Latest' = Latest
    BY <2>1 DEF decoderVars, Latest
  <2> QED
    BY <1>1, <1>2, <2>1, <2>2, AscentStays, DecoderStays, ArrivalStays DEF DamageInv
<1> QED
  BY <1>1, <1>3, SendDamage, ReceiveDamage DEF Next

LEMMA DamageInvImplies ==
  ASSUME TypeOK, DamageInv
  PROVE  DamageIsLocal
<1> SUFFICES ASSUME Quiet, NEW n \in (1 .. Len(sent) - 1) \ hurt
             PROVE  LET prints == {k \in DOMAIN out : out[k].of = n}
                    IN  \E k \in prints : prints = {k} /\ out[k].char = sent[n].char
  BY DEF DamageIsLocal
<1>1. Latest = taken /\ ~pending /\ stamp = 0
  BY DEF Quiet, Latest
<1>2. Len(sent) \in Nat /\ taken.letter \in Nat /\ sent # <<>>
  <2>1. Len(sent) \in Nat /\ taken.letter \in Nat
    BY Numbers, LenProperties, QueueType, EventFields
  <2> QED
    BY <2>1
<1>3. Settled \/ \A m \in taken.letter .. Len(sent) : m \in hurt
  BY <1>1, <1>2 DEF DamageInv, Arrival
<1>4. n < taken.letter
  BY <1>1, <1>2, <1>3 DEF Settled
<1>5. taken # NoEvent
  BY <1>4 DEF NoEvent
<1>6. PrintedOnce(n)
  BY <1>2, <1>4, <1>5 DEF DamageInv, WholeInv
<1>7. DOMAIN out = 1 .. Len(out)
  BY DEF TypeOK, ReceiverTypeOK
<1> QED
  BY <1>6, <1>7 DEF PrintedOnce

(* A lost event or an overflowed duration spoils the letters next to it    *)
(* and no other: morse_decoder_task finds back into step by the next whole *)
(* letter, for every queue length, lag of the decoder and number of        *)
(* losses, if the durations fit each other.                                *)
THEOREM DamageStaysLocal ==
  ASSUME TimingFits
  PROVE  Spec => []DamageIsLocal
<1>1. Init => IInv /\ LatenessInv /\ DamageInv
  BY InvInit, LatenessInit, DamageInit
<1>2. IInv /\ LatenessInv /\ DamageInv /\ [Next]_vars => IInv' /\ LatenessInv' /\ DamageInv'
  <2>1. LatenessInv => DecoderTimes
    BY DEF LatenessInv
  <2> QED
    BY <2>1, InvStep, LatenessStep, DamageStep
<1>3. IInv /\ DamageInv => DamageIsLocal
  BY DamageInvImplies DEF IInv
<1> QED
  BY <1>1, <1>2, <1>3, PTL DEF Spec

=============================================================================

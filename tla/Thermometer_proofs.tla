------------------------- MODULE Thermometer_proofs -------------------------
(***************************************************************************)
(* Proofs about Thermometer, for every set of sensors that may be on the   *)
(* bus, any number of channels up to eight and any number of resets: the   *)
(* state keeps its type, a sensor that was found is the one on the bus and *)
(* in reach, and what is shown was not damaged.                            *)
(*                                                                         *)
(* The inductive invariant says, for each place of the program, whom the   *)
(* rest of the call under way speaks to, and what its success will mean.   *)
(***************************************************************************)
EXTENDS Thermometer, SequenceTheorems, TLAPS

\* The places before the loop: until then there is no sensor.
Searching == {"probe", "probe_second", "probe_again", "init", "measure"}
Detecting == {"boot", "probe70", "direct", "select"} \cup Searching
Reading == {"reselect", "read", "show", "pause"}

AnyAddress == UNION {Addresses[kind] : kind \in Kinds}

TypeInv ==
  /\ TypeOK
  /\ at \in Detecting \cup Reading \cup {"wake", "loop"}
  /\ addr \in AnyAddress
  /\ g \in [kind: Kinds \cup {"none"}, addr: AnyAddress \cup {0}, channel: Channels \cup {NoChannel}]

\* Where each program may be, when it has a sensor, and where no call is under way.
WhereInv ==
  /\ lab = "lab2_2" => at \in {"boot", "wake", "read", "show", "pause"} /\ g = None
  /\ lab = "lab3_3" => at # "wake"
  /\ at \in Detecting => g = None
  /\ lab = "lab3_3" /\ at \in Reading => g # None
  /\ at \in {"boot", "loop", "show", "pause"} => todo = <<>>

\* The rest of the call speaks to these addresses, with these commands.
Only(A, D) == \A n \in DOMAIN todo : todo[n].to \in A /\ todo[n].do \in D

\* There is a reading in it.
HasReading(s) == \E n \in DOMAIN s : s[n].do = "read"
Reads == HasReading(todo)

\* It opens one channel.
Selects(c) == \A n \in DOMAIN todo : todo[n] = [to |-> ADDR_SHTC3, do |-> "select", channel |-> c]

\* The channel that is searched is the only open one, if there is a
\* multiplexer; an SHTC3 at the multiplexer's address is no find on a channel.
OnlyOpen == selected = {ch} \/ fitted.addr = ADDR_SHTC3

Measuring == {"wake", "measure", "read", "sleep"}

DirectInv ==
  /\ at \in {"wake", "probe70"} => Only({ADDR_SHTC3}, {"wake", "probe"})
  /\ at = "direct" =>
       /\ Only({ADDR_SHTC3}, Measuring)
       /\ result = "fail" \/ Reads \/ fitted.kind = "shtc3"

SearchInv ==
  /\ at = "select" => ch \in Channels /\ Selects(ch) /\ (result = "ok" => OnlyOpen)
  /\ at \in Searching =>
       /\ addr \in Addresses[Order[k]]
       /\ Only(Addresses[Order[k]], {"probe", "reset", "init", "measure", "read"})
       /\ ch # NoChannel => OnlyOpen
  /\ at = "measure" => Only({addr}, {"measure", "read"}) /\ (result = "ok" => SensorAt(addr))

ReadFrom == IF lab = "lab2_2" THEN ADDR_SHTC3 ELSE g.addr

\* The Si7021 and the AHT20 send no CRC.
NoCrc == lab = "lab3_3" /\ g.kind \in {"aht20", "si7021"}

ReadInv ==
  /\ at = "reselect" => g.channel \in Channels /\ Selects(g.channel)
  /\ at = "read" =>
       /\ Only({ReadFrom}, Measuring)
       /\ result = "fail" \/ Reads \/ damage = {} \/ NoCrc

BusInv ==
  TypeInv /\ WhereInv /\ DirectInv /\ SearchInv /\ ReadInv /\ FoundIsInReach /\ ShownIsUndamaged

-----------------------------------------------------------------------------
(* The calls: which commands they are made of.                             *)

\* Everywhere a sensor may answer.
LEMMA AnyAddressIs ==
  AnyAddress = {ADDR_SHTC3, ADDR_SHT3X_1, ADDR_SHT3X_2, ADDR_AHT20, ADDR_SI7021}
BY DEF AnyAddress, Kinds, Addresses

\* One command after another.
LEMMA PairIs ==
  ASSUME NEW S, NEW a \in S, NEW b \in S PROVE <<a>> \o <<b>> = <<a, b>>
<1>1. <<a>> \in Seq(S) /\ <<b>> \in Seq(S) /\ <<a, b>> \in Seq(S)
  OBVIOUS
<1>2. Len(<<a>>) = 1 /\ Len(<<b>>) = 1 /\ <<a>>[1] = a /\ <<b>>[1] = b
  OBVIOUS
<1>3. /\ <<a>> \o <<b>> \in Seq(S) /\ Len(<<a>> \o <<b>>) = 2
      /\ (<<a>> \o <<b>>)[1] = a /\ (<<a>> \o <<b>>)[2] = b
  BY <1>1, <1>2, ConcatProperties
<1>4. \A s \in Seq(S) : Len(s) = 2 /\ s[1] = a /\ s[2] = b => s = <<a, b>>
  BY <1>1, SeqEqual
<1>5. QED
  BY <1>3, <1>4

LEMMA TripleIs ==
  ASSUME NEW S, NEW a \in S, NEW b \in S, NEW c \in S PROVE <<a, b>> \o <<c>> = <<a, b, c>>
<1>1. <<a, b>> \in Seq(S) /\ <<c>> \in Seq(S) /\ <<a, b, c>> \in Seq(S)
  OBVIOUS
<1>2. Len(<<a, b>>) = 2 /\ Len(<<c>>) = 1 /\ <<a, b>>[1] = a /\ <<a, b>>[2] = b /\ <<c>>[1] = c
  OBVIOUS
<1>3. /\ <<a, b>> \o <<c>> \in Seq(S) /\ Len(<<a, b>> \o <<c>>) = 3
      /\ (<<a, b>> \o <<c>>)[1] = a /\ (<<a, b>> \o <<c>>)[2] = b /\ (<<a, b>> \o <<c>>)[3] = c
  BY <1>1, <1>2, ConcatProperties
<1>4. \A s \in Seq(S) : Len(s) = 3 /\ s[1] = a /\ s[2] = b /\ s[3] = c => s = <<a, b, c>>
  BY <1>1, SeqEqual
<1>5. QED
  BY <1>3, <1>4

\* Four commands, however they are put together.
LEMMA QuadIs ==
  ASSUME NEW S, NEW a \in S, NEW b \in S, NEW c \in S, NEW d \in S
  PROVE  <<a, b, c>> \o <<d>> = <<a, b, c, d>> /\ <<a, b>> \o <<c, d>> = <<a, b, c, d>>
<1>1. /\ <<a, b, c>> \in Seq(S) /\ <<d>> \in Seq(S) /\ <<a, b>> \in Seq(S) /\ <<c, d>> \in Seq(S)
      /\ <<a, b, c, d>> \in Seq(S)
  OBVIOUS
<1>2. /\ Len(<<a, b, c>>) = 3 /\ Len(<<d>>) = 1 /\ Len(<<a, b>>) = 2 /\ Len(<<c, d>>) = 2
      /\ <<a, b, c>>[1] = a /\ <<a, b, c>>[2] = b /\ <<a, b, c>>[3] = c /\ <<d>>[1] = d
      /\ <<a, b>>[1] = a /\ <<a, b>>[2] = b /\ <<c, d>>[1] = c /\ <<c, d>>[2] = d
  OBVIOUS
<1>3. LET s == <<a, b, c>> \o <<d>>
      IN  s \in Seq(S) /\ Len(s) = 4 /\ s[1] = a /\ s[2] = b /\ s[3] = c /\ s[4] = d
  BY <1>1, <1>2, ConcatProperties
<1>4. LET s == <<a, b>> \o <<c, d>>
      IN  s \in Seq(S) /\ Len(s) = 4 /\ s[1] = a /\ s[2] = b /\ s[3] = c /\ s[4] = d
  BY <1>1, <1>2, ConcatProperties
<1>5. \A s \in Seq(S) :
        Len(s) = 4 /\ s[1] = a /\ s[2] = b /\ s[3] = c /\ s[4] = d => s = <<a, b, c, d>>
  BY <1>1, SeqEqual
<1>6. QED
  BY <1>3, <1>4, <1>5

LEMMA EmptyEnd == ASSUME NEW a, NEW b PROVE <<a, b>> \o << >> = <<a, b>>
OBVIOUS

\* A command to an address.
To(a, what) == [to |-> a, do |-> what, channel |-> NoChannel]

LEMMA CallsAre ==
  /\ shtc3_measure = <<To(ADDR_SHTC3, "wake"), To(ADDR_SHTC3, "measure"), To(ADDR_SHTC3, "read"),
                       To(ADDR_SHTC3, "sleep")>>
  /\ read_once = <<To(ADDR_SHTC3, "measure"), To(ADDR_SHTC3, "read")>>
  /\ aht20_init = <<To(ADDR_AHT20, "reset"), To(ADDR_AHT20, "init")>>
<1> DEFINE wake == To(ADDR_SHTC3, "wake")
<1> DEFINE measure == To(ADDR_SHTC3, "measure")
<1> DEFINE read == To(ADDR_SHTC3, "read")
<1> DEFINE sleep == To(ADDR_SHTC3, "sleep")
<1> DEFINE reset == To(ADDR_AHT20, "reset")
<1> DEFINE init == To(ADDR_AHT20, "init")
<1>1. /\ shtc3_measure = ((<<wake>> \o <<measure>>) \o <<read>>) \o <<sleep>>
      /\ read_once = <<measure>> \o <<read>> /\ aht20_init = <<reset>> \o <<init>>
  BY DEF shtc3_measure, read_once, aht20_init, Transfer, To
<1> HIDE DEF wake, measure, read, sleep, reset, init
<1> DEFINE S == {wake, measure, read, sleep, reset, init}
<1>2. wake \in S /\ measure \in S /\ read \in S /\ sleep \in S /\ reset \in S /\ init \in S
  OBVIOUS
<1> HIDE DEF S
<1>3. shtc3_measure = <<wake, measure, read, sleep>>
  <2>1. <<wake>> \o <<measure>> = <<wake, measure>>
    BY <1>2, PairIs
  <2>2. <<wake, measure>> \o <<read>> = <<wake, measure, read>>
    BY <1>2, TripleIs
  <2>3. <<wake, measure, read>> \o <<sleep>> = <<wake, measure, read, sleep>>
    <3>1. ASSUME NEW a \in S, NEW b \in S, NEW c \in S, NEW d \in S
          PROVE  <<a, b, c>> \o <<d>> = <<a, b, c, d>>
      BY QuadIs
    <3>2. QED
      BY <1>2, <3>1
  <2>4. QED
    BY <1>1, <2>1, <2>2, <2>3
<1>4. read_once = <<measure, read>> /\ aht20_init = <<reset, init>>
  BY <1>1, <1>2, PairIs
<1>5. QED
  BY <1>3, <1>4 DEF wake, measure, read, sleep, reset, init

LEMMA MeasureIs ==
  ASSUME NEW kind, NEW a
  PROVE  Measure(kind, a) =
           IF kind = "shtc3" THEN shtc3_measure
           ELSE IF kind = "si7021"
                  THEN <<To(a, "measure"), To(a, "read"), To(a, "measure"), To(a, "read")>>
                  ELSE <<To(a, "measure"), To(a, "read")>>
<1> DEFINE measure == To(a, "measure")
<1> DEFINE read == To(a, "read")
<1>1. Measure(kind, a) =
        IF kind = "shtc3" THEN shtc3_measure
        ELSE (<<measure>> \o <<read>>) \o IF kind = "si7021" THEN <<measure>> \o <<read>> ELSE << >>
  BY DEF Measure, Transfer, To
<1> HIDE DEF measure, read
<1>2. measure \in {measure, read} /\ read \in {measure, read}
  OBVIOUS
<1>3. <<measure>> \o <<read>> = <<measure, read>>
  BY <1>2, PairIs
<1>4. <<measure, read>> \o <<measure, read>> = <<measure, read, measure, read>>
  BY <1>2, QuadIs
<1>5. QED
  BY <1>1, <1>3, <1>4, EmptyEnd DEF measure, read

\* Commands of these kinds, to these addresses.
MadeOf(s, A, D) ==
  /\ s \in Seq(Command) /\ s # << >>
  /\ \A n \in DOMAIN s : s[n].to \in A /\ s[n].do \in D

Deeds == {"probe", "wake", "measure", "read", "sleep", "reset", "init"}

LEMMA CommandIs ==
  ASSUME NEW a \in AnyAddress, NEW what \in Deeds
  PROVE  To(a, what) \in Command /\ To(a, what).to = a /\ To(a, what).do = what
BY DEF To, Command, AnyAddress, Deeds

\* One command.
LEMMA TransferMade ==
  ASSUME NEW a \in AnyAddress, NEW what \in Deeds
  PROVE  MadeOf(Transfer(a, what), {a}, {what})
<1>1. Transfer(a, what) = <<To(a, what)>>
  BY DEF Transfer, To
<1>2. QED
  BY <1>1, CommandIs DEF MadeOf

\* The call that opens a channel.
LEMMA SelectMade ==
  ASSUME NEW c \in Channels
  PROVE  /\ tca_select(c) \in Seq(Command) /\ tca_select(c) # << >>
         /\ \A n \in DOMAIN tca_select(c) :
              tca_select(c)[n] = [to |-> ADDR_SHTC3, do |-> "select", channel |-> c]
<1>1. [to |-> ADDR_SHTC3, do |-> "select", channel |-> c] \in Command
  BY AnyAddressIs DEF Command, AnyAddress
<1>2. QED
  BY <1>1 DEF tca_select

\* The calls with more commands than one.
LEMMA CallsMade ==
  /\ MadeOf(shtc3_measure, {ADDR_SHTC3}, Measuring) /\ HasReading(shtc3_measure)
  /\ MadeOf(read_once, {ADDR_SHTC3}, Measuring) /\ HasReading(read_once)
  /\ MadeOf(aht20_init, {ADDR_AHT20}, {"reset", "init"})
<1>1. ADDR_SHTC3 \in AnyAddress /\ ADDR_AHT20 \in AnyAddress
  BY AnyAddressIs
<1>2. \A a \in AnyAddress, what \in Deeds :
        To(a, what) \in Command /\ To(a, what).to = a /\ To(a, what).do = what
  BY CommandIs
<1>3. MadeOf(shtc3_measure, {ADDR_SHTC3}, Measuring) /\ HasReading(shtc3_measure)
  <2> DEFINE wake == To(ADDR_SHTC3, "wake")
  <2> DEFINE measure == To(ADDR_SHTC3, "measure")
  <2> DEFINE read == To(ADDR_SHTC3, "read")
  <2> DEFINE sleep == To(ADDR_SHTC3, "sleep")
  <2>1. /\ wake \in Command /\ wake.to = ADDR_SHTC3 /\ wake.do = "wake"
        /\ measure \in Command /\ measure.to = ADDR_SHTC3 /\ measure.do = "measure"
        /\ read \in Command /\ read.to = ADDR_SHTC3 /\ read.do = "read"
        /\ sleep \in Command /\ sleep.to = ADDR_SHTC3 /\ sleep.do = "sleep"
    BY <1>1, <1>2 DEF Deeds
  <2>2. shtc3_measure = <<wake, measure, read, sleep>>
    BY CallsAre
  <2> HIDE DEF wake, measure, read, sleep
  <2>3. QED
    BY <2>1, <2>2 DEF MadeOf, HasReading, Measuring
<1>4. MadeOf(read_once, {ADDR_SHTC3}, Measuring) /\ HasReading(read_once)
  <2> DEFINE measure == To(ADDR_SHTC3, "measure")
  <2> DEFINE read == To(ADDR_SHTC3, "read")
  <2>1. /\ measure \in Command /\ measure.to = ADDR_SHTC3 /\ measure.do = "measure"
        /\ read \in Command /\ read.to = ADDR_SHTC3 /\ read.do = "read"
    BY <1>1, <1>2 DEF Deeds
  <2>2. read_once = <<measure, read>>
    BY CallsAre
  <2> HIDE DEF measure, read
  <2>3. QED
    BY <2>1, <2>2 DEF MadeOf, HasReading, Measuring
<1>5. MadeOf(aht20_init, {ADDR_AHT20}, {"reset", "init"})
  <2> DEFINE reset == To(ADDR_AHT20, "reset")
  <2> DEFINE init == To(ADDR_AHT20, "init")
  <2>1. /\ reset \in Command /\ reset.to = ADDR_AHT20 /\ reset.do = "reset"
        /\ init \in Command /\ init.to = ADDR_AHT20 /\ init.do = "init"
    BY <1>1, <1>2 DEF Deeds
  <2>2. aht20_init = <<reset, init>>
    BY CallsAre
  <2> HIDE DEF reset, init
  <2>3. QED
    BY <2>1, <2>2 DEF MadeOf
<1>6. QED
  BY <1>3, <1>4, <1>5

\* A measurement speaks to its sensor only, and reads it.
LEMMA MeasureMade ==
  ASSUME NEW kind \in Kinds, NEW a \in Addresses[kind]
  PROVE  /\ MadeOf(Measure(kind, a), {a}, Measuring) /\ HasReading(Measure(kind, a))
         /\ kind # "shtc3" => MadeOf(Measure(kind, a), {a}, {"measure", "read"})
<1>1. CASE kind = "shtc3"
  <2>1. a = ADDR_SHTC3
    BY <1>1 DEF Addresses
  <2>2. Measure(kind, a) = shtc3_measure
    BY <1>1, MeasureIs
  <2>3. QED
    BY <1>1, <2>1, <2>2, CallsMade
<1>2. CASE kind # "shtc3"
  <2> DEFINE measure == To(a, "measure")
  <2> DEFINE read == To(a, "read")
  <2>1. a \in AnyAddress
    BY DEF AnyAddress
  <2>2. /\ measure \in Command /\ measure.to = a /\ measure.do = "measure"
        /\ read \in Command /\ read.to = a /\ read.do = "read"
    BY <2>1, CommandIs DEF Deeds
  <2>3. Measure(kind, a) = IF kind = "si7021" THEN <<measure, read, measure, read>>
                                              ELSE <<measure, read>>
    BY <1>2, MeasureIs
  <2> HIDE DEF measure, read
  <2>4. CASE kind = "si7021"
    <3>1. Measure(kind, a) = <<measure, read, measure, read>>
      BY <2>3, <2>4
    <3>2. QED
      BY <2>2, <3>1 DEF MadeOf, HasReading, Measuring
  <2>5. CASE kind # "si7021"
    <3>1. Measure(kind, a) = <<measure, read>>
      BY <2>3, <2>5
    <3>2. QED
      BY <2>2, <3>1 DEF MadeOf, HasReading, Measuring
  <2>6. QED
    BY <2>4, <2>5
<1>3. QED
  BY <1>1, <1>2

\* The kinds that are looked for, and where they answer.
LEMMA OrderIs ==
  /\ Len(Order) = 3 /\ Order[1] = "sht3x"
  /\ \A n \in 1 .. 3 : /\ Order[n] \in Kinds /\ Order[n] # "shtc3" /\ Order[n] # "none"
                       /\ FirstAddress[n] \in Addresses[Order[n]]
  /\ \A n \in 1 .. 3 : Addresses[Order[n]] \subseteq AnyAddress /\ ADDR_SHTC3 \notin Addresses[Order[n]]
BY AnyAddressIs DEF Order, FirstAddress, Addresses, Kinds, ADDR_SHT3X_1, ADDR_SHT3X_2, ADDR_AHT20,
  ADDR_SI7021, ADDR_SHTC3

\* No two kinds share an address.
LEMMA AddressesApart ==
  ASSUME NEW one \in Kinds, NEW other \in Kinds, NEW a \in Addresses[one], a \in Addresses[other]
  PROVE  one = other
BY DEF Kinds, Addresses, ADDR_SHT3X_1, ADDR_SHT3X_2, ADDR_AHT20, ADDR_SI7021, ADDR_SHTC3

\* The sensor on the bus.
LEMMA FittedIs ==
  ASSUME TypeOK
  PROVE  /\ fitted.kind \in Kinds /\ fitted.addr \in Addresses[fitted.kind]
         /\ fitted.channel \in Channels \cup {NoChannel} /\ fitted.mux \in BOOLEAN
         /\ fitted.kind = "shtc3" => ~fitted.mux
         /\ NoChannel \notin Channels
         /\ fitted.addr = ADDR_SHTC3 <=> fitted.kind = "shtc3"
<1>1. fitted \in [kind: Kinds, addr: AnyAddress, channel: Channels \cup {NoChannel}, mux: BOOLEAN]
  BY ThermometerAssumption DEF TypeOK, AnyAddress
<1>2. /\ fitted.addr \in Addresses[fitted.kind] /\ (fitted.kind = "shtc3" => ~fitted.mux)
      /\ NoChannel \notin Channels
  BY ThermometerAssumption DEF TypeOK, NoChannel
<1>3. ADDR_SHTC3 \in Addresses["shtc3"] /\ Addresses["shtc3"] = {ADDR_SHTC3} /\ "shtc3" \in Kinds
  BY DEF Addresses, Kinds
<1>4. fitted.addr = ADDR_SHTC3 <=> fitted.kind = "shtc3"
  BY <1>1, <1>2, <1>3, AddressesApart
<1>5. QED
  BY <1>1, <1>2, <1>4

-----------------------------------------------------------------------------
(* The programs: every call they make is one the invariant speaks of.      *)

SameWorld == UNCHANGED <<lab, fitted, awake, selected, damage, good, resets>>

\* A call of a program that knows no more than before.
LEMMA DoTypes ==
  ASSUME BusInv, SameWorld, NEW where \in Detecting \cup Reading \cup {"wake", "loop"},
         NEW s \in Seq(Command), s # << >>, Do(where, s)
  PROVE  TypeInv'
<1>1. UNCHANGED <<ch, k, addr, g>> /\ at' = where /\ todo' = s /\ result' = "busy"
  BY DEF Do, Call
<1>2. QED
  BY <1>1 DEF BusInv, TypeInv, TypeOK, SameWorld

\* The first program, and the first probe of the second.
LEMMA WakeKeeps ==
  ASSUME BusInv, SameWorld, Wake
  PROVE  BusInv'
<1>1. /\ lab = "lab2_2" /\ at = "boot" /\ at' = "wake" /\ todo' = Transfer(ADDR_SHTC3, "wake")
      /\ result' = "busy" /\ UNCHANGED <<ch, k, addr, g>>
      /\ Do("wake", Transfer(ADDR_SHTC3, "wake"))
  BY DEF Wake, Do, Call
<1>2. MadeOf(Transfer(ADDR_SHTC3, "wake"), {ADDR_SHTC3}, {"wake"})
  BY TransferMade, AnyAddressIs DEF Deeds
<1>3. TypeInv'
  BY <1>1, <1>2, DoTypes DEF MadeOf
<1>4. WhereInv' /\ SearchInv' /\ ReadInv' /\ FoundIsInReach' /\ ShownIsUndamaged'
  BY <1>1 DEF BusInv, SameWorld, WhereInv, SearchInv, ReadInv, FoundIsInReach, ShownIsUndamaged,
    Detecting, Searching, Reading
<1>5. DirectInv'
  BY <1>1, <1>2 DEF DirectInv, Only, MadeOf
<1>6. QED
  BY <1>3, <1>4, <1>5 DEF BusInv

LEMMA ReadOnceKeeps ==
  ASSUME BusInv, SameWorld, ReadOnce
  PROVE  BusInv'
<1>1. /\ lab = "lab2_2" /\ at' = "read" /\ todo' = read_once /\ result' = "busy"
      /\ UNCHANGED <<ch, k, addr, g>> /\ Do("read", read_once)
  BY DEF ReadOnce, Do, Call
<1>2. MadeOf(read_once, {ADDR_SHTC3}, Measuring) /\ HasReading(read_once)
  BY CallsMade
<1>3. TypeInv'
  BY <1>1, <1>2, DoTypes DEF MadeOf, Reading
<1>4. WhereInv' /\ DirectInv' /\ SearchInv' /\ FoundIsInReach' /\ ShownIsUndamaged'
  BY <1>1 DEF BusInv, SameWorld, WhereInv, DirectInv, SearchInv, FoundIsInReach, ShownIsUndamaged,
    Detecting, Searching, Reading
<1>5. ReadInv'
  BY <1>1, <1>2 DEF SameWorld, ReadInv, ReadFrom, Only, Reads, HasReading, MadeOf
<1>6. QED
  BY <1>3, <1>4, <1>5 DEF BusInv

LEMMA Probe70Keeps ==
  ASSUME BusInv, SameWorld, Probe70
  PROVE  BusInv'
<1>1. /\ lab = "lab3_3" /\ at = "boot" /\ at' = "probe70" /\ todo' = Transfer(ADDR_SHTC3, "probe")
      /\ result' = "busy" /\ UNCHANGED <<ch, k, addr, g>>
      /\ Do("probe70", Transfer(ADDR_SHTC3, "probe"))
  BY DEF Probe70, Do, Call
<1>2. MadeOf(Transfer(ADDR_SHTC3, "probe"), {ADDR_SHTC3}, {"probe"})
  BY TransferMade, AnyAddressIs DEF Deeds
<1>3. TypeInv'
  BY <1>1, <1>2, DoTypes DEF MadeOf, Detecting
<1>4. WhereInv' /\ SearchInv' /\ ReadInv' /\ FoundIsInReach' /\ ShownIsUndamaged'
  BY <1>1 DEF BusInv, SameWorld, WhereInv, SearchInv, ReadInv, FoundIsInReach, ShownIsUndamaged,
    Detecting, Searching, Reading
<1>5. DirectInv'
  BY <1>1, <1>2 DEF DirectInv, Only, MadeOf
<1>6. QED
  BY <1>3, <1>4, <1>5 DEF BusInv

\* The search of a place: the kinds from the n-th on, on channel c or on the bus.
LEMMA LookKeeps ==
  ASSUME BusInv, SameWorld, lab = "lab3_3", at \in Detecting,
         NEW c \in Channels \cup {NoChannel}, NEW n \in 1 .. 3, Look(c, n),
         c # NoChannel => selected = {c} \/ fitted.addr = ADDR_SHTC3
  PROVE  BusInv'
<1> DEFINE first == FirstAddress[n]
<1>1. /\ at' = "probe" /\ ch' = c /\ k' = n /\ addr' = first
      /\ todo' = Transfer(first, "probe") /\ result' = "busy" /\ UNCHANGED g
  BY DEF Look, Call
<1>2. /\ first \in Addresses[Order[n]] /\ first \in AnyAddress /\ Len(Order) = 3
  BY OrderIs
<1>3. MadeOf(Transfer(first, "probe"), {first}, {"probe"})
  BY <1>2, TransferMade DEF Deeds
<1> HIDE DEF first
<1>4. TypeInv'
  BY <1>1, <1>2, <1>3 DEF BusInv, TypeInv, TypeOK, SameWorld, MadeOf, Detecting, Searching
<1>5. WhereInv' /\ DirectInv' /\ ReadInv' /\ FoundIsInReach' /\ ShownIsUndamaged'
  BY <1>1 DEF BusInv, SameWorld, WhereInv, DirectInv, ReadInv, FoundIsInReach, ShownIsUndamaged,
    Detecting, Searching, Reading
<1>6. SearchInv'
  <2>1. \A m \in DOMAIN todo' : todo'[m].to = first /\ todo'[m].do = "probe"
    BY <1>1, <1>3 DEF MadeOf
  <2>2. (ch # NoChannel => OnlyOpen)'
    BY <1>1 DEF OnlyOpen, SameWorld
  <2>3. QED
    BY <1>1, <1>2, <2>1, <2>2 DEF SearchInv, Only
<1>7. QED
  BY <1>4, <1>5, <1>6 DEF BusInv

\* The choice of a channel.
LEMMA SelectKeeps ==
  ASSUME BusInv, SameWorld, lab = "lab3_3", at \in Detecting, NEW c \in Channels, Select(c)
  PROVE  BusInv'
<1> DEFINE s == tca_select(c)
<1>1. /\ at' = "select" /\ ch' = c /\ todo' = s /\ result' = "busy" /\ UNCHANGED <<k, addr, g>>
  BY DEF Select, Call
<1>2. /\ s \in Seq(Command) /\ s # << >>
      /\ \A n \in DOMAIN s : s[n] = [to |-> ADDR_SHTC3, do |-> "select", channel |-> c]
  BY SelectMade
<1> HIDE DEF s
<1>3. TypeInv'
  BY <1>1, <1>2 DEF BusInv, TypeInv, TypeOK, SameWorld, Detecting
<1>4. WhereInv' /\ DirectInv' /\ ReadInv' /\ FoundIsInReach' /\ ShownIsUndamaged'
  BY <1>1 DEF BusInv, SameWorld, WhereInv, DirectInv, ReadInv, FoundIsInReach, ShownIsUndamaged,
    Detecting, Searching, Reading
<1>5. SearchInv'
  <2>1. (ch \in Channels)' /\ Selects(ch)'
    BY <1>1, <1>2, ThermometerAssumption DEF Selects
  <2>2. QED
    BY <1>1, <2>1 DEF SearchInv, Searching
<1>6. QED
  BY <1>3, <1>4, <1>5 DEF BusInv

\* The end of the detection: whatever was found is the sensor on the bus.
LEMMA DetectionEndsKeeps ==
  ASSUME BusInv, SameWorld, lab = "lab3_3", todo = << >>, NEW found, DetectionEnds(found),
         found \in [kind: Kinds \cup {"none"}, addr: AnyAddress \cup {0},
                    channel: Channels \cup {NoChannel}],
         found # None =>
           /\ found.kind = fitted.kind /\ found.addr = fitted.addr
           /\ fitted.channel \in
                {NoChannel} \cup (IF found.channel = NoChannel THEN selected ELSE {found.channel})
  PROVE  BusInv'
<1>1. at' = "loop" /\ g' = found /\ UNCHANGED <<todo, result, ch, k, addr>>
  BY DEF DetectionEnds
<1>2. TypeInv'
  BY <1>1 DEF BusInv, TypeInv, TypeOK, SameWorld
<1>3. WhereInv' /\ DirectInv' /\ SearchInv' /\ ReadInv' /\ ShownIsUndamaged'
  BY <1>1 DEF BusInv, SameWorld, WhereInv, DirectInv, SearchInv, ReadInv, ShownIsUndamaged,
    Detecting, Searching, Reading
<1>4. FoundIsInReach'
  BY <1>1 DEF SameWorld, FoundIsInReach
<1>5. QED
  BY <1>2, <1>3, <1>4 DEF BusInv

LEMMA NextChannelKeeps ==
  ASSUME BusInv, SameWorld, lab = "lab3_3", at \in Detecting, todo = << >>, NextChannel
  PROVE  BusInv'
<1>1. CASE ch # NoChannel /\ ch + 1 \in Channels
  BY <1>1, SelectKeeps DEF NextChannel
<1>2. CASE ~(ch # NoChannel /\ ch + 1 \in Channels)
  <2>1. DetectionEnds(None)
    BY <1>2 DEF NextChannel
  <2>2. None \in [kind: Kinds \cup {"none"}, addr: AnyAddress \cup {0},
                  channel: Channels \cup {NoChannel}]
    BY DEF None
  <2>3. QED
    BY <2>1, <2>2, DetectionEndsKeeps
<1>3. QED
  BY <1>1, <1>2

\* The next kind, or the next channel.
LEMMA LookOnKeeps ==
  ASSUME BusInv, SameWorld, at \in Searching, todo = << >>, LookOn
  PROVE  BusInv'
<1>1. lab = "lab3_3" /\ at \in Detecting /\ k \in 1 .. 3 /\ ch \in Channels \cup {NoChannel}
  BY ThermometerAssumption, OrderIs
    DEF BusInv, TypeInv, TypeOK, WhereInv, Detecting, Searching
<1>2. ch # NoChannel => selected = {ch} \/ fitted.addr = ADDR_SHTC3
  BY DEF BusInv, SearchInv, OnlyOpen
<1>3. CASE k < 3
  <2>1. Look(ch, k + 1) /\ k + 1 \in 1 .. 3
    BY <1>1, <1>3, OrderIs DEF LookOn
  <2>2. QED
    BY <1>1, <1>2, <2>1, LookKeeps
<1>4. CASE ~(k < 3)
  <2>1. NextChannel
    BY <1>4, OrderIs DEF LookOn
  <2>2. QED
    BY <1>1, <2>1, NextChannelKeeps
<1>5. QED
  BY <1>3, <1>4

LEMMA TryDirectKeeps ==
  ASSUME BusInv, SameWorld, TryDirect
  PROVE  BusInv'
<1>1. /\ at \in {"probe70", "direct"} /\ result # "busy" /\ lab = "lab3_3" /\ at \in Detecting
      /\ todo = << >>
  BY ThermometerAssumption DEF TryDirect, After, BusInv, TypeInv, TypeOK, WhereInv, Detecting
<1>2. CASE Do("direct", shtc3_measure)
  <2>1. at' = "direct" /\ todo' = shtc3_measure /\ result' = "busy" /\ UNCHANGED <<ch, k, addr, g>>
    BY <1>2 DEF Do, Call
  <2>2. MadeOf(shtc3_measure, {ADDR_SHTC3}, Measuring) /\ HasReading(shtc3_measure)
    BY CallsMade
  <2>3. TypeInv'
    BY <1>2, <2>2, DoTypes DEF MadeOf, Detecting
  <2>4. WhereInv' /\ SearchInv' /\ ReadInv' /\ FoundIsInReach' /\ ShownIsUndamaged'
    BY <1>1, <2>1 DEF BusInv, SameWorld, WhereInv, SearchInv, ReadInv, FoundIsInReach,
      ShownIsUndamaged, Detecting, Searching, Reading
  <2>5. DirectInv'
    BY <2>1, <2>2 DEF DirectInv, Only, Reads, HasReading, MadeOf
  <2>6. QED
    BY <2>3, <2>4, <2>5 DEF BusInv
<1>3. CASE Look(NoChannel, 1)
  BY <1>1, <1>3, LookKeeps
<1>4. CASE /\ After("direct", "ok")
           /\ DetectionEnds([kind |-> "shtc3", addr |-> ADDR_SHTC3, channel |-> NoChannel])
  <2> DEFINE found == [kind |-> "shtc3", addr |-> ADDR_SHTC3, channel |-> NoChannel]
  <2>1. found \in [kind: Kinds \cup {"none"}, addr: AnyAddress \cup {0},
                   channel: Channels \cup {NoChannel}]
    BY AnyAddressIs DEF Kinds
  <2>2. fitted.kind = "shtc3"
    BY <1>1, <1>4 DEF BusInv, DirectInv, After, Reads, HasReading
  <2>3. fitted.addr = ADDR_SHTC3 /\ fitted.channel = NoChannel
    BY <2>2, FittedIs, ThermometerAssumption DEF BusInv, TypeInv, TypeOK
  <2>4. QED
    BY <1>1, <1>4, <2>1, <2>2, <2>3, DetectionEndsKeeps
<1>5. CASE Select(0)
  <2>1. 0 \in Channels
    BY ThermometerAssumption
  <2>2. QED
    BY <1>1, <1>5, <2>1, SelectKeeps
<1>6. QED
  BY <1>2, <1>3, <1>4, <1>5 DEF TryDirect

LEMMA SelectedKeeps ==
  ASSUME BusInv, SameWorld, (After("select", "ok") /\ Look(ch, 1)) \/ SelectFails
  PROVE  BusInv'
<1>1. /\ at = "select" /\ result # "busy" /\ lab = "lab3_3" /\ at \in Detecting /\ todo = << >>
      /\ ch \in Channels
  BY ThermometerAssumption
    DEF SelectFails, After, BusInv, TypeInv, TypeOK, WhereInv, SearchInv, Detecting
<1>2. CASE After("select", "ok") /\ Look(ch, 1)
  <2>1. selected = {ch} \/ fitted.addr = ADDR_SHTC3
    BY <1>2 DEF After, BusInv, SearchInv, OnlyOpen
  <2>2. QED
    BY <1>1, <1>2, <2>1, LookKeeps
<1>3. CASE SelectFails
  BY <1>1, <1>3, NextChannelKeeps DEF SelectFails
<1>4. QED
  BY <1>2, <1>3

\* A further call at the place that is searched.
LEMMA TryKeeps ==
  ASSUME BusInv, SameWorld, at \in Searching, NEW where \in Searching, NEW s, NEW a, Call(where, s),
         UNCHANGED <<ch, k, g>>, addr' = a, a \in Addresses[Order[k]],
         MadeOf(s, Addresses[Order[k]], {"probe", "reset", "init", "measure", "read"}),
         where = "measure" => MadeOf(s, {a}, {"measure", "read"})
  PROVE  BusInv'
<1>1. /\ at' = where /\ todo' = s /\ result' = "busy" /\ lab = "lab3_3" /\ k \in 1 .. 3
      /\ k' = k
  BY ThermometerAssumption, OrderIs
    DEF Call, BusInv, TypeInv, TypeOK, WhereInv, Detecting, Searching
<1>2. TypeInv'
  <2>1. a \in AnyAddress
    BY <1>1, OrderIs
  <2>2. QED
    BY <1>1, <2>1 DEF BusInv, TypeInv, TypeOK, SameWorld, MadeOf, Detecting
<1>3. WhereInv' /\ DirectInv' /\ ReadInv' /\ FoundIsInReach' /\ ShownIsUndamaged'
  BY <1>1 DEF BusInv, SameWorld, WhereInv, DirectInv, ReadInv, FoundIsInReach, ShownIsUndamaged,
    Detecting, Searching, Reading
<1>4. SearchInv'
  <2>1. /\ (at = "select" => ch \in Channels /\ Selects(ch) /\ (result = "ok" => OnlyOpen))'
        /\ (ch # NoChannel => OnlyOpen)'
    BY <1>1 DEF BusInv, SameWorld, SearchInv, OnlyOpen, Searching
  <2>2. Only(Addresses[Order[k]], {"probe", "reset", "init", "measure", "read"})'
    BY <1>1 DEF Only, MadeOf
  <2>3. (at = "measure" => Only({addr}, {"measure", "read"}) /\ (result = "ok" => SensorAt(addr)))'
    BY <1>1 DEF Only, MadeOf
  <2>4. QED
    BY <1>1, <2>1, <2>2, <2>3 DEF SearchInv
<1>5. QED
  BY <1>2, <1>3, <1>4 DEF BusInv

\* The kinds, one by one.
LEMMA TrySht3xKeeps ==
  ASSUME BusInv, SameWorld, Order[k] = "sht3x", TrySht3x
  PROVE  BusInv'
<1>1. at \in Searching /\ addr \in Addresses[Order[k]]
  BY DEF TrySht3x, After, BusInv, SearchInv, Searching
<1>2. Addresses[Order[k]] = {ADDR_SHT3X_1, ADDR_SHT3X_2}
  BY DEF Addresses
<1>3. ASSUME NEW where \in {"probe_second", "probe_again"},
             NEW a \in {ADDR_SHT3X_1, ADDR_SHT3X_2}, Do(where, Transfer(a, "probe"))
      PROVE  BusInv'
  <2>1. MadeOf(Transfer(a, "probe"), {a}, {"probe"})
    BY AnyAddressIs, TransferMade DEF Deeds
  <2>2. MadeOf(Transfer(a, "probe"), Addresses[Order[k]], {"probe", "reset", "init", "measure", "read"})
    BY <1>2, <2>1 DEF MadeOf
  <2>3. Call(where, Transfer(a, "probe")) /\ UNCHANGED <<ch, k, g>> /\ addr' = addr
    BY <1>3 DEF Do
  <2>4. QED
    BY <1>1, <2>2, <2>3, TryKeeps DEF Searching
<1>4. ASSUME NEW a \in {ADDR_SHT3X_1, ADDR_SHT3X_2}, addr' = a, Call("measure", Measure("sht3x", a)),
             UNCHANGED <<ch, k, g>>
      PROVE  BusInv'
  <2>1. MadeOf(Measure("sht3x", a), {a}, {"measure", "read"})
    BY MeasureMade DEF Kinds, Addresses
  <2>2. MadeOf(Measure("sht3x", a), Addresses[Order[k]], {"probe", "reset", "init", "measure", "read"})
    BY <1>2, <2>1 DEF MadeOf
  <2>3. QED
    BY <1>1, <1>2, <1>4, <2>1, <2>2, TryKeeps DEF Searching
<1>5. QED
  BY <1>3, <1>4 DEF TrySht3x

LEMMA TryAht20Keeps ==
  ASSUME BusInv, SameWorld, Order[k] = "aht20", TryAht20
  PROVE  BusInv'
<1>1. at \in Searching /\ addr \in Addresses[Order[k]]
  BY DEF TryAht20, After, BusInv, SearchInv, Searching
<1>2. Addresses[Order[k]] = {ADDR_AHT20}
  BY DEF Addresses
<1>3. CASE Do("init", aht20_init)
  <2>1. MadeOf(aht20_init, Addresses[Order[k]], {"probe", "reset", "init", "measure", "read"})
    BY <1>2, CallsMade DEF MadeOf
  <2>2. Call("init", aht20_init) /\ UNCHANGED <<ch, k, g>> /\ addr' = addr
    BY <1>3 DEF Do
  <2>3. QED
    BY <1>1, <2>1, <2>2, TryKeeps DEF Searching
<1>4. CASE Do("measure", Measure("aht20", addr))
  <2>1. MadeOf(Measure("aht20", addr), {addr}, {"measure", "read"})
    BY <1>1, MeasureMade DEF Kinds
  <2>2. MadeOf(Measure("aht20", addr), Addresses[Order[k]],
               {"probe", "reset", "init", "measure", "read"})
    BY <1>1, <2>1 DEF MadeOf
  <2>3. Call("measure", Measure("aht20", addr)) /\ UNCHANGED <<ch, k, g>> /\ addr' = addr
    BY <1>4 DEF Do
  <2>4. QED
    BY <1>1, <2>1, <2>2, <2>3, TryKeeps DEF Searching
<1>5. QED
  BY <1>3, <1>4 DEF TryAht20

LEMMA TrySi7021Keeps ==
  ASSUME BusInv, SameWorld, Order[k] = "si7021", TrySi7021
  PROVE  BusInv'
<1>1. at \in Searching /\ addr \in Addresses[Order[k]]
  BY DEF TrySi7021, After, BusInv, SearchInv, Searching
<1>2. MadeOf(Measure("si7021", addr), {addr}, {"measure", "read"})
  BY <1>1, MeasureMade DEF Kinds
<1>3. MadeOf(Measure("si7021", addr), Addresses[Order[k]],
             {"probe", "reset", "init", "measure", "read"})
  BY <1>1, <1>2 DEF MadeOf
<1>4. Call("measure", Measure("si7021", addr)) /\ UNCHANGED <<ch, k, g>> /\ addr' = addr
  BY DEF TrySi7021, Do
<1>5. QED
  BY <1>1, <1>2, <1>3, <1>4, TryKeeps DEF Searching

\* A measurement that succeeded came from the sensor.
LEMMA MeasuredKeeps ==
  ASSUME BusInv, SameWorld, After("measure", "ok"),
         DetectionEnds([kind |-> Order[k], addr |-> addr, channel |-> ch])
  PROVE  BusInv'
<1> DEFINE found == [kind |-> Order[k], addr |-> addr, channel |-> ch]
<1>1. /\ todo = << >> /\ lab = "lab3_3" /\ at = "measure" /\ at \in Searching /\ k \in 1 .. 3
      /\ ch \in Channels \cup {NoChannel} /\ addr \in AnyAddress
  BY ThermometerAssumption, OrderIs
    DEF After, BusInv, TypeInv, TypeOK, WhereInv, Detecting, Searching
<1>2. /\ addr \in Addresses[Order[k]] /\ (ch # NoChannel => OnlyOpen) /\ SensorAt(addr)
  BY <1>1 DEF After, BusInv, SearchInv
<1>3. fitted.kind \in Kinds /\ fitted.addr \in Addresses[fitted.kind] /\ Order[k] \in Kinds
      /\ ADDR_SHTC3 \notin Addresses[Order[k]]
  BY <1>1, FittedIs, OrderIs DEF BusInv, TypeInv
<1>4. addr = fitted.addr /\ fitted.channel \in selected \cup {NoChannel}
  BY <1>2 DEF SensorAt
<1>5. Order[k] = fitted.kind
  BY <1>2, <1>3, <1>4, AddressesApart
<1>6. fitted.channel \in {NoChannel} \cup (IF ch = NoChannel THEN selected ELSE {ch})
  BY <1>2, <1>3, <1>4 DEF OnlyOpen
<1>7. found \in [kind: Kinds \cup {"none"}, addr: AnyAddress \cup {0},
                 channel: Channels \cup {NoChannel}]
  BY <1>1, <1>3
<1>8. QED
  BY <1>1, <1>4, <1>5, <1>6, <1>7, DetectionEndsKeeps

LEMMA DetectKeeps ==
  ASSUME BusInv, SameWorld, Detect
  PROVE  BusInv'
<1>1. CASE Probe70
  BY <1>1, Probe70Keeps
<1>2. CASE TryDirect
  BY <1>2, TryDirectKeeps
<1>3. CASE (After("select", "ok") /\ Look(ch, 1)) \/ SelectFails
  BY <1>3, SelectedKeeps
<1>4. CASE Order[k] = "sht3x" /\ TrySht3x
  BY <1>4, TrySht3xKeeps
<1>5. CASE Order[k] = "aht20" /\ TryAht20
  BY <1>5, TryAht20Keeps
<1>6. CASE Order[k] = "si7021" /\ TrySi7021
  BY <1>6, TrySi7021Keeps
<1>7. CASE NotThisKind /\ LookOn
  <2>1. at \in Searching /\ todo = << >>
    BY <1>7 DEF NotThisKind, After, Searching, BusInv, TypeInv, TypeOK
  <2>2. QED
    BY <1>7, <2>1, LookOnKeeps
<1>8. CASE /\ After("measure", "ok")
           /\ DetectionEnds([kind |-> Order[k], addr |-> addr, channel |-> ch])
  BY <1>8, MeasuredKeeps
<1>9. QED
  BY <1>1, <1>2, <1>3, <1>4, <1>5, <1>6, <1>7, <1>8 DEF Detect

\* A sensor that was found has the kind and the address of the one on the bus.
LEMMA FoundIs ==
  ASSUME BusInv, lab = "lab3_3", g # None
  PROVE  /\ g.kind \in Kinds /\ g.addr \in Addresses[g.kind] /\ g.addr \in AnyAddress
         /\ g.addr = fitted.addr /\ g.kind = fitted.kind
<1>1. g.kind = fitted.kind /\ g.addr = fitted.addr
  BY DEF BusInv, FoundIsInReach
<1>2. fitted.kind \in Kinds /\ fitted.addr \in Addresses[fitted.kind]
  BY FittedIs DEF BusInv, TypeInv
<1>3. QED
  BY <1>1, <1>2 DEF AnyAddress

\* A reading of the sensor that was found.
LEMMA MeasureReadKeeps ==
  ASSUME BusInv, SameWorld, lab = "lab3_3", g # None, Do("read", Measure(g.kind, g.addr))
  PROVE  BusInv'
<1> DEFINE s == Measure(g.kind, g.addr)
<1>1. at' = "read" /\ todo' = s /\ result' = "busy" /\ UNCHANGED <<ch, k, addr, g>>
  BY DEF Do, Call
<1>2. MadeOf(s, {g.addr}, Measuring) /\ HasReading(s)
  BY FoundIs, MeasureMade
<1>3. TypeInv'
  BY <1>2, DoTypes DEF MadeOf, Reading
<1> HIDE DEF s
<1>4. WhereInv' /\ DirectInv' /\ SearchInv' /\ FoundIsInReach' /\ ShownIsUndamaged'
  BY <1>1 DEF BusInv, SameWorld, WhereInv, DirectInv, SearchInv, FoundIsInReach, ShownIsUndamaged,
    Detecting, Searching, Reading
<1>5. ReadInv'
  BY <1>1, <1>2 DEF SameWorld, ReadInv, ReadFrom, Only, Reads, HasReading, MadeOf
<1>6. QED
  BY <1>3, <1>4, <1>5 DEF BusInv

LEMMA ReadSensorKeeps ==
  ASSUME BusInv, SameWorld, ReadSensor
  PROVE  BusInv'
<1>1. lab = "lab3_3" /\ g # None /\ g.channel \in Channels \cup {NoChannel}
  BY DEF ReadSensor, None, BusInv, TypeInv, TypeOK
<1>2. CASE g.channel # NoChannel /\ Do("reselect", tca_select(g.channel))
  <2> DEFINE s == tca_select(g.channel)
  <2>1. at' = "reselect" /\ todo' = s /\ result' = "busy" /\ UNCHANGED <<ch, k, addr, g>>
    BY <1>2 DEF Do, Call
  <2>2. /\ g.channel \in Channels /\ s \in Seq(Command) /\ s # << >>
        /\ \A n \in DOMAIN s : s[n] = [to |-> ADDR_SHTC3, do |-> "select", channel |-> g.channel]
    BY <1>1, <1>2, SelectMade
  <2>3. TypeInv'
    BY <1>2, <2>2, DoTypes DEF Reading
  <2> HIDE DEF s
  <2>4. WhereInv' /\ DirectInv' /\ SearchInv' /\ FoundIsInReach' /\ ShownIsUndamaged'
    BY <1>1, <2>1 DEF BusInv, SameWorld, WhereInv, DirectInv, SearchInv, FoundIsInReach,
      ShownIsUndamaged, Detecting, Searching, Reading
  <2>5. ReadInv'
    <3>1. (g.channel \in Channels)' /\ Selects(g.channel)'
      BY <2>1, <2>2, ThermometerAssumption DEF Selects
    <3>2. QED
      BY <2>1, <3>1 DEF ReadInv
  <2>6. QED
    BY <2>3, <2>4, <2>5 DEF BusInv
<1>3. CASE g.channel = NoChannel /\ Do("read", Measure(g.kind, g.addr))
  BY <1>1, <1>3, MeasureReadKeeps
<1>4. QED
  BY <1>2, <1>3 DEF ReadSensor

LEMMA ReselectedKeeps ==
  ASSUME BusInv, SameWorld, Reselected
  PROVE  BusInv'
<1>1. lab = "lab3_3" /\ g # None
  BY ThermometerAssumption DEF Reselected, After, BusInv, TypeInv, TypeOK, WhereInv, Reading
<1>2. QED
  BY <1>1, MeasureReadKeeps DEF Reselected

LEMMA ReadEndsKeeps ==
  ASSUME BusInv, SameWorld, ReadEnds
  PROVE  BusInv'
<1>1. /\ at \in {"read", "reselect"} /\ todo = << >> /\ at' \in {"show", "pause"}
      /\ UNCHANGED <<ch, k, addr, g, todo, result>>
      /\ at' = "show" => at = "read" /\ result = "ok"
  BY DEF ReadEnds, After, BusInv, TypeInv, TypeOK
<1>2. TypeInv'
  BY <1>1 DEF BusInv, TypeInv, TypeOK, SameWorld, Reading
<1>3. WhereInv' /\ DirectInv' /\ SearchInv' /\ ReadInv' /\ FoundIsInReach'
  BY <1>1 DEF BusInv, SameWorld, WhereInv, DirectInv, SearchInv, ReadInv, FoundIsInReach,
    Detecting, Searching, Reading
<1>4. ShownIsUndamaged'
  <2>1. at' = "show" => damage = {} \/ NoCrc
    BY <1>1 DEF BusInv, ReadInv, Reads, HasReading
  <2>2. QED
    BY <1>1, <2>1 DEF ShownIsUndamaged, NoCrc, SameWorld
<1>5. QED
  BY <1>2, <1>3, <1>4 DEF BusInv

LEMMA ProgramKeeps ==
  ASSUME BusInv, Program
  PROVE  BusInv'
<1>1. SameWorld
  BY DEF Program, SameWorld, worldVars
<1>2. QED
  BY <1>1, WakeKeeps, ReadOnceKeeps, DetectKeeps, ReadSensorKeeps, ReselectedKeeps, ReadEndsKeeps
    DEF Program

-----------------------------------------------------------------------------
(* The transfers: what each leaves of the call, and what its success means. *)

\* The rest of a call.
LEMMA RestIs ==
  ASSUME todo \in Seq(Command), todo # << >>
  PROVE  /\ 1 \in DOMAIN todo /\ Head(todo) = todo[1] /\ Head(todo) \in Command
         /\ Tail(todo) \in Seq(Command)
         /\ \A n \in DOMAIN Tail(todo) : n + 1 \in DOMAIN todo /\ Tail(todo)[n] = todo[n + 1]
         /\ Reads => Head(todo).do = "read" \/ HasReading(Tail(todo))
<1>1. /\ 1 \in DOMAIN todo /\ Head(todo) = todo[1] /\ Head(todo) \in Command
      /\ Tail(todo) \in Seq(Command)
      /\ \A n \in DOMAIN Tail(todo) : n + 1 \in DOMAIN todo /\ Tail(todo)[n] = todo[n + 1]
  OBVIOUS
<1>2. ASSUME NEW n \in DOMAIN todo, todo[n].do = "read", Head(todo).do # "read"
      PROVE  HasReading(Tail(todo))
  <2>1. n - 1 \in DOMAIN Tail(todo) /\ Tail(todo)[n - 1] = todo[n]
    BY <1>1, <1>2
  <2>2. QED
    BY <1>2, <2>1 DEF HasReading
<1>3. QED
  BY <1>1, <1>2 DEF Reads, HasReading

SameProgram == UNCHANGED <<lab, at, ch, k, addr, g, fitted, good, resets>>

\* A transfer that lets the call go on reached who has the address, if it was
\* not one whose result is ignored; and what it read was accepted.
WentOn(c) ==
  /\ GoesOn
  /\ ~Ignored(c) => Answers(c) /\ Affect(c)
  /\ IF c.do = "read" THEN \E d \in Damages(c) : damage' = d /\ Accepted(c, d) ELSE damage' = damage

\* What a transfer may do.
LEMMA TransferIs ==
  ASSUME TypeOK, Succeed \/ Fail, NEW c, c = Head(todo)
  PROVE  /\ todo # << >> /\ SameProgram
         /\ Breaks \/ WentOn(c)
         /\ awake' \in BOOLEAN /\ damage' \subseteq Halves
         /\ selected' = selected \/ (MuxAt(c.to) /\ selected' = Opened(c))
<1>1. todo # << >> /\ SameProgram
  BY DEF Succeed, Fail, SameProgram
<1>2. Affect(c) => /\ awake' \in BOOLEAN
                   /\ selected' = selected \/ (MuxAt(c.to) /\ selected' = Opened(c))
  BY DEF Affect, TypeOK
<1>3. CASE Succeed
  <2>1. Answers(c) /\ Affect(c)
    BY <1>3 DEF Succeed
  <2>2. CASE c.do = "read"
    <3>1. PICK d \in Damages(c) : damage' = d /\ IF Accepted(c, d) THEN GoesOn ELSE Breaks
      BY <1>3, <2>2 DEF Succeed
    <3>2. d \subseteq Halves
      BY <3>1 DEF Damages, Halves
    <3>3. QED
      BY <1>1, <1>2, <2>1, <2>2, <3>1, <3>2 DEF WentOn
  <2>3. CASE c.do # "read"
    <3>1. GoesOn /\ damage' = damage
      BY <1>3, <2>3 DEF Succeed
    <3>2. QED
      BY <1>1, <1>2, <2>1, <2>3, <3>1 DEF WentOn, TypeOK
  <2>4. QED
    BY <2>2, <2>3
<1>4. CASE Fail
  <2>1. /\ Affect(c) \/ UNCHANGED <<awake, selected>>
        /\ IF Ignored(c) THEN GoesOn ELSE Breaks
        /\ damage' = damage
    BY <1>4 DEF Fail
  <2>2. Ignored(c) => c.do # "read"
    BY DEF Ignored
  <2>3. Breaks \/ WentOn(c)
    BY <2>1, <2>2 DEF WentOn
  <2>4. QED
    BY <1>1, <1>2, <2>1, <2>3 DEF TypeOK
<1>5. QED
  BY <1>3, <1>4

\* What is left of a call is a part of it.
LEMMA OnlyLess ==
  ASSUME todo \in Seq(Command), todo # << >>, Breaks \/ GoesOn
  PROVE  /\ todo' \in Seq(Command) /\ result' \in {"ok", "fail", "busy"}
         /\ (result' = "busy") = (todo' # << >>)
         /\ \A A, D : Only(A, D) => Only(A, D)' /\ Head(todo).to \in A /\ Head(todo).do \in D
         /\ \A c : Selects(c) =>
              /\ Selects(c)'
              /\ Head(todo) = [to |-> ADDR_SHTC3, do |-> "select", channel |-> c]
<1>1. todo' \in Seq(Command) /\ result' \in {"ok", "fail", "busy"} /\ (result' = "busy") = (todo' # << >>)
  <2>1. CASE Breaks
    BY <2>1 DEF Breaks
  <2>2. CASE GoesOn
    <3>1. Tail(todo) \in Seq(Command)
      BY RestIs
    <3>2. QED
      BY <2>2, <3>1 DEF GoesOn
  <2>3. QED
    BY <2>1, <2>2
<1>2. \A n \in DOMAIN todo' : n + 1 \in DOMAIN todo /\ todo'[n] = todo[n + 1]
  BY RestIs DEF Breaks, GoesOn
<1>3. 1 \in DOMAIN todo /\ Head(todo) = todo[1]
  BY RestIs
<1>4. ASSUME NEW A, NEW D, Only(A, D)
      PROVE  Only(A, D)' /\ Head(todo).to \in A /\ Head(todo).do \in D
  BY <1>2, <1>3, <1>4 DEF Only
<1>5. ASSUME NEW c, Selects(c)
      PROVE  Selects(c)' /\ Head(todo) = [to |-> ADDR_SHTC3, do |-> "select", channel |-> c]
  BY <1>2, <1>3, <1>5 DEF Selects
<1>6. QED
  BY <1>1, <1>4, <1>5

\* A transfer in a call of a known kind.
LEMMA TransferTypes ==
  ASSUME BusInv, Succeed \/ Fail
  PROVE  TypeInv'
<1> DEFINE c == Head(todo)
<1>1. /\ todo # << >> /\ SameProgram /\ (Breaks \/ GoesOn)
      /\ awake' \in BOOLEAN /\ damage' \subseteq Halves
      /\ selected' = selected \/ (MuxAt(c.to) /\ selected' = Opened(c))
  BY TransferIs DEF BusInv, TypeInv, WentOn
<1>2. /\ todo' \in Seq(Command) /\ result' \in {"ok", "fail", "busy"}
      /\ (result' = "busy") = (todo' # << >>)
  BY <1>1, OnlyLess DEF BusInv, TypeInv, TypeOK
<1>3. selected' \subseteq Channels
  <2>1. CASE c.do = "select"
    <3>1. at \in {"select", "reselect"}
      <4>1. todo \in Seq(Command) /\ 1 \in DOMAIN todo /\ c = todo[1]
        BY <1>1, RestIs DEF BusInv, TypeInv, TypeOK
      <4>2. at \notin {"boot", "loop", "show", "pause"}
        BY <1>1 DEF BusInv, WhereInv
      <4>3. \A A, D : Only(A, D) => c.do \in D
        BY <4>1 DEF Only
      <4>4. at \in {"wake", "probe70"} => c.do \in {"wake", "probe"}
        BY <4>3 DEF BusInv, DirectInv
      <4>5. at \in {"direct", "read"} => c.do \in Measuring
        BY <4>3 DEF BusInv, DirectInv, ReadInv
      <4>6. at \in Searching => c.do \in {"probe", "reset", "init", "measure", "read"}
        BY <4>3 DEF BusInv, SearchInv
      <4>7. QED
        BY <2>1, <4>2, <4>4, <4>5, <4>6 DEF BusInv, TypeInv, Detecting, Reading, Searching, Measuring
    <3>2. c.channel \in Channels
      <4>1. \A h : Selects(h) => c = [to |-> ADDR_SHTC3, do |-> "select", channel |-> h]
        BY <1>1, OnlyLess DEF BusInv, TypeInv, TypeOK
      <4>2. CASE at = "select"
        BY <4>1, <4>2 DEF BusInv, SearchInv
      <4>3. CASE at = "reselect"
        BY <4>1, <4>3 DEF BusInv, ReadInv
      <4>4. QED
        BY <3>1, <4>2, <4>3
    <3>3. Opened(c) = {c.channel}
      BY <2>1 DEF Opened
    <3>4. QED
      BY <1>1, <3>2, <3>3 DEF BusInv, TypeInv, TypeOK
  <2>2. CASE c.do # "select"
    <3>1. selected \subseteq Channels
      BY DEF BusInv, TypeInv, TypeOK
    <3>2. Opened(c) \subseteq Channels
      BY <2>2, <3>1 DEF Opened
    <3>3. QED
      BY <1>1, <3>1, <3>2
  <2>3. QED
    BY <2>1, <2>2
<1> HIDE DEF c
<1>4. QED
  BY <1>1, <1>2, <1>3 DEF BusInv, TypeInv, TypeOK, SameProgram

\* A transfer during the detection, before a channel or a kind is searched.
LEMMA TransferDirect ==
  ASSUME BusInv, Succeed \/ Fail
  PROVE  DirectInv'
<1> DEFINE c == Head(todo)
<1>1. todo # << >> /\ SameProgram /\ (Breaks \/ WentOn(c))
  BY TransferIs DEF BusInv, TypeInv
<1>2. /\ \A A, D : Only(A, D) => Only(A, D)' /\ c.to \in A /\ c.do \in D
      /\ (Reads => c.do = "read" \/ HasReading(Tail(todo)))
  BY <1>1, OnlyLess, RestIs DEF BusInv, TypeInv, TypeOK, WentOn
<1> HIDE DEF c
<1>3. ASSUME at = "direct", WentOn(c), c.do = "read"
      PROVE  fitted.kind = "shtc3"
  <2>1. c.to = ADDR_SHTC3
    BY <1>2, <1>3 DEF BusInv, DirectInv
  <2>2. PICK d \in Damages(c) : Accepted(c, d)
    BY <1>3 DEF WentOn
  <2>3. d = {}
    BY <2>1, <2>2 DEF Accepted, ADDR_SHTC3, ADDR_AHT20, ADDR_SI7021
  <2>4. ~MuxAt(c.to)
    BY <2>2, <2>3 DEF Damages, Halves
  <2>5. Answers(c)
    BY <1>3 DEF WentOn, Ignored
  <2>6. fitted.addr = ADDR_SHTC3
    BY <2>1, <2>4, <2>5 DEF Answers, SensorAt
  <2>7. QED
    BY <2>6, FittedIs DEF BusInv, TypeInv
<1>4. ASSUME at = "direct"
      PROVE  result' = "fail" \/ Reads' \/ fitted.kind = "shtc3"
  <2>1. CASE Breaks
    BY <2>1 DEF Breaks
  <2>2. CASE WentOn(c)
    <3>1. result # "fail"
      BY <1>1 DEF BusInv, TypeInv, TypeOK
    <3>2. Reads' <=> HasReading(Tail(todo))
      BY <2>2 DEF WentOn, GoesOn, Reads, HasReading
    <3>3. Reads \/ fitted.kind = "shtc3"
      BY <1>4, <3>1 DEF BusInv, DirectInv
    <3>4. QED
      BY <1>2, <1>3, <1>4, <2>2, <3>2, <3>3
  <2>3. QED
    BY <1>1, <2>1, <2>2
<1>5. at' = at /\ fitted' = fitted
  BY <1>1 DEF SameProgram
<1>6. at \in {"wake", "probe70"} => Only({ADDR_SHTC3}, {"wake", "probe"})'
  BY <1>2 DEF BusInv, DirectInv
<1>7. at = "direct" => Only({ADDR_SHTC3}, Measuring)'
  BY <1>2 DEF BusInv, DirectInv
<1>8. QED
  BY <1>4, <1>5, <1>6, <1>7 DEF DirectInv

\* A transfer during the search: only the multiplexer's selection opens a
\* channel, and what a measurement reached stays in reach.
LEMMA TransferSearch ==
  ASSUME BusInv, Succeed \/ Fail
  PROVE  SearchInv'
<1> DEFINE c == Head(todo)
<1> DEFINE OnlyNext(A, D) == \A n \in DOMAIN todo' : todo'[n].to \in A /\ todo'[n].do \in D
<1> DEFINE SelectsNext(h) ==
             \A n \in DOMAIN todo' : todo'[n] = [to |-> ADDR_SHTC3, do |-> "select", channel |-> h]
<1>1. /\ todo # << >> /\ SameProgram /\ (Breaks \/ WentOn(c))
      /\ selected' = selected \/ (MuxAt(c.to) /\ selected' = Opened(c))
  BY TransferIs DEF BusInv, TypeInv
<1>2. /\ \A A, D : Only(A, D) => OnlyNext(A, D) /\ c.to \in A /\ c.do \in D
      /\ \A h : Selects(h) =>
           SelectsNext(h) /\ c = [to |-> ADDR_SHTC3, do |-> "select", channel |-> h]
  <2>1. todo \in Seq(Command) /\ (Breaks \/ GoesOn)
    BY <1>1 DEF BusInv, TypeInv, TypeOK, WentOn
  <2>2. /\ \A A, D : Only(A, D) => Only(A, D)' /\ c.to \in A /\ c.do \in D
        /\ \A h : Selects(h) =>
             Selects(h)' /\ c = [to |-> ADDR_SHTC3, do |-> "select", channel |-> h]
    BY <1>1, <2>1, OnlyLess
  <2>3. QED
    BY <2>2 DEF Only, Selects
<1> HIDE DEF c, OnlyNext, SelectsNext
<1>3. /\ at' = at /\ ch' = ch /\ k' = k /\ addr' = addr /\ fitted' = fitted /\ k \in 1 .. 3
  BY <1>1, OrderIs DEF SameProgram, BusInv, TypeInv, TypeOK
<1>4. ASSUME at = "select"
      PROVE  ch \in Channels /\ SelectsNext(ch) /\ (result' = "ok" => OnlyOpen')
  <2>1. ch \in Channels /\ SelectsNext(ch) /\ c = [to |-> ADDR_SHTC3, do |-> "select", channel |-> ch]
    BY <1>2, <1>4 DEF BusInv, SearchInv
  <2>2. ASSUME WentOn(c)
        PROVE  OnlyOpen'
    <3>1. Answers(c) /\ Affect(c)
      BY <2>1, <2>2 DEF WentOn, Ignored
    <3>2. CASE MuxAt(c.to)
      BY <1>3, <2>1, <3>1, <3>2 DEF Affect, Opened, OnlyOpen
    <3>3. CASE ~MuxAt(c.to)
      BY <1>3, <2>1, <3>1, <3>3 DEF Answers, SensorAt, OnlyOpen
    <3>4. QED
      BY <3>2, <3>3
  <2>3. Breaks => result' = "fail"
    BY DEF Breaks
  <2>4. QED
    BY <1>1, <2>1, <2>2, <2>3
<1>5. ASSUME at \in Searching
      PROVE  /\ addr \in Addresses[Order[k]]
             /\ OnlyNext(Addresses[Order[k]], {"probe", "reset", "init", "measure", "read"})
             /\ (ch # NoChannel => OnlyOpen)'
             /\ selected' = selected
  <2>1. c.to \in Addresses[Order[k]]
    BY <1>2, <1>5 DEF BusInv, SearchInv
  <2>2. selected' = selected
    BY <1>1, <1>3, <2>1, OrderIs DEF MuxAt
  <2>3. (ch # NoChannel => OnlyOpen)'
    BY <1>3, <1>5, <2>2 DEF BusInv, SearchInv, OnlyOpen
  <2>4. /\ addr \in Addresses[Order[k]]
        /\ OnlyNext(Addresses[Order[k]], {"probe", "reset", "init", "measure", "read"})
    BY <1>2, <1>5 DEF BusInv, SearchInv
  <2>5. QED
    BY <2>2, <2>3, <2>4
<1>6. ASSUME at = "measure"
      PROVE  OnlyNext({addr}, {"measure", "read"}) /\ (result' = "ok" => SensorAt(addr)')
  <2>1. OnlyNext({addr}, {"measure", "read"}) /\ c.to = addr /\ c.do \in {"measure", "read"}
    BY <1>2, <1>6 DEF BusInv, SearchInv
  <2>2. ASSUME WentOn(c)
        PROVE  SensorAt(addr)'
    <3>1. Answers(c)
      BY <2>1, <2>2 DEF WentOn, Ignored
    <3>2. addr # ADDR_SHTC3 /\ selected' = selected
      BY <1>3, <1>5, <1>6, OrderIs DEF Searching
    <3>3. SensorAt(addr)
      BY <2>1, <3>1, <3>2 DEF Answers, MuxAt
    <3>4. QED
      BY <1>3, <3>2, <3>3 DEF SensorAt
  <2>3. Breaks => result' = "fail"
    BY DEF Breaks
  <2>4. QED
    BY <1>1, <2>1, <2>2, <2>3
<1>7. (at = "select" => ch \in Channels /\ Selects(ch) /\ (result = "ok" => OnlyOpen))'
  <2>1. (ch \in Channels)' <=> ch \in Channels
    BY <1>3, ThermometerAssumption
  <2>2. QED
    BY <1>3, <1>4, <2>1 DEF Selects, SelectsNext
<1>8. (at \in Searching =>
         /\ addr \in Addresses[Order[k]]
         /\ Only(Addresses[Order[k]], {"probe", "reset", "init", "measure", "read"})
         /\ ch # NoChannel => OnlyOpen)'
  BY <1>3, <1>5 DEF Only, OnlyNext
<1>9. (at = "measure" => Only({addr}, {"measure", "read"}) /\ (result = "ok" => SensorAt(addr)))'
  BY <1>3, <1>6 DEF Only, OnlyNext
<1>10. QED
  BY <1>7, <1>8, <1>9 DEF SearchInv

\* A transfer of a reading: what it read was accepted undamaged, or has no CRC.
LEMMA TransferRead ==
  ASSUME BusInv, Succeed \/ Fail
  PROVE  ReadInv'
<1> DEFINE c == Head(todo)
<1> DEFINE OnlyNext(A, D) == \A n \in DOMAIN todo' : todo'[n].to \in A /\ todo'[n].do \in D
<1> DEFINE SelectsNext(h) ==
             \A n \in DOMAIN todo' : todo'[n] = [to |-> ADDR_SHTC3, do |-> "select", channel |-> h]
<1>1. todo # << >> /\ SameProgram /\ (Breaks \/ WentOn(c)) /\ todo \in Seq(Command)
  BY TransferIs DEF BusInv, TypeInv, TypeOK
<1>2. /\ \A A, D : Only(A, D) => OnlyNext(A, D) /\ c.to \in A /\ c.do \in D
      /\ \A h : Selects(h) => SelectsNext(h)
  <2>1. /\ \A A, D : Only(A, D) => Only(A, D)' /\ c.to \in A /\ c.do \in D
        /\ \A h : Selects(h) => Selects(h)'
    BY <1>1, OnlyLess DEF WentOn
  <2>2. QED
    BY <2>1 DEF Only, Selects
<1>3. Reads => c.do = "read" \/ HasReading(Tail(todo))
  BY <1>1, RestIs
<1> HIDE DEF c, OnlyNext, SelectsNext
<1>4. at' = at /\ g' = g /\ lab' = lab /\ fitted' = fitted
  BY <1>1 DEF SameProgram
<1>5. (at = "reselect" => g.channel \in Channels /\ Selects(g.channel))'
  <2>1. (g.channel \in Channels)' <=> g.channel \in Channels
    BY <1>4, ThermometerAssumption
  <2>2. at = "reselect" => g.channel \in Channels /\ SelectsNext(g.channel)
    BY <1>2 DEF BusInv, ReadInv
  <2>3. QED
    BY <1>4, <2>1, <2>2 DEF Selects, SelectsNext
<1>6. ASSUME at = "read"
      PROVE  OnlyNext({ReadFrom}, Measuring) /\ c.to = ReadFrom
  BY <1>2, <1>6 DEF BusInv, ReadInv
<1>7. ASSUME at = "read", WentOn(c), c.do = "read"
      PROVE  damage' = {} \/ NoCrc
  <2>1. PICK d \in Damages(c) : damage' = d /\ Accepted(c, d)
    BY <1>7 DEF WentOn
  <2>2. CASE lab = "lab2_2"
    <3>1. c.to = ADDR_SHTC3
      BY <1>6, <1>7, <2>2 DEF ReadFrom
    <3>2. QED
      BY <2>1, <3>1 DEF Accepted, ADDR_SHTC3, ADDR_AHT20, ADDR_SI7021
  <2>3. CASE lab = "lab3_3"
    <3>1. g # None /\ c.to = g.addr
      BY <1>6, <1>7, <2>3 DEF ReadFrom, BusInv, WhereInv, Reading
    <3>2. g.kind \in Kinds /\ g.addr \in Addresses[g.kind]
      BY <2>3, <3>1, FoundIs
    <3>3. c.to \in {ADDR_AHT20, ADDR_SI7021} => g.kind \in {"aht20", "si7021"}
      BY <3>1, <3>2 DEF Kinds, Addresses, ADDR_SHTC3, ADDR_SHT3X_1, ADDR_SHT3X_2, ADDR_AHT20,
        ADDR_SI7021
    <3>4. QED
      BY <2>1, <2>3, <3>3 DEF Accepted, NoCrc
  <2>4. QED
    BY <2>2, <2>3, ThermometerAssumption DEF BusInv, TypeInv, TypeOK
<1>8. ASSUME at = "read"
      PROVE  result' = "fail" \/ Reads' \/ damage' = {} \/ NoCrc
  <2>1. CASE Breaks
    BY <2>1 DEF Breaks
  <2>2. CASE WentOn(c)
    <3>1. CASE c.do = "read"
      BY <1>7, <1>8, <2>2, <3>1
    <3>2. CASE c.do # "read"
      <4>1. damage' = damage /\ (Reads' <=> HasReading(Tail(todo)))
        BY <2>2, <3>2 DEF WentOn, GoesOn, Reads, HasReading
      <4>2. result # "fail"
        BY <1>1 DEF BusInv, TypeInv, TypeOK
      <4>3. Reads \/ damage = {} \/ NoCrc
        BY <1>8, <4>2 DEF BusInv, ReadInv
      <4>4. QED
        BY <1>3, <3>2, <4>1, <4>3
    <3>3. QED
      BY <3>1, <3>2
  <2>3. QED
    BY <1>1, <2>1, <2>2
<1>9. (NoCrc' <=> NoCrc) /\ ReadFrom' = ReadFrom
  BY <1>4 DEF NoCrc, ReadFrom
<1>10. (at = "read" => Only({ReadFrom}, Measuring))'
  BY <1>4, <1>6, <1>9 DEF Only, OnlyNext
<1>11. QED
  BY <1>4, <1>5, <1>8, <1>9, <1>10 DEF ReadInv

\* No transfer opens a channel behind a sensor's back once one was found.
LEMMA TransferFound ==
  ASSUME BusInv, Succeed \/ Fail
  PROVE  FoundIsInReach'
<1> DEFINE c == Head(todo)
<1>1. /\ todo # << >> /\ SameProgram /\ (Breaks \/ GoesOn)
      /\ selected' = selected \/ MuxAt(c.to)
  BY TransferIs DEF BusInv, TypeInv, WentOn
<1>2. \A A, D : Only(A, D) => c.to \in A
  BY <1>1, OnlyLess DEF BusInv, TypeInv, TypeOK
<1> HIDE DEF c
<1>3. g' = g /\ fitted' = fitted
  BY <1>1 DEF SameProgram
<1>4. ASSUME g # None, g.channel = NoChannel
      PROVE  selected' = selected
  <2>1. lab = "lab3_3" /\ at = "read"
    <3>1. lab = "lab3_3"
      BY <1>4, ThermometerAssumption DEF BusInv, TypeInv, TypeOK, WhereInv
    <3>2. at \notin Detecting /\ at # "wake" /\ at \notin {"boot", "loop", "show", "pause"}
      BY <1>1, <1>4, <3>1 DEF BusInv, WhereInv
    <3>3. at # "reselect"
      BY <1>4, FittedIs DEF BusInv, TypeInv, ReadInv
    <3>4. QED
      BY <3>1, <3>2, <3>3 DEF BusInv, TypeInv, Reading
  <2>2. c.to = g.addr
    BY <1>2, <2>1 DEF BusInv, ReadInv, ReadFrom
  <2>3. g.addr = fitted.addr
    BY <1>4, <2>1, FoundIs
  <2>4. ~MuxAt(c.to)
    BY <2>2, <2>3, FittedIs DEF BusInv, TypeInv, MuxAt
  <2>5. QED
    BY <1>1, <2>4
<1>5. QED
  BY <1>3, <1>4 DEF BusInv, FoundIsInReach

LEMMA TransferKeeps ==
  ASSUME BusInv, Succeed \/ Fail
  PROVE  BusInv'
<1>1. todo # << >> /\ SameProgram
  BY TransferIs DEF BusInv, TypeInv
<1>2. TypeInv' /\ DirectInv' /\ SearchInv' /\ ReadInv' /\ FoundIsInReach'
  BY TransferTypes, TransferDirect, TransferSearch, TransferRead, TransferFound
<1>3. at \notin {"boot", "loop", "show", "pause"}
  BY <1>1 DEF BusInv, WhereInv
<1>4. WhereInv' /\ ShownIsUndamaged'
  BY <1>1, <1>3 DEF BusInv, WhereInv, ShownIsUndamaged, SameProgram
<1>5. QED
  BY <1>2, <1>4 DEF BusInv

-----------------------------------------------------------------------------
(* The invariant, and what it means.                                       *)

LEMMA ResetKeeps ==
  ASSUME BusInv, Reset
  PROVE  BusInv'
<1>1. /\ at' = "boot" /\ ch' = NoChannel /\ k' = 1 /\ addr' = ADDR_SHTC3 /\ g' = None
      /\ todo' = << >> /\ result' = "ok" /\ resets < MaxResets /\ resets' = resets + 1
      /\ UNCHANGED <<lab, fitted, awake, selected, damage, good>>
  BY DEF Reset
<1>2. TypeInv'
  <2>1. None \in [kind: Kinds \cup {"none"}, addr: AnyAddress \cup {0},
                  channel: Channels \cup {NoChannel}] /\ None.channel = NoChannel
    BY DEF None
  <2>2. /\ << >> \in Seq(Command) /\ ADDR_SHTC3 \in AnyAddress /\ 1 \in 1 .. Len(Order)
    BY AnyAddressIs, OrderIs
  <2>3. resets' \in 0 .. MaxResets
    BY <1>1, ThermometerAssumption DEF BusInv, TypeInv, TypeOK
  <2>4. QED
    BY <1>1, <2>1, <2>2, <2>3 DEF BusInv, TypeInv, TypeOK, Detecting
<1>3. WhereInv' /\ DirectInv' /\ SearchInv' /\ ReadInv' /\ FoundIsInReach' /\ ShownIsUndamaged'
  BY <1>1 DEF WhereInv, DirectInv, SearchInv, ReadInv, FoundIsInReach, ShownIsUndamaged, Detecting,
    Searching, Reading
<1>4. QED
  BY <1>2, <1>3 DEF BusInv

LEMMA InitHolds ==
  ASSUME Init
  PROVE  BusInv
<1>1. TypeInv
  <2>1. None \in [kind: Kinds \cup {"none"}, addr: AnyAddress \cup {0},
                  channel: Channels \cup {NoChannel}] /\ None.channel = NoChannel
    BY DEF None
  <2>2. << >> \in Seq(Command) /\ ADDR_SHTC3 \in AnyAddress /\ 1 \in 1 .. Len(Order)
    BY AnyAddressIs, OrderIs
  <2>3. 0 \in 0 .. MaxResets
    BY ThermometerAssumption
  <2>4. QED
    BY <2>1, <2>2, <2>3 DEF Init, TypeInv, TypeOK, Detecting
<1>2. WhereInv /\ DirectInv /\ SearchInv /\ ReadInv /\ FoundIsInReach /\ ShownIsUndamaged
  BY DEF Init, WhereInv, DirectInv, SearchInv, ReadInv, FoundIsInReach, ShownIsUndamaged, Detecting,
    Searching, Reading
<1>3. QED
  BY <1>1, <1>2 DEF BusInv

\* A disturbance of sensor or wires, or nothing.
LEMMA QuietKeeps ==
  ASSUME BusInv, Disturb \/ UNCHANGED vars
  PROVE  BusInv'
<1>1. /\ UNCHANGED <<lab, at, ch, k, addr, g, todo, result, fitted, awake, selected, damage, resets>>
      /\ good' \in BOOLEAN
  BY DEF Disturb, vars, programVars, worldVars, BusInv, TypeInv, TypeOK
<1>2. TypeInv' /\ WhereInv'
  BY <1>1 DEF BusInv, TypeInv, TypeOK, WhereInv
<1>3. DirectInv' /\ SearchInv' /\ ReadInv'
  BY <1>1 DEF BusInv, DirectInv, SearchInv, ReadInv, Only, Selects, Reads, HasReading, OnlyOpen,
    SensorAt, ReadFrom, NoCrc
<1>4. FoundIsInReach' /\ ShownIsUndamaged'
  BY <1>1 DEF BusInv, FoundIsInReach, ShownIsUndamaged
<1>5. QED
  BY <1>2, <1>3, <1>4 DEF BusInv

LEMMA StepKeeps ==
  ASSUME BusInv, [Next]_vars
  PROVE  BusInv'
BY ProgramKeeps, TransferKeeps, ResetKeeps, QuietKeeps DEF Next

\* At every place of the two programs the rest of a call speaks to the sensor the
\* program means, on the channel it selected, whatever failed before.
THEOREM BusInvariant == Spec => []BusInv
<1>1. Init => BusInv
  BY InitHolds
<1>2. BusInv /\ [Next]_vars => BusInv'
  BY StepKeeps
<1>3. QED
  BY <1>1, <1>2, PTL DEF Spec

\* Whatever is on the bus, and whatever fails, each variable keeps its type; a
\* call is busy exactly while commands are left.
THEOREM TypeCorrect == Spec => []TypeOK
<1>1. BusInv => TypeOK
  BY DEF BusInv, TypeInv
<1>2. QED
  BY <1>1, BusInvariant, PTL

\* detect_sensor finds no sensor but the one on the bus, and each reading opens
\* a channel on which it answers, for every number of channels.
THEOREM FoundInReach == Spec => []FoundIsInReach
<1>1. BusInv => FoundIsInReach
  BY DEF BusInv
<1>2. QED
  BY <1>1, BusInvariant, PTL

\* What is shown passed the CRC of each of its halves, unless the sensor sends none.
THEOREM ShownUndamaged == Spec => []ShownIsUndamaged
<1>1. BusInv => ShownIsUndamaged
  BY DEF BusInv
<1>2. QED
  BY <1>1, BusInvariant, PTL

=============================================================================

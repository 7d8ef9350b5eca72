---------------------------- MODULE Thermometer ----------------------------
(***************************************************************************)
(* Labs 2.2 and 3.3: one sensor of temperature and humidity on the I2C     *)
(* bus, read once in a while and shown.  Lab 2.2 knows its sensor; lab 3.3 *)
(* looks for one of four kinds, on the bus or behind a multiplexer, once,  *)
(* after a reset.                                                          *)
(*                                                                         *)
(* A call is a list of transfers, and its first failure ends it.  The      *)
(* sensor, the multiplexer and the wires are the environment.              *)
(***************************************************************************)
EXTENDS Integers, Sequences

CONSTANTS
  Fittings,      \* what may be on the bus
  Lab,           \* the programs: lab2_2, lab3_3
  Channels,      \* the multiplexer's channels (0 .. 7)
  MaxResets      \* bound on the resets of the board

ADDR_SHTC3 == 112       \* 0x70, also the multiplexer's
ADDR_SHT3X_1 == 68
ADDR_SHT3X_2 == 69
ADDR_AHT20 == 56
ADDR_SI7021 == 64

NoChannel == -1

Kinds == {"shtc3", "sht3x", "aht20", "si7021"}

\* Where a sensor of each kind answers.
Addresses ==
  [shtc3 |-> {ADDR_SHTC3}, sht3x |-> {ADDR_SHT3X_1, ADDR_SHT3X_2}, aht20 |-> {ADDR_AHT20},
   si7021 |-> {ADDR_SI7021}]

ASSUME ThermometerAssumption ==
  /\ Fittings \subseteq [kind: Kinds, addr: UNION {Addresses[kind] : kind \in Kinds},
                         channel: Channels \cup {NoChannel}, mux: BOOLEAN]
  /\ \A f \in Fittings : f.addr \in Addresses[f.kind]
  /\ \A f \in Fittings : (f.kind = "shtc3" => ~f.mux) /\ (f.channel # NoChannel => f.mux)
  /\ Lab \subseteq {"lab2_2", "lab3_3"} /\ MaxResets \in Nat
  /\ \E n \in 1 .. 8 : Channels = 0 .. n - 1

VARIABLES
  lab, at,           \* the program, and where it is
  ch, k, addr,       \* the search: channel, kind in Order, address
  g,                 \* g_kind, g_addr and g_mux_channel
  todo, result       \* the rest of the call under way, and "ok", "fail" or "busy"

VARIABLES
  fitted,            \* the sensor, where it answers, and whether there is a multiplexer
  awake,             \* the SHTC3 is not asleep
  selected,          \* the multiplexer's open channels
  damage,            \* the halves of the last frame that were damaged
  good,              \* sensor and wires are in order
  resets

programVars == <<lab, at, ch, k, addr, g, todo, result>>
worldVars == <<fitted, awake, selected, damage, good, resets>>
vars == <<programVars, worldVars>>

Halves == {"T", "RH"}
None == [kind |-> "none", addr |-> 0, channel |-> NoChannel]

\* The kinds looked for on the bus, or on a channel, in this order.
Order == <<"sht3x", "aht20", "si7021">>
FirstAddress == <<ADDR_SHT3X_1, ADDR_AHT20, ADDR_SI7021>>

Command == [to: UNION {Addresses[kind] : kind \in Kinds},
            do: {"probe", "wake", "measure", "read", "sleep", "reset", "init", "select"},
            channel: Channels \cup {NoChannel}]

-----------------------------------------------------------------------------
(* The calls.                                                              *)

Transfer(a, what) == <<[to |-> a, do |-> what, channel |-> NoChannel]>>

\* Mutant of shtc3_measure: the sensor is expected to be awake.
ExpectedAwake ==
  Transfer(ADDR_SHTC3, "measure") \o Transfer(ADDR_SHTC3, "read") \o Transfer(ADDR_SHTC3, "sleep")

shtc3_measure ==
  Transfer(ADDR_SHTC3, "wake") \o Transfer(ADDR_SHTC3, "measure") \o Transfer(ADDR_SHTC3, "read")
    \o Transfer(ADDR_SHTC3, "sleep")

\* Lab 2.2 keeps the sensor awake.
read_once == Transfer(ADDR_SHTC3, "measure") \o Transfer(ADDR_SHTC3, "read")

aht20_init == Transfer(ADDR_AHT20, "reset") \o Transfer(ADDR_AHT20, "init")

\* The Si7021 is asked for one half after the other.
Measure(kind, a) ==
  IF kind = "shtc3" THEN shtc3_measure
  ELSE Transfer(a, "measure") \o Transfer(a, "read")
         \o IF kind = "si7021" THEN Transfer(a, "measure") \o Transfer(a, "read") ELSE <<>>

Call(where, commands) == at' = where /\ todo' = commands /\ result' = "busy"

-----------------------------------------------------------------------------
(* A transfer.                                                             *)

MuxAt(a) == fitted.mux /\ a = ADDR_SHTC3
SensorAt(a) == a = fitted.addr /\ fitted.channel \in selected \cup {NoChannel}

\* A sleeping SHTC3 answers a wake-up, and may acknowledge a probe.
Answers(c) ==
  MuxAt(c.to) \/ (SensorAt(c.to) /\ (fitted.kind = "shtc3" => awake \/ c.do \in {"wake", "probe"}))

Surely(c) == good /\ Answers(c) /\ (SensorAt(c.to) /\ c.do = "probe" /\ fitted.kind = "shtc3" => awake)

\* What a write leaves in the multiplexer: the bits of its last byte.
Opened(c) ==
  CASE c.do = "select" -> {c.channel}
    [] c.do = "wake" -> {0, 1, 2, 4} \cap Channels
    [] c.do = "measure" -> {1, 2, 5, 6} \cap Channels
    [] c.do = "sleep" -> {3, 4, 7} \cap Channels
    [] OTHER -> selected

\* The command reached who has this address.
Affect(c) ==
  /\ awake' = IF SensorAt(c.to) /\ fitted.kind = "shtc3" /\ c.do \in {"wake", "sleep"}
                THEN c.do = "wake" ELSE awake
  /\ selected' = IF MuxAt(c.to) THEN Opened(c) ELSE selected

\* The multiplexer answers a read with a byte that is not the CRC of itself twice.
Damages(c) ==
  IF MuxAt(c.to) THEN {Halves} ELSE IF good THEN {{}} ELSE SUBSET Halves

\* Mutant of Accepted: the CRC of the second half is not looked at.
FirstHalf(c, d) == c.to \in {ADDR_AHT20, ADDR_SI7021} \/ "T" \notin d

\* Only the SHTC3 and SHT3x send CRCs.
Accepted(c, d) == c.to \in {ADDR_AHT20, ADDR_SI7021} \/ d = {}

GoesOn ==
  /\ todo' = Tail(todo)
  /\ result' = IF Tail(todo) = <<>> THEN "ok" ELSE "busy"

Breaks == todo' = <<>> /\ result' = "fail"

\* The results of the commands to sleep and to reset are ignored.
Ignored(c) == c.do \in {"sleep", "reset"}

Succeed ==
  /\ todo # <<>> /\ Answers(Head(todo))
  /\ LET c == Head(todo)
     IN  /\ Affect(c)
         /\ IF c.do = "read"
              THEN \E d \in Damages(c) : damage' = d /\ IF Accepted(c, d) THEN GoesOn ELSE Breaks
              ELSE GoesOn /\ UNCHANGED damage
  /\ UNCHANGED <<lab, at, ch, k, addr, g, fitted, good, resets>>

\* It may have reached the device all the same.
Fail ==
  /\ todo # <<>> /\ ~Surely(Head(todo))
  /\ LET c == Head(todo)
     IN  /\ (Answers(c) /\ Affect(c)) \/ UNCHANGED <<awake, selected>>
         /\ IF Ignored(c) THEN GoesOn ELSE Breaks
  /\ UNCHANGED <<lab, at, ch, k, addr, g, fitted, damage, good, resets>>

-----------------------------------------------------------------------------
(* The programs.                                                           *)

Init ==
  /\ lab \in Lab /\ fitted \in Fittings
  /\ at = "boot" /\ ch = NoChannel /\ k = 1 /\ addr = ADDR_SHTC3 /\ g = None
  /\ todo = <<>> /\ result = "ok"
  /\ awake \in BOOLEAN /\ selected \in SUBSET Channels /\ damage = {} /\ good \in BOOLEAN
  /\ resets = 0

After(where, r) == at = where /\ result = r

Do(where, commands) == Call(where, commands) /\ UNCHANGED <<ch, k, addr, g>>

\* Lab 2.2 wakes its sensor once, and does not ask whether it heard.
Wake == lab = "lab2_2" /\ at = "boot" /\ Do("wake", Transfer(ADDR_SHTC3, "wake"))

ReadOnce ==
  /\ lab = "lab2_2"
  /\ at \in {"show", "pause"} \/ After("wake", "ok") \/ After("wake", "fail")
  /\ Do("read", read_once)

-----------------------------------------------------------------------------
(* detect_sensor.                                                          *)

\* Looks for the kinds from the n-th on, on channel c or on the bus.
Look(c, n) ==
  /\ ch' = c /\ k' = n /\ addr' = FirstAddress[n]
  /\ Call("probe", Transfer(FirstAddress[n], "probe"))
  /\ UNCHANGED g

tca_select(c) == <<[to |-> ADDR_SHTC3, do |-> "select", channel |-> c]>>

Select(c) == ch' = c /\ Call("select", tca_select(c)) /\ UNCHANGED <<k, addr, g>>

\* The loop follows, with a sensor or with none.
DetectionEnds(found) == at' = "loop" /\ g' = found /\ UNCHANGED <<todo, result, ch, k, addr>>

\* Mutant of NextChannel: one channel too many.
PastTheLast ==
  IF ch # NoChannel /\ ch \in Channels THEN Select(ch + 1) ELSE DetectionEnds(None)

NextChannel ==
  IF ch # NoChannel /\ ch + 1 \in Channels THEN Select(ch + 1) ELSE DetectionEnds(None)

LookOn == IF k < Len(Order) THEN Look(ch, k + 1) ELSE NextChannel

Probe70 == lab = "lab3_3" /\ at = "boot" /\ Do("probe70", Transfer(ADDR_SHTC3, "probe"))

\* A 0x70 that does not measure is taken for a multiplexer.
TryDirect ==
  \/ After("probe70", "ok") /\ Do("direct", shtc3_measure)
  \/ After("probe70", "fail") /\ Look(NoChannel, 1)
  \/ After("direct", "ok")
       /\ DetectionEnds([kind |-> "shtc3", addr |-> ADDR_SHTC3, channel |-> NoChannel])
  \/ After("direct", "fail") /\ Select(0)

\* Mutant of SelectFails: the channel is searched all the same.
SearchesAnyway == After("select", "fail") /\ Look(ch, 1)

SelectFails == After("select", "fail") /\ NextChannel

\* An SHT3x is probed at one address or the other, then at the first once more.
TrySht3x ==
  \/ After("probe", "ok") /\ Do("probe_again", Transfer(ADDR_SHT3X_1, "probe"))
  \/ After("probe", "fail") /\ Do("probe_second", Transfer(ADDR_SHT3X_2, "probe"))
  \/ After("probe_second", "ok") /\ Do("probe_again", Transfer(ADDR_SHT3X_1, "probe"))
  \/ /\ at = "probe_again" /\ result # "busy"
     /\ addr' = IF result = "ok" THEN ADDR_SHT3X_1 ELSE ADDR_SHT3X_2
     /\ Call("measure", Measure("sht3x", addr'))
     /\ UNCHANGED <<ch, k, g>>

TryAht20 ==
  \/ After("probe", "ok") /\ Do("init", aht20_init)
  \/ After("init", "ok") /\ Do("measure", Measure("aht20", addr))

TrySi7021 == After("probe", "ok") /\ Do("measure", Measure("si7021", addr))

NotThisKind ==
  \/ After("probe_second", "fail") \/ After("init", "fail") \/ After("measure", "fail")
  \/ After("probe", "fail") /\ Order[k] # "sht3x"

Detect ==
  \/ Probe70 \/ TryDirect
  \/ After("select", "ok") /\ Look(ch, 1)
  \/ SelectFails
  \/ Order[k] = "sht3x" /\ TrySht3x
  \/ Order[k] = "aht20" /\ TryAht20
  \/ Order[k] = "si7021" /\ TrySi7021
  \/ NotThisKind /\ LookOn
  \/ After("measure", "ok") /\ DetectionEnds([kind |-> Order[k], addr |-> addr, channel |-> ch])

-----------------------------------------------------------------------------
\* read_sensor opens the channel first; without a sensor it fails.
ReadSensor ==
  /\ lab = "lab3_3"
  /\ at \in {"loop", "show", "pause"} /\ g.kind # "none"
  /\ IF g.channel # NoChannel THEN Do("reselect", tca_select(g.channel))
                              ELSE Do("read", Measure(g.kind, g.addr))

Reselected == After("reselect", "ok") /\ Do("read", Measure(g.kind, g.addr))

\* What was read is shown; after a failure the display stays as it is.
ReadEnds ==
  /\ \/ After("read", "ok") /\ at' = "show"
     \/ (After("read", "fail") \/ After("reselect", "fail")) /\ at' = "pause"
  /\ UNCHANGED <<ch, k, addr, g, todo, result>>

Program ==
  /\ Wake \/ ReadOnce \/ Detect \/ ReadSensor \/ Reselected \/ ReadEnds
  /\ UNCHANGED <<lab, worldVars>>

\* A reset finds the sensor and the multiplexer as they are.
Reset ==
  /\ resets < MaxResets /\ resets' = resets + 1
  /\ at' = "boot" /\ ch' = NoChannel /\ k' = 1 /\ addr' = ADDR_SHTC3 /\ g' = None
  /\ todo' = <<>> /\ result' = "ok"
  /\ UNCHANGED <<lab, fitted, awake, selected, damage, good>>

Disturb == good' = ~good /\ UNCHANGED <<programVars, fitted, awake, selected, damage, resets>>

Next == Program \/ Succeed \/ Fail \/ Reset \/ Disturb

Spec == Init /\ [][Next]_vars

\* Every transfer has a time limit, and every wait is a delay.
FairSpec == Spec /\ WF_vars(Program \/ Succeed \/ Fail)

-----------------------------------------------------------------------------
TypeOK ==
  /\ lab \in Lab /\ fitted \in Fittings /\ ch \in Channels \cup {NoChannel} /\ k \in 1 .. Len(Order)
  /\ g.channel \in Channels \cup {NoChannel}
  /\ todo \in Seq(Command) /\ result \in {"ok", "fail", "busy"}
  /\ (result = "busy") = (todo # <<>>)
  /\ awake \in BOOLEAN /\ selected \subseteq Channels /\ damage \subseteq Halves /\ good \in BOOLEAN
  /\ resets \in 0 .. MaxResets

\* A sensor that was found is the one on the bus, at its address, and stays in
\* reach: on the channel that is opened before each reading, or on one that
\* was open and stays so, whatever a failed selection, a glitch between two
\* probes of one address, or an SHTC3 command sent to the multiplexer did.
FoundIsInReach ==
  g # None =>
    /\ g.kind = fitted.kind /\ g.addr = fitted.addr
    /\ fitted.channel \in {NoChannel} \cup (IF g.channel = NoChannel THEN selected ELSE {g.channel})

\* What a sensor that sends CRCs measured is shown only if both halves arrived
\* undamaged; the multiplexer's answer to the SHTC3's commands never is.
ShownIsUndamaged ==
  at = "show" => damage = {} \/ (lab = "lab3_3" /\ g.kind \in {"aht20", "si7021"})

\* No sensor was found after the reset, or lab 2.2's was not woken or is another.
Lost ==
  IF lab = "lab3_3" THEN at = "loop" /\ g = None ELSE fitted.kind # "shtc3" \/ ~awake

\* While sensor and wires are good, readings keep being shown, whatever failed
\* before: unless detection, or the only wake-up, fell into a bad moment.
KeepsShowing == <>[]good => []<>(at = "show") \/ <>[]Lost
=============================================================================

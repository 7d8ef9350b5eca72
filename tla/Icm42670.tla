------------------------------ MODULE Icm42670 ------------------------------
(***************************************************************************)
(* The driver of the ICM-42670 motion sensor, as far as labs 4.1 and 4.3   *)
(* call it.  A call is a list of steps: take the device's mutex, transfer  *)
(* a register, give the mutex, look at what was read.  A transfer is tried *)
(* up to four times; when it still fails, the mutex is given and the call  *)
(* fails.  The sensor and the wires are the environment: while they are    *)
(* not good a transfer may do anything, and what it reports is not always  *)
(* what it did.                                                            *)
(***************************************************************************)
EXTENDS I2cDev, Sequences

CONSTANT Home      \* the addresses the sensor may be wired to

ASSUME Icm42670Assumption == Home \subseteq Address

VARIABLES
  todo,         \* what is left of the call under way
  result,       \* of the last call: "ok", "fail", or "busy" while under way
  reg           \* the value the call last read

driverVars == <<i2c, retry, todo, result, reg>>

VARIABLES
  home,         \* where the sensor answers
  settings,     \* the fields of its registers that are as the labs set them
  good          \* sensor, wires and memory are in order

sensorVars == <<home, settings>>

Config == <<"fsr", "avg", "odr", "mode">>
Field == {"idle", "fsr", "avg", "odr", "mode"}

\* The fields that share a register: ACCEL_CONFIG0, ACCEL_CONFIG1, PWR_MGMT0.
Shared(f) ==
  CASE f \in {"fsr", "odr"} -> {"fsr", "odr"}
    [] f \in {"idle", "mode"} -> {"idle", "mode"}
    [] f = "avg" -> {"avg"}

Step(what) == <<[do |-> what, field |-> "none"]>>
StepOn(what, f) == <<[do |-> what, field |-> f]>>
Locked(steps) == Step("take") \o steps \o Step("give")

read_register(f) == Locked(StepOn("get", f))
manipulate_register(f) == Locked(StepOn("get", f) \o StepOn("set", f))

icm42670_flush_fifo == Locked(Step("flush"))
icm42670_reset == Locked(Step("reset"))
icm42670_get_mclk_rdy == Locked(Step("query"))

icm42670_init ==
  Locked(Step("query")) \o Step("expect")
    \o icm42670_flush_fifo \o icm42670_reset
    \o manipulate_register("idle")
    \o icm42670_get_mclk_rdy \o Step("expect")

\* The power mode is checked against the rate and the average first; what the
\* labs ask for is allowed with the sensor's defaults and with their own.
icm42670_set_accel_pwr_mode ==
  read_register("odr") \o read_register("avg") \o manipulate_register("mode")

icm42670_set(f) == IF f = "mode" THEN icm42670_set_accel_pwr_mode ELSE manipulate_register(f)

icm42670_read_raw_data == Locked(Step("upper") \o Step("lower"))

Transfers == {"query", "flush", "reset", "get", "set", "upper", "lower"}

Icm42670TypeOK ==
  /\ I2cTypeOK
  /\ todo \in Seq([do : Transfers \cup {"take", "give", "expect"}, field : Field \cup {"none"}])
  /\ result \in {"ok", "fail", "busy"}
  /\ reg \subseteq Field \cup {"answer"}
  /\ home \in Home /\ settings \subseteq Field /\ good \in BOOLEAN

-----------------------------------------------------------------------------
Call(steps) == todo' = steps /\ result' = "busy" /\ retry' = 0 /\ reg' = {}

Doing(what) == todo # <<>> /\ Head(todo).do = what

\* The step is done; the call is over with its last one.
Done ==
  /\ todo' = Tail(todo)
  /\ result' = IF Tail(todo) = <<>> THEN "ok" ELSE "busy"
  /\ retry' = 0

Fail == todo' = <<>> /\ result' = "fail" /\ retry' = 0

\* Mutant of FailLocked: returns without giving the mutex.
FailHolding(d) == Fail /\ i2c' = d

\* I2C_DEV_CHECK: give the mutex, then return the error.
FailLocked(d) == Fail /\ i2c' = i2c_dev_give_mutex(d)

\* There is a mutex to take, or there is none and the call fails; it also
\* fails when nobody gives the mutex in time.
Take ==
  /\ Doing("take")
  /\ IF i2c.mutex = "free" THEN Done /\ i2c' = i2c_dev_take_mutex(i2c)
                           ELSE Fail /\ UNCHANGED i2c
  /\ UNCHANGED <<reg, sensorVars, good>>

Give ==
  /\ Doing("give")
  /\ Done
  /\ i2c' = i2c_dev_give_mutex(i2c)
  /\ UNCHANGED <<reg, sensorVars, good>>

\* WHO_AM_I is the sensor's, MCLK_RDY is set.
Expect ==
  /\ Doing("expect")
  /\ IF "answer" \in reg THEN Done ELSE Fail
  /\ UNCHANGED <<i2c, reg, sensorVars, good>>

-----------------------------------------------------------------------------
\* Mutant of Written: the other field of the register is lost.
Overwritten(step) ==
  IF step.do = "set" THEN (settings \ Shared(step.field)) \cup {step.field} ELSE settings

\* The sensor's settings after a write: a soft reset restores the defaults.
Written(step) ==
  CASE step.do = "reset" -> {}
    [] step.do = "set" -> (settings \ Shared(step.field)) \cup reg \cup {step.field}
    [] OTHER -> settings

\* What a read may return: a register's fields, or the answer to a query,
\* which may be wrong while the sensor is not good.
Values(step) ==
  CASE step.do = "get" -> {settings \cap Shared(step.field)}
    [] step.do = "query" -> {{"answer"}} \cup (IF good THEN {} ELSE {{}})
    [] OTHER -> {reg}

\* What ESP-IDF may say of a transfer: a good sensor answers at its address,
\* and nothing ever answers at the other one.  MaxRef bounds the invalid ones.
Outcome(d) ==
  LET answers == d.dev_handle = home
  IN  (IF answers THEN {"ok"} ELSE {})
        \cup (IF answers /\ good THEN {} ELSE {"temporary"})
        \cup (IF (answers /\ good) \/ d.ref_count >= MaxRef THEN {} ELSE {"invalid"})

\* The device as set up for a pass, and whether that succeeded.
SetUps ==
  {i2c_setup_device(i2c, busMemory, handleMemory) :
     busMemory \in (IF good THEN {TRUE} ELSE BOOLEAN), handleMemory \in (IF good THEN {TRUE} ELSE BOOLEAN)}

Ready(d) == d.installed /\ d.dev_handle # NoHandle

Transferring == todo # <<>> /\ Head(todo).do \in Transfers

Succeed ==
  /\ Transferring
  /\ \E d \in {s \in SetUps : Ready(s)} : "ok" \in Outcome(d) /\ i2c' = Pass(d, "ok")
  /\ Done
  /\ reg' \in Values(Head(todo))
  /\ settings' = Written(Head(todo))
  /\ UNCHANGED <<home, good>>

\* The passes that fail: the device could not be set up, or the transfer
\* failed; a write may have reached the sensor all the same.
FailedPasses ==
  {[device |-> s, settings |-> settings] : s \in {u \in SetUps : ~Ready(u)}}
    \cup UNION {{[device |-> Pass(s, r), settings |-> x] :
                   r \in Outcome(s) \ {"ok"},
                   x \in {settings} \cup (IF s.dev_handle = home THEN {Written(Head(todo))} ELSE {})} :
                s \in {u \in SetUps : Ready(u)}}

TryAgain ==
  /\ Transferring /\ RetriesAreLeft
  /\ \E p \in FailedPasses : i2c' = p.device /\ settings' = p.settings
  /\ retry' = retry + 1
  /\ UNCHANGED <<todo, result, reg, home, good>>

\* read_register_16 goes on to the lower byte whatever became of the upper.
GiveUp ==
  /\ Transferring /\ ~RetriesAreLeft
  /\ \E p \in FailedPasses :
       /\ settings' = p.settings
       /\ IF Doing("upper") THEN Done /\ i2c' = p.device ELSE FailLocked(p.device)
  /\ UNCHANGED <<reg, home, good>>

DriverNext == Take \/ Give \/ Expect \/ Succeed \/ TryAgain \/ GiveUp
=============================================================================

------------------------------ MODULE ImuLoop ------------------------------
(***************************************************************************)
(* The tasks of labs 4.1 and 4.3 that read the motion sensor: find it at   *)
(* one of its two addresses, set it up, read the three axes every 20 ms,   *)
(* and after five failures in a row start over with a new descriptor.      *)
(* What a lab does with a sample is not modelled here.                     *)
(***************************************************************************)
EXTENDS Icm42670

CONSTANTS
  ADDR_GND, ADDR_VCC,     \* the sensor's two addresses
  Lab                     \* the labs to run: lab4_1, lab4_3

ASSUME ImuLoopAssumption ==
  /\ ADDR_GND # ADDR_VCC /\ Address = {ADDR_GND, ADDR_VCC}
  /\ Lab \subseteq {"lab4_1", "lab4_3"}

FailureLimit == 5

VARIABLES
  lab,                  \* which task this is
  at,                   \* where it is
  k,                    \* the setting it makes, or the axis it reads
  addr,                 \* where it found the sensor
  consecutive_fail,
  unset                 \* a setting failed and nobody took notice, since the last init

taskVars == <<at, k, addr, consecutive_fail, unset>>
vars == <<driverVars, sensorVars, good, lab, taskVars>>

TypeOK ==
  /\ Icm42670TypeOK
  /\ lab \in Lab
  /\ at \in {"boot", "search", "config", "wait", "read", "sample", "reinit", "reapply", "deleted"}
  /\ k \in 1 .. Len(Config)
  /\ addr \in Address
  /\ consecutive_fail \in 0 .. FailureLimit
  /\ unset \in BOOLEAN

Init ==
  /\ lab \in Lab
  /\ home \in Home /\ settings = {} /\ good \in BOOLEAN
  /\ i2c = Uninitialised(ADDR_GND) /\ retry = 0
  /\ todo = <<>> /\ result = "ok" /\ reg = {}
  /\ at = "boot" /\ k = 1 /\ addr = ADDR_GND /\ consecutive_fail = 0 /\ unset = FALSE

Other(a) == IF a = ADDR_GND THEN ADDR_VCC ELSE ADDR_GND

\* Mutant of imu_try_init: the old descriptor is not freed.
TryInitInPlace(d, a) ==
  /\ i2c' = i2c_dev_create_mutex([d EXCEPT !.addr = a], TRUE)
  /\ Call(icm42670_init)

\* Frees the descriptor and makes it anew, then resets the sensor.
imu_try_init(d, a) ==
  \E memory \in (IF good THEN {TRUE} ELSE BOOLEAN) :
    /\ i2c' = i2c_dev_create_mutex([i2c_dev_delete_mutex(d) EXCEPT !.addr = a], memory)
    /\ IF memory THEN Call(icm42670_init) ELSE Fail /\ UNCHANGED reg

-----------------------------------------------------------------------------
Boot ==
  /\ at = "boot"
  /\ at' = "search"
  /\ imu_try_init(Uninitialised(ADDR_GND), ADDR_GND)
  /\ UNCHANGED <<k, addr, consecutive_fail, unset>>

\* The other address is next; lab 4.1 alternates until one answers.
SearchOn ==
  /\ at = "search" /\ result = "fail"
  /\ lab = "lab4_1" \/ i2c.addr = ADDR_GND
  /\ imu_try_init(i2c, Other(i2c.addr))
  /\ UNCHANGED taskVars

\* Lab 4.3 tries each address once and deletes its task.
DeleteTask ==
  /\ at = "search" /\ result = "fail" /\ lab = "lab4_3" /\ i2c.addr = ADDR_VCC
  /\ at' = "deleted"
  /\ UNCHANGED <<driverVars, k, addr, consecutive_fail, unset>>

Found ==
  /\ at = "search" /\ result = "ok"
  /\ addr' = i2c.addr
  /\ at' = "config" /\ k' = 1 /\ unset' = FALSE
  /\ Call(icm42670_set(Config[1]))
  /\ UNCHANGED <<i2c, consecutive_fail>>

\* The next axis, or a new sample from the first.
Read(axis) ==
  /\ at' = "read" /\ k' = axis
  /\ Call(icm42670_read_raw_data)
  /\ UNCHANGED i2c

\* A failed setting makes lab 4.1 abort; lab 4.3 ignores it.
CheckSetting ==
  /\ result = "ok" \/ lab = "lab4_3"
  /\ unset' = (unset \/ result = "fail")

SetNext ==
  /\ k < Len(Config)
  /\ k' = k + 1
  /\ Call(icm42670_set(Config[k + 1]))
  /\ UNCHANGED i2c

SetUpOn ==
  /\ at = "config" /\ result # "busy"
  /\ CheckSetting
  /\ SetNext
  /\ UNCHANGED <<at, addr, consecutive_fail>>

\* Lab 4.3 waits for the first connection before it reads.
SetUpEnds ==
  /\ at = "config" /\ result # "busy" /\ k = Len(Config)
  /\ CheckSetting
  /\ \/ lab = "lab4_1" /\ Read(1)
     \/ lab = "lab4_3" /\ at' = "wait" /\ UNCHANGED <<k, driverVars>>
  /\ UNCHANGED <<addr, consecutive_fail>>

\* ESP_ERROR_CHECK: the board restarts; the sensor keeps its registers.
Abort ==
  /\ at = "config" /\ result = "fail" /\ lab = "lab4_1"
  /\ at' = "boot" /\ k' = 1 /\ addr' = ADDR_GND /\ consecutive_fail' = 0 /\ unset' = FALSE
  /\ i2c' = Uninitialised(ADDR_GND) /\ retry' = 0
  /\ todo' = <<>> /\ result' = "ok" /\ reg' = {}

Connected ==
  /\ at = "wait"
  /\ Read(1)
  /\ UNCHANGED <<addr, consecutive_fail, unset>>

-----------------------------------------------------------------------------
ReadNext ==
  /\ at = "read" /\ result = "ok" /\ k < 3
  /\ Read(k + 1)
  /\ UNCHANGED <<addr, consecutive_fail, unset>>

ReadAll ==
  /\ at = "read" /\ result = "ok" /\ k = 3
  /\ at' = "sample"
  /\ UNCHANGED <<driverVars, k, addr, consecutive_fail, unset>>

\* Mutant of UseSample: the failures are not forgotten.
KeepsCounting ==
  /\ at = "sample"
  /\ Read(1)
  /\ UNCHANGED <<addr, consecutive_fail, unset>>

UseSample ==
  /\ at = "sample"
  /\ consecutive_fail' = 0
  /\ Read(1)
  /\ UNCHANGED <<addr, unset>>

ReadFailed ==
  /\ at = "read" /\ result = "fail" /\ consecutive_fail + 1 < FailureLimit
  /\ consecutive_fail' = consecutive_fail + 1
  /\ Read(1)
  /\ UNCHANGED <<addr, unset>>

Reinit ==
  /\ at = "read" /\ result = "fail" /\ consecutive_fail + 1 >= FailureLimit
  /\ consecutive_fail' = consecutive_fail + 1
  /\ at' = "reinit"
  /\ imu_try_init(i2c_dev_delete_mutex(i2c), addr)
  /\ UNCHANGED <<k, addr, unset>>

ReinitOther ==
  /\ at = "reinit" /\ result = "fail" /\ i2c.addr = addr
  /\ imu_try_init(i2c, Other(addr))
  /\ UNCHANGED taskVars

\* The settings are made again whether or not the sensor was found.
Reapply ==
  /\ at = "reinit"
  /\ \/ result = "ok" /\ addr' = i2c.addr
     \/ result = "fail" /\ i2c.addr # addr /\ UNCHANGED addr
  /\ at' = "reapply" /\ k' = 1 /\ unset' = FALSE
  /\ Call(icm42670_set(Config[1]))
  /\ UNCHANGED <<i2c, consecutive_fail>>

ReapplyOn ==
  /\ at = "reapply" /\ result # "busy"
  /\ unset' = (unset \/ result = "fail")
  /\ SetNext
  /\ UNCHANGED <<at, addr, consecutive_fail>>

ReapplyEnds ==
  /\ at = "reapply" /\ result # "busy" /\ k = Len(Config)
  /\ unset' = (unset \/ result = "fail")
  /\ consecutive_fail' = 0
  /\ Read(1)
  /\ UNCHANGED addr

TaskNext ==
  \/ Boot \/ SearchOn \/ DeleteTask \/ Found \/ SetUpOn \/ SetUpEnds \/ Abort \/ Connected
  \/ ReadNext \/ ReadAll \/ UseSample \/ ReadFailed
  \/ Reinit \/ ReinitOther \/ Reapply \/ ReapplyOn \/ ReapplyEnds

\* The sensor, its wires or the memory fail and recover at any time.
Disturb == good' = ~good /\ UNCHANGED <<driverVars, sensorVars, taskVars>>

Next ==
  \/ (TaskNext /\ UNCHANGED <<sensorVars, good, lab>>)
  \/ (DriverNext /\ UNCHANGED <<taskVars, lab>>)
  \/ (Disturb /\ UNCHANGED lab)

Spec == Init /\ [][Next]_vars

\* The task is never held up for ever: no other task has its priority, and
\* every wait in it is a delay or a transfer with a time limit.
FairSpec ==
  /\ Spec
  /\ WF_vars(TaskNext /\ UNCHANGED <<sensorVars, good, lab>>)
  /\ WF_vars(DriverNext /\ UNCHANGED <<taskVars, lab>>)

-----------------------------------------------------------------------------
\* What i2cdev believes of the bus is what ESP-IDF has: the bus exists when it
\* is installed, the handle is the one device on it, and counted.
DriverAgrees ==
  /\ i2c.installed = i2c.bus
  /\ i2c.attached = IF i2c.dev_handle = NoHandle THEN 0 ELSE 1
  /\ i2c.attached <= i2c.ref_count
  /\ i2c.ref_count > 0 => i2c.installed

\* A transfer goes to the address of the descriptor: no handle made for the
\* address tried before is used for the next.
HandleIsForAddress == i2c.dev_handle \in {NoHandle, i2c.addr}

\* No call returns with the device's mutex held, on any path.
MutexIsGivenBack == result # "busy" => i2c.mutex # "held"

\* A sensor that is read is set up as the lab asked, unless a setting failed
\* and the lab did not care: the reset of a later init does not undo it, nor
\* one setting another that shares its register.
SampleIsConfigured ==
  at = "sample" /\ ~unset => {Config[i] : i \in DOMAIN Config} \subseteq settings

\* While sensor and wires are good, samples keep coming, whatever went before;
\* only lab 4.3 may have given up when it found no sensor, or not be connected.
SamplesResume ==
  <>[]good => []<>(at = "sample") \/ <>[](lab = "lab4_3" /\ at \in {"wait", "deleted"})

Source ==
  INSTANCE SampleSource WITH
    Limit <- FailureLimit,
    misses <- consecutive_fail,
    phase <- CASE at \in {"boot", "search", "config", "wait"} -> "search"
               [] at \in {"reinit", "reapply"} -> "repair"
               [] at = "deleted" -> "off"
               [] OTHER -> at

\* The task is a sample source: the failures that start a repair are in a row,
\* and no read and no repair goes on for ever, whatever the sensor does.
ImplementsSource == Source!Spec
=============================================================================

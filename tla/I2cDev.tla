------------------------------- MODULE I2cDev -------------------------------
(***************************************************************************)
(* i2cdev, the layer under the drivers of the labs' I2C sensors, with one  *)
(* device on one port.  It keeps the bus and the device's handle for the   *)
(* driver of ESP-IDF: it makes them when a transaction needs them, makes   *)
(* the handle again when ESP-IDF calls it invalid, and gives both up with  *)
(* the descriptor.  ESP-IDF's side is the fields bus and attached.         *)
(*                                                                         *)
(* The operators take a descriptor and return what it becomes, because one *)
(* step of an application calls several of them.                           *)
(***************************************************************************)
EXTENDS Integers

CONSTANTS
  Address,     \* the addresses a device may be given
  NoHandle,    \* NULL
  MaxRef       \* bound on ref_count, which the retries raise without limit

ASSUME I2cDevAssumption == NoHandle \notin Address /\ MaxRef \in Nat \ {0}

I2C_MAX_RETRIES == 3

VARIABLES
  i2c,         \* the descriptor, the port's state and ESP-IDF's
  retry        \* the retries the transaction under way has used

I2cTypeOK ==
  /\ i2c \in [mutex : {"null", "free", "held"}, addr : Address,
              dev_handle : Address \cup {NoHandle},
              installed : BOOLEAN, ref_count : 0 .. MaxRef,
              bus : BOOLEAN, attached : 0 .. 1]
  /\ retry \in 0 .. I2C_MAX_RETRIES

\* i2cdev_init, and a descriptor that is all zeros but for its address.
Uninitialised(a) ==
  [mutex |-> "null", addr |-> a, dev_handle |-> NoHandle, installed |-> FALSE, ref_count |-> 0,
   bus |-> FALSE, attached |-> 0]

-----------------------------------------------------------------------------
\* The handle is taken off the bus.
RemoveHandle(d) ==
  [d EXCEPT !.attached = IF d.dev_handle = NoHandle THEN @ ELSE @ - 1, !.dev_handle = NoHandle]

\* The last device takes the bus with it, which ESP-IDF refuses while a
\* device is attached; i2cdev forgets the bus either way.
ReleasePort(d) ==
  IF ~d.installed \/ d.ref_count = 0 THEN d
  ELSE IF d.ref_count > 1 THEN [d EXCEPT !.ref_count = @ - 1]
  ELSE [d EXCEPT !.ref_count = 0, !.installed = FALSE, !.bus = d.attached > 0]

\* Mutant of i2c_dev_delete_mutex: the port is released before the handle is.
PortFirst(d) == [RemoveHandle(ReleasePort(d)) EXCEPT !.mutex = "null"]

\* Gives up the handle, its share of the bus, and the mutex.
i2c_dev_delete_mutex(d) == [ReleasePort(RemoveHandle(d)) EXCEPT !.mutex = "null"]

\* An existing mutex is kept; a new one needs memory.
i2c_dev_create_mutex(d, memory) ==
  [d EXCEPT !.mutex = IF @ = "null" /\ memory THEN "free" ELSE @]

i2c_dev_take_mutex(d) == [d EXCEPT !.mutex = "held"]
i2c_dev_give_mutex(d) == [d EXCEPT !.mutex = "free"]

-----------------------------------------------------------------------------
\* ESP-IDF has one bus for a port: a second one is refused.
i2c_setup_port(d, memory) ==
  IF d.installed \/ d.bus \/ ~memory THEN d
  ELSE [d EXCEPT !.installed = TRUE, !.bus = TRUE, !.ref_count = 0]

AddHandle(d, memory) ==
  IF d.dev_handle # NoHandle \/ ~d.installed \/ ~memory THEN d
  ELSE [d EXCEPT !.dev_handle = d.addr, !.attached = @ + 1, !.ref_count = @ + 1]

i2c_setup_device(d, busMemory, handleMemory) ==
  AddHandle(i2c_setup_port(d, busMemory), handleMemory)

\* Mutant of AfterInvalid: the handle is forgotten but stays on the bus.
ForgetsHandle(d) == [d EXCEPT !.dev_handle = NoHandle]

\* A handle that ESP-IDF calls invalid is removed; ref_count stays as it is.
AfterInvalid(d) == RemoveHandle(d)

\* One pass of i2c_do_operation_with_retry: the handle is set up if need be
\* and the transaction tried with it.  The second argument is what ESP-IDF says.
Pass(d, result) == IF result = "invalid" THEN AfterInvalid(d) ELSE d

\* Mutant of RetriesAreLeft: one retry too many.
OneMoreRetry == retry <= I2C_MAX_RETRIES

RetriesAreLeft == retry < I2C_MAX_RETRIES
=============================================================================

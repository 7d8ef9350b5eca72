--------------------------- MODULE ImuLoop_proofs ---------------------------
(***************************************************************************)
(* What the motion sensor's driver and the layer under it keep in order    *)
(* whatever the sensor, its wires and the memory do: the port, the handle, *)
(* the mutex and the sensor's settings.  For any two addresses and wiring. *)
(***************************************************************************)
EXTENDS ImuLoop, SequenceTheorems, TLAPS

USE I2cDevAssumption, ImuLoopAssumption

-----------------------------------------------------------------------------
(* The port                                                                *)

Device ==
  [mutex : {"null", "free", "held"}, addr : Address, dev_handle : Address \cup {NoHandle},
   installed : BOOLEAN, ref_count : Nat, bus : BOOLEAN, attached : 0 .. 1]

\* DriverAgrees, HandleIsForAddress and the bound on ref_count, of a descriptor:
\* there is room to count a handle whenever there is none.
Agrees(d) ==
  /\ d \in Device
  /\ d.installed = d.bus
  /\ d.attached = IF d.dev_handle = NoHandle THEN 0 ELSE 1
  /\ d.attached <= d.ref_count
  /\ d.ref_count > 0 => d.installed
  /\ d.dev_handle \in {NoHandle, d.addr}
  /\ d.ref_count <= MaxRef
  /\ d.dev_handle = NoHandle => d.ref_count < MaxRef

\* A descriptor spelled out.
Of(mutex, a, handle, installed, count, bus, attached) ==
  [mutex |-> mutex, addr |-> a, dev_handle |-> handle, installed |-> installed,
   ref_count |-> count, bus |-> bus, attached |-> attached]

LEMMA OfType ==
  ASSUME NEW m \in {"null", "free", "held"}, NEW a \in Address, NEW h \in Address \cup {NoHandle},
         NEW i \in BOOLEAN, NEW c \in Nat, NEW b \in BOOLEAN, NEW t \in 0 .. 1
  PROVE  Of(m, a, h, i, c, b, t) \in Device
BY DEF Of, Device

LEMMA UninitialisedAgrees ==
  ASSUME NEW a \in Address
  PROVE  Agrees(Uninitialised(a))
BY DEF Agrees, Device, Uninitialised

LEMMA RemoveIs ==
  ASSUME NEW d \in Device, d.attached = IF d.dev_handle = NoHandle THEN 0 ELSE 1
  PROVE  RemoveHandle(d) = Of(d.mutex, d.addr, NoHandle, d.installed, d.ref_count, d.bus, 0)
<1> DEFINE e == [d EXCEPT !.attached = 0]
<1>1. e = Of(d.mutex, d.addr, d.dev_handle, d.installed, d.ref_count, d.bus, 0)
  BY DEF Of, Device
<1>2. RemoveHandle(d) = [e EXCEPT !.dev_handle = NoHandle]
  BY DEF RemoveHandle, Device
<1> QED
  BY <1>1, <1>2 DEF Of

\* The three fields that change with the bus, and those that change with a handle.
LEMMA BusFields ==
  ASSUME NEW d \in Device, NEW i \in BOOLEAN, NEW b \in BOOLEAN, NEW c \in Nat
  PROVE  /\ [d EXCEPT !.ref_count = c, !.installed = i, !.bus = b]
              = Of(d.mutex, d.addr, d.dev_handle, i, c, b, d.attached)
         /\ [d EXCEPT !.installed = i, !.bus = b, !.ref_count = c]
              = Of(d.mutex, d.addr, d.dev_handle, i, c, b, d.attached)
<1> DEFINE e == [d EXCEPT !.ref_count = c]
           f == [e EXCEPT !.installed = i]
           x == [d EXCEPT !.installed = i]
           y == [x EXCEPT !.bus = b]
<1>1. e = Of(d.mutex, d.addr, d.dev_handle, d.installed, c, d.bus, d.attached)
  BY DEF Of, Device
<1>2. x = Of(d.mutex, d.addr, d.dev_handle, i, d.ref_count, d.bus, d.attached)
  BY DEF Of, Device
<1> HIDE DEF e, x
<1>3. f = Of(d.mutex, d.addr, d.dev_handle, i, c, d.bus, d.attached)
  BY <1>1 DEF Of
<1>4. y = Of(d.mutex, d.addr, d.dev_handle, i, d.ref_count, b, d.attached)
  BY <1>2 DEF Of
<1> HIDE DEF f, y
<1>5. [f EXCEPT !.bus = b] = Of(d.mutex, d.addr, d.dev_handle, i, c, b, d.attached)
  BY <1>3 DEF Of
<1>6. [y EXCEPT !.ref_count = c] = Of(d.mutex, d.addr, d.dev_handle, i, c, b, d.attached)
  BY <1>4 DEF Of
<1>7. [f EXCEPT !.bus = b] = [d EXCEPT !.ref_count = c, !.installed = i, !.bus = b]
  BY DEF e, f
<1>8. [y EXCEPT !.ref_count = c] = [d EXCEPT !.installed = i, !.bus = b, !.ref_count = c]
  BY DEF x, y
<1> QED
  BY <1>5, <1>6, <1>7, <1>8

LEMMA HandleFields ==
  ASSUME NEW d \in Device
  PROVE  [d EXCEPT !.dev_handle = d.addr, !.attached = @ + 1, !.ref_count = @ + 1]
           = Of(d.mutex, d.addr, d.addr, d.installed, d.ref_count + 1, d.bus, d.attached + 1)
<1> DEFINE e == [d EXCEPT !.dev_handle = d.addr]
           f == [e EXCEPT !.attached = @ + 1]
<1>1. e = Of(d.mutex, d.addr, d.addr, d.installed, d.ref_count, d.bus, d.attached)
  BY DEF Of, Device
<1> HIDE DEF e
<1>2. f = Of(d.mutex, d.addr, d.addr, d.installed, d.ref_count, d.bus, d.attached + 1)
  BY <1>1 DEF Of
<1> HIDE DEF f
<1>3. [f EXCEPT !.ref_count = @ + 1]
        = Of(d.mutex, d.addr, d.addr, d.installed, d.ref_count + 1, d.bus, d.attached + 1)
  BY <1>2 DEF Of
<1> QED
  BY <1>3 DEF e, f

\* When a descriptor that is spelled out agrees.
Fits(m, a, h, i, c, t) ==
  /\ m \in {"null", "free", "held"} /\ a \in Address /\ h \in {NoHandle, a} /\ i \in BOOLEAN
  /\ c \in 0 .. MaxRef /\ t \in 0 .. 1
  /\ t = IF h = NoHandle THEN 0 ELSE 1
  /\ t <= c /\ (c > 0 => i = TRUE) /\ (h = NoHandle => c < MaxRef)

LEMMA OfAgrees ==
  ASSUME NEW m, NEW a, NEW h, NEW i, NEW c, NEW t, Fits(m, a, h, i, c, t)
  PROVE  /\ Agrees(Of(m, a, h, i, c, i, t))
         /\ Of(m, a, h, i, c, i, t).mutex = m /\ Of(m, a, h, i, c, i, t).dev_handle = h
<1> DEFINE o == Of(m, a, h, i, c, i, t)
<1>1. o \in Device
  BY OfType DEF Fits
<1>2. o.mutex = m /\ o.addr = a /\ o.dev_handle = h /\ o.attached = t /\ o.ref_count = c
  BY DEF Of
<1>3. o.installed = i /\ o.bus = i
  BY DEF Of
<1> HIDE DEF o
<1> QED
  BY <1>1, <1>2, <1>3 DEF Agrees, Fits, o

\* The last share of the bus takes the bus with it: no handle is on it any more.
LEMMA ReleaseAgrees ==
  ASSUME NEW d \in Device, d.dev_handle = NoHandle, d.attached = 0, d.installed = d.bus,
         d.ref_count > 0 => d.installed, d.ref_count <= MaxRef
  PROVE  Agrees(ReleasePort(d)) /\ ReleasePort(d).dev_handle = NoHandle
<1>1. CASE ~d.installed \/ d.ref_count = 0
  <2>1. ReleasePort(d) = d
    BY <1>1 DEF ReleasePort
  <2>2. d.ref_count = 0
    BY <1>1 DEF Device
  <2> QED
    BY <2>1, <2>2 DEF Agrees
<1>2. CASE d.installed /\ d.ref_count = 1
  <2> DEFINE bus == d.attached > 0
             i == FALSE
  <2>1. d.ref_count # 0 /\ ~(d.ref_count > 1) /\ bus = FALSE
    BY <1>2
  <2>2. ReleasePort(d) = [d EXCEPT !.ref_count = 0, !.installed = i, !.bus = i]
    BY <1>2, <2>1 DEF ReleasePort
  <2>3. i \in BOOLEAN
    OBVIOUS
  <2> HIDE DEF i
  <2>4. 0 \in Nat /\ d \in Device
    OBVIOUS
  <2>5. [d EXCEPT !.ref_count = 0, !.installed = i, !.bus = i]
          = Of(d.mutex, d.addr, d.dev_handle, i, 0, i, d.attached)
    BY <2>3, <2>4, BusFields, ZenonT(120)
  <2>6. Fits(d.mutex, d.addr, d.dev_handle, i, 0, d.attached)
    BY <2>3 DEF Fits, Device
  <2> QED
    BY <2>2, <2>5, <2>6, OfAgrees
<1>3. CASE d.installed /\ d.ref_count > 1
  <2> DEFINE c == d.ref_count - 1
             i == d.installed
             e == [d EXCEPT !.ref_count = c]
  <2>1. ReleasePort(d) = e
    BY <1>3 DEF ReleasePort, Device
  <2>2. c \in Nat /\ c > 0 /\ c < MaxRef /\ c <= MaxRef
    BY <1>3 DEF Device
  <2> HIDE DEF c
  <2>3. e = Of(d.mutex, d.addr, d.dev_handle, i, c, i, d.attached)
    BY <2>2 DEF Of, Device
  <2>4. Fits(d.mutex, d.addr, d.dev_handle, i, c, d.attached)
    BY <1>3, <2>2 DEF Fits, Device
  <2> HIDE DEF e, i
  <2> QED
    BY <2>1, <2>3, <2>4, OfAgrees
<1> QED
  BY <1>1, <1>2, <1>3 DEF Device

LEMMA DeleteAgrees ==
  ASSUME NEW d, Agrees(d)
  PROVE  /\ Agrees(i2c_dev_delete_mutex(d))
         /\ i2c_dev_delete_mutex(d).dev_handle = NoHandle
         /\ i2c_dev_delete_mutex(d).mutex = "null"
<1> DEFINE r == RemoveHandle(d)
           p == ReleasePort(r)
<1>1. r = Of(d.mutex, d.addr, NoHandle, d.installed, d.ref_count, d.bus, 0)
  BY RemoveIs DEF Agrees
<1>2. r \in Device
  BY <1>1, OfType DEF Agrees, Device
<1>3. /\ r.dev_handle = NoHandle /\ r.attached = 0 /\ r.installed = r.bus
      /\ r.ref_count > 0 => r.installed
      /\ r.ref_count <= MaxRef
  BY <1>1 DEF Of, Agrees
<1> HIDE DEF r
<1>4. Agrees(p) /\ p.dev_handle = NoHandle
  BY <1>2, <1>3, ReleaseAgrees
<1>5. i2c_dev_delete_mutex(d) = [p EXCEPT !.mutex = "null"]
  BY DEF i2c_dev_delete_mutex, r
<1> HIDE DEF p
<1> QED
  BY <1>4, <1>5 DEF Agrees, Device

Freed(d) == Agrees(d) /\ d.dev_handle = NoHandle /\ d.mutex = "null"

Anew(d, a, memory) == i2c_dev_create_mutex([d EXCEPT !.addr = a], memory)

\* The address changes while there is no handle.
LEMMA CreateAgrees ==
  ASSUME NEW d, Freed(d), NEW a \in Address, NEW memory \in BOOLEAN
  PROVE  Agrees(Anew(d, a, memory)) /\ Anew(d, a, memory).mutex # "held"
<1> DEFINE e == [d EXCEPT !.addr = a]
<1>1. Agrees(e) /\ e.mutex = "null" /\ e.addr = a
  BY DEF Agrees, Device, Freed
<1> HIDE DEF e
<1> QED
  BY <1>1 DEF Agrees, Device, Anew, i2c_dev_create_mutex, e

LEMMA MutexAgrees ==
  ASSUME NEW d, Agrees(d)
  PROVE  /\ Agrees(i2c_dev_take_mutex(d)) /\ i2c_dev_take_mutex(d).mutex = "held"
         /\ Agrees(i2c_dev_give_mutex(d)) /\ i2c_dev_give_mutex(d).mutex = "free"
BY DEF Agrees, Device, i2c_dev_take_mutex, i2c_dev_give_mutex

\* ESP-IDF has no bus when i2cdev has none, so the set-up finds the port free.
LEMMA PortAgrees ==
  ASSUME NEW d, Agrees(d), NEW b \in BOOLEAN
  PROVE  Agrees(i2c_setup_port(d, b)) /\ i2c_setup_port(d, b).mutex = d.mutex
<1>1. CASE d.installed \/ d.bus \/ ~b
  BY <1>1 DEF i2c_setup_port
<1>2. CASE ~(d.installed \/ d.bus \/ ~b)
  <2> DEFINE i == TRUE
  <2>1. d \in Device /\ d.attached = 0 /\ d.dev_handle = NoHandle
    BY <1>2 DEF Agrees, Device
  <2>2. i2c_setup_port(d, b) = [d EXCEPT !.installed = i, !.bus = i, !.ref_count = 0]
    BY <1>2 DEF i2c_setup_port
  <2>3. i \in BOOLEAN
    OBVIOUS
  <2> HIDE DEF i
  <2>4. 0 \in Nat
    OBVIOUS
  <2>5. [d EXCEPT !.installed = i, !.bus = i, !.ref_count = 0]
          = Of(d.mutex, d.addr, d.dev_handle, i, 0, i, d.attached)
    BY <2>1, <2>3, <2>4, BusFields, ZenonT(120)
  <2>6. Fits(d.mutex, d.addr, d.dev_handle, i, 0, d.attached)
    BY <2>1, <2>3 DEF Fits, Device
  <2> QED
    BY <2>2, <2>5, <2>6, OfAgrees
<1> QED
  BY <1>1, <1>2

LEMMA AddAgrees ==
  ASSUME NEW d, Agrees(d), NEW h \in BOOLEAN
  PROVE  Agrees(AddHandle(d, h)) /\ AddHandle(d, h).mutex = d.mutex
<1>1. CASE d.dev_handle # NoHandle \/ ~d.installed \/ ~h
  BY <1>1 DEF AddHandle
<1>2. CASE ~(d.dev_handle # NoHandle \/ ~d.installed \/ ~h)
  <2>1. d \in Device /\ d.attached = 0 /\ d.installed /\ d.ref_count < MaxRef /\ d.installed = d.bus
    BY <1>2 DEF Agrees
  <2> DEFINE c == d.ref_count + 1
             t == d.attached + 1
             i == d.installed
  <2>2. AddHandle(d, h) = Of(d.mutex, d.addr, d.addr, i, c, i, t)
    BY <1>2, <2>1, HandleFields DEF AddHandle
  <2>3. t = 1 /\ d.ref_count \in Nat
    BY <2>1 DEF Device
  <2>4. c \in 0 .. MaxRef /\ t <= c /\ t \in 0 .. 1
    BY <2>1, <2>3
  <2>5. Fits(d.mutex, d.addr, d.addr, i, c, t)
    BY <2>1, <2>3, <2>4 DEF Fits, Device
  <2> HIDE DEF c, t, i
  <2> QED
    BY <2>2, <2>5, OfAgrees
<1> QED
  BY <1>1, <1>2

LEMMA SetUpAgrees ==
  ASSUME NEW d, Agrees(d), NEW b \in BOOLEAN, NEW h \in BOOLEAN
  PROVE  Agrees(i2c_setup_device(d, b, h)) /\ i2c_setup_device(d, b, h).mutex = d.mutex
BY PortAgrees, AddAgrees DEF i2c_setup_device

\* A handle that ESP-IDF calls invalid leaves its count behind; MaxRef is the
\* bound on those.
LEMMA PassAgrees ==
  ASSUME NEW d, Agrees(d), NEW r \in Outcome(d)
  PROVE  Agrees(Pass(d, r)) /\ Pass(d, r).mutex = d.mutex
<1>1. CASE r = "invalid"
  <2>1. d \in Device /\ d.ref_count < MaxRef
    BY <1>1 DEF Outcome, Agrees, Device
  <2>2. Pass(d, r) = Of(d.mutex, d.addr, NoHandle, d.installed, d.ref_count, d.bus, 0)
    BY <1>1, RemoveIs DEF Agrees, Pass, AfterInvalid
  <2>3. Pass(d, r) \in Device
    BY <2>1, <2>2, OfType DEF Device
  <2> QED
    BY <2>1, <2>2, <2>3 DEF Of, Agrees, Device
<1> QED
  BY <1>1 DEF Pass

-----------------------------------------------------------------------------
(* The calls                                                               *)

AStep ==
  {x \in [do : Transfers \cup {"take", "give", "expect"}, field : Field \cup {"none"}] :
     x.do = "set" => x.field \in Field}

\* What may follow while the mutex is held, and while it is not.
Inside == Transfers \cup {"give"}
Outside == {"take", "expect"}

\* A field is set only after its register was read.
AfterGet(x, y) == y.do = "set" => x.do = "get" /\ x.field = y.field

MayFollow(x, y) ==
  /\ y.do \in IF x.do \in Transfers \cup {"take"} THEN Inside ELSE Outside
  /\ AfterGet(x, y)

\* Every transfer of a call lies between a take and the next give.
Orderly(t) ==
  /\ t \in Seq(AStep)
  /\ \A i, j \in 1 .. Len(t) : j = i + 1 => MayFollow(t[i], t[j])
  /\ t # <<>> => t[Len(t)].do \in {"give", "expect"}

Whole(t) == Orderly(t) /\ t # <<>> /\ t[1].do \in Outside

LEMMA TailOrderly ==
  ASSUME NEW t, Orderly(t), t # <<>>
  PROVE  /\ Orderly(Tail(t)) /\ Head(t) = t[1] /\ Head(t) \in AStep
         /\ Head(t).do \in Transfers \cup {"take"} => Tail(t) # <<>> /\ Tail(t)[1].do \in Inside
         /\ Head(t).do \in {"give", "expect"} /\ Tail(t) # <<>> => Tail(t)[1].do \in Outside
         /\ Tail(t) # <<>> => AfterGet(Head(t), Tail(t)[1])
<1>1. t \in Seq(AStep) /\ Len(t) \in Nat /\ Len(t) >= 1
  BY LenProperties, EmptySeq DEF Orderly
<1>2. /\ Tail(t) \in Seq(AStep) /\ Len(Tail(t)) = Len(t) - 1 /\ Head(t) = t[1] /\ Head(t) \in AStep
      /\ \A i \in 1 .. Len(Tail(t)) : Tail(t)[i] = t[i + 1]
  BY <1>1, HeadTailProperties
<1>3. Tail(t) # <<>> => Len(Tail(t)) >= 1
  BY <1>2, EmptySeq
<1>4. Len(t) = 1 => t[1].do \in {"give", "expect"}
  BY DEF Orderly
<1>5. Orderly(Tail(t))
  <2>1. ASSUME NEW i \in 1 .. Len(Tail(t)), NEW j \in 1 .. Len(Tail(t)), j = i + 1
        PROVE  MayFollow(Tail(t)[i], Tail(t)[j])
    <3>1. i + 1 \in 1 .. Len(t) /\ j + 1 \in 1 .. Len(t) /\ j + 1 = (i + 1) + 1
      BY <1>1, <1>2, <2>1
    <3> QED
      BY <1>2, <3>1 DEF Orderly
  <2>2. Tail(t) # <<>> => Tail(t)[Len(Tail(t))].do \in {"give", "expect"}
    BY <1>1, <1>2, <1>3 DEF Orderly
  <2> QED
    BY <1>2, <2>1, <2>2 DEF Orderly
<1>6. Len(t) >= 2 => MayFollow(t[1], t[2])
  <2>1. Len(t) >= 2 => 1 \in 1 .. Len(t) /\ 2 \in 1 .. Len(t) /\ 2 = 1 + 1
    BY <1>1
  <2> QED
    BY <2>1 DEF Orderly
<1>7. Tail(t) # <<>> => Len(t) >= 2 /\ Tail(t)[1] = t[2]
  BY <1>1, <1>2, <1>3
<1>8. Head(t).do \in Transfers \cup {"take"} => Tail(t) # <<>>
  <2>1. Len(t) = 1 => ~(Head(t).do \in Transfers \cup {"take"})
    BY <1>2, <1>4 DEF Transfers
  <2>2. Tail(t) = <<>> => Len(t) = 1
    <3>1. Tail(t) = <<>> => Len(Tail(t)) = 0
      BY EmptySeq, Zenon
    <3> QED
      BY <1>1, <1>2, <3>1
  <2> QED
    BY <2>1, <2>2
<1> QED
  BY <1>2, <1>5, <1>6, <1>7, <1>8 DEF Transfers, MayFollow

\* One after the other, calls are a call.
LEMMA ConcatWhole ==
  ASSUME NEW s, NEW t, Whole(s), Whole(t)
  PROVE  Whole(s \o t)
<1> DEFINE u == s \o t
<1>1. /\ s \in Seq(AStep) /\ t \in Seq(AStep) /\ Len(s) \in Nat /\ Len(t) \in Nat
      /\ Len(s) >= 1 /\ Len(t) >= 1
  BY LenProperties, EmptySeq DEF Whole, Orderly
<1>2. /\ u \in Seq(AStep) /\ Len(u) = Len(s) + Len(t)
      /\ \A i \in 1 .. Len(s) + Len(t) : u[i] = IF i <= Len(s) THEN s[i] ELSE t[i - Len(s)]
  BY <1>1, ConcatProperties
<1> HIDE DEF u
<1>3. ASSUME NEW i \in 1 .. Len(u), NEW j \in 1 .. Len(u), j = i + 1
      PROVE  MayFollow(u[i], u[j])
  <2>1. CASE j <= Len(s)
    <3>1. u[i] = s[i] /\ u[j] = s[j] /\ i \in 1 .. Len(s) /\ j \in 1 .. Len(s)
      BY <1>1, <1>2, <1>3, <2>1
    <3> QED
      BY <1>3, <3>1, SMTT(30) DEF Whole, Orderly
  <2>2. CASE i = Len(s)
    <3>1. u[i] = s[Len(s)] /\ u[j] = t[1]
      BY <1>1, <1>2, <1>3, <2>2, SMTT(30)
    <3>2. s[Len(s)].do \in {"give", "expect"} /\ t[1].do \in Outside
      BY <3>1 DEF Whole, Orderly
    <3> QED
      BY <3>1, <3>2 DEF Transfers, Outside, MayFollow, AfterGet, Outside, MayFollow, AfterGet
  <2>3. CASE i > Len(s)
    <3>1. /\ u[i] = t[i - Len(s)] /\ u[j] = t[j - Len(s)]
          /\ i - Len(s) \in 1 .. Len(t) /\ j - Len(s) \in 1 .. Len(t) /\ j - Len(s) = (i - Len(s)) + 1
      BY <1>1, <1>2, <1>3, <2>3
    <3> QED
      BY <3>1 DEF Whole, Orderly
  <2> QED
    BY <1>1, <1>2, <1>3, <2>1, <2>2, <2>3
<1>4. u # <<>> /\ u[Len(u)].do \in {"give", "expect"} /\ u[1].do \in Outside
  <2>1. u[Len(u)] = t[Len(t)] /\ u[1] = s[1] /\ u # <<>>
    BY <1>1, <1>2, EmptySeq
  <2> QED
    BY <2>1 DEF Whole, Orderly
<1> QED
  BY <1>2, <1>3, <1>4 DEF Whole, Orderly, u

\* Transfers under the mutex are a call.
Inner(s) ==
  /\ s \in Seq(AStep)
  /\ \A i \in 1 .. Len(s) : s[i].do \in Transfers
  /\ \A i, j \in 1 .. Len(s) : j = i + 1 => AfterGet(s[i], s[j])
  /\ s # <<>> => s[1].do # "set"

LEMMA LockedWhole ==
  ASSUME NEW s, Inner(s)
  PROVE  Whole(Locked(s))
<1> DEFINE a == Step("take")
           z == Step("give")
           u == (a \o s) \o z
<1>1. /\ a \in Seq(AStep) /\ Len(a) = 1 /\ a[1].do = "take"
      /\ z \in Seq(AStep) /\ Len(z) = 1 /\ z[1].do = "give"
  BY DEF Step, AStep
<1> HIDE DEF a, z
<1>2. Len(s) \in Nat /\ s \in Seq(AStep) /\ (Len(s) > 0 => s # <<>>)
  BY LenProperties, EmptySeq DEF Inner
<1>3. /\ (a \o s) \in Seq(AStep) /\ Len(a \o s) = 1 + Len(s)
      /\ \A i \in 1 .. 1 + Len(s) : (a \o s)[i] = IF i <= 1 THEN a[i] ELSE s[i - 1]
  <2>1. /\ (a \o s) \in Seq(AStep) /\ Len(a \o s) = Len(a) + Len(s)
        /\ \A i \in 1 .. Len(a) + Len(s) : (a \o s)[i] = IF i <= Len(a) THEN a[i] ELSE s[i - Len(a)]
    <3>1. s \in Seq(AStep) /\ a \in Seq(AStep)
      BY <1>1, <1>2
    <3> HIDE DEF u
    <3> QED
      BY <3>1, ConcatProperties, ZenonT(60)
  <2> QED
    BY <1>1, <2>1
<1>4. /\ u \in Seq(AStep) /\ Len(u) = Len(s) + 2
      /\ \A i \in 1 .. Len(s) + 2 : u[i] = IF i <= Len(s) + 1 THEN (a \o s)[i] ELSE z[i - (Len(s) + 1)]
  BY <1>1, <1>2, <1>3, ConcatProperties
<1> HIDE DEF u
<1>5. /\ u[1].do = "take" /\ u[Len(u)].do = "give"
      /\ \A i \in 2 .. Len(s) + 1 : u[i] = s[i - 1]
  BY <1>1, <1>2, <1>3, <1>4
<1>6. \A i \in 2 .. Len(s) + 1 : u[i].do \in Transfers
  <2>1. \A i \in 2 .. Len(s) + 1 : i - 1 \in 1 .. Len(s)
    BY <1>2
  <2> QED
    BY <1>5, <2>1 DEF Inner
<1>7. ASSUME NEW i \in 1 .. Len(u), NEW j \in 1 .. Len(u), j = i + 1
      PROVE  MayFollow(u[i], u[j])
  <2>1. u[i].do \in Transfers \cup {"take"}
    BY <1>2, <1>4, <1>5, <1>6, <1>7
  <2>2. u[j].do \in Transfers \cup {"give"}
    BY <1>2, <1>4, <1>5, <1>6, <1>7
  <2>3. AfterGet(u[i], u[j])
    <3>1. CASE j = Len(u)
      BY <1>5, <3>1 DEF AfterGet
    <3>2. CASE i = 1 /\ j # Len(u)
      <4>1. u[j] = s[1] /\ s # <<>>
        BY <1>2, <1>4, <1>5, <1>7, <3>2
      <4> QED
        BY <4>1 DEF Inner, AfterGet
    <3>3. CASE i # 1 /\ j # Len(u)
      <4>1. /\ u[i] = s[i - 1] /\ u[j] = s[j - 1] /\ i - 1 \in 1 .. Len(s) /\ j - 1 \in 1 .. Len(s)
            /\ j - 1 = (i - 1) + 1
        BY <1>2, <1>4, <1>5, <1>7, <3>3
      <4> QED
        BY <4>1 DEF Inner
    <3> QED
      BY <3>1, <3>2, <3>3
  <2> QED
    BY <2>1, <2>2, <2>3 DEF Inside, MayFollow
<1>8. Whole(u)
  BY <1>2, <1>4, <1>5, <1>7, EmptySeq DEF Whole, Orderly, Outside
<1> QED
  BY <1>8 DEF Locked, a, z, u

LEMMA OneStep ==
  ASSUME NEW w \in Transfers \cup {"take", "give", "expect"}, NEW f \in Field \cup {"none"},
         w = "set" => f \in Field
  PROVE  /\ StepOn(w, f) \in Seq(AStep) /\ Len(StepOn(w, f)) = 1
         /\ StepOn(w, f)[1] = [do |-> w, field |-> f]
<1> DEFINE x == [do |-> w, field |-> f]
<1>1. x \in AStep
  BY DEF AStep
<1> HIDE DEF x
<1>2. StepOn(w, f) = <<x>>
  BY DEF StepOn, x
<1> QED
  BY <1>1, <1>2 DEF x

LEMMA StepIs == \A w : Step(w) = StepOn(w, "none")
BY DEF Step, StepOn

LEMMA OneTransfer ==
  ASSUME NEW w \in Transfers \ {"set"}, NEW f \in Field \cup {"none"}
  PROVE  Whole(Locked(StepOn(w, f)))
<1>1. w \in Transfers \cup {"take", "give", "expect"} /\ (w = "set" => f \in Field)
  OBVIOUS
<1>2. /\ StepOn(w, f) \in Seq(AStep) /\ Len(StepOn(w, f)) = 1
      /\ StepOn(w, f)[1] = [do |-> w, field |-> f]
  BY <1>1, OneStep, Zenon
<1>3. Inner(StepOn(w, f))
  BY <1>2 DEF Inner
<1> QED
  BY <1>3, LockedWhole

LEMMA TwoTransfers ==
  ASSUME NEW s \in Seq(AStep), Len(s) = 1, s[1].do \in Transfers \ {"set"},
         NEW t \in Seq(AStep), Len(t) = 1, t[1].do \in Transfers, AfterGet(s[1], t[1])
  PROVE  Whole(Locked(s \o t))
<1>1. s \in Seq(AStep) /\ t \in Seq(AStep)
  OBVIOUS
<1>2. /\ (s \o t) \in Seq(AStep) /\ Len(s \o t) = Len(s) + Len(t)
      /\ \A i \in 1 .. Len(s) + Len(t) : (s \o t)[i] = IF i <= Len(s) THEN s[i] ELSE t[i - Len(s)]
  BY <1>1, ConcatProperties, ZenonT(120)
<1>3. Len(s \o t) = 2 /\ (s \o t)[1] = s[1] /\ (s \o t)[2] = t[1]
  BY <1>2
<1>4. Inner(s \o t)
  BY <1>2, <1>3 DEF Inner
<1> QED
  BY <1>4, LockedWhole

LEMMA RegisterCallsAreWhole ==
  ASSUME NEW f \in Field
  PROVE  Whole(read_register(f)) /\ Whole(manipulate_register(f))
<1>1. "get" \in Transfers \ {"set"} /\ "set" \in Transfers /\ f \in Field \cup {"none"}
  BY DEF Transfers
<1>2. Whole(read_register(f))
  BY <1>1, OneTransfer DEF read_register
<1>3. /\ StepOn("get", f) \in Seq(AStep) /\ Len(StepOn("get", f)) = 1
      /\ StepOn("get", f)[1] = [do |-> "get", field |-> f]
      /\ StepOn("set", f) \in Seq(AStep) /\ Len(StepOn("set", f)) = 1
      /\ StepOn("set", f)[1] = [do |-> "set", field |-> f]
  BY <1>1, OneStep
<1>4. AfterGet(StepOn("get", f)[1], StepOn("set", f)[1])
  BY <1>3 DEF AfterGet
<1>5. Whole(Locked(StepOn("get", f) \o StepOn("set", f)))
  BY <1>1, <1>3, <1>4, TwoTransfers
<1> QED
  BY <1>2, <1>5 DEF manipulate_register

LEMMA ExpectIsWhole == Whole(Step("expect"))
<1> DEFINE s == Step("expect")
<1>1. s \in Seq(AStep) /\ Len(s) = 1 /\ s[1].do = "expect"
  BY DEF Step, AStep
<1> HIDE DEF s
<1> QED
  BY <1>1 DEF Whole, Orderly, Outside, s

LEMMA CallsAreWhole ==
  /\ Whole(icm42670_init) /\ Whole(icm42670_read_raw_data)
  /\ \A f \in Field : Whole(icm42670_set(f))
<1>1. {"query", "flush", "reset", "upper", "lower"} \subseteq Transfers \ {"set"} /\ "none" \in Field \cup {"none"}
  BY DEF Transfers
<1>2. Whole(icm42670_get_mclk_rdy) /\ Whole(icm42670_flush_fifo) /\ Whole(icm42670_reset)
  BY <1>1, StepIs, OneTransfer DEF icm42670_get_mclk_rdy, icm42670_flush_fifo, icm42670_reset
<1>3. Whole(icm42670_read_raw_data)
  <2>1. /\ Step("upper") \in Seq(AStep) /\ Len(Step("upper")) = 1
        /\ Step("upper")[1] = [do |-> "upper", field |-> "none"]
        /\ Step("lower") \in Seq(AStep) /\ Len(Step("lower")) = 1
        /\ Step("lower")[1] = [do |-> "lower", field |-> "none"]
    <3>1. /\ "upper" \in Transfers \cup {"take", "give", "expect"}
          /\ "lower" \in Transfers \cup {"take", "give", "expect"}
          /\ "none" \in Field \cup {"none"} /\ "upper" # "set" /\ "lower" # "set"
      BY <1>1
    <3> QED
      BY <3>1, OneStep, StepIs
  <2>2. AfterGet(Step("upper")[1], Step("lower")[1])
    BY <2>1 DEF AfterGet
  <2> QED
    BY <1>1, <2>1, <2>2, TwoTransfers DEF icm42670_read_raw_data
<1>4. \A f \in Field : Whole(icm42670_set(f))
  <2>1. Whole(icm42670_set_accel_pwr_mode)
    BY RegisterCallsAreWhole, ConcatWhole DEF icm42670_set_accel_pwr_mode, Field
  <2> QED
    BY <2>1, RegisterCallsAreWhole DEF icm42670_set
<1>5. Whole(icm42670_init)
  <2>1. Whole(manipulate_register("idle"))
    BY RegisterCallsAreWhole DEF Field
  <2> QED
    BY <1>2, <2>1, ExpectIsWhole, ConcatWhole DEF icm42670_init, icm42670_get_mclk_rdy
<1> QED
  BY <1>3, <1>4, <1>5

-----------------------------------------------------------------------------
(* The invariant                                                           *)

\* The call under way is orderly from where it stands, and outside of it the
\* mutex is free or gone.
CallInv ==
  /\ Agrees(i2c)
  /\ Orderly(todo)
  /\ IF i2c.mutex = "held" THEN todo # <<>> /\ todo[1].do \in Inside
                           ELSE todo # <<>> => todo[1].do \in Outside
  /\ result \in {"ok", "fail", "busy"} /\ (result = "busy" <=> todo # <<>>)
  /\ at \in {"boot", "wait", "sample", "deleted"} => todo = <<>>
  /\ k \in 1 .. Len(Config) /\ addr \in Address

LEMMA EmptyIsOrderly == Orderly(<<>>)
BY EmptySeq DEF Orderly

\* A call that ends, and one that goes on to its next step.
LEMMA FailKeeps ==
  ASSUME CallInv, Fail, Agrees(i2c'), i2c'.mutex # "held", UNCHANGED <<at, k, addr>>
  PROVE  CallInv'
BY EmptyIsOrderly DEF Fail, CallInv

LEMMA DoneKeeps ==
  ASSUME CallInv, todo # <<>>, Done, UNCHANGED <<at, k, addr>>, Agrees(i2c'),
         i2c'.mutex = "held" <=> todo[1].do \in Transfers \cup {"take"}
  PROVE  CallInv'
<1>1. /\ Orderly(Tail(todo)) /\ Head(todo) = todo[1] /\ Head(todo) \in AStep
      /\ Head(todo).do \in Transfers \cup {"take"} => Tail(todo) # <<>> /\ Tail(todo)[1].do \in Inside
      /\ Head(todo).do \in {"give", "expect"} /\ Tail(todo) # <<>> => Tail(todo)[1].do \in Outside
  BY TailOrderly DEF CallInv
<1>2. Head(todo).do \in Transfers \cup {"take"} \/ Head(todo).do \in {"give", "expect"}
  BY <1>1 DEF AStep
<1>3. todo' = Tail(todo) /\ result' = IF Tail(todo) = <<>> THEN "ok" ELSE "busy"
  BY DEF Done
<1>4. at' \notin {"boot", "wait", "sample", "deleted"}
  BY DEF CallInv
<1> QED
  BY <1>1, <1>2, <1>3, <1>4 DEF CallInv

LEMMA SetUpsAgree ==
  ASSUME Agrees(i2c), NEW d \in SetUps
  PROVE  Agrees(d) /\ d.mutex = i2c.mutex
<1> DEFINE memory == IF good THEN {TRUE} ELSE BOOLEAN
<1>1. SetUps = {i2c_setup_device(i2c, b, h) : b \in memory, h \in memory}
  BY DEF SetUps
<1>2. memory \subseteq BOOLEAN
  OBVIOUS
<1> HIDE DEF memory
<1>3. PICK b \in memory, h \in memory : d = i2c_setup_device(i2c, b, h)
  BY <1>1
<1> QED
  BY <1>2, <1>3, SetUpAgrees

LEMMA FailedPassesAgree ==
  ASSUME Agrees(i2c), NEW p \in FailedPasses
  PROVE  Agrees(p.device) /\ p.device.mutex = i2c.mutex
<1>1. CASE \E u \in SetUps : p.device = u
  BY <1>1, SetUpsAgree
<1>2. CASE \E u \in SetUps : \E r \in Outcome(u) : p.device = Pass(u, r)
  BY <1>2, SetUpsAgree, PassAgrees
<1>3. (\E u \in SetUps : p.device = u) \/ (\E u \in SetUps : \E r \in Outcome(u) : p.device = Pass(u, r))
  BY DEF FailedPasses
<1> QED
  BY <1>1, <1>2, <1>3

\* A transfer happens with the mutex held, because it is inside.
LEMMA TransferHolds ==
  ASSUME CallInv, Transferring
  PROVE  /\ i2c.mutex = "held" /\ todo # <<>>
         /\ Head(todo) = todo[1] /\ todo[1].do \in Transfers
<1>1. Head(todo) = todo[1] /\ todo # <<>>
  BY TailOrderly DEF Transferring, CallInv
<1>2. todo[1].do \in Transfers /\ todo[1].do \notin Outside
  BY <1>1 DEF Transferring, Transfers, Outside
<1> QED
  BY <1>1, <1>2 DEF CallInv

LEMMA DriverKeeps ==
  ASSUME CallInv, DriverNext, UNCHANGED <<at, k, addr>>
  PROVE  CallInv'
<1>1. CASE Take
  <2>1. Head(todo) = todo[1] /\ todo # <<>> /\ todo[1].do = "take"
    BY <1>1, TailOrderly DEF Take, Doing, CallInv
  <2>2. CASE i2c.mutex = "free"
    BY <1>1, <2>1, <2>2, DoneKeeps, MutexAgrees DEF Take, CallInv
  <2>3. CASE i2c.mutex # "free"
    <3>1. i2c.mutex # "held"
      BY <2>1 DEF CallInv, Inside, Transfers
    <3> QED
      BY <1>1, <2>3, <3>1, FailKeeps DEF Take, CallInv
  <2> QED
    BY <2>2, <2>3
<1>2. CASE Give
  <2>1. Head(todo) = todo[1] /\ todo # <<>> /\ todo[1].do = "give"
    BY <1>2, TailOrderly DEF Give, Doing, CallInv
  <2> QED
    BY <1>2, <2>1, DoneKeeps, MutexAgrees DEF Give, CallInv, Transfers
<1>3. CASE Expect
  <2>1. Head(todo) = todo[1] /\ todo # <<>> /\ todo[1].do = "expect"
    BY <1>3, TailOrderly DEF Expect, Doing, CallInv
  <2>2. i2c.mutex # "held"
    BY <2>1 DEF CallInv, Inside, Transfers
  <2> QED
    BY <1>3, <2>1, <2>2, DoneKeeps, FailKeeps DEF Expect, CallInv, Transfers
<1>4. CASE Succeed
  <2>1. PICK d \in SetUps : "ok" \in Outcome(d) /\ i2c' = Pass(d, "ok")
    BY <1>4 DEF Succeed
  <2>2. Agrees(i2c') /\ i2c'.mutex = "held"
    BY <1>4, <2>1, SetUpsAgree, PassAgrees, TransferHolds DEF Succeed, CallInv
  <2> QED
    BY <1>4, <2>2, TransferHolds, DoneKeeps DEF Succeed
<1>5. CASE TryAgain
  <2>1. Agrees(i2c') /\ i2c'.mutex = "held"
    BY <1>5, FailedPassesAgree, TransferHolds DEF TryAgain, CallInv
  <2> QED
    BY <1>5, <2>1, TransferHolds DEF TryAgain, CallInv
<1>6. CASE GiveUp
  <2>1. PICK p \in FailedPasses : IF Doing("upper") THEN Done /\ i2c' = p.device ELSE FailLocked(p.device)
    BY <1>6 DEF GiveUp
  <2>2. Agrees(p.device) /\ p.device.mutex = "held"
    BY <1>6, FailedPassesAgree, TransferHolds DEF GiveUp, CallInv
  <2>3. CASE Doing("upper")
    BY <1>6, <2>1, <2>2, <2>3, TransferHolds, DoneKeeps DEF GiveUp
  <2>4. CASE ~Doing("upper")
    BY <2>1, <2>2, <2>4, MutexAgrees, FailKeeps DEF FailLocked
  <2> QED
    BY <2>3, <2>4
<1> QED
  BY <1>1, <1>2, <1>3, <1>4, <1>5, <1>6 DEF DriverNext

LEMMA CallStarts ==
  ASSUME NEW c, Whole(c), Call(c), Agrees(i2c'), i2c'.mutex # "held",
         at' \notin {"boot", "wait", "sample", "deleted"}, k' \in 1 .. Len(Config), addr' \in Address
  PROVE  CallInv'
BY DEF CallInv, Call, Whole

\* A descriptor that was freed and made anew starts as one of the other address.
LEMMA TryInitKeeps ==
  ASSUME NEW d, Agrees(d), NEW a \in Address, imu_try_init(d, a),
         at' \in {"search", "reinit"}, k' \in 1 .. Len(Config), addr' \in Address
  PROVE  CallInv'
<1> DEFINE freed == i2c_dev_delete_mutex(d)
<1>1. Freed(freed)
  BY DeleteAgrees DEF Freed
<1> HIDE DEF freed
<1>2. PICK memory \in BOOLEAN :
        /\ i2c' = Anew(freed, a, memory)
        /\ IF memory THEN Call(icm42670_init) ELSE Fail /\ UNCHANGED reg
  <2> DEFINE choices == IF good THEN {TRUE} ELSE BOOLEAN
  <2>1. choices \subseteq BOOLEAN
    OBVIOUS
  <2>2. \E memory \in choices :
          /\ i2c' = Anew(freed, a, memory)
          /\ IF memory THEN Call(icm42670_init) ELSE Fail /\ UNCHANGED reg
    BY Zenon DEF imu_try_init, freed, Anew
  <2> QED
    BY <2>1, <2>2, Zenon
<1>3. Agrees(i2c') /\ i2c'.mutex # "held"
  BY <1>1, <1>2, CreateAgrees
<1>4. CASE memory
  BY <1>2, <1>3, <1>4, CallStarts, CallsAreWhole
<1>5. CASE ~memory
  BY <1>2, <1>3, <1>5, EmptyIsOrderly DEF Fail, CallInv
<1> QED
  BY <1>4, <1>5

\* Between calls the mutex is not held.
LEMMA Between ==
  ASSUME CallInv, result # "busy"
  PROVE  todo = <<>> /\ i2c.mutex # "held"
BY DEF CallInv

LEMMA ReadKeeps ==
  ASSUME CallInv, result # "busy", NEW axis \in 1 .. 3, Read(axis), addr' \in Address
  PROVE  CallInv'
BY Between, CallStarts, CallsAreWhole DEF Read, CallInv, Config

LEMMA SetKeeps ==
  ASSUME CallInv, result # "busy", NEW f \in Field, Call(icm42670_set(f)), UNCHANGED i2c,
         at' \in {"config", "reapply"}, k' \in 1 .. Len(Config), addr' \in Address
  PROVE  CallInv'
<1>1. Whole(icm42670_set(f))
  BY CallsAreWhole
<1>2. Agrees(i2c') /\ i2c'.mutex # "held"
  BY Between DEF CallInv
<1> QED
  BY <1>1, <1>2, CallStarts

LEMMA ConfigIsFields ==
  /\ Len(Config) = 4
  /\ \A i \in 1 .. 4 : Config[i] \in Field
BY DEF Config, Field

LEMMA SetNextKeeps ==
  ASSUME CallInv, result # "busy", SetNext, at' \in {"config", "reapply"}, UNCHANGED addr
  PROVE  CallInv'
<1>1. k + 1 \in 1 .. Len(Config) /\ Config[k + 1] \in Field
  BY ConfigIsFields DEF SetNext, CallInv
<1> QED
  BY <1>1, SetKeeps DEF SetNext, CallInv

LEMMA TaskKeeps ==
  ASSUME CallInv, TaskNext
  PROVE  CallInv'
<1>1. CASE Boot
  <2>1. Agrees(Uninitialised(ADDR_GND)) /\ ADDR_GND \in Address
    BY UninitialisedAgrees
  <2> QED
    BY <1>1, <2>1, TryInitKeeps DEF Boot, CallInv
<1>2. CASE SearchOn
  <2>1. Other(i2c.addr) \in Address
    BY DEF Other
  <2> QED
    BY <1>2, <2>1, TryInitKeeps DEF SearchOn, taskVars, CallInv
<1>3. CASE DeleteTask
  BY <1>3, Between DEF DeleteTask, driverVars, CallInv
<1>4. CASE Found
  <2>1. i2c.addr \in Address
    BY DEF CallInv, Agrees, Device
  <2> QED
    BY <1>4, <2>1, ConfigIsFields, SetKeeps DEF Found
<1>5. CASE SetUpOn
  BY <1>5, SetNextKeeps DEF SetUpOn
<1>6. CASE SetUpEnds
  <2>1. CASE Read(1)
    BY <1>6, <2>1, ReadKeeps DEF SetUpEnds, CallInv
  <2>2. CASE at' = "wait" /\ UNCHANGED <<k, driverVars>>
    BY <1>6, <2>2, Between DEF SetUpEnds, driverVars, CallInv
  <2> QED
    BY <1>6, <2>1, <2>2 DEF SetUpEnds
<1>7. CASE Abort
  BY <1>7, UninitialisedAgrees, EmptyIsOrderly, ConfigIsFields DEF Abort, CallInv, Uninitialised
<1>8. CASE Connected
  BY <1>8, ReadKeeps DEF Connected, CallInv
<1>9. CASE ReadNext
  BY <1>9, ReadKeeps DEF ReadNext, CallInv
<1>10. CASE ReadAll
  BY <1>10, Between DEF ReadAll, driverVars, CallInv
<1>11. CASE UseSample
  BY <1>11, ReadKeeps DEF UseSample, CallInv
<1>12. CASE ReadFailed
  BY <1>12, ReadKeeps DEF ReadFailed, CallInv
<1>13. CASE Reinit
  <2>1. Agrees(i2c_dev_delete_mutex(i2c))
    BY DeleteAgrees DEF CallInv
  <2> QED
    BY <1>13, <2>1, TryInitKeeps DEF Reinit, CallInv
<1>14. CASE ReinitOther
  <2>1. Other(addr) \in Address
    BY DEF Other
  <2> QED
    BY <1>14, <2>1, TryInitKeeps DEF ReinitOther, taskVars, CallInv
<1>15. CASE Reapply
  <2>1. addr' \in Address
    BY <1>15 DEF Reapply, CallInv, Agrees, Device
  <2> QED
    BY <1>15, <2>1, ConfigIsFields, SetKeeps DEF Reapply
<1>16. CASE ReapplyOn
  BY <1>16, SetNextKeeps DEF ReapplyOn
<1>17. CASE ReapplyEnds
  BY <1>17, ReadKeeps DEF ReapplyEnds, CallInv
<1> QED
  BY <1>1, <1>2, <1>3, <1>4, <1>5, <1>6, <1>7, <1>8, <1>9, <1>10, <1>11, <1>12, <1>13, <1>14,
     <1>15, <1>16, <1>17 DEF TaskNext

LEMMA CallStep ==
  ASSUME CallInv, [Next]_vars
  PROVE  CallInv'
<1>1. CASE TaskNext
  BY <1>1, TaskKeeps
<1>2. CASE DriverNext /\ UNCHANGED <<taskVars, lab>>
  BY <1>2, DriverKeeps DEF taskVars
<1>3. CASE Disturb \/ UNCHANGED vars
  BY <1>3 DEF Disturb, vars, driverVars, taskVars, CallInv
<1> QED
  BY <1>1, <1>2, <1>3 DEF Next

LEMMA CallInit == Init => CallInv
BY UninitialisedAgrees, EmptyIsOrderly, ConfigIsFields DEF Init, CallInv, Uninitialised

LEMMA CallHolds == Spec => []CallInv
BY CallInit, CallStep, PTL DEF Spec

\* What i2cdev believes of the port stays what ESP-IDF has, through every
\* retry, every failed set-up and every new descriptor: the bus is made and
\* given up with its users, and never more than one handle is on it.
THEOREM DriverStaysInStep == Spec => []DriverAgrees
<1>1. CallInv => DriverAgrees
  BY DEF CallInv, Agrees, DriverAgrees
<1> QED
  BY <1>1, CallHolds, PTL

\* The address of a descriptor changes between two attempts to find the
\* sensor; no transfer uses a handle that was made for the other address.
THEOREM HandleServesItsAddress == Spec => []HandleIsForAddress
<1>1. CallInv => HandleIsForAddress
  BY DEF CallInv, Agrees, HandleIsForAddress
<1> QED
  BY <1>1, CallHolds, PTL

\* I2C_DEV_CHECK gives the mutex on every error path of the driver, so no
\* call returns with it held.
THEOREM MutexIsReturned == Spec => []MutexIsGivenBack
<1>1. CallInv => MutexIsGivenBack
  BY DEF CallInv, MutexIsGivenBack
<1> QED
  BY <1>1, CallHolds, PTL

-----------------------------------------------------------------------------
(* The task is a sample source                                             *)

\* The failures are counted while the sensor is read, and all of them are
\* there while it is repaired.
FailInv ==
  /\ at \in {"boot", "search", "config", "wait", "read", "sample", "reinit", "reapply", "deleted"}
  /\ at \in {"boot", "search", "config", "wait", "deleted"} => consecutive_fail = 0
  /\ at \in {"read", "sample"} => consecutive_fail \in 0 .. FailureLimit - 1
  /\ at \in {"reinit", "reapply"} => consecutive_fail = FailureLimit

\* Every step of the task is a step of the source, or does not show; in
\* particular the failures that start a repair have no sample between them.
LEMMA TaskIsSource ==
  ASSUME FailInv, TaskNext
  PROVE  FailInv' /\ [Source!Next]_Source!vars
<1> USE DEF FailInv, FailureLimit, Source!vars
<1>1. CASE Boot \/ SearchOn \/ Found \/ SetUpOn \/ Abort
  BY <1>1 DEF Boot, SearchOn, Found, SetUpOn, Abort, taskVars
<1>2. CASE DeleteTask
  BY <1>2 DEF DeleteTask, Source!Next, Source!Stop
<1>3. CASE SetUpEnds
  BY <1>3 DEF SetUpEnds, Read, Source!Next, Source!Start
<1>4. CASE Connected
  BY <1>4 DEF Connected, Read, Source!Next, Source!Start
<1>5. CASE ReadNext
  BY <1>5 DEF ReadNext, Read
<1>6. CASE ReadAll
  BY <1>6 DEF ReadAll, Source!Next, Source!Get
<1>7. CASE UseSample
  BY <1>7 DEF UseSample, Read, Source!Next, Source!Use
<1>8. CASE ReadFailed
  BY <1>8 DEF ReadFailed, Read, Source!Next, Source!Miss
<1>9. CASE Reinit
  BY <1>9 DEF Reinit, Source!Next, Source!Repair
<1>10. CASE ReinitOther \/ Reapply \/ ReapplyOn
  BY <1>10 DEF ReinitOther, Reapply, ReapplyOn, taskVars
<1>11. CASE ReapplyEnds
  BY <1>11 DEF ReapplyEnds, Read, Source!Next, Source!Repaired
<1> QED
  BY <1>1, <1>2, <1>3, <1>4, <1>5, <1>6, <1>7, <1>8, <1>9, <1>10, <1>11 DEF TaskNext

LEMMA SourceStep ==
  ASSUME FailInv, [Next]_vars
  PROVE  FailInv' /\ [Source!Next]_Source!vars
<1>1. CASE TaskNext
  BY <1>1, TaskIsSource
<1>2. CASE UNCHANGED taskVars
  BY <1>2 DEF taskVars, FailInv, Source!vars
<1> QED
  BY <1>1, <1>2 DEF Next, Disturb, vars

LEMMA SourceInit == Init => FailInv /\ Source!Init
BY DEF Init, FailInv, Source!Init

\* The loops of labs 4.1 and 4.3 implement the sample source: every attempt
\* ends in a sample or a failure, FailureLimit failures with no sample in
\* between and nothing else start the recovery, and only a search stops.
THEOREM LoopImplementsSource == Spec => Source!Init /\ [][Source!Next]_Source!vars
<1>1. FailInv /\ [Next]_vars => FailInv'
  BY SourceStep
<1>2. FailInv /\ [Next]_vars => [Source!Next]_Source!vars
  BY SourceStep
<1> QED
  BY <1>1, <1>2, SourceInit, PTL DEF Spec

-----------------------------------------------------------------------------
(* Types                                                                   *)

\* What CallInv and FailInv do not bound; what is written to a register was read
\* from one.
Bounded ==
  /\ retry \in 0 .. I2C_MAX_RETRIES
  /\ reg \subseteq Field \cup {"answer"}
  /\ todo # <<>> /\ todo[1].do = "set" => reg \subseteq Field
  /\ home \in Home /\ settings \subseteq Field
  /\ lab \in Lab

LEMMA WrittenIsFields ==
  ASSUME Bounded, CallInv, Transferring
  PROVE  Written(Head(todo)) \subseteq Field
<1>1. Head(todo) = todo[1] /\ Head(todo) \in AStep
  BY TailOrderly DEF Transferring, CallInv
<1>2. CASE Head(todo).do = "set"
  <2>1. reg \subseteq Field /\ Head(todo).field \in Field
    BY <1>1, <1>2 DEF Bounded, AStep, Transferring
  <2> QED
    BY <1>2, <2>1 DEF Written, Bounded
<1>3. CASE Head(todo).do # "set"
  BY <1>3 DEF Written, Bounded
<1> QED
  BY <1>2, <1>3

\* After any step but the reading of a register, no field is set.
LEMMA SetIsNotNext ==
  ASSUME CallInv, todo # <<>>, Head(todo).do # "get", Done, todo' # <<>>
  PROVE  todo'[1].do # "set"
BY TailOrderly DEF CallInv, Done, AfterGet

LEMMA DriverBounded ==
  ASSUME Bounded, CallInv, DriverNext, UNCHANGED <<taskVars, lab>>
  PROVE  Bounded'
<1> USE DEF Bounded, I2C_MAX_RETRIES
<1>1. CASE Take \/ Give \/ Expect
  <2>1. todo # <<>> /\ Head(todo).do # "get"
    BY <1>1 DEF Take, Give, Expect, Doing
  <2>2. Done \/ Fail
    BY <1>1 DEF Take, Give, Expect
  <2>3. todo' # <<>> => todo'[1].do # "set"
    BY <2>1, <2>2, SetIsNotNext DEF Fail
  <2> QED
    BY <1>1, <2>2, <2>3 DEF Take, Give, Expect, Done, Fail, sensorVars
<1>2. CASE Succeed
  <2>1. reg' \subseteq Field \cup {"answer"} /\ (Head(todo).do = "get" => reg' \subseteq Field)
    BY <1>2 DEF Succeed, Values
  <2>2. settings' \subseteq Field
    BY <1>2, WrittenIsFields DEF Succeed
  <2>3. todo' # <<>> /\ todo'[1].do = "set" => reg' \subseteq Field
    BY <1>2, <2>1, SetIsNotNext DEF Succeed, Transferring
  <2> QED
    BY <1>2, <2>1, <2>2, <2>3 DEF Succeed, Done
<1>3. ASSUME Transferring, NEW p \in FailedPasses
      PROVE  p.settings \subseteq Field
  <2>1. p.settings = settings \/ p.settings = Written(Head(todo))
    BY <1>3 DEF FailedPasses
  <2> QED
    BY <1>3, <2>1, WrittenIsFields
<1>4. CASE TryAgain
  BY <1>3, <1>4 DEF TryAgain, RetriesAreLeft
<1>5. CASE GiveUp
  <2>1. settings' \subseteq Field
    BY <1>3, <1>5 DEF GiveUp
  <2>2. retry' = 0 /\ UNCHANGED <<reg, home>>
    BY <1>5 DEF GiveUp, Done, Fail, FailLocked
  <2>3. todo' # <<>> => todo'[1].do # "set"
    <3>1. CASE Doing("upper")
      BY <1>5, <3>1, SetIsNotNext DEF GiveUp, Doing
    <3>2. CASE ~Doing("upper")
      BY <1>5, <3>2 DEF GiveUp, Fail, FailLocked
    <3> QED
      BY <3>1, <3>2
  <2> QED
    BY <2>1, <2>2, <2>3
<1> QED
  BY <1>1, <1>2, <1>4, <1>5 DEF DriverNext

LEMMA TaskBounded ==
  ASSUME Bounded, CallInv, TaskNext, UNCHANGED <<sensorVars, good, lab>>
  PROVE  Bounded'
<1> USE DEF Bounded, I2C_MAX_RETRIES, sensorVars
<1>1. ASSUME NEW c, Call(c)
      PROVE  retry' = 0 /\ reg' = {}
  BY <1>1 DEF Call
<1>2. ASSUME NEW d, NEW a, imu_try_init(d, a)
      PROVE  retry' = 0 /\ (reg' = {} \/ (todo' = <<>> /\ reg' = reg))
  <2>1. Call(icm42670_init) \/ (Fail /\ UNCHANGED reg)
    BY <1>2, Zenon DEF imu_try_init
  <2> QED
    BY <2>1 DEF Call, Fail
<1>3. CASE Boot \/ SearchOn \/ Reinit \/ ReinitOther
  BY <1>2, <1>3 DEF Boot, SearchOn, Reinit, ReinitOther
<1>4. CASE DeleteTask \/ ReadAll \/ Abort
  BY <1>4 DEF DeleteTask, ReadAll, Abort, driverVars
<1>5. CASE Found \/ Reapply
  BY <1>1, <1>5 DEF Found, Reapply
<1>6. CASE SetUpOn \/ ReapplyOn
  BY <1>1, <1>6 DEF SetUpOn, ReapplyOn, SetNext
<1>7. CASE SetUpEnds \/ ReapplyEnds
  BY <1>1, <1>7 DEF SetUpEnds, ReapplyEnds, Read, driverVars
<1>8. CASE Connected \/ ReadNext \/ UseSample \/ ReadFailed
  BY <1>1, <1>8 DEF Connected, ReadNext, UseSample, ReadFailed, Read
<1> QED
  BY <1>3, <1>4, <1>5, <1>6, <1>7, <1>8 DEF TaskNext

LEMMA BoundedStep ==
  ASSUME Bounded, CallInv, [Next]_vars
  PROVE  Bounded'
<1>1. CASE Disturb /\ UNCHANGED lab
  BY <1>1 DEF Disturb, Bounded, driverVars, sensorVars
<1>2. CASE UNCHANGED vars
  BY <1>2 DEF vars, Bounded, driverVars, sensorVars
<1> QED
  BY <1>1, <1>2, DriverBounded, TaskBounded DEF Next

LEMMA BoundedInit == Init => Bounded
BY DEF Init, Bounded, I2C_MAX_RETRIES

Flags == unset \in BOOLEAN /\ good \in BOOLEAN

LEMMA FlagsInit == Init => Flags
<1> SUFFICES ASSUME Init PROVE Flags
  OBVIOUS
<1>1. unset = FALSE /\ good \in BOOLEAN
  BY Zenon DEF Init
<1> QED
  BY <1>1, Zenon DEF Flags

LEMMA FlagsStep ==
  ASSUME Flags, [Next]_vars
  PROVE  Flags'
<1> USE DEF Flags
<1>1. CASE TaskNext /\ UNCHANGED <<sensorVars, good, lab>>
  <2>1. \/ unset' = FALSE \/ unset' = unset
        \/ unset' = (unset \/ result = "fail")
    BY <1>1, Zenon
       DEF TaskNext, Boot, SearchOn, DeleteTask, Found, SetUpOn, SetUpEnds, CheckSetting, Abort,
           Connected, ReadNext, ReadAll, UseSample, ReadFailed, Reinit, ReinitOther, Reapply,
           ReapplyOn, ReapplyEnds, taskVars
  <2>2. good' = good
    BY <1>1
  <2> QED
    BY <2>1, <2>2, Zenon
<1>2. CASE DriverNext /\ UNCHANGED <<taskVars, lab>>
  <2>1. good' = good
    BY <1>2, Zenon DEF DriverNext, Take, Give, Expect, Succeed, TryAgain, GiveUp
  <2> QED
    BY <1>2, <2>1, Zenon DEF taskVars
<1>3. CASE Disturb
  BY <1>3, Zenon DEF Disturb, taskVars
<1>4. CASE UNCHANGED vars
  BY <1>4, Zenon DEF vars, taskVars
<1> QED
  BY <1>1, <1>2, <1>3, <1>4 DEF Next

LEMMA SoundType ==
  ASSUME CallInv, FailInv, Bounded, Flags
  PROVE  TypeOK
<1>1. I2cTypeOK
  BY DEF CallInv, Agrees, Device, Bounded, I2cTypeOK
<1>2. todo \in Seq([do : Transfers \cup {"take", "give", "expect"}, field : Field \cup {"none"}])
  <2> DEFINE R == [do : Transfers \cup {"take", "give", "expect"}, field : Field \cup {"none"}]
  <2>1. AStep \subseteq R /\ todo \in Seq(AStep)
    BY DEF AStep, CallInv, Orderly
  <2> HIDE DEF R
  <2>2. todo \in Seq(R)
    BY <2>1
  <2> QED
    BY <2>2 DEF R
<1>3. Icm42670TypeOK
  BY <1>1, <1>2 DEF CallInv, Bounded, Flags, Icm42670TypeOK
<1> QED
  BY <1>3 DEF CallInv, FailInv, FailureLimit, Bounded, Flags, TypeOK

\* Every variable of the loop keeps its type: the count of failures stays
\* within its limit and the retries within theirs, and ref_count within the
\* bound, with room for the next handle.
THEOREM TypeCorrect == Spec => []TypeOK
<1>1. Spec => []FailInv
  BY SourceInit, SourceStep, PTL DEF Spec
<1>2. Spec => []Bounded
  BY BoundedInit, BoundedStep, CallHolds, PTL DEF Spec
<1>3. Spec => []Flags
  BY FlagsInit, FlagsStep, PTL DEF Spec
<1>4. CallInv /\ FailInv /\ Bounded /\ Flags => TypeOK
  BY SoundType
<1> QED
  BY <1>1, <1>2, <1>3, <1>4, CallHolds, PTL

-----------------------------------------------------------------------------
(* The settings: the sensor that is read is set up as the lab asked.       *)
(* Between a reset of the sensor and its first sample every setting is     *)
(* made, and no setting undoes another one that shares its register.       *)
(* First, what a call consists of                                                 *)

Asked == {"fsr", "avg", "odr", "mode"}

Sets(f) == [do |-> "set", field |-> f]

\* A call that sets f and nothing else, and one that sets nothing.
OnlySets(t, f) == \A x \in Range(t) : x.do # "reset" /\ (x.do = "set" => x.field = f)
Quiet(t) == \A x \in Range(t) : x.do \notin {"reset", "set"}

LEMMA RangeOfStep ==
  ASSUME NEW w \in Transfers \cup {"take", "give", "expect"}, NEW f \in Field \cup {"none"},
         w = "set" => f \in Field
  PROVE  StepOn(w, f) \in Seq(AStep) /\ Range(StepOn(w, f)) = {[do |-> w, field |-> f]}
<1>1. /\ StepOn(w, f) \in Seq(AStep) /\ Len(StepOn(w, f)) = 1
      /\ StepOn(w, f)[1] = [do |-> w, field |-> f]
  BY OneStep
<1>2. Range(StepOn(w, f)) = {StepOn(w, f)[i] : i \in 1 .. Len(StepOn(w, f))}
  BY <1>1, RangeEquality, Zenon
<1>3. 1 .. 1 = {1}
  OBVIOUS
<1> QED
  BY <1>1, <1>2, <1>3

LEMMA RangeOfBoth ==
  ASSUME NEW s, NEW t, s \in Seq(AStep) /\ t \in Seq(AStep)
  PROVE  s \o t \in Seq(AStep) /\ Range(s \o t) = Range(s) \cup Range(t)
<1>1. s \o t \in Seq(AStep)
  BY ConcatProperties
<1>2. Range(s \o t) = Range(s) \cup Range(t)
  BY RangeConcatenation
<1> QED
  BY <1>1, <1>2

LEMMA RangeOfLocked ==
  ASSUME NEW s \in Seq(AStep)
  PROVE  /\ Locked(s) \in Seq(AStep)
         /\ \A x \in Range(Locked(s)) : x \in Range(s) \/ x.do \in {"take", "give"}
         /\ Range(s) \subseteq Range(Locked(s))
<1> DEFINE a == Step("take")
           z == Step("give")
<1>1. /\ a \in Seq(AStep) /\ Range(a) = {[do |-> "take", field |-> "none"]}
      /\ z \in Seq(AStep) /\ Range(z) = {[do |-> "give", field |-> "none"]}
  BY RangeOfStep, StepIs
<1> HIDE DEF a, z
<1>2. s \in Seq(AStep)
  OBVIOUS
<1>3. a \o s \in Seq(AStep) /\ Range(a \o s) = Range(a) \cup Range(s)
  BY <1>1, <1>2, RangeOfBoth
<1>4. (a \o s) \o z \in Seq(AStep) /\ Range((a \o s) \o z) = Range(a \o s) \cup Range(z)
  BY <1>1, <1>3, RangeOfBoth
<1>5. Locked(s) = (a \o s) \o z
  BY DEF Locked, a, z
<1> QED
  BY <1>1, <1>3, <1>4, <1>5

LEMMA RegisterCallsSet ==
  ASSUME NEW f \in Field, NEW g \in Field
  PROVE  /\ read_register(f) \in Seq(AStep) /\ OnlySets(read_register(f), g)
         /\ manipulate_register(f) \in Seq(AStep) /\ OnlySets(manipulate_register(f), f)
         /\ Sets(f) \in Range(manipulate_register(f))
<1> DEFINE get == StepOn("get", f)
           set == StepOn("set", f)
<1>1. /\ get \in Seq(AStep) /\ Range(get) = {[do |-> "get", field |-> f]}
      /\ set \in Seq(AStep) /\ Range(set) = {Sets(f)}
  <2>1. /\ "get" \in Transfers \cup {"take", "give", "expect"}
        /\ "set" \in Transfers \cup {"take", "give", "expect"} /\ f \in Field \cup {"none"}
    BY DEF Transfers
  <2> QED
    BY <2>1, RangeOfStep DEF Sets
<1> HIDE DEF get, set
<1>2. get \o set \in Seq(AStep) /\ Range(get \o set) = Range(get) \cup Range(set)
  BY <1>1, RangeOfBoth
<1>3. /\ Locked(get) \in Seq(AStep)
      /\ \A x \in Range(Locked(get)) : x \in Range(get) \/ x.do \in {"take", "give"}
      /\ Locked(get \o set) \in Seq(AStep)
      /\ \A x \in Range(Locked(get \o set)) : x \in Range(get \o set) \/ x.do \in {"take", "give"}
      /\ Range(get \o set) \subseteq Range(Locked(get \o set))
  BY <1>1, <1>2, RangeOfLocked
<1>4. read_register(f) = Locked(get) /\ manipulate_register(f) = Locked(get \o set)
  BY DEF read_register, manipulate_register, get, set
<1>5. OnlySets(Locked(get), g)
  BY <1>1, <1>3 DEF OnlySets
<1>6. OnlySets(Locked(get \o set), f) /\ Sets(f) \in Range(Locked(get \o set))
  <2>1. \A x \in Range(get \o set) : x.do # "reset" /\ (x.do = "set" => x.field = f)
    BY <1>1, <1>2 DEF Sets
  <2>2. Sets(f) \in Range(get \o set)
    BY <1>1, <1>2
  <2> QED
    BY <1>3, <2>1, <2>2 DEF OnlySets
<1> QED
  BY <1>3, <1>4, <1>5, <1>6

\* Each of the four calls sets its field, and no other; a reading sets none.
LEMMA CallSets ==
  ASSUME NEW f \in Asked
  PROVE  OnlySets(icm42670_set(f), f) /\ Sets(f) \in Range(icm42670_set(f))
<1>1. f \in Field /\ "mode" \in Field /\ "odr" \in Field /\ "avg" \in Field
  BY DEF Asked, Field
<1>2. CASE f # "mode"
  BY <1>1, <1>2, RegisterCallsSet DEF icm42670_set
<1>3. CASE f = "mode"
  <2> DEFINE o == read_register("odr")
             a == read_register("avg")
             m == manipulate_register("mode")
  <2>1. /\ o \in Seq(AStep) /\ OnlySets(o, f) /\ a \in Seq(AStep) /\ OnlySets(a, f)
        /\ m \in Seq(AStep) /\ OnlySets(m, f) /\ Sets(f) \in Range(m)
    BY <1>1, <1>3, RegisterCallsSet
  <2> HIDE DEF o, a, m
  <2>2. o \o a \in Seq(AStep) /\ Range(o \o a) = Range(o) \cup Range(a)
    BY <2>1, RangeOfBoth
  <2>3. Range((o \o a) \o m) = Range(o \o a) \cup Range(m)
    BY <2>1, <2>2, RangeOfBoth
  <2>4. icm42670_set(f) = (o \o a) \o m
    BY <1>3 DEF icm42670_set, icm42670_set_accel_pwr_mode, o, a, m
  <2> QED
    BY <2>1, <2>2, <2>3, <2>4 DEF OnlySets
<1> QED
  BY <1>2, <1>3

LEMMA ReadingIsQuiet == Quiet(icm42670_read_raw_data)
<1> DEFINE u == Step("upper")
           l == Step("lower")
<1>1. /\ u \in Seq(AStep) /\ Range(u) = {[do |-> "upper", field |-> "none"]}
      /\ l \in Seq(AStep) /\ Range(l) = {[do |-> "lower", field |-> "none"]}
  <2>1. /\ "upper" \in Transfers \cup {"take", "give", "expect"} /\ "upper" # "set"
        /\ "lower" \in Transfers \cup {"take", "give", "expect"} /\ "lower" # "set"
        /\ "none" \in Field \cup {"none"}
    BY DEF Transfers
  <2> QED
    BY <2>1, RangeOfStep, StepIs
<1> HIDE DEF u, l
<1>2. u \o l \in Seq(AStep) /\ Range(u \o l) = Range(u) \cup Range(l)
  BY <1>1, RangeOfBoth
<1>3. \A x \in Range(Locked(u \o l)) : x \in Range(u \o l) \/ x.do \in {"take", "give"}
  BY <1>2, RangeOfLocked
<1>4. Quiet(Locked(u \o l))
  BY <1>1, <1>2, <1>3 DEF Quiet
<1> QED
  BY <1>4 DEF icm42670_read_raw_data, u, l

LEMMA RangeOfTail ==
  ASSUME NEW t \in Seq(AStep), t # <<>>
  PROVE  Range(t) = {Head(t)} \cup Range(Tail(t))
<1>1. Len(t) \in Nat /\ Len(t) >= 1
  BY LenProperties, EmptySeq
<1>2. /\ Tail(t) \in Seq(AStep) /\ Len(Tail(t)) = Len(t) - 1 /\ Head(t) = t[1]
      /\ \A i \in 1 .. Len(Tail(t)) : Tail(t)[i] = t[i + 1]
  BY <1>1, HeadTailProperties
<1>3. Range(t) = {t[i] : i \in 1 .. Len(t)}
  BY RangeEquality
<1>4. Range(Tail(t)) = {Tail(t)[i] : i \in 1 .. Len(Tail(t))}
  BY <1>2, RangeEquality, ZenonT(120)
<1>5. ASSUME NEW i \in 1 .. Len(t)
      PROVE  t[i] \in {Head(t)} \cup Range(Tail(t))
  <2>1. CASE i = 1
    BY <1>2, <2>1
  <2>2. CASE i # 1
    <3>1. i - 1 \in 1 .. Len(Tail(t)) /\ (i - 1) + 1 = i
      BY <1>1, <1>2, <2>2
    <3> QED
      BY <1>2, <1>4, <3>1
  <2> QED
    BY <2>1, <2>2
<1>6. ASSUME NEW i \in 1 .. Len(Tail(t))
      PROVE  Tail(t)[i] \in Range(t)
  <2>1. i + 1 \in 1 .. Len(t)
    BY <1>1, <1>2
  <2> QED
    BY <1>2, <1>3, <2>1
<1>7. Head(t) \in Range(t)
  BY <1>1, <1>2, <1>3
<1> QED
  BY <1>3, <1>4, <1>5, <1>6, <1>7

-----------------------------------------------------------------------------
(* The invariant                                                           *)

\* The first n settings are made.
Made(n) == \A i \in 1 .. n : Config[i] \in settings

Pends(f) == f \in settings \/ Sets(f) \in Range(todo)

\* What is written back with a field is what the register held.
ReadBack ==
  todo # <<>> /\ todo[1].do = "set" =>
    settings \cap Shared(todo[1].field) \subseteq reg \cup {todo[1].field}

\* The settings made so far stay made, and the one under way is made or will be.
UnderWay ==
  /\ OnlySets(todo, Config[k])
  /\ result # "fail" => Pends(Config[k])
  /\ ~unset => Made(k - 1)

SetUp == Quiet(todo) /\ (~unset => Made(4))

ConfigInv ==
  /\ ReadBack
  /\ at \in {"config", "reapply"} => UnderWay
  /\ at \in {"wait", "read", "sample"} => SetUp

LEMMA ConfigIsAsked ==
  /\ Len(Config) = 4
  /\ \A i \in 1 .. 4 : Config[i] \in Asked
BY DEF Config, Asked

\* A write takes no setting back, and makes its own.
LEMMA WrittenGrows ==
  ASSUME Transferring, ReadBack, CallInv, Head(todo).do # "reset"
  PROVE  /\ settings \subseteq Written(Head(todo))
         /\ Head(todo).do = "set" => Head(todo).field \in Written(Head(todo))
<1>1. Head(todo) = todo[1] /\ todo # <<>>
  BY TailOrderly DEF Transferring, CallInv
<1> QED
  BY <1>1 DEF Written, ReadBack

LEMMA WrittenReadsBack ==
  ASSUME Transferring, CallInv, Head(todo).do = "set"
  PROVE  Written(Head(todo)) \cap Shared(Head(todo).field) \subseteq reg \cup {Head(todo).field}
BY DEF Written

\* How a step of a call moves on: it repeats, goes to the next step or fails;
\* the settings change as the step says, if at all.
Moves ==
  /\ settings' = settings \/ (Transferring /\ settings' = Written(Head(todo)))
  /\ \/ UNCHANGED <<todo, result, reg>>
     \/ Done /\ todo # <<>> /\ (Transferring /\ Head(todo).do = "set" => settings' = Written(Head(todo)))
        /\ (Head(todo).do = "get" => settings' = settings /\ reg' = settings \cap Shared(Head(todo).field))
     \/ Fail

LEMMA DriverMoves ==
  ASSUME DriverNext
  PROVE  Moves
<1>1. CASE Take \/ Give \/ Expect
  <2>1. todo # <<>> /\ Head(todo).do \in {"take", "give", "expect"} /\ settings' = settings /\ (Done \/ Fail)
    BY <1>1 DEF Take, Give, Expect, Doing, sensorVars
  <2> QED
    BY <2>1 DEF Moves, Transferring, Transfers
<1>2. CASE Succeed
  <2>1. Head(todo).do = "get" => Written(Head(todo)) = settings
    BY DEF Written
  <2>2. Head(todo).do = "get" => reg' = settings \cap Shared(Head(todo).field)
    BY <1>2 DEF Succeed, Values
  <2> QED
    BY <1>2, <2>1, <2>2 DEF Succeed, Moves, Transferring
<1>3. ASSUME Transferring, NEW p \in FailedPasses
      PROVE  p.settings = settings \/ p.settings = Written(Head(todo))
  BY <1>3 DEF FailedPasses
<1>4. CASE TryAgain
  BY <1>3, <1>4 DEF TryAgain, Moves
<1>5. CASE GiveUp
  <2>1. settings' = settings \/ (Transferring /\ settings' = Written(Head(todo)))
    BY <1>3, <1>5 DEF GiveUp
  <2>2. CASE Doing("upper")
    BY <1>5, <2>1, <2>2 DEF GiveUp, Doing, Moves
  <2>3. CASE ~Doing("upper")
    BY <1>5, <2>1, <2>3 DEF GiveUp, FailLocked, Moves
  <2> QED
    BY <2>2, <2>3
<1> QED
  BY <1>1, <1>2, <1>4, <1>5 DEF DriverNext

LEMMA ReadBackStays ==
  ASSUME ReadBack, CallInv, Moves
  PROVE  ReadBack'
<1>1. CASE UNCHANGED <<todo, result, reg>>
  <2>1. todo # <<>> => Head(todo) = todo[1]
    BY TailOrderly DEF CallInv
  <2> QED
    BY <1>1, <2>1, WrittenReadsBack DEF ReadBack, Moves
<1>2. CASE Done /\ todo # <<>> /\ (Head(todo).do = "get" => settings' = settings /\ reg' = settings \cap Shared(Head(todo).field))
  <2>1. todo' # <<>> => AfterGet(Head(todo), todo'[1])
    BY <1>2, TailOrderly DEF CallInv, Done
  <2> QED
    BY <1>2, <2>1 DEF ReadBack, AfterGet
<1>3. CASE Fail
  BY <1>3 DEF Fail, ReadBack
<1> QED
  BY <1>1, <1>2, <1>3 DEF Moves

LEMMA RangeShrinks ==
  ASSUME CallInv, Moves
  PROVE  Range(todo') \subseteq Range(todo)
<1>1. todo \in Seq(AStep)
  BY DEF CallInv, Orderly
<1>2. CASE Done /\ todo # <<>>
  BY <1>1, <1>2, RangeOfTail DEF Done
<1>3. CASE Fail
  BY <1>3 DEF Fail, Range
<1> QED
  BY <1>2, <1>3 DEF Moves

LEMMA NoneLost ==
  ASSUME CallInv, Moves, ReadBack, \A x \in Range(todo) : x.do # "reset"
  PROVE  settings \subseteq settings'
<1>1. CASE Transferring
  <2>1. Head(todo) \in Range(todo)
    BY <1>1, RangeOfTail DEF CallInv, Orderly, Transferring
  <2> QED
    BY <1>1, <2>1, WrittenGrows DEF Moves
<1>2. CASE ~Transferring
  BY <1>2 DEF Moves
<1> QED
  BY <1>1, <1>2

LEMMA PendingIsMade ==
  ASSUME CallInv, Moves, ReadBack, OnlySets(todo, Config[k]), Pends(Config[k]), result' # "fail", UNCHANGED k
  PROVE  Pends(Config[k])'
<1>1. settings \subseteq settings'
  BY NoneLost DEF OnlySets
<1>2. CASE Sets(Config[k]) \in Range(todo) /\ Done /\ todo # <<>> /\ (Transferring /\ Head(todo).do = "set" => settings' = Written(Head(todo)))
  <2>1. CASE Head(todo) = Sets(Config[k])
    <3>1. Transferring /\ Head(todo).do = "set" /\ Head(todo).field = Config[k]
      BY <1>2, <2>1 DEF Transferring, Transfers, Sets
    <3>2. Config[k] \in settings'
      BY <1>2, <3>1, WrittenGrows
    <3> QED
      BY <3>2 DEF Pends
  <2>2. CASE Head(todo) # Sets(Config[k])
    <3>1. Sets(Config[k]) \in Range(Tail(todo))
      BY <1>2, <2>2, RangeOfTail DEF CallInv, Orderly
    <3> QED
      BY <1>2, <3>1 DEF Pends, Done
  <2> QED
    BY <2>1, <2>2
<1>3. CASE Config[k] \in settings
  BY <1>1, <1>3 DEF Pends
<1>4. CASE UNCHANGED <<todo, result, reg>>
  BY <1>1, <1>4 DEF Pends
<1>5. ~Fail
  BY DEF Fail
<1> QED
  BY <1>2, <1>3, <1>4, <1>5 DEF Moves, Pends

LEMMA DriverKeepsSettings ==
  ASSUME ConfigInv, CallInv, DriverNext, UNCHANGED <<taskVars, lab>>
  PROVE  ConfigInv'
<1>1. Moves
  BY DriverMoves
<1>2. ReadBack'
  BY <1>1, ReadBackStays DEF ConfigInv
<1>3. Range(todo') \subseteq Range(todo)
  BY <1>1, RangeShrinks
<1>4. UNCHANGED <<at, k, unset>>
  BY DEF taskVars
<1>5. CASE at \in {"config", "reapply"}
  <2>1. UnderWay
    BY <1>5 DEF ConfigInv
  <2>2. OnlySets(todo', Config[k])
    BY <1>3, <2>1 DEF UnderWay, OnlySets
  <2>3. settings \subseteq settings'
    BY <1>1, <2>1, NoneLost DEF UnderWay, OnlySets, ConfigInv
  <2>4. result # "fail"
    BY DEF DriverNext, Take, Give, Expect, Succeed, TryAgain, GiveUp, Doing, Transferring, CallInv
  <2>5. result' # "fail" => Pends(Config[k])'
    BY <1>1, <1>4, <2>1, <2>4, PendingIsMade DEF UnderWay, ConfigInv
  <2>6. Made(k - 1) => Made(k - 1)'
    BY <1>4, <2>3 DEF Made
  <2>7. UnderWay'
    BY <1>4, <2>1, <2>2, <2>5, <2>6 DEF UnderWay
  <2> QED
    BY <1>2, <1>4, <1>5, <2>7 DEF ConfigInv
<1>6. CASE at \in {"wait", "read", "sample"}
  <2>1. SetUp
    BY <1>6 DEF ConfigInv
  <2>2. settings \subseteq settings'
    BY <1>1, <2>1, NoneLost DEF SetUp, Quiet, ConfigInv
  <2>3. SetUp'
    BY <1>3, <1>4, <2>1, <2>2 DEF SetUp, Quiet, Made
  <2> QED
    BY <1>2, <1>4, <1>6, <2>3 DEF ConfigInv
<1>7. CASE at \notin {"config", "reapply", "wait", "read", "sample"}
  BY <1>2, <1>4, <1>7 DEF ConfigInv
<1> QED
  BY <1>5, <1>6, <1>7

-----------------------------------------------------------------------------
(* The task's steps                                                        *)

\* A new call sets nothing at once.
LEMMA CallReadsBack ==
  ASSUME NEW c, Whole(c), Call(c)
  PROVE  ReadBack'
<1>1. todo' # <<>> /\ todo'[1].do # "set"
  BY DEF Call, Whole, Outside
<1> QED
  BY <1>1 DEF ReadBack

LEMMA SettingStarts ==
  ASSUME NEW n \in 1 .. 4, Call(icm42670_set(Config[n])), k' = n,
         ~unset' => \A i \in 1 .. n - 1 : Config[i] \in settings'
  PROVE  ReadBack' /\ UnderWay'
<1>1. Config[n] \in Asked /\ Config[n] \in Field
  BY ConfigIsAsked DEF Asked, Field
<1>2. Whole(icm42670_set(Config[n]))
  BY <1>1, CallsAreWhole
<1>3. OnlySets(icm42670_set(Config[n]), Config[n]) /\ Sets(Config[n]) \in Range(icm42670_set(Config[n]))
  BY <1>1, CallSets
<1>4. todo' = icm42670_set(Config[n])
  BY DEF Call
<1>5. UnderWay'
  BY <1>3, <1>4 DEF UnderWay, Pends, Made
<1> QED
  BY <1>2, <1>5, CallReadsBack

LEMMA ReadingStarts ==
  ASSUME NEW axis, Read(axis), UNCHANGED settings, ~unset' => Made(4)
  PROVE  ConfigInv'
<1>1. Call(icm42670_read_raw_data) /\ at' = "read"
  BY DEF Read
<1>2. ReadBack'
  BY <1>1, CallsAreWhole, CallReadsBack
<1>3. SetUp'
  BY <1>1, ReadingIsQuiet DEF Call, SetUp, Made
<1> QED
  BY <1>1, <1>2, <1>3 DEF ConfigInv

LEMMA InitReadsBack ==
  ASSUME NEW d, NEW a, imu_try_init(d, a)
  PROVE  ReadBack'
<1>1. Call(icm42670_init) \/ Fail
  BY Zenon DEF imu_try_init
<1>2. CASE Call(icm42670_init)
  BY <1>2, CallsAreWhole, CallReadsBack
<1>3. CASE Fail
  BY <1>3 DEF Fail, ReadBack
<1> QED
  BY <1>1, <1>2, <1>3

\* The setting under way is made when its call returned "ok".
LEMMA SettingEnds ==
  ASSUME ConfigInv, CallInv, at \in {"config", "reapply"}, result # "busy"
  PROVE  result # "fail" /\ ~unset => Made(k)
<1>1. todo = <<>>
  BY Between
<1>2. Range(todo) = {}
  BY <1>1 DEF Range
<1>3. SUFFICES ASSUME result # "fail", ~unset
               PROVE  Made(k)
  OBVIOUS
<1>4. UnderWay /\ Config[k] \in settings
  BY <1>2, <1>3 DEF ConfigInv, UnderWay, Pends
<1>5. k \in 1 .. 4
  BY ConfigIsAsked DEF CallInv
<1> QED
  BY <1>3, <1>4, <1>5 DEF UnderWay, Made

LEMMA SettingGoesOn ==
  ASSUME ConfigInv, CallInv, at \in {"config", "reapply"}, result # "busy", SetNext,
         ~unset' => result # "fail" /\ ~unset, UNCHANGED <<at, settings>>
  PROVE  ConfigInv'
<1>1. k + 1 \in 1 .. 4 /\ k' = k + 1 /\ Call(icm42670_set(Config[k + 1])) /\ k \in 1 .. 4
  BY ConfigIsAsked DEF SetNext, CallInv
<1>2. ~unset' => Made(k)
  BY SettingEnds
<1>3. ~unset' => \A i \in 1 .. (k + 1) - 1 : Config[i] \in settings'
  BY <1>1, <1>2 DEF Made
<1>4. ReadBack' /\ UnderWay'
  BY <1>1, <1>3, SettingStarts
<1> QED
  BY <1>4 DEF ConfigInv

LEMMA TaskKeepsSettings ==
  ASSUME ConfigInv, CallInv, TaskNext, UNCHANGED <<sensorVars, good, lab>>
  PROVE  ConfigInv'
<1> USE DEF sensorVars
<1>1. CASE Boot \/ SearchOn \/ Reinit \/ ReinitOther
  <2>1. ReadBack' /\ at' \in {"search", "reinit"}
    BY <1>1, InitReadsBack DEF Boot, SearchOn, Reinit, ReinitOther, taskVars
  <2> QED
    BY <2>1 DEF ConfigInv
<1>2. CASE DeleteTask \/ Abort
  <2>1. ReadBack' /\ at' \in {"deleted", "boot"}
    BY <1>2 DEF DeleteTask, Abort, driverVars, ConfigInv, ReadBack
  <2> QED
    BY <2>1 DEF ConfigInv
<1>3. CASE Found \/ Reapply
  <2>1. Call(icm42670_set(Config[1])) /\ k' = 1 /\ at' \in {"config", "reapply"}
    BY <1>3 DEF Found, Reapply
  <2>2. \A i \in 1 .. 1 - 1 : Config[i] \in settings'
    OBVIOUS
  <2>3. ReadBack' /\ UnderWay'
    BY <2>1, <2>2, SettingStarts
  <2> QED
    BY <2>1, <2>3 DEF ConfigInv
<1>4. ASSUME unset' = (unset \/ result = "fail")
      PROVE  ~unset' => result # "fail" /\ ~unset
  BY <1>4, Zenon
<1>5. CASE SetUpOn \/ ReapplyOn
  BY <1>4, <1>5, SettingGoesOn DEF SetUpOn, ReapplyOn, CheckSetting
<1>6. CASE SetUpEnds \/ ReapplyEnds
  <2>1. ~unset' => Made(4)
    <3>1. at \in {"config", "reapply"} /\ result # "busy" /\ k = 4 /\ unset' = (unset \/ result = "fail")
      BY <1>6, ConfigIsAsked DEF SetUpEnds, ReapplyEnds, CheckSetting
    <3> QED
      BY <1>4, <3>1, SettingEnds
  <2>2. CASE Read(1)
    BY <2>1, <2>2, ReadingStarts
  <2>3. CASE at' = "wait" /\ UNCHANGED driverVars
    <3>1. todo' = <<>> /\ UNCHANGED settings
      BY <1>6, <2>3, Between DEF SetUpEnds, ReapplyEnds, driverVars
    <3>2. ReadBack' /\ SetUp'
      BY <2>1, <3>1 DEF ReadBack, SetUp, Quiet, Range, Made
    <3> QED
      BY <2>3, <3>2 DEF ConfigInv
  <2> QED
    BY <1>6, <2>2, <2>3 DEF SetUpEnds, ReapplyEnds
<1>7. CASE Connected \/ ReadNext \/ UseSample \/ ReadFailed
  <2>1. /\ at \in {"wait", "read", "sample"} /\ UNCHANGED unset
        /\ \E axis \in 1 .. 4 : Read(axis)
    BY <1>7, ConfigIsAsked DEF Connected, ReadNext, UseSample, ReadFailed, CallInv
  <2> QED
    BY <2>1, ReadingStarts DEF ConfigInv, SetUp
<1>8. CASE ReadAll
  BY <1>8 DEF ReadAll, driverVars, ConfigInv, ReadBack, SetUp, Quiet, Made
<1> QED
  BY <1>1, <1>2, <1>3, <1>5, <1>6, <1>7, <1>8 DEF TaskNext

LEMMA ConfigStep ==
  ASSUME ConfigInv, CallInv, [Next]_vars
  PROVE  ConfigInv'
<1>1. CASE Disturb \/ UNCHANGED vars
  BY <1>1 DEF Disturb, vars, driverVars, sensorVars, taskVars, ConfigInv, ReadBack, UnderWay,
              SetUp, Quiet, OnlySets, Pends, Made
<1> QED
  BY <1>1, DriverKeepsSettings, TaskKeepsSettings DEF Next

LEMMA ConfigInit == Init => ConfigInv
BY DEF Init, ConfigInv, ReadBack

\* Whatever fails, and however often the sensor is reset and set up again, a
\* sample comes from a sensor with the range, average, rate and mode the lab
\* asked for, unless a call that sets one of them failed and the lab went on:
\* manipulate_register writes back what the register held beside its field.
THEOREM SamplesAreConfigured == Spec => []SampleIsConfigured
<1>1. ConfigInv => SampleIsConfigured
  <2>1. ConfigInv /\ at = "sample" /\ ~unset => Made(4)
    BY DEF ConfigInv, SetUp
  <2>2. DOMAIN Config = 1 .. 4
    BY DEF Config
  <2> QED
    BY <2>1, <2>2 DEF SampleIsConfigured, Made
<1> QED
  BY <1>1, ConfigInit, ConfigStep, CallHolds, PTL DEF Spec
=============================================================================

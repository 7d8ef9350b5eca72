# A TLA+ model of the CSE121 lab programs

This directory holds a verification of the lab programs in this repository:
TLA+ modules translated from the C sources, TLC configurations that check them
on small instances, and theorems that TLAPS proves for every instance. The
parts built are

- the Morse link of lab 5: two senders on a Raspberry Pi, two receivers on an
  ESP32, and the LED and photodiode between them;
- the Bluetooth mice of labs 4.2 and 4.3: both applications, their HID profile,
  and the stack and hosts around them;
- the motion-sensor loops of labs 4.1 and 4.3, with the driver of the sensor
  and the I2C layer under it;
- the network labs 7.1 to 7.3: the Wi-Fi helper, the HTTP requests, the station
  and its server;
- the thermometers of labs 2.2 and 3.3, with and without a multiplexer.

## 1. Inventory

| Part | Code | State | Operations | Hard to get right |
|---|---|---|---|---|
| High-speed sender | `lab5_3/sender/send.c` | position in the message, repetition, LED | `main`, `send_message`, `send_morse_char`, `send_dot`, `send_dash` | gaps made of sleeps of several calls; sleeps that return late |
| Fixed-speed sender | `lab5_1/send.c` | the same | the same | the gap between repetitions |
| Interrupt receiver | `lab5_3/receiver/main/lab5_3.c` | pending edge, event queue, last edges, symbol buffer | `gpio_isr_handler`, `morse_decoder_task` | interrupt against LED, queue overflow, `int` durations, no timeout |
| Polling receiver | `lab5_2/main/lab5_2.c` | light seen, start of light and gap, last activity, symbol buffer | `morse_receiver_task` | sampling, the timeout against the next letter |
| Air mouse | `lab4_3/main/lab4_3.c` | `connected`, `hid_conn_id`, direction states, failure count | connection callback, sampling task | callback against task, I2C recovery |
| Scripted mouse | `lab4_2/main/lab4_2.c` | `connected`, position in the script | callback, task | hosts that come in the middle of the script |
| HID profile | `lab4_3/main/hid_device_le_prf.c`, `hid_dev.c`, `esp_hidd_prf_api.c` | connection control blocks, `gatts_if`, attribute handles | registration, connect, disconnect, reports | several connections, order of registration events |
| Inclination display | `lab4_1/main/lab4_1.c` | failure count, address, descriptor | search, configuration, read loop, recovery | recovery of the sensor |
| Motion-sensor driver | `esp-idf-lib__icm42670/icm42670.c` | the sensor's registers | init, settings, readings | registers shared by settings, mutex on error paths |
| I2C device layer | `esp-idf-lib__i2cdev/i2cdev.c` | mutex, handle, bus, reference count | mutexes, set-up, retried transfers, release | handle, count and bus in step with ESP-IDF |
| Wi-Fi helper | `protocol_examples_common/wifi_connect.c`, `connect.c` | semaphores, retry count, registered handlers | `example_connect`, event handlers | waits of the main task against events |
| Weather station | `lab7_3/main/http_request_example_main.c`, `server.py` | location, temperatures, socket, address list | GET location, GET weather, POST | failure of each step, resources on each path, late requests |
| Temperature poster | `lab7_2/main/http_request_example_main.c` | socket, address list | POST loop | the same |
| Weather GET | `lab7_1/main/http_request_example_main.c` | socket, address list | GET loop | the same |
| SHTC3 reader | `lab2_2/main/main.c` | asleep or awake | wake, measure, read | failure of each step |
| LCD thermometer | `lab3_3/main/main.cpp` | sensor found, its address and channel | detection, display loop | detection through a multiplexer, damaged frames |
| LCD text | `lab3_2/main/main.cpp` | | writes | |
| Examples, other vendored code | `bluedroid`, `protocols`, `managed_components`, ... | | | third-party code |

How they interact. The senders and the receivers share nothing but the light:
the duration of each pulse and gap is the message. Inside the interrupt
receiver an edge sets the pin's pending bit; the driver clears it and calls
`gpio_isr_handler`, which reads the clock, then the pin, and calls
`xQueueSendFromISR`; `morse_decoder_task` takes events out of that queue and
prints. The polling receiver is one task that reads the photodiode every
`SAMPLE_RATE_MS`. In the air mouse the Bluetooth task calls
`gap_event_handler` and `gatts_event_handler`, which calls the profile's
`esp_hidd_prf_cb_hdl`, which calls the application's `hidd_event_callback`; that
callback and the sampling task share `connected`, `hid_conn_id`, `dir_x` and
`dir_y` without a lock. The motion-sensor task calls the driver, the driver
calls i2cdev for each register, and i2cdev calls ESP-IDF's I2C master; one mutex
of the descriptor spans a transfer or two. The lab 7 programs first run
`example_connect`: the main task waits for two semaphores that the event task's
handlers give, then one task makes requests over one socket at a time, and
`server.py` answers them one connection at a time. The thermometers are single
tasks; the multiplexer and the SHTC3 have the same address.

What makes each part correct:

- *Morse link*: the letters displayed are the letters keyed, each once, in
  order, with a space where the sender left a word gap; a letter is not kept
  from the reader; a fault spoils only its neighbours; no buffer overflows.
- *Air mouse and HID profile*: the links, the control block and the
  application's flags agree; no report leaves before the HID service runs; a
  host is only moved fast by what was held since it connected; the mouse can be
  found again after every disconnection.
- *Motion sensor*: after any failure the sensor is usable again or the loop goes
  on trying; the driver's picture of the port is ESP-IDF's; a sample comes from
  a sensor that is set up.
- *Network labs*: no request before both addresses are there; every request
  releases what it acquired; what is posted belongs to the cycle, and a logged
  success was received; reports get through again after any trouble.
- *Thermometers*: a sensor that was found is the one that is read; no damaged
  reading is shown where the sensor sends a CRC; readings go on after failures.

`PROJECT.json` lists all parts with their status, and under `hazards` what is
hard to test in each, at its line.

## 2. The modules

| Module | Models | Contents |
|---|---|---|
| `MorseCode` | the table and both lookups | `morse_table`, `get_morse_code`, `decode_morse`; the assumption `TableAssumption` on the table, which TLC evaluates |
| `MorseLine` | what both ends share | the clock `now`, the `light`, the history of keyed letters `sent` and the element `si` the latest edge belongs to |
| `MorseSender` | `lab5_3/sender/send.c` (and `lab5_1/send.c`) | one action per step between two sleeps: `Launch`, `StartLetter`, `EndSymbol`, `StartSymbol`, `EndLetter`, `SendSpace`, `SkipCharacter`, `NextCharacter`, `Repeat`, `NextRepetition`, `Exit`, `LaunchFails` |
| `IsrReceiver` | `lab5_3/receiver/main/lab5_3.c` | `DetectEdge`, `HandlerReadsClock`, `HandlerSends`, `TakeRisingEdge`, `TakeFallingEdge` |
| `IsrLink` | lab 5.3 as a whole | sender, receiver and clock composed; the properties |
| `IsrLinkInv` | | the inductive invariant `IInv` |
| `AdcReceiver` | `lab5_2/main/lab5_2.c` | one iteration of the loop: `SampleRising`, `SampleFalling`, `SampleSteady` |
| `AdcLink` | labs 5.1 and 5.2 as a whole | sender, receiver and clock composed; the properties |
| `AdcLinkInv` | | the inductive invariant `LinkInv` |
| `MorseDisplay` | what a link promises | the abstract specification: `Key` and `Show` |
| `BleStack` | the Bluetooth stack and the hosts, as the programs use them (external) | `RegisterApp`, `AnswerCall`, `HostConnects`, `LinkDrops`; one queue of events |
| `HidProfile` | `hid_device_le_prf.c`, `hid_dev.c`, `esp_hidd_prf_api.c` | registration, attribute tables, control blocks, report lookup |
| `AirMouse` | `lab4_3/main/lab4_3.c` | `OnConnect`, `OnDisconnect`; the task's steps from `DetectSensor` and `ReadSample` to `LoadConnection` and `FinishSend` |
| `ScriptedMouse` | `lab4_2/main/lab4_2.c` | `StartScript`, `MoveOfScript`; callbacks and sending are those of `AirMouse` |
| `MouseLink` | labs 4.2 and 4.3 as wholes | `app_main`, the dispatch of events (`Callback`), task, stack and clock composed; the properties |
| `I2cDev` | `i2cdev.c`, `i2cdev.h` | operators on a descriptor: `i2c_setup_port`, `i2c_setup_device`, `i2c_dev_create_mutex`, `i2c_dev_delete_mutex`, `Pass` (one try of a transfer) |
| `Icm42670` | `icm42670.c` | the calls as lists of steps; `Take`, `Give`, `Expect`, `Succeed`, `TryAgain`, `GiveUp` |
| `ImuLoop` | the tasks of `lab4_1.c` and `lab4_3.c` | `Boot` and `SearchOn` to `ReadFailed`, `Reinit`, `ReapplyEnds`; the properties |
| `SampleSource` | what such a task promises its user | the abstract specification: `Get`, `Use`, `Miss`, `Repair`, `Repaired` |
| `WifiConnect` | `wifi_connect.c`, `connect.c` | the main task (`StartStation`, `TakeSemaphore`, ...), the handlers (`GiveUp`, `Reconnect`, `OnGotIp`, ...), the driver and the access point |
| `HttpClient` | the request functions of labs 7.1 to 7.3 | `Lookup`, `Socket`, `Connect`, `Write`, `SetOption`, `Read` |
| `WeatherStation` | labs 7.1, 7.2 and 7.3 and `server.py` as wholes | the cycles, the connections seen from both ends, the server; the properties |
| `Thermometer` | `lab2_2/main/main.c`, `lab3_3/main/main.cpp` | transfers (`Succeed`, `Fail`), the two programs, `Detect`, the multiplexer; the properties |
| `MC...` | | values of the constants for TLC, one module for each composition |
| `MorseSender_proofs` | | theorems on the table and the sender |
| `IsrLink_proofs`, `IsrLinkLoss_proofs` | | theorems on the interrupt-driven link in time, and on that link when it is late or loses events |
| `AdcLink_proofs` | | theorems on the polling link |
| `MouseLink_proofs` | | theorems on the mice |
| `ImuLoop_proofs` | | theorems on the motion-sensor loop |
| `WeatherStation_proofs` | | theorems on the network labs |
| `Thermometer_proofs` | | theorems on the thermometers |

Each composition EXTENDS its parts, which share variables as the code shares
them; the abstract specifications are instances with a refinement mapping.

### State and actions against the code

*Time.* `now` counts units. A sleep of `d` started at `t` sets `wake = t + d`;
the process goes on at some moment between `wake` and `wake + OverSleep`,
because `nanosleep` and `usleep` may return late, never early (the programs
install no signal handler). `SenderMayWait` and `ReceiverMayWait` say how long
each side may be asleep; `Tick` moves the clock when both may. Sender and
receiver use different clocks, of which only differences are ever taken, so one
clock stands for both.

*Sender.* `control` names the next call. `send_dot` and `send_dash` are split at
their sleeps: `StartLetter`/`StartSymbol` light the LED, `EndSymbol` turns it
off. The loop variable of `send_message` is `ci`, that of `send_morse_char` is
`si`, that of `main` is `rep`. `Launch` starts the program again with any
command line, after any pause; before it, an earlier process may have ended at
any time. lab 5.1 drives the LED active-low; `light` is what the photodiode
sees.

*Interrupt receiver.* `pending` is the pin's interrupt status bit. The GPIO
driver clears it before it calls the handler; the handler's two reads are two
actions, with an LED change possible between them. `xQueueSendFromISR` drops the
event when the queue is full, as the handler ignores its result. `ToInt` is the
conversion of the `int64_t` difference to `int` at lines 164 and 204. The
decoder's branches are those of lines 158 to 222; a pulse outside both ranges is
dropped; a symbol is stored while there is room for it and a final `'\0'`.

*Polling receiver.* An iteration of the loop is one action: it reads the
photodiode and the clock once and acts on both. The timeout test comes first, as
at line 176, and empties the buffer before the edge is looked at.

*Air mouse.* The board has one core, and the Bluetooth task that runs the
callbacks has a higher priority than the sampling task: a callback is one
action, and the sampling task is split wherever it reads or writes what a
callback may change. `calculate_mouse_delta` is `ReadClock`, `CheckStopped` (the
test of `active`) and `Restart`, or `CheckMoves`; the send is `TestMove`,
`TestConnected`, `LoadConnection` (the argument `hid_conn_id`) and `PostReport`.
A sample is a pair of tilts in levels with a sign; any sample may follow any
other, because eight samples are averaged at a range of 4 g and one of them
moves the average by up to 1 g. `ReadFails` stands for the whole branch of lines
275 to 291: it leaves the directions alone and comes back after the delay.

*Profile and stack.* `events` is the queue of the Bluetooth task. The stack
tells every registered application of each link (`Tell`); the profile takes
those for the interface that registered last (`Dispatched`). A host can connect
only while the mouse advertises, and that ends the advertising; numbers of
ended connections are given again. `AnswerCall` may fail any registration or
table, as `Answers` allows. A report for a connection that no longer exists is
dropped by the stack.

*Motion sensor.* A call of the driver is the list of its steps (`todo`): take
the mutex, transfer a register, give the mutex, look at what was read. A
transfer is up to four passes; each pass sets up what is missing of the bus and
the handle and then asks ESP-IDF, which says ok, a temporary error, or that the
handle is invalid. `GiveUp` is `I2C_DEV_CHECK`: give the mutex and return; only
`read_register_16` goes on to its second byte. While `good` is false any of this
may happen, a write may reach the sensor although it is reported as failed, and
memory may run short; `Disturb` turns it over at any time. The sensor's registers
are the set of fields that are as the labs ask (`settings`), and the read value
of a register is the part of that set that lies in it, so a read-modify-write
that loses the other field shows. An operator of `I2cDev` takes a descriptor and
returns what it becomes, because one step of a task calls several.

*Wi-Fi.* The course's board, an ESP32-C3, has one core, and the event task has a higher priority than
the main task: a handler is one action, while the main task is split between
`TakeSemaphore`, `DeleteSemaphore` and `ForgetSemaphore`. A handler that gives a
semaphore between the last two uses freed memory: `Crash` is one of its
outcomes, no effect the other. The driver's events wait in `events`.

*Requests.* A request is a sequence of phases with an early end at each, as the
`continue` and `return` statements have it; `infos` and `sockets` count what is
held. A connection is `open`, `sending` (written, not yet arrived), `sent`,
`closed` (the station closed it; its request is still handled), or `dead` (its
end will never be seen by the server). The server is down, asleep (its machine
accepts but nothing is handled) or up, and handles the head of its backlog.
`outdoor_temp` is what the buffer holds: a temperature of an earlier cycle,
`N/A`, or this cycle's. The station can be short of memory only while it is
offline, except towards wttr.in, where anything may fail at any time. Lab 7.1 is
the second request of lab 7.3's cycle, lab 7.2 the last one.

*Thermometers.* A call is the list of its transfers and the first failure ends
it, except where the code ignores the result (`Ignored`). `damage` says which
halves of the last frame were damaged; the SHTC3 and the SHT3x send a CRC with
each half. A command sent to 0x70 while a multiplexer is there opens the channels
in its last byte (`Opened`): the code tries the SHTC3's commands there first.

*Scripted mouse.* `MoveOfScript` makes the next movement whether or not a host
is connected; `pos` counts what the connected host has seen, in moves.

*History variables.* `held` (since when the level, or the direction, of each
axis is what it is, within one connection), `fresh` (no connection began since
the sample), `report` (what the last step handed to the stack) and `pos` are for
the properties of the mice; `unset` (a setting failed and nobody took notice),
`obtained` and `reply` for those of the sensor and the station (`reply` is also
what a read returns). `sent`, `si`, `brk` (the kind of gap before a letter),
the `letter` and `element` of an event, `of`, `taken` and `hurt` record what
happened on the Morse link; no guard and no other variable reads them, except
`si`, which is also the sender's loop variable. `hurt` holds the letters whose
reception met a full queue or a duration that does not fit an `int`; for an
event that separates two letters, both.

## 3. Properties and runs

| Run | Properties | Question |
|---|---|---|
| `isr_nominal` | `InOrder`, `IInv`, `ImplementsDisplay`, `LettersArePrinted` | Does the link print what was keyed when the durations fit? Does it implement the display? Is the proof's invariant an invariant? Is every letter that is followed by another printed in the end? |
| `isr_queue` | `QueueSuffices`, `LevelSettles` | How long may the decoder stall? Can a late interrupt leave it with the wrong level? |
| `isr_damage` | `TypeOK`, `DamageIsLocal` | What does a full queue spoil, and what a pause that overflows an `int`? Do merged letters stay inside the buffer? |
| `adc_link` | `TypeOK`, `LettersDoNotLinger`, `LinkInv`, `ImplementsDisplay` | Does the polling link display everything, the last letter included? Is the proof's invariant an invariant? |
| `mouse_link` | `TypeOK`, `ConnectionsAgree`, `ReportsAreInService`, `PointerStaysNear`, `Reachable`, `TiltIsReported` | Do stack, profile and application agree on the connection? Can a report leave before the service runs? Does the mouse advertise again, and report again, after any number of hosts? Does the script leave a host's pointer where it was? |
| `mouse_speed` | `AccelerationIsEarned` | Is a movement accelerated only by what this connection saw, wherever the callback interrupts? |
| `imu` | `TypeOK`, `DriverAgrees`, `HandleIsForAddress`, `MutexIsGivenBack`, `SampleIsConfigured`, `SamplesResume`, `ImplementsSource` | Do i2cdev and ESP-IDF agree whatever fails? Is the mutex given back on every path? Is a sensor that is read set up? Do samples come back, and is the loop a sample source? |
| `weather` | `TypeOK`, `StartedMeansAddressed`, `NothingLeaks`, `ReportIsOfOneCycle`, `SuccessMeansReceived`, `PostsArrive` | Do requests wait for the addresses? Does any path leak? Is a report of one cycle, and a success a report received? Do reports get through again? |
| `thermometer` | `TypeOK`, `FoundIsInReach`, `ShownIsUndamaged`, `KeepsShowing` | Is the sensor found the one that is read? Is a damaged reading ever shown? Do readings go on? |
| `isr_last` | `MessageIsPrinted` (violated) | Is the last letter printed by the interrupt receiver, as its README shows? |
| `isr_wordgap` | `LongGapsEndWords` (violated) | Does every gap of six units or more end a word? |
| `mouse_turn` | `AccelerationIsOfOneDirection` (violated) | Is the time held in one direction, as a comment says? |

What they show:

- `InOrder` and `ImplementsDisplay` hold for the interrupt link while `hurt` is
  empty and `TimingFits` holds. `IsrLink!ImplementsDisplay` is the safety part
  of the abstract display: each step shows the next letter with its final
  separator, keys a letter, or changes neither.
- `AdcLink!ImplementsDisplay` is the whole abstract specification with its
  fairness: the polling receiver's timeout also displays the last letter. The
  pause between two repetitions is 3 + 7 = 10 dots, exactly `TIMEOUT_MS`, so the
  timeout and the next rising edge race; either way the letter is displayed
  once, followed by a newline or by a space.
- `isr_last`: `morse_decoder_task` waits for events with `portMAX_DELAY` and
  prints a letter only when the next one begins, so the last letter of a
  transmission stays in the buffer until another transmission starts. The
  README of lab 5.3 (lines 139 to 142) shows it printed.
- `isr_wordgap`: the gap is stored in an `int`. After a pause of more than 2^31
  microseconds (36 minutes) it is negative for the next 36 minutes, and the
  letters before and after the pause are joined.
- `isr_damage`: with the letters next to a lost event or an overflowed duration
  set aside, every other letter is printed exactly once. No fault keeps the
  decoder out of step for longer.
- `isr_queue`: no event is lost when the decoder's longest stall is shorter than
  `QueueLength` dots less the handler's latency. At the run's values (a queue of
  2, a dot of 2, a latency of 2) the bound is 2; the run's stall is 1, and with a
  stall of 2 TLC finds a lost event. With the program's 100 events and a dot of
  10 ms the decoder may stall for a second. A latency of a whole dot is also what
  lets two edges melt into one event.
- `mouse_link`: `hidd_clcb_dealloc` clears the first control block whatever
  number it is given, there is one block for any number of hosts, and the
  profile listens to one interface. The run shows why this is enough: a
  connection ends the advertising and only the end of it, handled, starts it
  again, so a second host never gets in. Its mutant, a mouse that advertises on
  after a connection, breaks it.
- `ReportsAreInService`: the battery table, the HID table and the start of the
  service are three answers of the stack, and a host may connect between any of
  them; `hid_rpt_tbl` is filled only with the last, so the lookup of the mouse
  report fails before that.
- `mouse_speed`: the reset of `active` by the callback may come at any point of
  the computation. The acceleration that a report shows is within one iteration
  of what was held since its host connected. The exception is a
  movement that was complete when the host connected: it is sent to the new host
  with the acceleration it has (`fresh` is false for it).
- `PointerStaysNear`: the script moves to the right and back whether or not a
  host listens. A host that comes in the middle is moved by the rest of a half
  cycle and by one movement that was under way, never further over any number of
  cycles.
- `imu`: `DriverAgrees` holds although `i2c_do_operation_with_retry`
  (i2cdev.c, line 634) removes an invalid handle without lowering the reference
  count: the count may only grow too high, so that the bus is given up later than
  it could be, never while a handle is on it. `SampleIsConfigured` needs its exception: lab
  4.3 ignores the results of its settings (lines 250 to 253), the comment above
  them speaks of a retry, and what makes the settings again are five failed reads and nothing
  else. `SamplesResume` shows that every other way out of a failure leads back to
  samples; lab 4.3 may have deleted its task when the first search found nothing.
  `read_register_16` overwrites the error of its first byte (icm42670.c, line
  271), so a reading may succeed with a byte that was never read.
- `ImplementsSource` is the abstract specification with its fairness: whatever
  the sensor does, no read and no repair goes on for ever, and a repair is
  started by five failures with no sample between them and by nothing else.
- `weather`: `example_connect` returns success only with both addresses, although
  the semaphores are also given when the last retry failed, because the main task
  looks at the count afterwards. The handlers stay registered: when the access
  point is away for long enough later on, they use up the retries, unregister
  themselves, and the station never connects again until it is reset. `PostsArrive` shows
  that this is the only way to lose it for good. A server that waits for the request
  of a station that vanished (server.py, line 72) hangs; the property's
  assumption says so.
- `thermometer`: a sensor is looked for once, so a glitch in the wrong transfer
  leaves the display without one until the next reset; lab 2.2 wakes its sensor
  once and ignores whether it heard. `KeepsShowing` allows these two and no other.
  `FoundIsInReach` holds although a selection that was reported as failed may
  have worked, and although the SHTC3's commands open channels 1, 2, 5 and 6 of
  the multiplexer. The AHT20 and the SI7021 are read without a CRC, so
  `ShownIsUndamaged` excepts them.
- `mouse_turn`: line 133 compares levels only; a tilt that turns over between
  two samples goes on at the old multiple, where lines 132 and 146 speak of a
  direction that changed and the time held in this direction.

### Bounds

Time is counted in coarse units, so that all orders of edges, interrupts and
samples within the real tolerances occur among few states.

- `isr_nominal`, `isr_last`: a dot is 4 units and the receiver's dot too; the
  tolerance is half a dot (`DEFAULT_TOLERANCE`), sleeps return up
  to a quarter of a dot late and interrupts are served up to a quarter of a dot
  late. This is `TimingFits` with no room in two of its conditions.
- `isr_queue`, `isr_damage`, `isr_wordgap`: a dot is 2 units. Queues of 2 or 3 places stand for 100; a pause may be 40 units where an
  `int` has 48 values; in `isr_damage` the symbol buffer has room for 2 symbols,
  the length of the longest letter sent, where the code's has 9 for letters of
  up to 5.
- `adc_link`: a unit is 25 ms, a dot 4 units (`DOT_DURATION` 100 ms), the other
  thresholds exactly as in the source (250, 250, 600 and 1000 ms). A sample is
  taken every unit, a period two and a half times the program's 10 ms; sleeps
  may return 25 ms late. These values satisfy `TimingFits` (`DurationsFit`).
  Samples that come later than that (`SampleLate`) and a second launch are left to
  the theorems.
- Messages have up to three letters, with an unknown character, spaces inside
  and at the start, one or two repetitions and one or two launches. The codes
  used have one and two symbols of both kinds; letters act on the state only
  through their symbols, and the proofs cover all of them.
- `mouse_link` does without time (`Period` and `MaxTime` are 0: every order of
  steps, no durations); it has two hosts and two connection numbers, so that a
  number may be new or given again. `mouse_speed` and `mouse_turn` have a clock:
  a unit is the period of 20 ms, an iteration may be held up by one unit, the
  thresholds of 200 and 500 ms are 1 and 2 units and the clock ends at 5, which is
  time for a host to earn the triple speed, leave, come back and earn the double
  one again. One host and no failing
  registration are enough there: what an earlier connection left behind does not
  depend on who made it. The hand moves one axis; the other stays level. These
  runs say `CHECK_DEADLOCK FALSE`: `app_main` may return after a failure, and the
  clock has its bound.
- `imu`: the sensor is wired to either address; any transfer may fail, with any
  effect, any number of times. `MaxRef` = 3 bounds the reference count, which each
  invalid handle raises: at the bound a handle is not called invalid any more, and one below
  it the count has already been more than the number of handles. The run says
  `CHECK_DEADLOCK FALSE`, because lab 4.3 may delete its task.
- `weather`: two retries where the option's default is 6, so that the count
  passes its limit at the first start and later; three waiting events; a backlog
  of two connections where `HTTPServer`'s is 5: one of an earlier request ahead of
  the task's own. Deadlock is checked.
- `thermometer`: channels 0 to 2 of the multiplexer's 8: the first, the last and
  one between; commands to the multiplexer open channels inside and outside what
  is searched. Every kind of sensor is on the bus, beside the multiplexer or on
  a channel; two resets, so that a search starts with channels an earlier one
  left open. Deadlock is checked.
- `IdleMax` bounds the time after the last process has ended: the senders'
  clocks stop there, which is why the runs say `CHECK_DEADLOCK FALSE`. The
  program really stops: no operator need start it again. It is long enough for
  the decoder to finish and, in `adc_link`, for the timeout.

### Fairness

`FairSpec` has weak fairness for the clock, for the running sender (a started
sleep ends and the process is scheduled), and for the receiver: the interrupt
handler and the decoder (the only task of its priority on the board, blocked
only on its queue), or the sampling task (blocked only in `vTaskDelay`). There
is none for `Launch`: an operator need not start a program. `MorseDisplay`'s
fairness is that a letter that can be shown is shown, which `adc_link` shows to
follow.

`MouseLink!FairSpec` has weak fairness for `app_main`, for the callbacks (the
Bluetooth task handles what is in its queue), for the sampling task (the callbacks
leave it time: it is alone at its priority), for the stack's answers and for the
clock, and strong fairness for `ReadSample`: the sensor does not fail forever.
There is none for hosts: they need neither connect nor leave.

`ImuLoop!FairSpec` has weak fairness for the task and for the driver's steps:
the task waits only for delays, for transfers with a time limit and for a mutex
that nobody else takes. There is none for the sensor (`Disturb`): the liveness
properties assume what they need (`<>[]good`). `WeatherStation!FairSpec` has it
for the main task, the handlers, the Wi-Fi driver (an association attempt ends),
the task (every socket call has a limit or ends with the connection), for the
delivery of what was sent while the station is online, and for the server while
it is up. `Thermometer!FairSpec` has it for the program and its transfers, which
have a time limit. None of them has fairness for faults or for their end.

## 4. Proofs

TLAPS proves, for every value of the constants:

- `MorseSender_proofs!Codebook`: whatever pattern the sender's lookup returns for
  a letter has one to five symbols and decodes to that letter. It rests on
  `TableAssumption` (the patterns of the table differ and have one to five
  symbols), which TLC evaluates on the table itself.
- `IsrLink_proofs!TypeCorrect`: `Spec => []TypeOK`, for every timing: the queue
  never exceeds its length and the buffer always has room for the final `'\0'`.
- `IsrLink_proofs!LettersInOrder`: `TimingFits` implies
  `Spec => []InOrder`.
- `IsrLink_proofs!LinkImplementsDisplay`: `TimingFits` implies
  `Spec => ImplementsDisplay`, the refinement of the abstract display.

`TimingFits` is a condition on the constants alone: with sleeps up to
`OverSleep` late and stamps up to `Latency` late, each pulse and gap falls in
the range meant for it. With the program's defaults (a dot of 10 ms at both
ends, tolerance 0.5) it holds, among others, for sleeps 2 ms and interrupts 1 ms
late.

- `IsrLink_proofs!InvariantHolds`: under `TimingFits`, `Spec => []IInv`.
- `IsrLinkLoss_proofs!LevelIsSettled`: `Spec => []LevelSettles`, for every
  timing: no condition on the durations, the latency or the tolerance.
- `IsrLinkLoss_proofs!HandlerFindsRoom`: the handler finds room in the queue
  whenever `DecoderLag < QueueLength * dot_duration_us - Latency`, also with a
  latency of several dots, in which edges melt into one event; and
  `IsrLinkLoss_proofs!QueueIsEnough`: then `QueueSuffices` (nothing is hurt at
  all) for as long as the clock fits an `int`. Later on the pause of a sender may
  overflow the decoder's gap, which no queue prevents (`isr_wordgap`).
- `IsrLinkLoss_proofs!DamageStaysLocal`: `TimingFits` implies
  `Spec => []DamageIsLocal`, for any number of losses and overflows.
- `AdcLink_proofs!TypeCorrect` and `AdcLink_proofs!NoLetterLingers`: `TypeOK` and
  `LettersDoNotLinger` of the polling link, for every timing.
- `AdcLink_proofs!InvariantHolds` and `AdcLink_proofs!LinkImplementsDisplay`: the
  polling link's own `TimingFits` implies `Spec => []LinkInv` and
  `Spec => Display!Spec`, the safety part of `ImplementsDisplay`. With the
  programs' durations (a dot of 100 ms, thresholds of 250, 600 and 1000 ms, a
  sample every 10 ms) it holds, among others, for sleeps 25 ms late and samples
  25 ms late.
- `ImuLoop_proofs`: `TypeCorrect`, `DriverStaysInStep`, `HandleServesItsAddress`
  and `MutexIsReturned` (`TypeOK`, `DriverAgrees`, `HandleIsForAddress` and
  `MutexIsGivenBack` of the motion-sensor loop), for any addresses, any wiring and any
  bound on the count; and `LoopImplementsSource`, the safety part of the
  refinement of the abstract sample source.
- `ImuLoop_proofs!SamplesAreConfigured`: `Spec => []SampleIsConfigured`.
- `WeatherStation_proofs`: `TypeCorrect`, `StartsAddressed`, `NothingIsLeaked`,
  `ReportsOneCycle` and `SuccessIsReceived`, for any number of retries, waiting
  events and connections.
- `MouseLink_proofs`: `TypeCorrect`, `ReportsInService`, `Agreement`
  (`ConnectionsAgree`), `PointerNear` (`PointerStaysNear`) and
  `AccelerationEarned` (`AccelerationIsEarned`), for any hosts, connection numbers,
  answers of the stack, tilts, length of the script, period and preemption.
- `Thermometer_proofs`: `BusInvariant`, `TypeCorrect`, `FoundInReach`
  (`FoundIsInReach`) and `ShownUndamaged` (`ShownIsUndamaged`), for any set of
  sensors at the addresses of the driver and any number of channels up to the
  multiplexer's eight.

Beside `TimingFits` the theorems assume only the named assumptions on the
constants (`ImuLoopAssumption`, `I2cDevAssumption`, `WifiConnectAssumption`,
...), which TLC evaluates in the runs.

*The Morse link.* `InOrder` speaks of the ends of a pipeline, so it is not
inductive. `IInv` describes the pipeline in between:

1. `SenderClock`: where the sender is and how long ago the last edge was,
   including the sleeps added up between two letters (`BetweenLetters`).
2. `InterruptClock`: an edge is served before the next one can come.
3. `EventsInOrder` and `Delivery`: each edge on its way (pending, stamped, in the
   queue) follows the one before it (`Follows`) as the program says, at a
   distance known up to the late sleeps and stamps.
4. `DecoderInStep`: after the event it took last, the decoder has printed
   exactly the letters before that event's and holds exactly the symbols of that
   letter up to it.

The last three are claimed while `hurt` is empty (`InterruptClock` always). The
proof has a lemma for the clocks and one for the pipeline per action; the lemmas
`PulseDecodes` and `GapDecodes` are where `TimingFits` enters the decoder. TLC
checks `IInv` in `isr_nominal`.

*The motion sensor.* The properties speak of the descriptor between steps, so the
proof needs to know what a call may still do. `Agrees` is the invariant of the
descriptor, with a lemma for each operator of `I2cDev`: besides the three
properties it says that there is room to count a handle whenever there is none.
`Orderly` is a property of the list of steps that is left: every transfer lies
between a take and the next give, and a field is set only after its register was
read. The calls are built by concatenation, so `ConcatWhole`, `LockedWhole` and
`CallsAreWhole` show it once for each; the tail of an orderly list is orderly
(`TailOrderly`). `CallInv` joins the two: the mutex is held exactly while the
next step is one that follows a take. `ConfigInv` adds what the settings need:
at the step that sets a field, what was read still is what the register holds
(`ReadBack`); the setting under way is made or its step is still to come, and
those before it are made (`UnderWay`); a reading sets nothing (`Quiet`).

*The network labs.* `WifiInv`: a semaphore is full, or its wait over, because the
address came or because the station gave up, and giving up leaves the count above
its limit (`HasGivenUp`), where the main task looks. `AppInv` says what a request
holds at each phase (`Holds`), that a connection is the task's only while its
request is under way (`NoneMine`), and that an answer in hand came from the
server.

*The late link.* `LevelInv`: the event that got furthest shows the level of the
pin, unless an edge is pending or stamped; the handler's order (clear the bit,
read the clock, read the pin) is what makes this inductive, and it needs nothing
of the sender. For the queue, `SleepInv` says that the LED does not change until
a dot after the latest edge that was not served, and `DistanceInv` counts: an
event that waits and the latest edge are at least as many dots apart, but for one
latency, as edges lie between them, in the queue or on their way to it. Melted
edges only add to that distance. `WaitInv` bounds the age of the oldest event by
`DecoderLag`, so a queue that is full when the handler comes would be older than
it may be. `DecoderTimes` orders the decoder's two times before every stamp that
waits: each duration it computes is below the clock, so it fits an `int` while
the clock does.

*Damage.* `DamageIsLocal` is about what `IInv` says nothing of: the pipeline when
events are missing. `Comes` weakens `Follows`: an event either follows the one
before it, or every letter between the two is hurt (`Skips`), the letter of the
first included, and a rising edge that opens a letter is still a letter gap away
from whatever came before. `EventsAscend` claims this of the queue, `Arrival` of
the edge that is on its way. `BufferInv` says whose symbols the buffer can hold:
the letter taken last, or one that is hurt. `WholeInv` is the claim itself, for the
decoder's state: within a letter that is not hurt it holds exactly the symbols so
far, as if nothing had happened before, and every earlier letter that is not hurt
is printed once. The step that matters is the first edge of a letter after a loss
(`RisingFollows`): the remains of hurt letters are in the buffer, the gap is long
enough, so the decoder prints them and starts afresh. The theorem takes the clocks
of `IInv` and `DecoderTimes`. It needs a buffer for the longest letter of the table
(`BufferSize > 5` in `TimingFits`); the run `isr_damage` has shorter letters and a
shorter buffer, so that joined letters fill it.

*The polling link.* `SampleInv` (a sample is at most `Slack` old, and whoever left
symbols in the buffer did so less than a timeout before the last sample) is
inductive for any timing and gives `LettersDoNotLinger`. For the refinement,
`LinkInv` compares both sides. `LightInv` and `DarkInv`: while a pulse or a gap
inside a letter lasts, its beginning (`Began`) either has been seen, and then the
receiver's time of it is right up to `Slack` and the buffer holds the symbols so
far, or no sample was taken since. As `Slack` is shorter than a dot, the sender
cannot make the next change before this one is seen (`SeenAwake`). `BetweenInv`:
between two letters the last one is either printed, which only a timeout does and
only after the sender left the word, or complete in the buffer, and then `Pause`
bounds the distance to the next edge by the kind of gap under way. That is the
state in which the timeout and the next letter race; `RisingLetter` and
`SteadyLink` show that either of them prints the letter with a separator that fits.
`PrintedInv` is what was printed. The invariant grows over `SendSpace`, `Repeat`
and a new `Launch`, each of which only makes the dark longer (`DarkBreak`).

*The mice.* The connection is one token that goes round (`TokenInv`): the HID
application's registration, the advertising data that were asked for, the
advertising, a link, or the news of one of them in the queue. `Before` and
`Phase` say what the stack, the queue, the control block and the application's
flags look like wherever it is; each callback takes the token one place further,
and no step makes a second one. `ServiceInv` follows the battery table, the HID
table and the start of the service. `ScriptInv` compares the pointer of a host
with the place of the script's own pointer (`Place`), for a newcomer, and for the
host that stayed since. `SpeedInv` relates the start of each direction to the time
its level was held, across the lines the callback can interrupt. The three are
inductive each with the one before.

*The thermometers.* `BusInv` says, for each place of the program, whom the rest
of the call speaks to, and what its success will mean (`DirectInv`, `SearchInv`,
`ReadInv`): that the searched channel is the only open one unless the sensor sits
at the multiplexer's address, that the address that answered is the fitted
sensor's, that a read that succeeds was not damaged or has no CRC. The theorem
needs the addresses of the kinds to be the driver's (`ThermometerAssumption`): a
sensor at the address of another kind would be taken for that kind.

Every invariant that a passing run checks is the subject of a theorem. Only
model-checked are the liveness properties (`LettersArePrinted`, `Reachable`,
`TiltIsReported`, `SamplesResume`, `PostsArrive`, `KeepsShowing`) and the fairness
in the refinements (`ImplementsDisplay` of the polling link, `ImplementsSource`),
which are out of reach of the prover.

## 5. What is left out

- Formatting, logging, the statistics of the sender and `stats_task`.
- The analogue side of the photodiode: a threshold crossing is exact. Noise
  edges, which the receiver would drop or count as pulses, are not modelled.
- Different crystal speeds of the two boards: covered by `OverSleep` only as far
  as they make the sender slower.
- A sender that is killed in the middle of a letter.
- `calculate_timing` and `configure_timing` take a speed; here the dot durations
  of both ends are constants, which need not agree (`TimingFits` says how far
  they may differ).
- Of the mice: pairing and encryption, and advertising that fails to
  start, which the programs would not notice and which leaves them unreachable. In
  `AirMouse` a read of the sensor just succeeds or fails; how it recovers is
  `ImuLoop`.
- Of the HID profile: keyboard and consumer reports, `esp_hidd_profile_deinit`
  and the attribute access functions, none of which a lab program calls.
- Of the sensor's driver and i2cdev: the values of samples, the functions no lab
  calls (gyroscope, interrupts, several devices on a port, pins that change), and
  a sensor that loses its power and thereby its settings without a failed read.
- Of the network labs: Ethernet, PPP and Thread, the shutdown handlers, the
  contents of requests and answers, and the internal temperature sensor.
- Of the thermometers: the LCD (lab 3.2, and the output of lab 3.3), which gets
  writes in a fixed order; the conversions; and the branch of lab 2.2 for a
  sensor that is put to sleep between readings, which is not compiled.
- The examples of ESP-IDF, the vendored code that no lab reaches and the
  autograder. They are most of the repository's lines: the parts above are the
  programs of the course, and they make up about a tenth of it.
- In lab 5.2 a gap is stored in an `int` of milliseconds; a pause of 24 days is
  not modelled.

## 6. Plan

1. *Morse link* (done, except): a killed sender.
2. *BLE mice*, *sensors*, *network labs* (done): what could be added is a server
   that gives up on a silent connection, should the code get one.

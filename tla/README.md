# A TLA+ model of the autoracer vehicle stack

The repository drives an Ackermann vehicle with Autoware on two platforms: a
1:10-class **RC** chassis on a serial port and the drive-by-wire chassis
**Hooke2** on a CAN bus. Perception, control and the command gate are Autoware
packages; what the repository itself adds is the supervision of a race, the
vehicle interfaces, a fixed-course planner, sensor adapters and the operator's
scripts. This directory models both vehicle interfaces down to their frames and
the supervision above them, checks the models with TLC and proves the core of
them with TLAPS.

## 1. Inventory

| Component | State it keeps | Operations | Interacts with |
|---|---|---|---|
| RC vehicle interface (`rc_vehicle_interface_node.cpp`, `rc_vehicle_state.cpp`, `rc_vehicle_kinematics.cpp`) | serial port, authority (`autonomous_requested_`), safety-stop latch, fault-clear handshake, gear, emergency and Hall monitors | gear, emergency, control and mode callbacks; serial timer (open, watch, poll, read); shutdown | chassis firmware by frames; gate by topics; manager by service and reports |
| RC serial protocol (`rc_serial_protocol.cpp`) | decoder buffer, statistics | encode, decode, resynchronise | vehicle interface |
| Race runtime manager (`race_runtime_manager.py`, `race_contract.py`) | phase, requests, armed flag, eleven timed inputs, two pending service calls | start, stop, reset; subscriptions; 20 Hz timer | gate (operation mode, MRM, gear, engage), vehicle (mode), planner, localization, console |
| Hooke2 interface (`hooke2_interface.cpp`) | last commands and reports, `engage_cmd_`, `disable_auto_mode_`, shift counter, lamp recovery, CAN command messages | callbacks, command timer, CAN timer, a thread that enables the actuators | CAN driver, gate, manager |
| Hooke2 diagnostics (`hooke2_diag_publisher.cpp`) | last reports, two windows of accelerations | callbacks, two checks of the updater | Hooke2 interface, CAN topic |
| Hooke2 CAN driver (`can_driver.cpp` and four clients) | card, receive thread, batch | open, receive, publish, send, stop | CAN card, Hooke2 interface |
| Hooke2 frame codecs (`*_command_10x.cpp`, report handlers, `byte.cpp`) | none | pack six commands, unpack sixteen reports | Hooke2 interface |
| G90 NTRIP relay (`g90_ntrip_relay_node.py`) | client, serial port, pending GGA, counters | worker thread, stop, diagnostics | caster, receiver |
| G90 adapter, NMEA parser | epoch under assembly | parse, assemble, publish | relay, localization |
| Local trajectory planner, fixed course | course, progress index, arrival candidate | course and odometry callbacks, timer | controller, manager (route state, trajectory) |
| Localization AD API bridge | initialization state, stability window | callbacks, timer | manager |
| Console and recording scripts | child processes, session directory | start, monitor, stop | manager's services |
| Message manager and parameter monitor (Hooke2), C32/IMU adapters, launch, description and configuration packages, bench scripts, dependencies, maps, courses | none that matters here | | |

Hard behaviours, each with its line in `PROJECT.json` under "hazards":

* **failing writes in the middle of a callback** (RC): a failed write closes the
  port and resets half of the node's state while the caller continues;
* **protocols across callbacks** (RC): the one-shot stop frame, the fault-clear
  handshake and the Hall supervision each spread over four or more callbacks;
* **a byte stream cut anywhere** (RC): payload bytes look like headers and tails,
  and a reconnection joins two streams;
* **asynchronous services** (manager): futures answered late, answered for an
  earlier attempt, retried, or dropped while their request is still travelling;
* **decisions on reports** (manager): every decision uses the last report, which
  lags behind the vehicle and may be stale;
* **an unlocked thread** (Hooke2): it stores enable bits and targets into messages
  that two timers read and write, while the driver may be taking over;
* **a counter that wraps, a recovery that repeats** (Hooke2): both withhold what
  was commanded and have to end;
* **cards that wait, fail or repeat** (CAN driver), a stop that waits for a thread,
  and queues that drop their oldest frame;
* **windows of samples from two topics** (diagnostics), compared as if they were
  of the same time;
* **clock steps, silence and crashes** on both sides.

What makes the components correct: a vehicle interface never lets the chassis move
without an authority that was granted, is watched and can still be withdrawn, and
what it withdraws reaches the chassis; the manager enables control only from a
confirmed stop, attributes every answer to its own attempt, publishes the phase it
is in, and ends every attempt with the vehicle handed over; frames mean on one side
what was written on the other; the diagnostics accuse no healthy vehicle and miss
no broken one.

## 2. Modules

| Module | Models |
|---|---|
| `ChassisFrames` | command frames of the RC chassis, as far as the firmware tells them apart |
| `ChassisAuthority` | abstract specification: an authority granted and withdrawn, and the frames that may follow one another |
| `RcVehicleInterface` | the RC node, every callback and the steps of its serial timer; implements `ChassisAuthority` |
| `RcSerialProtocol` | the RC frames byte by byte and the stream decoder |
| `RaceRuntimeManager` | the manager against an open environment |
| `RaceLoop` | the manager composed with the vehicle, the gate and the requests in flight |
| `Hooke2Interface` | the Hooke2 node: callbacks, both timers and the enabling thread |
| `Hooke2Diag` | the diagnostics node, and the vehicle it watches |
| `Hooke2Codec` | packing and unpacking of all Hooke2 frames (operators only) |
| `CanDriver` | the CAN driver node with its four clients |
| `Hooke2CanPath` | `CanDriver` and `Hooke2Codec` composed with the bus and the chassis |
| `RcVehicleInterfaceProofs`, `RaceRuntimeManagerProofs`, `RaceLoopProofs`, `Hooke2InterfaceProofs`, `Hooke2DiagProofs`, `CanDriverProofs`, `RcSerialProtocolProofs`, `Hooke2CodecProofs` | theorems |
| `MC...` | values for TLC; `MCRcReconnect` adds a history variable (has anything been heard on this connection) |

Definitions keep the names of the functions they model (without the trailing or
leading underscore of members); `PROJECT.json` gives the lines of each.

### RcVehicleInterface

A variable per member of the node; `fault_clear`, `emergency` and `hall` are the
records of the handshake flags and of the two monitor classes. The executor is
single-threaded, so a callback is one action. The serial timer is split at the
places where it may lose the port: `try_open_serial`, `check_emergency_status`,
`poll_serial`, `read_serial` and one `publish_feedback` per frame of a batch, with
`pc` and `rx` as its program counter. Each write succeeds or fails; a failed write
is `close_serial`, as in the code. `wire` is the last frame written on the present
connection, the one thing the chassis sees. Times are ages in ticks, saturated just
above the bound they are compared with. Telemetry, commands, requests and crashes
are unconstrained. Status bits the code always tests together are one field
(`halted`, `history`); steering is zero or not.

### RcSerialProtocol

Bytes are integers, frames sequences. `read_serial` takes any number of bytes from
the line into the buffer and starts `append`, whose loop is taken turn by turn: one
action for each way a turn can end (`discard_all`, `wait_for_more`, `tail_error`,
`bcc_error`, `protocol_error`, `valid_frame`); `skip_to_header`, with which a turn may
begin, is a step of its own. `pc` is "decode" meanwhile, and nothing else is enabled:
in the code `append` runs to its end on the one thread of the node. `reconnect`
discards the buffer and misses some bytes. Four history variables, which no guard but
the bound on reconnections reads, say what the properties speak of: which part of the
stream each ended connection read, how many bytes were read, and where the frames that
were handed on or passed over begin. `FramesRecovered` compares them with what the
stream itself says. The firmware's `TelemetryFrame` is external.
`encode_command_frame` meets `decode_i16_be` in the streams, whose telemetry repeats
what the chassis read in an encoded command.

### RaceRuntimeManager

One variable per attribute; `input` holds the timed inputs as (message, age),
`pending` the futures, `wait` what is left of the retry time and `published` what
the last timer sent. Each branch of `_on_timer` is an action `timer_<phase>`,
conjoined with `publish`, because `_publish` ends every timer callback; a tick is
one timer period. Messages are reduced to what the manager distinguishes.
`_odometry` and `_steering` are one input since the manager only asks whether both
are fresh. `startup_age` is kept in IDLE only, the one phase that reads it.
`Flaky` are the inputs that may go stale, `MaybeDown` the services that may be
unavailable, `Offered` what publishers may send.

### RaceLoop

Adds `vehicle`, `gate_engaged` and `in_flight`, the requests sent and not yet
served. `reset` and `rollback` (the clock stepped back, in whatever phase, also
while the vehicle drives) drop the manager's futures (`held = FALSE`) but not the
requests. The gate (`autoware_vehicle_cmd_gate`) is external and modelled from the
topics and services the manager uses.

The vehicle is the RC interface at the level the manager sees, and keeps two things
apart that the interface keeps apart: `requested` is `autonomous_requested_`, the
authority itself; what is reported as control mode is made of the firmware's status
bits (`reported_control_mode`). Under the driver's `override` MANUAL is reported while
the authority is kept, and AUTONOMOUS again after `give_back`; a firmware that does
not follow (`following` false: no frame yet, a timeout, a frame error) is reported as
NO_COMMAND. AUTONOMOUS requests may be refused, and are under an MRM; MANUAL
withdraws always; `withdraw` is an emergency, a chassis fault or a lost port. A
`report` carries what is true when it is sent, except that the flaky inputs may stay
away for any time, as `VelocityReport` does while the Hall sensor does not answer.
The planner brakes at the end of the course and nowhere else, which is what
`_apply_local_velocity_envelope` does.

Simplifications: gear and publications take effect at once, since both sides repeat
them and every property is about what happens between reports and requests; the up to
250 ms for which the firmware may go on reporting AUTONOMOUS after a withdrawal are
covered only by reports that come late; a driver who has taken over lets the vehicle
roll or stops it but does not set off from rest.

### Hooke2Interface

Callbacks and timers run on one executor and are atomic. `enableAutoMode` is a
second thread without a lock; it takes one step per message it stores into, and
everything else may happen in between. `out` and `enabled` are the six command
messages, `bus` the frames `publishCan` sent last, all reset while
`disable_auto_mode_` is set. The steering angle is told apart by where it comes from
(`Angles`): commanded, held, or the reported angle in radians that the thread
stores where degrees belong. Reports 0x500 to 0x503 and 0x506 have no effect until
the synchronizer has one of each and are one input. `takeover` and `asked` are
history variables. Each topic delivers a script in order, interleaved in any way
with the others; the timers and the thread are not bounded.

### CanDriver, Hooke2Codec, Hooke2CanPath

`CanDriver` follows the life of the node: `init()` of each client as the sequence
of calls that may fail, the receive thread with its batch, the subscription that
sends, the destructor that clears `is_running_`, joins and closes. The clients
differ as in the code: a socket read blocks, the others give up waiting, and the
ESD client stores the count of frames into a `const` parameter, so its copy may
cover old records (a nondeterministic choice).

`Hooke2Codec` writes commands as the setters do, piece by piece with `set_value`,
and reads reports as the handlers do. The chassis' side is external and is taken
from the "config detail" comments in the classes: start bit, length and offset in
Motorola order. Two independent descriptions of the same frames meet in
`Hooke2CanPath`: packed by the code and read by the description, written by the
description and unpacked by the code.

### Hooke2Diag

The node and the vehicle it watches, which answers a command one tick later within
its limits, or whose brake or drive is broken, or repaired later. A script of phases
(who drives, how fast, what is commanded, which topics live) lasts as long as it
likes; messages may be lost.

## 3. Runs

| Run | Result | Shows |
|---|---|---|
| `rc_interface` | pass | ten properties of the RC node under arbitrary input, failing writes and crashes, among them the refinement of `ChassisAuthority` |
| `rc_telemetry` | pass | with `telemetry_only` nothing is written and a lost port stays closed |
| `rc_wire` | pass | the decoder hands on exactly the telemetry sent, in order, and accounts for every byte |
| `race_manager` | pass | answers belong to the attempt, engaging is ordered, the gate sees the phase, control is enabled from a stop only |
| `race_loop` | pass | motion without supervision ends, FINISHED is true of interface, gate and requests, faults hand over, an arrival finishes |
| `hooke2` | pass | nothing is enabled unasked, a takeover stays on the bus, emergency and takeover reach it, engaging completes, every hold ends, the lamps follow |
| `hooke2_diag` | pass | no healthy vehicle is accused, faults are found and withdrawn, silence is reported |
| `can_path` | pass | reports are kept in order, the card stays open under its thread, a stop ends, what is read back settles to what was commanded |
| `rc_reconnect` | violation | AUTONOMOUS accepted before anything was heard on the connection |
| `loop_stop` | violation | an accepted stop does not stop the vehicle |
| `loop_reset` | violation | IDLE after a reset while the interface has authority |
| `hooke2_timeout` | violation | a Control message older than the timeout does not brake |

The four violations are disagreements between the code and its own messages; see
"findings" in `PROJECT.json`. Each is a behaviour of the model of the code as it
is: in `rc_reconnect` a stop frame fails in the middle of a batch of feedback
frames and the next frame of the batch marks the closed port as heard; in
`loop_stop` STOPPING publishes exactly what ACTIVE does and waits for a speed
nobody lowers; in `loop_reset` the reset is granted on a report that is older than the
service's answer, or while the request is on its way; in `hooke2_timeout` the chained comparison
`delta > t_out > t_out` is false for every positive timeout.

Exceptions that the properties themselves name, because the code has them:
`EngageEnables` excepts a thread that has ended in an earlier engagement,
`StopEnds` a blocking socket read on a silent bus and a thread that starts after
the destructor has cleared its flag, `InFlightKept` the ESD client.

Two limits of what the CAN runs say. The topic of the reports is without loss in
`CanDriver` (`Capacity` holds the bus back instead), while the node publishes with
`KeepLast(30)`: `InFlightKept` and its theorem speak of a reader that is never more
than thirty frames behind. And `EchoSettles` checks the
layout of the bits independently on the command side only, where setters and the
handlers that read them back are different code; for reports the layout is taken from
the handlers themselves, which are the only statement of it in the repository.

**Bounds.** RC: batches of two frames (the smallest in which a failure has a
frame after it), timeouts of one or two ticks (fresh, at the limit, past it), one
speed above the minimum and one clamped in each direction, and one below the
minimum. Telemetry takes every combination of the fault bits with the four
patterns of the Hall bits. Manager: one input may go silent and may carry an old
stamp (velocity, the one every decision uses), a retry time of two ticks (one
tick in which a call is held back), and an immediate start-up timeout so that both
outcomes of IDLE are reached. Loop (`race_loop`): the velocity may stay away for any
time, which also faults an attempt; the retry time is two ticks (with one, READY
repeats its request before it looks at the answer and never arms); a reset or a clock
step finds at most one request on its way, to either service. `loop_stop` and
`loop_reset` ask about an attempt without clock steps (`ClockSteps = FALSE`) in which
odometry may go silent.

RC wire: every pair of six pieces (noise, a good frame, one whose payload holds a
header and a tail, one of another protocol, a fragment, a damaged one) after a
stray header and before a last good frame, in reads of 1, 7 and 30 bytes (less than a
frame and more than one), with one reconnection that misses nine bytes. Hooke2: a shift counter of four values, so that
it wraps within a script, holds and thresholds of one cycle, and seven scripts:
two requests around a takeover, withdrawal and a wire fault, gear changes at and
above standstill with the park brake applied and released, lamps, an emergency
that comes, goes and comes, silence, and shutdown during engagement. CAN path: a
batch and a queue of two frames (full, partly full, overflowing), one failing call;
three of the seventeen scripts also fail and stop (`disturbed`), the others check
the codec at both ends of each range, beyond them and with every byte in use.
Diagnostics: a window of four ticks, one lost message, commands beyond both limits.
No symmetry is used: the sets are of distinct roles.

**Fairness.** `RaceLoop`: weak fairness of the manager's timer, the reports that
are published periodically (not those that stay away), the vehicle's coming to rest
while neither the gate's command nor the driver moves it, and the two services. `Hooke2Interface`: the two timers, the
thread and the join of the destructor. `Hooke2CanPath`: the receive thread, the
executor's sends, the join, the interface's timer, the bus, the chassis' periodic
reports and the reader. `Hooke2Diag`: the executor, the updater's timer and time.
Each of these is a timer, a thread or a callback that stays enabled until it runs.
Nothing forces the driver, the operator, a flaky report, motion, a fault, a stop or
the next step of a script. `EchoSettles` has one more premise, that the driver
empties its queue now and then: six frames per cycle in a queue of ten can
otherwise drop the same frame every time.

Deadlock is checked except in `hooke2`, `hooke2_timeout`, `can_path`, whose
processes end, and in `rc_wire`, whose streams do.

## 4. Proofs

The proof modules follow the same argument: `Init => Inv`,
`Inv /\ [Next]_vars => Inv'`, `Inv => property`, for every value of the constants
that satisfies the named assumptions (`SpeedAssumption`, `ParameterAssumption`,
`ManagerAssumption`, `LoopAssumption`, `Hooke2Assumption`, `DiagAssumption`,
`CanAssumption`, `WireAssumption`: positive timeouts and lengths, limits in order, messages of the
right kinds). Where a theorem needs more it says so as its own hypothesis, and the
paragraph below says what happens without. TLC evaluates the
assumptions in the runs.

**RcVehicleInterfaceProofs.** `Inv` is the type invariant, the safety properties,
and two strengthenings they are not inductive without:

* `TransmittedMeansOutstanding`: `has_transmitted_command_` says exactly whether
  the frame on the wire still needs a stop. MANUAL and the destructor decide by the
  flag; `StopOnWithdrawal` is about the wire;
* `EmergencyChecked`: after the timer has looked at the emergency status in a
  tick, an authority still held is fresh. Without it the age could grow by a tick
  at a time and `EmergencyWatched` would not be preserved.

Most steps either withdraw the authority or leave it alone; `WithdrawnInv`
(well-typed and withdrawn implies `Inv`), `CloseWithdraws` and `LatchWithdraws`
settle the first kind once, and the long cases of `NextInv` are the control
command and the feedback frame. `MotionIsSafe` and `StandstillIsReal` are action
properties derived from `Inv`; so is `TelemetryOnlyIsPassive`, which needs that
neither authority nor handshake exists in telemetry-only mode. `Refinement` maps
every step to a step of `ChassisAuthority` or a stutter.

**RaceRuntimeManagerProofs.** `Inv` is the type invariant, `AcceptanceIsOurs`,
`EngageOrdered`, `GateSeesPhase` and `EngageCleared` (no engage request survives
into IDLE or READY), which `EngageOrdered` needs because the armed flag is reset
with the futures. `CallServiceEffect` says once what `_call_service` does to the
pending calls. `ControlEnabledFromStop` is an action property: it needs
`GateSeesPhase` to know that control was not enabled in the phases that enable it.

**RaceLoopProofs.** The manager with the interface, the gate and the requests in
flight; the steps of the manager are taken from `RaceRuntimeManagerProofs`. `LoopInv`
adds `FuturesMatch` to the manager's invariant: a future that is still open is the
last request of its queue, and an answered one leaves the queue empty. It holds for
all constants, resets and clock steps included. FINISHED is then shown to be true in
two halves, since the manager concludes it from reports, of which MANUAL may be only
the driver's override and the velocity may be old:

* `FinishedWithdrawn`, the authority. `AuthorityKnown` does not look at reports at
  all: from ARMING on no AUTONOMOUS request is on its way, and in STOPPING the retry
  time of the answered one is over (`Stage` counts the callbacks it takes to get
  there, at least five), so that the first callback that finds the vehicle at rest
  asks for MANUAL before it can confirm the stop. Hence the two hypotheses, that the
  control mode service is available and `Retry <= 5`, which is `service_retry_sec` of
  0.25 s at 20 Hz in every parameter file, without a tick to spare. TLC finds FINISHED
  with the authority kept, confirmed by an override, when the service may be down, and
  when `Retry` is six. Which reports stay away and how many requests are left over
  does not matter;
* `FinishedIsTrue`, the gate as well. `GateKnown` follows the order of the requests to
  the gate (`DisengageLast`, `DisengageNext`, `OneLeftOver`). It takes the gate's
  engagement to be part of every report and at most one request to be on its way when
  futures are dropped (`MaxInFlight <= 1`); with two, TLC finds an engage request of
  the present attempt behind a disengage request of an earlier one, and FINISHED
  concluded between the two.

The other properties of the run are temporal. In particular no theorem says that the
vehicle stands in IDLE or FINISHED: a clock step takes the manager to IDLE in full
drive, and a standstill may be concluded from an old velocity. `MotionSupervised` says,
under fairness, that such motion ends.

**Hooke2InterfaceProofs.** Types first, for every counter width: `CounterType` is
the wrap below zero. `AuthorityInv` then joins the two safety properties with what
they need. Before the first request the thread has not left the top of its loop
(or has ended), so a store of an enable bit cannot be pending. From the takeover to
the next request the node is not engaged *and* the frames are disabled:
`DisableAfter` clears the flag only when engaged, which is why a pass of the thread
that is still running may set enable bits but never puts them on the bus.

**CanDriverProofs.** `BatchInv` strengthens the types: outside `recv` and
`publish` the batch is empty, which bounds it for the ESD client's copy.
`ThreadInv` relates the thread's place to the phase of the node and the open card
and gives `DeviceOpenWhileUsed`. `KeptNext` takes `InFlightKept` action by action
with three facts about concatenation (`MoveOne`, `Prefix`, `TailConcat`): a frame
moves from the card to the batch and from there to the topic without changing
`out \o frames \o rx`.

**Hooke2DiagProofs.** `WindowInv` adds to the types that a window holds one sample
per tick, oldest first (`Spaced`): `addValueToQue` drops one sample at most, and this
is what bounds the windows by `StoreTime + 2` (`TypeCorrect`). `WindowBounds` says
what `getMinValue` and `getMaxValue` return for a window of any length; it is an
induction over the length, made with the least length at which it would fail
(`LeastNat`, from the well-foundedness of `<`), since the library's induction
theorems cannot be instantiated. From it follows `AlarmsJustified`, without hypotheses.

`NoAccusation` (`NoFalseAlarm` for every window, threshold and drive) has the
inductive invariant `AlarmInv`. The checks pass while one window is too young or the
two share a command and its answer (`Covered`). Undisturbed, every tick adds such a
pair; a lost message or a change of phase spoils the pair of one tick. So the youngest
pair may be as old as the store time less the disturbances still to come (`Slack`),
less one tick, or two if the tick in progress is already spoilt (`Owed`), unless the
measurement about to arrive makes up for it (`Provided`). The lemmas `Cover...` say
that aging costs one tick and a new sample nothing, `KeptBy...` take the actions. The
hypothesis `Undisturbed` has two parts, both needed:

* fewer lost messages and changes of phase in a drive than ticks in
  `accel_store_time`. The bound is sharp: with one more TLC finds a healthy vehicle
  accused. The instance of `hooke2_diag` meets it with equality;
* reports go on while somebody else drives. `checkHooke2AccelBrake` and
  `addValueToQue` go by the last `enabled` they have seen, however old; if the reports
  end with the take-over, the driver's accelerations are held against the commands
  and TLC finds the accusation.

**RcSerialProtocolProofs.** For every stream of bytes, every way to cut it into reads
of at most 512 bytes, and every number of reconnections. `DecoderInv` is the types and

* `Window`: the buffer is the part of the stream that ends at the read position, and
  begins no earlier than the present connection; earlier connections end before it;
* `Found`: the frames handed on or passed over lie apart, before the buffer, each in
  one connection, and what was handed on has the frame's own bytes;
* `Scanned`: every well-formed frame that one connection read and that begins before
  the buffer is, or begins inside, one that was found;
* `BytesAccounted` itself.

`Scanned` is what makes completeness inductive. A turn that drops a single byte may do
so because a frame does not begin there (`NoFrameHere`: no header, a wrong tail, a
wrong check byte); a turn that drops 24 has found a frame (`TakeFrame`); a
reconnection drops less than 24, because `append` leaves no more (`BytesAccounted`), so
no whole frame of the connection that ends is among them. `DecoderRecovers` then reads
`FramesRecovered` off the invariant. That the loop ends is two theorems:
`DecoderTurnReady` (in the loop the guard of some turn holds) and `DecoderLoopConsumes`
(every turn but the last shortens the buffer).

The frames themselves are proved for all values: `FrameOfFeedback` and
`FeedbackOfFrame` are the two directions of the telemetry round trip, with the signed
16 and 32-bit fields, and `CommandOnWire` says that a command `encode_command_frame`
accepts is framed, carries speed and steering within half a unit, and is zero when
stopped. The check byte is opaque in all of this (`calculate_bcc` is a fold over the
bytes, and that the fold yields a byte is an induction the provers cannot do): the
proofs hold for any function in its place.

**Hooke2CodecProofs.** `SetValueBits` says bit by bit what `set_value` does for every
byte, value, start and length, and `SetValuesCommute` follows from it with `SameBits`
(a byte is its bits): setters of a command that write different bits can come in any
order, as `UpdateData` takes for granted. `VcuReportExact` is about the two signed
values of the VCU report. The arithmetic goes through `Parts`: a number cut at two
powers of two.

Only model-checked: what a whole Hooke2 command frame carries (`SetField` and `DbcRead`
are folds and recursive functions over the pieces of a signal, `EchoSettles`
checks them), all liveness (TLAPS does not do ENABLED and fairness) and the four
violations.

## 5. Not modelled, and the plan

`PROJECT.json` lists every component with its status. About two thirds of the
repository's C and C++ lines (19 800 of 29 100) are vendor headers of CAN card
libraries (`canlib.h`, `ntcan.h`, `hydra_host_cmds.h`, `filo_cmds.h`, ...): there
is no code in them to model. Of the repository's own C++ the map covers about two
thirds; the rest is

* `ParamMonitor`, a table on a terminal, and `MessageManager`, whose creation is
  commented out in the node's constructor;
* the VIN string (`checkVin` and the request bit it decides), which nothing else reads;
* the C32 and IMU adapters, floating-point conversions of one message each;
* includes, declarations, logging and message layout.

In the Hooke2 codec the division of a double by the precision is exact in the
values the scripts use; where the quotient falls short of an integer the code sends
one unit less. Pedal values are in 0..1 in the limiter and in percent in the signal:
what the chassis makes of that cannot be decided from the repository, and it is
listed as a hazard without a property.

Still worth modelling, in order (all Python and shell):

1. `G90NtripRelay`: the worker against `stop()`: nothing stays open, the worker
   ends, no GGA older than the connection is forwarded.
2. `LocalizationBridge` and `LocalPlanner`: initialization and arrival state
   machines with stale inputs; progress never jumps over the course.
3. NMEA epoch assembly and the fixed-course checks over bounded inputs.
4. `RecordingSession`: ownership and stop sequence of the recording scripts.
5. `RaceLoop` with `RcVehicleInterface` in the place of the abstract vehicle
   (telemetry in the place of `reported_control_mode`, the firmware's own lag,
   crashes of the manager).
6. `Hooke2Interface` on top of `CanDriver` (one state space: the frames of
   `Hooke2CanPath` are scripted commands today).

Out of scope: floating-point geometry and filtering, launch files, bench scripts,
third-party code and data.

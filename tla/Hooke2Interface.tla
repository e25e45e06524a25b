-------------------------- MODULE Hooke2Interface --------------------------
(***************************************************************************)
(* Hooke2Interface: the ROS node between Autoware and the Hooke2 chassis.  *)
(* Its callbacks and two timers run on a single-threaded executor, so each *)
(* is atomic.  A second thread, enableAutoMode, stores the actuator enable *)
(* bits and first targets into the same messages with no lock: it takes    *)
(* one step per message, and any callback may run in between.              *)
(*                                                                         *)
(* Units: cm/s, dm/s^2, pedals in 1/100.  Ages are ticks of TickMs.  The   *)
(* chassis, the planner and the operator are an open environment: each     *)
(* topic delivers its own messages in order, interleaved in any way with   *)
(* the other topics, the timers and the thread, which are not bounded.     *)
(***************************************************************************)
EXTENDS Integers, Sequences

CONSTANTS
    CounterModulus,    \* values of the uint8_t vehicle_shift_counter_
    InitialHold,       \* its first value
    ShiftHold,         \* cycles of standstill around a gear change
    ThreshCycles,      \* hazard_thresh_time in publishCommands cycles
    RecoverNum,        \* hazard_recover_cmd_num_
    MaxSpeed, MaxThrottle, MaxBrake, EmergencyBrake,   \* limiter parameters
    CommandTimeout,    \* command_timeout_ms
    TickMs,            \* milliseconds per tick of the ages
    DrivingInterface,  \* vehicle_driving_interface
    Scripts,           \* what each input may deliver, in order
    None               \* no message yet

Actuators == {"park", "gear", "steer", "brake", "throttle"}
Wires == {"steer", "accel", "brake"}
Gears == {"none", "park", "reverse", "neutral", "forward"}
AutowareGears == {"PARK", "REVERSE", "DRIVE", "LOW", "NEUTRAL", "OTHER"}
TurnReports == {"off", "left", "right", "hazards"}
TurnCmds == {"off", "left", "right"}
\* vehicle_mode_state of the VCU report.
Modes == 0..3
\* Where steer_angle_target comes from: never set, the reported angle in
\* degrees, the commanded angle in degrees, the reported angle in radians.
Angles == {"zero", "held", "command", "radians"}

\* The contents of each input.  "vcu" is report 0x505; "wires" stands for
\* reports 0x500 to 0x503 together: the wires enabled (on), those with a
\* communication fault (faulty) and the gear.
ControlCmds == [v : Int, a : Int]
ActuationCmds == [accel : Int, brake : Int]
VcuReports == [mode : Modes, turn : TurnReports, speed : Int]
WireReports == [on : SUBSET Wires, faulty : SUBSET Wires, gear : Gears]
Inboxes == [control : Seq(ControlCmds), actuation : Seq(ActuationCmds),
            gear : Seq(AutowareGears), emergency : Seq(BOOLEAN),
            turn : Seq(TurnCmds), hazard : Seq({"disable", "enable"}),
            request : Seq(BOOLEAN), door : Seq({"open", "close"}),
            park : Seq(BOOLEAN), vcu : Seq(VcuReports),
            wires : Seq(WireReports), tick : Seq({"tick"}),
            shutdown : Seq({"shutdown"})]

\* hazard_recover_count_ and the cycles since the turn report last matched.
Lights == [since : 0..ThreshCycles, count : 0..RecoverNum + 1]

ASSUME Hooke2Assumption ==
    /\ CounterModulus \in Nat /\ InitialHold \in 0..CounterModulus - 1
    /\ ShiftHold \in 0..CounterModulus - 1
    /\ {ThreshCycles, RecoverNum, CommandTimeout, TickMs} \subseteq Nat
    /\ {MaxSpeed, MaxThrottle, MaxBrake, EmergencyBrake} \subseteq Nat
    /\ DrivingInterface \in 0..2
    /\ Scripts \subseteq Inboxes
    /\ None \notin ControlCmds /\ None \notin ActuationCmds
    /\ None \notin AutowareGears \cup TurnCmds \cup {"disable", "enable"}
    /\ None \notin [mode : Modes, turn : TurnReports]

VARIABLES
    status,                \* "running", "crashed", "stopping" or "stopped"
    pc,                    \* where the enableAutoMode thread is
    engage_cmd, auto_enabled, clear_needed, control_mode_cmd,
    prev_override, disable_auto_mode,
    cmd,                   \* the latest messages of each subscription
    cmd_age,               \* ticks since control_command_received_time_
    rpt,                   \* the latest synchronized report
    rpt_age,               \* ticks since global_rpt_ptr_.header.stamp
    pending,               \* VCU report waiting in the synchronizer
    speed, parking,        \* current_speed, parking_actual_
    shift_counter,         \* vehicle_shift_counter_
    lights,
    enabled,               \* actuators whose *_en_ctrl is set
    out,                   \* the other fields of the six command messages
    bus,                   \* the six frames publishCan sent last
    door,                  \* last command on the rear door topic
    inbox,                 \* what each input has still to deliver
    takeover,              \* history: the driver has taken the vehicle
    asked                  \* history: autonomous driving was requested

authVars == <<engage_cmd, clear_needed, control_mode_cmd>>
modeVars == <<prev_override, disable_auto_mode>>
rptVars  == <<rpt, rpt_age, pending, speed, parking>>
outVars  == <<shift_counter, lights, out>>
vars == <<status, pc, engage_cmd, auto_enabled, clear_needed,
          control_mode_cmd, prev_override, disable_auto_mode, cmd, cmd_age,
          rpt, rpt_age, pending, speed, parking, shift_counter, lights,
          enabled, out, bus, door, inbox, takeover, asked>>

Frames == [enabled : SUBSET Actuators, vel : Int, thr : Int, acc : Int,
           brk : Int, aeb : BOOLEAN, angle : Angles, gear : Gears,
           park : BOOLEAN, turn : TurnReports]

\* What every command class encodes after Reset().
ResetFrames ==
    [enabled |-> {}, vel |-> 0, thr |-> 0, acc |-> 0, brk |-> 0,
     aeb |-> FALSE, angle |-> "zero", gear |-> "none", park |-> FALSE,
     turn |-> "off"]

Init ==
    /\ status = "running" /\ pc = "loop"
    /\ engage_cmd = FALSE /\ auto_enabled = FALSE /\ clear_needed = FALSE
    /\ control_mode_cmd = FALSE
    /\ prev_override = FALSE /\ disable_auto_mode = FALSE
    /\ cmd = [control |-> None, actuation |-> None, gear |-> None, turn |-> None,
              hazard |-> None, emergency |-> FALSE]
    /\ cmd_age = 0
    /\ rpt = [received |-> FALSE, gear |-> "none", turn |-> "off",
              override |-> FALSE, fault |-> FALSE, enabled |-> FALSE]
    /\ rpt_age = 0 /\ pending = None
    /\ speed = 0 /\ parking = TRUE
    /\ shift_counter = InitialHold
    /\ lights = [since |-> 0, count |-> 0]
    /\ enabled = {}
    /\ out = [vel |-> 0, thr |-> 0, acc |-> 0, brk |-> 0, aeb |-> FALSE,
              angle |-> "zero", gear |-> "none", park |-> FALSE,
              turn |-> "off", speed_drive |-> FALSE]
    /\ bus = ResetFrames
    /\ door = None
    /\ inbox \in Scripts
    /\ takeover = "no" /\ asked = FALSE

-----------------------------------------------------------------------------
(* Subscriptions and services.                                             *)

Input(topic) ==
    /\ status = "running"
    /\ inbox[topic] # <<>>
    /\ inbox' = [inbox EXCEPT ![topic] = Tail(@)]

Received(topic) ==
    /\ Input(topic)
    /\ cmd' = [cmd EXCEPT ![topic] = Head(inbox[topic])]
    /\ UNCHANGED <<status, pc, authVars, modeVars, auto_enabled, rptVars,
                   outVars, enabled, bus, door, takeover, asked>>

callbackControlCmd == Received("control") /\ cmd_age' = 0
callbackActuationCmd == Received("actuation") /\ UNCHANGED cmd_age
callbackGearCmd == Received("gear") /\ UNCHANGED cmd_age
callbackEmergencyCmd == Received("emergency") /\ UNCHANGED cmd_age
callbackTurnIndicatorsCommand == Received("turn") /\ UNCHANGED cmd_age
callbackHazardLightsCommand == Received("hazard") /\ UNCHANGED cmd_age

\* AUTONOMOUS and its two partial forms engage; MANUAL and NO_COMMAND do
\* not; any other mode is refused and changes nothing.
onControlModeRequest ==
    LET autonomous == Head(inbox.request)
    IN  /\ Input("request")
        /\ engage_cmd' = autonomous
        /\ clear_needed' = TRUE
        /\ control_mode_cmd' = autonomous
        /\ takeover' = IF autonomous THEN "no" ELSE takeover
        /\ asked' = (asked \/ autonomous)
        /\ UNCHANGED <<status, pc, modeVars, auto_enabled, cmd, cmd_age,
                       rptVars, outVars, enabled, bus, door>>

\* The clear-override message and the door command; ignored unless engaged.
setDoor ==
    /\ Input("door")
    /\ door' = IF engage_cmd THEN Head(inbox.door) ELSE door
    /\ UNCHANGED <<status, pc, authVars, modeVars, auto_enabled, cmd, cmd_age,
                   rptVars, outVars, enabled, bus, takeover, asked>>

-----------------------------------------------------------------------------
(* CAN reports.  Reports 0x500 to 0x503 and 0x506 change nothing until the *)
(* synchronizer has one of each, so callbackHooke2Rpt takes all of them    *)
(* at once; 0x504 and 0x505 act on the node when they arrive.             *)

onParkReport504 ==
    /\ Input("park")
    /\ parking' = Head(inbox.park)
    /\ UNCHANGED <<status, pc, authVars, modeVars, auto_enabled, cmd, cmd_age,
                   rpt, rpt_age, pending, speed, outVars, enabled, bus, door,
                   takeover, asked>>

onVcuReport505 ==
    LET r == Head(inbox.vcu)
    IN  /\ Input("vcu")
        /\ auto_enabled' = (auto_enabled /\ r.mode # 0)
        /\ speed' = r.speed
        /\ pending' = [mode |-> r.mode, turn |-> r.turn]
        /\ UNCHANGED <<status, pc, authVars, modeVars, cmd, cmd_age, rpt,
                       rpt_age, parking, outVars, enabled, bus, door,
                       takeover, asked>>

\* override_active and hooke2_sys_fault_active of the global report.
processGlobalRpts(mode, faulty, gear, turn) ==
    [received |-> TRUE, gear |-> gear, turn |-> turn,
     override |-> mode \in {0, 2}, fault |-> faulty # {},
     enabled |-> control_mode_cmd]

callbackHooke2Rpt ==
    LET r == Head(inbox.wires)
    IN  /\ Input("wires")
        /\ pending # None
        /\ rpt' = processGlobalRpts(pending.mode, r.faulty, r.gear, pending.turn)
        /\ rpt_age' = 0
        /\ pending' = None
        /\ auto_enabled' = (r.on = Wires)
        /\ UNCHANGED <<status, pc, authVars, modeVars, cmd, cmd_age, speed,
                       parking, outVars, enabled, bus, door, takeover,
                       asked>>

-----------------------------------------------------------------------------
(* publishCommands: the 30 Hz timer that turns the latest messages into    *)
(* the fields of the six command messages.                                 *)

Clamp(lo, hi, x) == IF x < lo THEN lo ELSE IF x > hi THEN hi ELSE x

CommandsGuard == cmd.control # None /\ rpt.received /\ cmd.gear # None

\* Parked, or within the cycles after a gear change: nothing may move.
Holding == parking \/ shift_counter > 0

desired_speed == IF Holding THEN 0 ELSE cmd.control.v
desired_acceleration == IF Holding THEN 0 ELSE cmd.control.a

\* control_cmd_delta_time_ms > t_out > t_out compares the truth value of the
\* first comparison with t_out.
Timeouted ==
    /\ CommandTimeout >= 0
    /\ (IF cmd_age * TickMs > CommandTimeout THEN 1 ELSE 0) > CommandTimeout

\* Mutant: an emergency is heeded only while engaged.
StoppingWhenEngaged == (cmd.emergency /\ engage_cmd) \/ Timeouted
Stopping == cmd.emergency \/ Timeouted

PedalThrottle ==
    IF cmd.actuation # None THEN cmd.actuation.accel
    ELSE IF desired_acceleration >= 0 THEN desired_speed \div 5 ELSE 0

PedalBrake ==
    IF cmd.actuation # None THEN cmd.actuation.brake
    ELSE IF desired_acceleration >= 0 THEN 0 ELSE -2 * desired_acceleration

toHooke2ShiftCmd ==
    CASE cmd.gear = "PARK"    -> "park"
      [] cmd.gear = "REVERSE" -> "reverse"
      [] cmd.gear = "NEUTRAL" -> "neutral"
      [] OTHER                -> "forward"

\* Below 0.1 m/s the gear may change.
SlowEnough == -10 < speed /\ speed < 10
ShiftNeeded == SlowEnough /\ toHooke2ShiftCmd # rpt.gear

\* A parked vehicle runs the counter below zero, where it wraps.
\* Mutants: a signed counter; a counter that only runs while parked.
ShiftCounterSigned ==
    IF ShiftNeeded THEN ShiftHold
    ELSE IF Holding THEN shift_counter - 1 ELSE shift_counter
ShiftCounterWhenParked ==
    IF ShiftNeeded THEN ShiftHold
    ELSE IF parking THEN (shift_counter - 1) % CounterModulus ELSE shift_counter
ShiftCounterAfter ==
    IF ShiftNeeded THEN ShiftHold
    ELSE IF Holding THEN (shift_counter - 1) % CounterModulus ELSE shift_counter

BrakeForShiftTrans == 70

\* The targets of the six messages, each within its limit.
ThrottleCommand ==
    IF Stopping \/ ShiftNeeded THEN 0 ELSE Clamp(0, MaxThrottle, PedalThrottle)
AccelerationCommand ==
    IF desired_acceleration > 0 THEN desired_acceleration ELSE 0
BrakeCommand ==
    Clamp(0, MaxBrake, IF ShiftNeeded THEN BrakeForShiftTrans
                       ELSE IF Stopping THEN EmergencyBrake ELSE PedalBrake)
\* The rate limiter starts at the reported angle while not engaged.
SteeringCommand(engaged) == IF engaged THEN "command" ELSE "held"
ShiftCommand == IF ShiftNeeded THEN toHooke2ShiftCmd ELSE rpt.gear
ParkCommand == IF SlowEnough THEN cmd.gear = "PARK" ELSE out.park
SpeedCommand ==
    IF desired_speed >= 0 THEN Clamp(0, MaxSpeed, desired_speed)
    ELSE Clamp(20, MaxSpeed, -desired_speed)

\* Engagement survives a cycle unless the driver takes over, the reports
\* are more than a second old, or a wire reports a fault.
StaysEngaged ==
    /\ engage_cmd
    /\ ~(rpt.override /\ ~prev_override)
    /\ ~(rpt_age * TickMs > 1000)
    /\ ~rpt.fault

\* disable_auto_mode_ at the end of the cycle.
\* Mutant: the flag is cleared as soon as the override report ends.
DisableWhileOverridden(engaged) ==
    IF ~engaged /\ auto_enabled THEN disable_auto_mode ELSE rpt.override
DisableAfter(engaged) ==
    CASE ~engaged /\ auto_enabled    -> disable_auto_mode
      [] engaged /\ ~rpt.override    -> FALSE
      [] OTHER                       -> disable_auto_mode \/ rpt.override

toHooke2TurnCmd == IF cmd.hazard = "enable" THEN "hazards" ELSE cmd.turn

\* The report's command field is never filled in and reads TURN_RIGHT.
TurnMatched(engaged) == ~engaged \/ rpt.turn = "right"
Recovering(engaged) ==
    ~TurnMatched(engaged) /\ lights.since >= ThreshCycles

\* In recovery a hazard report leaves turn_light_ctrl as it is.
TurnLight(engaged) ==
    IF \/ cmd.turn = None \/ cmd.hazard = None
       \/ Recovering(engaged) /\ rpt.turn = "hazards"
    THEN out.turn
    ELSE toHooke2TurnCmd

\* Mutant: leaving the recovery does not restart its clock.
RecoverForever(engaged) ==
    IF cmd.turn = None \/ cmd.hazard = None THEN lights
    ELSE IF TurnMatched(engaged) THEN [lights EXCEPT !.since = 0]
    ELSE IF Recovering(engaged) THEN [lights EXCEPT !.count = 1]
    ELSE [lights EXCEPT !.since = @ + 1]
toHooke2TurnCmdWithHazardRecover(engaged) ==
    IF cmd.turn = None \/ cmd.hazard = None THEN lights
    ELSE IF TurnMatched(engaged) THEN [lights EXCEPT !.since = 0]
    ELSE IF ~Recovering(engaged) THEN [lights EXCEPT !.since = @ + 1]
    ELSE IF lights.count > RecoverNum THEN [since |-> 0, count |-> 1]
    ELSE [lights EXCEPT !.count = @ + 1]

publishCommands ==
    LET engaged == StaysEngaged IN
    /\ status = "running"
    /\ CommandsGuard
    /\ engage_cmd' = engaged
    /\ clear_needed' = (clear_needed /\ ~auto_enabled)
    /\ prev_override' = rpt.override
    /\ disable_auto_mode' = DisableAfter(engaged)
    /\ shift_counter' = ShiftCounterAfter
    /\ lights' = toHooke2TurnCmdWithHazardRecover(engaged)
    /\ out' =
         [vel   |-> SpeedCommand,
          thr   |-> ThrottleCommand,
          acc   |-> AccelerationCommand,
          brk   |-> BrakeCommand,
          aeb   |-> Stopping,
          angle |-> SteeringCommand(engaged),
          gear  |-> ShiftCommand,
          park  |-> ParkCommand,
          turn  |-> TurnLight(engaged),
          speed_drive |-> out.speed_drive]
    /\ takeover' =
         IF rpt.override /\ ~auto_enabled /\ ~engaged /\ takeover = "no"
         THEN "seen" ELSE takeover
    /\ UNCHANGED <<status, pc, control_mode_cmd, auto_enabled, cmd, cmd_age,
                   rptVars, enabled, bus, door, inbox, asked>>

-----------------------------------------------------------------------------
(* publishCan: the 50 Hz timer that sends the six frames, all reset while  *)
(* disable_auto_mode_ is set.                                              *)

CanFrames ==
    IF disable_auto_mode THEN ResetFrames
    ELSE [enabled |-> enabled,
          vel |-> IF DrivingInterface = 2 THEN out.vel ELSE 0,
          thr |-> IF DrivingInterface = 0 THEN out.thr ELSE 0,
          acc |-> IF DrivingInterface = 1 THEN out.acc ELSE 0,
          brk |-> out.brk, aeb |-> out.aeb, angle |-> out.angle,
          gear |-> out.gear, park |-> out.park, turn |-> out.turn]

\* Mutant: no frames are sent once the mode is disabled.
publishCanWhenEnabled ==
    /\ status = "running" /\ ~disable_auto_mode
    /\ bus' = CanFrames
    /\ takeover' = IF takeover = "seen" THEN "sent" ELSE takeover
    /\ UNCHANGED <<status, pc, authVars, modeVars, auto_enabled, cmd, cmd_age,
                   rptVars, outVars, enabled, door, inbox, asked>>
publishCan ==
    /\ status = "running"
    /\ bus' = CanFrames
    /\ takeover' = IF takeover = "seen" THEN "sent" ELSE takeover
    /\ UNCHANGED <<status, pc, authVars, modeVars, auto_enabled, cmd, cmd_age,
                   rptVars, outVars, enabled, door, inbox, asked>>

-----------------------------------------------------------------------------
(* The enableAutoMode thread.                                              *)

ThreadKeeps == UNCHANGED <<authVars, modeVars, auto_enabled, cmd, cmd_age,
                           rptVars, shift_counter, lights, bus, door, inbox,
                           takeover, asked>>

\* The top of the loop; the thread ends for good at shutdown or once the
\* chassis reports all its wires enabled.
\* Mutant: the pass starts whether or not it was requested.
LoopTopUnasked ==
    /\ status \in {"running", "stopping"}
    /\ pc = "loop"
    /\ pc' = IF auto_enabled \/ status = "stopping" THEN "done" ELSE "mode"
    /\ UNCHANGED <<status, enabled, out>>
    /\ ThreadKeeps
LoopTop ==
    /\ status \in {"running", "stopping"}
    /\ pc = "loop"
    /\ pc' = IF status = "stopping" THEN "done"
             ELSE IF ~engage_cmd THEN "loop"
             ELSE IF auto_enabled THEN "done" ELSE "mode"
    /\ UNCHANGED <<status, enabled, out>>
    /\ ThreadKeeps

Store(at, next, actuators, fields) ==
    /\ status \in {"running", "stopping"}
    /\ pc = at
    /\ pc' = next
    /\ enabled' = enabled \cup actuators
    /\ out' = fields
    /\ UNCHANGED status
    /\ ThreadKeeps

StoreMode == Store("mode", "park", {},
                   [out EXCEPT !.speed_drive = DrivingInterface = 2])
StorePark == Store("park", "gear", {"park"}, [out EXCEPT !.park = FALSE])
StoreGear == Store("gear", "steer", {"gear"}, [out EXCEPT !.gear = "forward"])

\* Reads steer_wheel_rpt_ptr_, null until the first report, and stores its
\* angle in radians where the frame holds degrees.
StoreSteer ==
    \/ /\ rpt.received
       /\ Store("steer", "brake", {"steer"}, [out EXCEPT !.angle = "radians"])
    \/ /\ ~rpt.received
       /\ status \in {"running", "stopping"}
       /\ pc = "steer"
       /\ status' = "crashed"
       /\ UNCHANGED <<pc, enabled, out>>
       /\ ThreadKeeps

\* Mutant: the brake wire is forgotten.
StoreNoBrake == Store("brake", "throttle", {}, out)
StoreBrake == Store("brake", "throttle", {"brake"}, out)
StoreThrottle ==
    Store("throttle", "check", {"throttle"}, [out EXCEPT !.vel = speed])

checkResponse ==
    Store("check", IF rpt.received THEN "loop" ELSE "done", {}, out)

enableAutoMode ==
    \/ LoopTop \/ StoreMode \/ StorePark \/ StoreGear \/ StoreSteer
    \/ StoreBrake \/ StoreThrottle \/ checkResponse

\* spin() has returned; the destructor joins the thread.
Shutdown ==
    /\ Input("shutdown")
    /\ status' = "stopping"
    /\ UNCHANGED <<pc, enabled, out, authVars, modeVars, auto_enabled, cmd,
                   cmd_age, rptVars, shift_counter, lights, bus, door,
                   takeover, asked>>

Joined ==
    /\ status = "stopping" /\ pc = "done"
    /\ status' = "stopped"
    /\ UNCHANGED <<pc, enabled, out>>
    /\ ThreadKeeps

-----------------------------------------------------------------------------
\* Time passes; ages saturate once past every bound they are compared with.
Tick ==
    /\ Input("tick")
    /\ cmd_age' = IF cmd_age < 2 THEN cmd_age + 1 ELSE cmd_age
    /\ rpt_age' = IF rpt_age < 2 THEN rpt_age + 1 ELSE rpt_age
    /\ UNCHANGED <<status, pc, authVars, modeVars, auto_enabled, cmd, rpt,
                   pending, speed, parking, outVars, enabled, bus, door,
                   takeover, asked>>

Callback ==
    \/ callbackControlCmd \/ callbackActuationCmd \/ callbackGearCmd
    \/ callbackEmergencyCmd \/ callbackTurnIndicatorsCommand
    \/ callbackHazardLightsCommand \/ onControlModeRequest \/ setDoor
    \/ onParkReport504 \/ onVcuReport505 \/ callbackHooke2Rpt

Next == \/ Callback \/ publishCommands \/ publishCan \/ enableAutoMode
        \/ Shutdown \/ Joined \/ Tick

\* The two timers fire and the thread runs for as long as the node lives.
Fairness == /\ WF_vars(publishCommands)
            /\ WF_vars(publishCan)
            /\ WF_vars(enableAutoMode)
            /\ WF_vars(Joined)

Spec == Init /\ [][Next]_vars /\ Fairness

-----------------------------------------------------------------------------
\* Types.  The uint8_t shift counter stays within its width although a parked
\* vehicle decrements it below zero, and the lamp recovery within its count.
TypeOK ==
    /\ status \in {"running", "crashed", "stopping", "stopped"}
    /\ pc \in {"loop", "mode", "park", "gear", "steer", "brake", "throttle",
               "check", "done"}
    /\ {engage_cmd, auto_enabled, clear_needed, control_mode_cmd,
        prev_override, disable_auto_mode, parking} \subseteq BOOLEAN
    /\ cmd \in [control : ControlCmds \cup {None},
                actuation : ActuationCmds \cup {None},
                gear : AutowareGears \cup {None},
                turn : TurnCmds \cup {None},
                hazard : {"disable", "enable", None},
                emergency : BOOLEAN]
    /\ cmd_age \in 0..2 /\ rpt_age \in 0..2
    /\ rpt \in [received : BOOLEAN, gear : Gears, turn : TurnReports,
                override : BOOLEAN, fault : BOOLEAN, enabled : BOOLEAN]
    /\ pending \in [mode : Modes, turn : TurnReports] \cup {None}
    /\ speed \in Int
    /\ shift_counter \in 0..CounterModulus - 1
    /\ lights \in Lights
    /\ enabled \subseteq Actuators
    /\ out \in [vel : Int, thr : Int, acc : Int, brk : Int, aeb : BOOLEAN,
                angle : Angles, gear : Gears, park : BOOLEAN,
                turn : TurnReports, speed_drive : BOOLEAN]
    /\ bus \in Frames
    /\ door \in {None, "open", "close"}
    /\ inbox \in Inboxes
    /\ takeover \in {"no", "seen", "sent"} /\ asked \in BOOLEAN

\* No frame enables an actuator unless Autoware has asked for autonomous
\* driving at least once: the enable bits are set only by the thread, and
\* only in a pass that began engaged.
NoUnrequestedEnable == ~asked => enabled = {} /\ bus.enabled = {}

\* Once publishCommands has seen the driver's takeover (override active, the
\* wires reported off, engagement withdrawn) and publishCan has run, every
\* later frame is a reset frame until Autoware asks again, whatever the
\* thread stores and whatever the override report does meanwhile.
TakeoverHolds == takeover = "sent" => bus = ResetFrames

Alive == status = "running"

\* An emergency reaches the chassis: with commands and reports present, the
\* frames come to carry AEB and at least the emergency brake, unless the
\* emergency ends, the frames are disabled or the node stops.
EmergencyReachesBus ==
    (cmd.emergency /\ CommandsGuard) ~>
        \/ bus.aeb /\ bus.brk >= Clamp(0, MaxBrake, EmergencyBrake)
        \/ ~cmd.emergency \/ disable_auto_mode \/ ~Alive

\* A takeover reaches the chassis: while the override is reported and the
\* wires are off, the frames come to be reset frames, although nothing ever
\* clears the enable bits themselves.
OverrideReleasesBus ==
    (rpt.override /\ ~auto_enabled /\ CommandsGuard) ~>
        \/ bus = ResetFrames
        \/ ~rpt.override \/ auto_enabled \/ engage_cmd \/ ~Alive

\* A request for autonomous driving leads to all actuators being enabled,
\* unless it is withdrawn, the chassis reports itself enabled first, or the
\* thread has ended in an earlier engagement.
EngageEnables ==
    (engage_cmd /\ rpt.received /\ ~auto_enabled) ~>
        \/ enabled = Actuators
        \/ ~engage_cmd \/ auto_enabled \/ pc = "done" \/ ~Alive

\* Standing still ends: with the park brake released and the gear as
\* commanded, the shift counter drains although it wraps below zero for as
\* long as the vehicle is parked.
HoldEnds ==
    (CommandsGuard /\ ~parking /\ ~ShiftNeeded) ~>
        (shift_counter = 0 \/ parking \/ ShiftNeeded \/ ~Alive)

\* Once the commands stop changing, the lamps follow them again and again,
\* although the hazard recovery withholds them for a while.
LampsFollow ==
    []<>(\/ cmd.turn = None \/ cmd.hazard = None \/ ~CommandsGuard
         \/ out.turn = toHooke2TurnCmd \/ ~Alive)

\* What the comment at publishCommands promises, "check emergency and
\* timeout": a cycle that runs on a Control message older than the timeout
\* brakes as in an emergency.  The chained comparison never lets it.
StaleCommandStops ==
    [][ publishCommands /\ cmd_age * TickMs > CommandTimeout
          => out'.aeb /\ out'.thr = 0 ]_vars
=============================================================================

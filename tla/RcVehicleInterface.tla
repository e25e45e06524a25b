------------------------- MODULE RcVehicleInterface -------------------------
(***************************************************************************)
(* RcVehicleInterfaceNode: the ROS node between Autoware's command topics  *)
(* and the RC chassis on a serial port.  The node runs on a single-        *)
(* threaded executor, so a callback is atomic; the serial timer is broken  *)
(* into the steps it takes (pc) because each of them may write to the      *)
(* port, lose it, and leave the later steps with the state that is left.   *)
(*                                                                         *)
(* Telemetry, emergency messages, commands and mode requests are arbitrary *)
(* (the environment is open), every write may fail, and the process may    *)
(* crash.  Times are ages in ticks, saturated just above the bound they    *)
(* are compared with.                                                      *)
(***************************************************************************)
EXTENDS ChassisFrames

CONSTANTS
    TelemetryOnly,            \* telemetry_only parameter
    EmergencyTimeout,         \* emergency_status_timeout_ms
    CommandTimeout,           \* firmware_command_timeout_ms
    HallAcquisitionTimeout,   \* hall_feedback_acquisition_timeout_ms
    HallLossTimeout,          \* hall_feedback_loss_timeout_ms
    ReconnectPeriod,          \* reconnect_period_ms
    Feedbacks,                \* telemetry frames the chassis may send
    Velocities,               \* longitudinal velocities of Control messages
    MaxBatch                  \* frames decoded from one read()

VARIABLES
    pc,                        \* where the serial timer is
    rx,                        \* decoded frames read_serial has yet to handle
                               \* (their contents are chosen when handled)
    timer_ran,                 \* the serial timer fired since the last tick
    serial_open,               \* serial_fd_ >= 0
    open_wait,                 \* ticks until next_reconnect_attempt_
    telemetry_open_attempted,
    autonomous_requested,
    has_transmitted_command,
    safety_stop_latched,
    safety_stop_sent,
    rc_override_active,
    has_received_feedback,
    fault_clear,               \* fault_clear_{pending,zero_sent,sent}_
    logical_gear,
    command_stamp_age,         \* age of last_transmitted_command_stamp_ns_
    status,                    \* last_status_bits_: live and latched fault
    emergency,                 \* emergency_status_monitor_
    hall,                      \* hall_feedback_monitor_
    published,                 \* reports made of the last feedback frame
    wire                       \* last frame written on this connection

linkVars      == <<serial_open, open_wait, telemetry_open_attempted>>
authorityVars == <<autonomous_requested, has_transmitted_command,
                   safety_stop_latched, safety_stop_sent, fault_clear>>
feedbackVars  == <<rc_override_active, has_received_feedback, status>>
timerVars     == <<pc, rx, timer_ran>>
inputVars     == <<logical_gear, command_stamp_age, emergency>>
vars == <<pc, rx, timer_ran, serial_open, open_wait, telemetry_open_attempted,
          autonomous_requested, has_transmitted_command, safety_stop_latched,
          safety_stop_sent, rc_override_active, has_received_feedback,
          fault_clear, logical_gear, command_stamp_age, status, emergency,
          hall, published, wire>>

-----------------------------------------------------------------------------
(* Telemetry frames and what rc_vehicle_state.cpp derives from them.       *)

\* The status bits the node's decisions distinguish.  halted stands for
\* COMMAND_TIMEOUT or STOP_OVERRIDE_ACTIVE and history for HALL_FAULT or
\* FRAME_ERROR_SEEN: the code always tests the two of a pair together.
ChassisFeedback ==
    [auto_enabled : BOOLEAN, rc_override : BOOLEAN, halted : BOOLEAN,
     fault_latched : BOOLEAN, rc_input_fault : BOOLEAN, history : BOOLEAN,
     hall_valid : BOOLEAN, standstill : BOOLEAN, speed_zero : BOOLEAN]

ASSUME ParameterAssumption ==
    /\ TelemetryOnly \in BOOLEAN
    /\ EmergencyTimeout \in Nat \ {0}
    /\ CommandTimeout \in Nat \ {0}
    /\ HallAcquisitionTimeout \in Nat \ {0}
    /\ HallLossTimeout \in Nat \ {0}
    /\ ReconnectPeriod \in Nat \ {0}
    /\ MaxBatch \in Nat \ {0}
    /\ Velocities \subseteq Int
    /\ Feedbacks \subseteq ChassisFeedback

has_latched_chassis_fault(fb) == fb.fault_latched
has_live_chassis_fault(fb)    == fb.rc_input_fault

fault_clear_is_permitted(fb) ==
    /\ has_latched_chassis_fault(fb)
    /\ ~has_live_chassis_fault(fb)
    /\ fb.auto_enabled
    /\ ~fb.halted /\ ~fb.rc_override

reported_control_mode(fb) ==
    CASE fb.rc_override -> "manual"
      [] /\ ~fb.rc_override /\ fb.auto_enabled /\ ~fb.halted
         /\ ~fb.fault_latched /\ ~fb.rc_input_fault /\ ~fb.history -> "autonomous"
      [] OTHER -> "no_command"

velocity_feedback_state(fb) ==
    CASE fb.hall_valid /\ ~fb.standstill /\ ~fb.speed_zero  -> "measured_motion"
      [] ~fb.hall_valid /\ fb.standstill /\ fb.speed_zero   -> "standstill"
      [] ~fb.hall_valid /\ ~fb.standstill /\ fb.speed_zero  -> "unavailable"
      [] OTHER -> "inconsistent"

firmware_command_blocked(fb) ==
    \/ fb.rc_override
    \/ fb.halted
    \/ has_live_chassis_fault(fb)
    \/ has_latched_chassis_fault(fb)

-----------------------------------------------------------------------------
(* Commands: control_to_chassis_motion and the logical gear.               *)

Gears == {"park", "neutral", "drive", "reverse"}

logical_gear_allows_speed(gear, speed) ==
    CASE gear = "drive"   -> speed >= 0
      [] gear = "reverse" -> speed <= 0
      [] OTHER            -> speed = 0

\* Mutant: only forward speeds are clamped.
control_to_chassis_motion_OneSided(velocity) ==
    IF velocity > MaximumSpeed THEN MaximumSpeed
    ELSE IF -MinimumSpeed < velocity /\ velocity < MinimumSpeed THEN 0
    ELSE velocity

\* Clamp to the maximum; a nonzero speed below the minimum becomes zero.
control_to_chassis_motion(velocity) ==
    IF velocity > MaximumSpeed THEN MaximumSpeed
    ELSE IF velocity < -MaximumSpeed THEN -MaximumSpeed
    ELSE IF -MinimumSpeed < velocity /\ velocity < MinimumSpeed THEN 0
    ELSE velocity

\* Mutants: the gear is not consulted; the handshake zeroes only the speed.
CommandFrame_IgnoresGear(velocity, steering) ==
    IF fault_clear.pending THEN ZeroFrame
    ELSE MotionFrame(control_to_chassis_motion(velocity), steering)

CommandFrame_HandshakeSteers(velocity, steering) ==
    LET setpoint == control_to_chassis_motion(velocity)
    IN  IF fault_clear.pending \/ ~logical_gear_allows_speed(logical_gear, setpoint)
        THEN MotionFrame(0, steering)
        ELSE MotionFrame(setpoint, steering)

\* The frame a Control message becomes: zero speed and steering during the
\* fault-clear handshake, otherwise what the logical gear permits.
CommandFrame(velocity, steering) ==
    LET setpoint == control_to_chassis_motion(velocity)
    IN  IF fault_clear.pending THEN ZeroFrame
        ELSE IF logical_gear_allows_speed(logical_gear, setpoint)
             THEN MotionFrame(setpoint, steering)
             ELSE MotionFrame(0, steering)

\* Neither older than the firmware timeout, nor from the future (age -1 is
\* beyond the tolerance), nor older than the last command transmitted.
command_stamp_is_fresh(age) ==
    /\ age >= 0
    /\ age <= CommandTimeout
    /\ age <= command_stamp_age

-----------------------------------------------------------------------------
(* EmergencyStatusMonitor and HallFeedbackMonitor.                         *)

fresh_and_clear ==
    /\ emergency.received
    /\ ~emergency.active
    /\ emergency.age <= EmergencyTimeout

HallReset ==
    [motion_expected |-> FALSE, direction |-> 0, acquired |-> FALSE,
     loss_active |-> FALSE, motion_age |-> 0, loss_age |-> 0]

Direction(speed) == IF speed > 0 THEN 1 ELSE IF speed < 0 THEN -1 ELSE 0

\* Mutant: a reversal does not restart the acquisition.
note_effective_command_AnyDirection(h, speed) ==
    IF Direction(speed) = 0 THEN HallReset
    ELSE IF h.motion_expected THEN h
    ELSE [HallReset EXCEPT !.motion_expected = TRUE,
                           !.direction = Direction(speed)]

note_effective_command(h, speed) ==
    IF Direction(speed) = 0 THEN HallReset
    ELSE IF h.motion_expected /\ h.direction = Direction(speed) THEN h
    ELSE [motion_expected |-> TRUE, direction |-> Direction(speed),
          acquired |-> FALSE, loss_active |-> FALSE,
          motion_age |-> 0, loss_age |-> h.loss_age]

HallDecision(h, valid) ==
    CASE ~h.motion_expected -> "not_required"
      [] h.motion_expected /\ valid -> "valid"
      [] h.motion_expected /\ ~valid /\ ~h.acquired ->
            IF h.motion_age >= HallAcquisitionTimeout THEN "fault" ELSE "acquiring"
      [] OTHER ->
            IF h.loss_active /\ h.loss_age >= HallLossTimeout
            THEN "fault" ELSE "acquiring"

HallObserve(h, valid) ==
    IF ~h.motion_expected THEN h
    ELSE IF valid THEN [h EXCEPT !.acquired = TRUE, !.loss_active = FALSE]
    ELSE IF h.acquired /\ ~h.loss_active
         THEN [h EXCEPT !.loss_active = TRUE, !.loss_age = 0]
         ELSE h

Older(age, bound) == IF age < bound THEN age + 1 ELSE age

-----------------------------------------------------------------------------
(* The calls that several callbacks share.                                 *)

HandshakeReset == [pending |-> FALSE, zero_sent |-> FALSE, sent |-> FALSE]

\* close_serial: what is left of the node's state when the port is closed,
\* which is also how every failing write_frame ends.
close_serial ==
    /\ serial_open' = FALSE
    /\ open_wait' = IF TelemetryOnly THEN open_wait ELSE ReconnectPeriod
    /\ autonomous_requested' = FALSE
    /\ has_transmitted_command' = FALSE
    /\ safety_stop_sent' = FALSE
    /\ rc_override_active' = FALSE
    /\ has_received_feedback' = FALSE
    /\ fault_clear' = HandshakeReset
    /\ hall' = HallReset
    /\ wire' = NoFrame
    /\ UNCHANGED telemetry_open_attempted

\* latch_safety_stop: one stop frame, if the port is open and none was sent.
\* rc_override and received are what the caller has set before the call.
latch_safety_stop(rc_override, received) ==
    /\ safety_stop_latched' = TRUE
    /\ \/ /\ ~TelemetryOnly /\ serial_open /\ ~safety_stop_sent
          /\ \/ /\ wire' = StopFrame          \* the write succeeds
                /\ safety_stop_sent' = TRUE
                /\ has_transmitted_command' = FALSE
                /\ autonomous_requested' = FALSE
                /\ fault_clear' = HandshakeReset
                /\ hall' = HallReset
                /\ rc_override_active' = rc_override
                /\ has_received_feedback' = received
                /\ UNCHANGED linkVars
             \/ close_serial                  \* the write fails
       \/ /\ TelemetryOnly \/ ~serial_open \/ safety_stop_sent
          /\ autonomous_requested' = FALSE
          /\ fault_clear' = HandshakeReset
          /\ hall' = HallReset
          /\ rc_override_active' = rc_override
          /\ has_received_feedback' = received
          /\ UNCHANGED <<has_transmitted_command, safety_stop_sent, wire>>
          /\ UNCHANGED linkVars

-----------------------------------------------------------------------------
InitialNode ==
    /\ rx = 0
    /\ timer_ran = FALSE
    /\ serial_open = FALSE
    /\ open_wait = 0
    /\ telemetry_open_attempted = FALSE
    /\ autonomous_requested = FALSE
    /\ has_transmitted_command = FALSE
    /\ safety_stop_latched = FALSE
    /\ safety_stop_sent = FALSE
    /\ rc_override_active = FALSE
    /\ has_received_feedback = FALSE
    /\ fault_clear = HandshakeReset
    /\ logical_gear = "park"
    /\ command_stamp_age = CommandTimeout
    /\ status = [live |-> FALSE, latched |-> FALSE]
    /\ emergency = [received |-> FALSE, active |-> FALSE, age |-> 0]
    /\ hall = HallReset
    /\ published = [velocity |-> "none", mode |-> "none"]

Init == pc = "idle" /\ InitialNode /\ wire = NoFrame

-----------------------------------------------------------------------------
(* Subscriptions and the mode service (absent in telemetry-only mode).     *)

Callback == pc = "idle" /\ ~TelemetryOnly

on_gear_command(gear) ==
    /\ Callback
    /\ logical_gear' = gear
    /\ UNCHANGED <<command_stamp_age, emergency, hall, published, wire>>
    /\ UNCHANGED <<timerVars, linkVars, authorityVars, feedbackVars>>

on_emergency_status(active) ==
    /\ Callback
    /\ emergency' = [received |-> TRUE, active |-> active, age |-> 0]
    /\ \/ /\ active
          /\ latch_safety_stop(rc_override_active, has_received_feedback)
       \/ /\ ~active
          /\ UNCHANGED <<linkVars, authorityVars, hall, wire,
                         rc_override_active, has_received_feedback>>
    /\ UNCHANGED <<timerVars, logical_gear, command_stamp_age, status, published>>

\* Mutant: the port is not looked at, since feedback implies a port.
AcceptsAutonomous_NoPortCheck ==
    fresh_and_clear /\ has_received_feedback /\ ~status.live

\* None of the reasons to reject an AUTONOMOUS request.
AcceptsAutonomous ==
    /\ serial_open
    /\ fresh_and_clear
    /\ has_received_feedback
    /\ ~status.live

\* A rejected request changes nothing.
on_autonomous_request ==
    /\ Callback
    /\ AcceptsAutonomous
    /\ safety_stop_latched' = FALSE
    /\ safety_stop_sent' = FALSE
    /\ autonomous_requested' = TRUE
    /\ hall' = HallReset
    /\ fault_clear' = IF ~status.latched THEN HandshakeReset
                      ELSE IF fault_clear.pending THEN fault_clear
                      ELSE [HandshakeReset EXCEPT !.pending = TRUE]
    /\ UNCHANGED <<has_transmitted_command, published, wire>>
    /\ UNCHANGED <<timerVars, linkVars, feedbackVars, inputVars>>

\* Mutant: only a moving car is stopped.
manual_stop_is_required_IfMoving == ~safety_stop_sent /\ hall.motion_expected

manual_stop_is_required ==
    /\ ~safety_stop_sent
    /\ autonomous_requested \/ has_transmitted_command

\* MANUAL or NO_COMMAND.  The stop frame is written, or the write fails and
\* closes the port, or no frame is needed.
on_manual_request ==
    /\ Callback
    /\ \/ /\ serial_open /\ manual_stop_is_required
          /\ wire' = StopFrame
          /\ safety_stop_sent' = TRUE
          /\ has_transmitted_command' = FALSE
          /\ autonomous_requested' = FALSE
          /\ fault_clear' = HandshakeReset
          /\ hall' = HallReset
          /\ UNCHANGED <<linkVars, rc_override_active, has_received_feedback>>
       \/ /\ serial_open /\ manual_stop_is_required
          /\ close_serial
       \/ /\ ~serial_open \/ ~manual_stop_is_required
          /\ autonomous_requested' = FALSE
          /\ fault_clear' = HandshakeReset
          /\ hall' = HallReset
          /\ UNCHANGED <<linkVars, rc_override_active, has_received_feedback,
                         has_transmitted_command, safety_stop_sent, wire>>
    /\ UNCHANGED <<timerVars, inputVars, safety_stop_latched, status, published>>

\* A Control message that is discarded (not authorised, bad stamp, values not
\* finite) changes nothing.
on_control_command(velocity, steering, age) ==
    /\ Callback
    /\ autonomous_requested
    /\ \/ /\ ~fresh_and_clear
          /\ latch_safety_stop(rc_override_active, has_received_feedback)
          /\ UNCHANGED command_stamp_age
       \/ /\ fresh_and_clear /\ serial_open /\ command_stamp_is_fresh(age)
          /\ wire' = CommandFrame(velocity, steering)
          /\ command_stamp_age' = age
          /\ has_transmitted_command' = TRUE
          /\ fault_clear' = [fault_clear EXCEPT !.zero_sent = fault_clear.pending]
          /\ hall' = IF fault_clear.pending \/ rc_override_active THEN HallReset
                     ELSE note_effective_command(hall, wire'.speed)
          /\ UNCHANGED <<linkVars, autonomous_requested, safety_stop_latched,
                         safety_stop_sent, rc_override_active,
                         has_received_feedback>>
       \/ /\ fresh_and_clear /\ serial_open /\ command_stamp_is_fresh(age)
          /\ close_serial
          /\ UNCHANGED <<safety_stop_latched, command_stamp_age>>
    /\ UNCHANGED <<timerVars, logical_gear, emergency, status, published>>

-----------------------------------------------------------------------------
(* on_serial_timer: open the port, watch the emergency status, poll, read. *)

\* Mutant: telemetry-only mode reconnects like the normal mode.
MayOpen_Reconnects == ~serial_open /\ open_wait = 0

MayOpen ==
    /\ ~serial_open
    /\ open_wait = 0
    /\ ~(TelemetryOnly /\ telemetry_open_attempted)

try_open_serial ==
    /\ pc = "idle"
    /\ pc' = "check"
    /\ timer_ran' = TRUE
    /\ \/ /\ MayOpen
          /\ telemetry_open_attempted' = TelemetryOnly
          /\ open_wait' = ReconnectPeriod
          /\ serial_open' \in BOOLEAN
       \/ /\ ~MayOpen
          /\ UNCHANGED linkVars
    /\ UNCHANGED <<rx, authorityVars, feedbackVars, inputVars, hall, published, wire>>

\* Mutant: a stale status is left to the next Control message.
EmergencyLost_ActiveOnly == autonomous_requested /\ emergency.active

EmergencyLost == autonomous_requested /\ ~fresh_and_clear

check_emergency_status ==
    /\ pc = "check"
    /\ pc' = "poll"
    /\ \/ /\ EmergencyLost
          /\ latch_safety_stop(rc_override_active, has_received_feedback)
       \/ /\ ~EmergencyLost
          /\ UNCHANGED <<linkVars, authorityVars, hall, wire,
                         rc_override_active, has_received_feedback>>
    /\ UNCHANGED <<rx, timer_ran, inputVars, status, published>>

\* poll(): an error or hangup closes the port, POLLIN starts read_serial.
poll_serial ==
    /\ pc = "poll"
    /\ \/ /\ serial_open
          /\ pc' = "idle"
          /\ close_serial
       \/ /\ pc' \in {"idle", "read"}
          /\ pc' = "read" => serial_open
          /\ UNCHANGED <<linkVars, hall, wire, rc_override_active,
                         has_received_feedback, autonomous_requested,
                         has_transmitted_command, safety_stop_sent, fault_clear>>
    /\ UNCHANGED <<rx, timer_ran, inputVars, safety_stop_latched, status, published>>

\* One read(): a batch of complete frames, nothing more to read, or an error.
\* After a write failure in the middle of a batch the port is already closed
\* and the next read() just ends the loop.
read_serial ==
    /\ pc = "read"
    /\ rx = 0
    /\ \/ /\ serial_open
          /\ rx' \in 1 .. MaxBatch
          /\ UNCHANGED <<pc, linkVars, hall, wire, rc_override_active,
                         has_received_feedback, autonomous_requested,
                         has_transmitted_command, safety_stop_sent, fault_clear>>
       \/ /\ pc' = "idle"
          /\ UNCHANGED <<rx, linkVars, hall, wire, rc_override_active,
                         has_received_feedback, autonomous_requested,
                         has_transmitted_command, safety_stop_sent, fault_clear>>
       \/ /\ serial_open
          /\ pc' = "idle"
          /\ close_serial
          /\ UNCHANGED rx
    /\ UNCHANGED <<timer_ran, inputVars, safety_stop_latched, status, published>>

-----------------------------------------------------------------------------
(* publish_feedback, for one frame of the batch.                           *)

\* What the Hall monitor says of this frame.
FrameDecision(fb) ==
    IF firmware_command_blocked(fb) THEN "not_required"
    ELSE HallDecision(hall, velocity_feedback_state(fb) = "measured_motion")

\* Mutant: a fault latched during automatic control goes unnoticed.
FeedbackFault_NoNewLatch(fb) ==
    \/ /\ autonomous_requested \/ has_transmitted_command
       /\ \/ velocity_feedback_state(fb) = "inconsistent"
          \/ has_live_chassis_fault(fb)
    \/ FrameDecision(fb) = "fault"

\* The frame makes the node latch its safety stop.
FeedbackFault(fb) ==
    \/ /\ autonomous_requested \/ has_transmitted_command
       /\ \/ velocity_feedback_state(fb) = "inconsistent"
          \/ has_live_chassis_fault(fb)
    \/ /\ autonomous_requested /\ ~fault_clear.pending
       /\ has_latched_chassis_fault(fb)
    \/ FrameDecision(fb) = "fault"

\* Mutant: the clear frame does not wait for the zero command.
ClearDue_WithoutZero(fb) ==
    fault_clear.pending /\ ~fault_clear.sent /\ fault_clear_is_permitted(fb)

\* The one-shot clear-fault frame is due.
ClearDue(fb) ==
    /\ fault_clear.pending /\ fault_clear.zero_sent /\ ~fault_clear.sent
    /\ fault_clear_is_permitted(fb)

\* Telemetry confirms that the historical latch is gone.
ClearConfirmed(fb) ==
    /\ fault_clear.pending
    /\ ~has_latched_chassis_fault(fb)
    /\ reported_control_mode(fb) = "autonomous"

\* Mutant: any confirmed standstill is reported.
velocity_report_AnyStandstill(fb) ==
    CASE velocity_feedback_state(fb) = "measured_motion" -> "motion"
      [] velocity_feedback_state(fb) = "standstill"      -> "zero"
      [] OTHER -> "none"

\* VelocityReport is made only of a consistent frame, and a standstill only
\* when the monitor waits for no motion.
velocity_report(fb) ==
    CASE velocity_feedback_state(fb) = "measured_motion" -> "motion"
      [] /\ velocity_feedback_state(fb) = "standstill"
         /\ FrameDecision(fb) = "not_required" -> "zero"
      [] OTHER -> "none"

publish_feedback(fb) ==
    /\ pc = "read"
    /\ rx > 0
    /\ rx' = rx - 1
    /\ status' = [live    |-> has_live_chassis_fault(fb),
                  latched |-> has_latched_chassis_fault(fb)]
    /\ published' = [velocity |-> velocity_report(fb),
                     mode     |-> reported_control_mode(fb)]
    /\ \/ /\ FeedbackFault(fb)
          /\ latch_safety_stop(fb.rc_override, TRUE)
       \/ /\ ~FeedbackFault(fb) /\ ClearDue(fb)
          /\ wire' = ClearFrame
          /\ fault_clear' = [fault_clear EXCEPT !.sent = TRUE]
          /\ hall' = HallReset
          /\ rc_override_active' = fb.rc_override
          /\ has_received_feedback' = TRUE
          /\ UNCHANGED <<linkVars, autonomous_requested, has_transmitted_command,
                         safety_stop_latched, safety_stop_sent>>
       \/ /\ ~FeedbackFault(fb) /\ ClearDue(fb)
          /\ close_serial
          /\ UNCHANGED safety_stop_latched
       \/ /\ ~FeedbackFault(fb) /\ ~ClearDue(fb)
          /\ fault_clear' = IF ClearConfirmed(fb) THEN HandshakeReset
                            ELSE fault_clear
          /\ hall' = IF firmware_command_blocked(fb) THEN HallReset
                     ELSE HallObserve(hall, velocity_feedback_state(fb)
                                              = "measured_motion")
          /\ rc_override_active' = fb.rc_override
          /\ has_received_feedback' = TRUE
          /\ UNCHANGED <<linkVars, autonomous_requested, has_transmitted_command,
                         safety_stop_latched, safety_stop_sent, wire>>
    /\ UNCHANGED <<pc, timer_ran, inputVars>>

-----------------------------------------------------------------------------
(* Time, and the end of the process.                                       *)

\* The serial timer's period is far below a tick, so it fires in every tick.
Tick ==
    /\ pc = "idle"
    /\ timer_ran
    /\ timer_ran' = FALSE
    /\ open_wait' = IF open_wait > 0 THEN open_wait - 1 ELSE 0
    /\ command_stamp_age' = Older(command_stamp_age, CommandTimeout)
    /\ emergency' = [emergency EXCEPT !.age = Older(@, EmergencyTimeout + 2)]
    /\ hall' = [hall EXCEPT
                  !.motion_age = IF hall.motion_expected
                                 THEN Older(@, HallAcquisitionTimeout) ELSE @,
                  !.loss_age   = IF hall.loss_active
                                 THEN Older(@, HallLossTimeout) ELSE @]
    /\ UNCHANGED <<pc, rx, serial_open, telemetry_open_attempted, authorityVars,
                   feedbackVars, logical_gear, published, wire>>

\* The state of a process that has just been started.
FreshNode ==
    /\ rx' = 0
    /\ timer_ran' = FALSE
    /\ serial_open' = FALSE
    /\ open_wait' = 0
    /\ telemetry_open_attempted' = FALSE
    /\ autonomous_requested' = FALSE
    /\ has_transmitted_command' = FALSE
    /\ safety_stop_latched' = FALSE
    /\ safety_stop_sent' = FALSE
    /\ rc_override_active' = FALSE
    /\ has_received_feedback' = FALSE
    /\ fault_clear' = HandshakeReset
    /\ logical_gear' = "park"
    /\ command_stamp_age' = CommandTimeout
    /\ status' = [live |-> FALSE, latched |-> FALSE]
    /\ emergency' = [received |-> FALSE, active |-> FALSE, age |-> 0]
    /\ hall' = HallReset
    /\ published' = [velocity |-> "none", mode |-> "none"]

\* ~RcVehicleInterfaceNode: a last stop frame if a command is outstanding.
shutdown ==
    /\ pc = "idle"
    /\ pc' = "down"
    /\ FreshNode
    /\ wire' \in IF ~TelemetryOnly /\ serial_open /\ has_transmitted_command
                 THEN {StopFrame, NoFrame} ELSE {wire}

\* The process is started again, or dies and is started again.
launch ==
    /\ pc = "down"
    /\ pc' = "idle"
    /\ FreshNode
    /\ wire' = NoFrame

crash ==
    /\ pc # "down"
    /\ pc' = "idle"
    /\ FreshNode
    /\ wire' = NoFrame

Next ==
    \/ \E gear \in Gears : on_gear_command(gear)
    \/ \E active \in BOOLEAN : on_emergency_status(active)
    \/ on_autonomous_request
    \/ on_manual_request
    \/ \E velocity \in Velocities, steering \in BOOLEAN, age \in -1 .. CommandTimeout + 1 :
          on_control_command(velocity, steering, age)
    \/ try_open_serial
    \/ check_emergency_status
    \/ poll_serial
    \/ read_serial
    \/ \E fb \in Feedbacks : publish_feedback(fb)
    \/ Tick
    \/ shutdown
    \/ launch
    \/ crash

Spec == Init /\ [][Next]_vars

-----------------------------------------------------------------------------
(* Properties.                                                             *)

TimerTypeOK ==
    /\ pc \in {"idle", "check", "poll", "read", "down"}
    /\ rx \in 0 .. MaxBatch
    /\ timer_ran \in BOOLEAN

LinkTypeOK ==
    /\ serial_open \in BOOLEAN
    /\ open_wait \in 0 .. ReconnectPeriod
    /\ telemetry_open_attempted \in BOOLEAN
    /\ wire \in ChassisCommand

AuthorityTypeOK ==
    /\ autonomous_requested \in BOOLEAN
    /\ has_transmitted_command \in BOOLEAN
    /\ safety_stop_latched \in BOOLEAN
    /\ safety_stop_sent \in BOOLEAN
    /\ fault_clear \in [pending : BOOLEAN, zero_sent : BOOLEAN, sent : BOOLEAN]

FeedbackTypeOK ==
    /\ rc_override_active \in BOOLEAN
    /\ has_received_feedback \in BOOLEAN
    /\ status \in [live : BOOLEAN, latched : BOOLEAN]
    /\ published \in [velocity : {"none", "zero", "motion"},
                      mode : {"none", "manual", "autonomous", "no_command"}]

InputTypeOK ==
    /\ logical_gear \in Gears
    /\ command_stamp_age \in 0 .. CommandTimeout
    /\ emergency \in [received : BOOLEAN, active : BOOLEAN,
                      age : 0 .. EmergencyTimeout + 2]

HallType ==
    [motion_expected : BOOLEAN, direction : -1 .. 1,
     acquired : BOOLEAN, loss_active : BOOLEAN,
     motion_age : 0 .. HallAcquisitionTimeout,
     loss_age : 0 .. HallLossTimeout]

\* The type of every variable of the node; that of wire says that every frame
\* written stays within the configured speeds.
TypeOK ==
    /\ TimerTypeOK
    /\ LinkTypeOK
    /\ AuthorityTypeOK
    /\ FeedbackTypeOK
    /\ InputTypeOK
    /\ hall \in HallType

(***************************************************************************)
(* Whichever callback withdraws the authority (an emergency message, a     *)
(* stale emergency status found by a command or by the timer, a feedback   *)
(* fault, MANUAL, shutdown), when it is gone the last frame on the open    *)
(* connection is the software stop, or nothing was written on it.          *)
(***************************************************************************)
StopOnWithdrawal ==
    ~autonomous_requested => wire \in {NoFrame, StopFrame}

(***************************************************************************)
(* The node never holds AUTONOMOUS on a closed port, with its safety stop  *)
(* latched, or with the one stop frame already spent, so that the next     *)
(* safety stop will be transmitted (latch_safety_stop, line 477).          *)
(***************************************************************************)
AuthorityCanBeStopped ==
    autonomous_requested =>
        /\ ~TelemetryOnly /\ serial_open
        /\ ~safety_stop_latched /\ ~safety_stop_sent

(***************************************************************************)
(* While AUTONOMOUS is held the latest telemetry shows no live fault, and  *)
(* a latched fault only under the zero-only handshake.                     *)
(***************************************************************************)
NoAuthorityUnderFault ==
    autonomous_requested =>
        ~status.live /\ (status.latched => fault_clear.pending)

(***************************************************************************)
(* The fault-clear handshake: an enabled zero frame precedes the clear     *)
(* frame on the same connection, nothing but zero frames follow it, and    *)
(* losing the authority ends it.                                           *)
(***************************************************************************)
HandshakeOrder ==
    /\ fault_clear.pending => autonomous_requested
    /\ fault_clear.zero_sent => fault_clear.pending
    /\ fault_clear.sent => fault_clear.zero_sent
    /\ fault_clear.zero_sent /\ ~fault_clear.sent => wire = ZeroFrame
    /\ fault_clear.sent => wire \in {ClearFrame, ZeroFrame}

(***************************************************************************)
(* The Hall monitor expects motion only while the last frame written       *)
(* commands motion in the direction it supervises, under full authority.   *)
(***************************************************************************)
HallFollowsWire ==
    hall.motion_expected =>
        /\ autonomous_requested /\ ~fault_clear.pending
        /\ wire.enable
        /\ hall.direction = Direction(wire.speed)
        /\ hall.direction # 0

(***************************************************************************)
(* The authority outlives the last clear emergency message by at most the  *)
(* timeout and one tick, whether or not any command arrives.               *)
(***************************************************************************)
EmergencyWatched ==
    autonomous_requested =>
        /\ emergency.received /\ ~emergency.active
        /\ emergency.age <= EmergencyTimeout + 1

(***************************************************************************)
(* No frame that moves the car is written without a fresh clear emergency  *)
(* status, against the logical gear, during the handshake, or while the    *)
(* latest telemetry shows a live or a latched fault.                       *)
(***************************************************************************)
MotionOnlyWhenSafe ==
    [][ wire' # wire /\ wire'.speed # 0 =>
          /\ fresh_and_clear
          /\ logical_gear_allows_speed(logical_gear, wire'.speed)
          /\ ~fault_clear.pending
          /\ ~status.live /\ ~status.latched ]_vars

(***************************************************************************)
(* A standstill is not reported while the node still waits for the Hall    *)
(* sensor to confirm the motion it commanded: the runtime manager hands    *)
(* control over on a zero velocity.                                        *)
(***************************************************************************)
StandstillNotMasked ==
    [][ rx' = rx - 1 /\ published'.velocity = "zero" =>
          ~hall'.motion_expected ]_vars

(***************************************************************************)
(* In telemetry-only mode nothing is ever written, and a port that was     *)
(* opened and lost is not opened again (the log of lines 151-154).         *)
(***************************************************************************)
TelemetryIsPassive ==
    [][ TelemetryOnly =>
          /\ wire' = NoFrame
          /\ telemetry_open_attempted /\ ~serial_open /\ telemetry_open_attempted'
                => ~serial_open' ]_vars

-----------------------------------------------------------------------------
(* The inductive invariant behind the properties above.                    *)

\* has_transmitted_command_ says whether the frame on the wire still needs a
\* stop, which is what MANUAL and the destructor ask it.
TransmittedMeansOutstanding ==
    has_transmitted_command <=> wire \notin {NoFrame, StopFrame}

\* Once the timer has fired in a tick and looked at the emergency status, an
\* authority still held is a fresh one.
EmergencyChecked ==
    autonomous_requested /\ timer_ran /\ pc # "check" =>
        emergency.age <= EmergencyTimeout

Inv ==
    /\ TypeOK
    /\ StopOnWithdrawal
    /\ AuthorityCanBeStopped
    /\ NoAuthorityUnderFault
    /\ HandshakeOrder
    /\ HallFollowsWire
    /\ EmergencyWatched
    /\ TransmittedMeansOutstanding
    /\ EmergencyChecked

-----------------------------------------------------------------------------
(* The authority this node exercises over the chassis.                     *)

Authority == IF ~autonomous_requested THEN "none"
             ELSE IF fault_clear.pending THEN "zero_only" ELSE "full"

Abstract == INSTANCE ChassisAuthority
              WITH authority <- Authority, cleared <- fault_clear.sent

(***************************************************************************)
(* Every step of the node is a step of ChassisAuthority or leaves the      *)
(* authority and the wire alone.                                           *)
(***************************************************************************)
ImplementsAuthority == Abstract!Spec
=============================================================================

---------------------- MODULE RcVehicleInterfaceProofs ----------------------
(***************************************************************************)
(* Proofs about RcVehicleInterface: its inductive invariant, the safety    *)
(* properties that follow from it, and the refinement of ChassisAuthority, *)
(* for every value of the timeouts, the limits and the telemetry.          *)
(***************************************************************************)
EXTENDS RcVehicleInterface, TLAPS

USE SpeedAssumption, ParameterAssumption

-----------------------------------------------------------------------------
(* Facts about the operators the node is built from.                       *)

\* The speed of every frame made of a Control message is within the limits.
LEMMA CommandFrameType ==
    ASSUME NEW velocity \in Int, NEW steering \in BOOLEAN
    PROVE  CommandFrame(velocity, steering) \in ChassisCommand
  BY DEF CommandFrame, control_to_chassis_motion, ChassisCommand, Speeds,
         MotionFrame, ZeroFrame, Frame

\* The frames that are not made of a Control message.
LEMMA FixedFrameType ==
    /\ NoFrame \in ChassisCommand
    /\ StopFrame \in ChassisCommand
    /\ ClearFrame \in ChassisCommand
    /\ ZeroFrame \in ChassisCommand
  BY DEF NoFrame, StopFrame, ClearFrame, ZeroFrame, MotionFrame, Frame,
         ChassisCommand, Speeds

\* A command frame is neither of the two frames that leave nothing to stop.
LEMMA CommandFrameOutstanding ==
    ASSUME NEW velocity, NEW steering
    PROVE  /\ CommandFrame(velocity, steering) \notin {NoFrame, StopFrame}
           /\ CommandFrame(velocity, steering).enable
           /\ ClearFrame \notin {NoFrame, StopFrame}
  BY DEF CommandFrame, MotionFrame, ZeroFrame, NoFrame, StopFrame, ClearFrame,
         Frame

\* A reset monitor expects nothing.
LEMMA HallResetType == HallReset \in HallType /\ ~HallReset.motion_expected
  BY DEF HallReset, HallType

\* The monitor after a command supervises its direction.
LEMMA NoteCommandType ==
    ASSUME NEW h \in HallType, NEW speed \in Int
    PROVE  /\ note_effective_command(h, speed) \in HallType
           /\ note_effective_command(h, speed).motion_expected =>
                 /\ note_effective_command(h, speed).direction = Direction(speed)
                 /\ Direction(speed) # 0
<1>1. CASE Direction(speed) = 0
  BY <1>1, HallResetType DEF note_effective_command
<1>2. CASE /\ Direction(speed) # 0
           /\ h.motion_expected /\ h.direction = Direction(speed)
  BY <1>2 DEF note_effective_command
<1>3. CASE /\ Direction(speed) # 0
           /\ ~(h.motion_expected /\ h.direction = Direction(speed))
  <2>1. Direction(speed) \in -1 .. 1 /\ h.loss_age \in 0 .. HallLossTimeout
    BY DEF Direction, HallType
  <2> QED
    BY <1>3, <2>1 DEF note_effective_command, HallType
<1> QED
  BY <1>1, <1>2, <1>3

\* Observing a frame does not change what is supervised.
LEMMA HallObserveType ==
    ASSUME NEW h \in HallType, NEW valid \in BOOLEAN
    PROVE  /\ HallObserve(h, valid) \in HallType
           /\ HallObserve(h, valid).motion_expected <=> h.motion_expected
           /\ HallObserve(h, valid).direction = h.direction
<1>1. CASE HallObserve(h, valid) = h
  BY <1>1
<1>2. CASE HallObserve(h, valid) =
             [h EXCEPT !.acquired = TRUE, !.loss_active = FALSE]
  BY <1>2 DEF HallType
<1>3. CASE HallObserve(h, valid) =
             [h EXCEPT !.loss_active = TRUE, !.loss_age = 0]
  <2>1. 0 \in 0 .. HallLossTimeout
    OBVIOUS
  <2> QED
    BY <1>3, <2>1, Zenon DEF HallType
<1> QED
  BY <1>1, <1>2, <1>3 DEF HallObserve

-----------------------------------------------------------------------------
(* The invariant is inductive.                                             *)

\* A node just started holds nothing.
LEMMA InitInv == Init => Inv
<1> SUFFICES ASSUME Init PROVE Inv
  OBVIOUS
<1> USE DEF Init, InitialNode, HandshakeReset
<1>1. TypeOK
  <2>1. TimerTypeOK
    <3>1. rx \in 0 .. MaxBatch
      OBVIOUS
    <3> QED
      BY <3>1, Zenon DEF TimerTypeOK
  <2>4. LinkTypeOK
    <3>1. open_wait \in 0 .. ReconnectPeriod
      OBVIOUS
    <3> QED
      BY <3>1, FixedFrameType, Zenon DEF LinkTypeOK
  <2>2. AuthorityTypeOK /\ FeedbackTypeOK
    BY DEF AuthorityTypeOK, FeedbackTypeOK
  <2>3. InputTypeOK /\ hall \in HallType
    BY HallResetType DEF InputTypeOK, Gears
  <2> QED
    BY <2>1, <2>2, <2>3, <2>4 DEF TypeOK
<1>2. StopOnWithdrawal /\ AuthorityCanBeStopped /\ NoAuthorityUnderFault
  BY DEF StopOnWithdrawal, AuthorityCanBeStopped, NoAuthorityUnderFault
<1>3. HandshakeOrder /\ HallFollowsWire
  BY HallResetType DEF HandshakeOrder, HallFollowsWire
<1>4. EmergencyWatched /\ EmergencyChecked /\ TransmittedMeansOutstanding
  BY DEF EmergencyWatched, EmergencyChecked, TransmittedMeansOutstanding
<1> QED
  BY <1>1, <1>2, <1>3, <1>4 DEF Inv

\* A part of the state that a step leaves alone keeps its type.
LEMMA SameType ==
    ASSUME TypeOK
    PROVE  /\ UNCHANGED timerVars => TimerTypeOK'
           /\ UNCHANGED linkVars /\ wire' \in ChassisCommand => LinkTypeOK'
           /\ UNCHANGED authorityVars => AuthorityTypeOK'
           /\ UNCHANGED <<feedbackVars, published>> => FeedbackTypeOK'
           /\ UNCHANGED inputVars => InputTypeOK'
           /\ UNCHANGED hall => hall' \in HallType
           /\ UNCHANGED wire => wire' \in ChassisCommand
<1>1. UNCHANGED timerVars => TimerTypeOK'
  BY Zenon DEF TypeOK, TimerTypeOK, timerVars
<1>2. UNCHANGED linkVars /\ wire' \in ChassisCommand => LinkTypeOK'
  BY Zenon DEF TypeOK, LinkTypeOK, linkVars
<1>3. UNCHANGED authorityVars => AuthorityTypeOK'
  BY Zenon DEF TypeOK, AuthorityTypeOK, authorityVars
<1>4. UNCHANGED <<feedbackVars, published>> => FeedbackTypeOK'
  BY Zenon DEF TypeOK, FeedbackTypeOK, feedbackVars
<1>5. UNCHANGED inputVars => InputTypeOK'
  BY Zenon DEF TypeOK, InputTypeOK, inputVars
<1>6. UNCHANGED hall => hall' \in HallType
  BY Zenon DEF TypeOK
<1>7. UNCHANGED wire => wire' \in ChassisCommand
  BY Zenon DEF TypeOK, LinkTypeOK
<1> QED
  BY <1>1, <1>2, <1>3, <1>4, <1>5, <1>6, <1>7

\* What a callback leaves behind when it withdraws the authority.
Withdrawn ==
    /\ autonomous_requested = FALSE
    /\ has_transmitted_command = FALSE
    /\ fault_clear = HandshakeReset
    /\ hall = HallReset
    /\ wire \in {NoFrame, StopFrame}

\* Without authority the invariant asks for nothing more than types.
LEMMA WithdrawnInv == TypeOK /\ Withdrawn => Inv
<1> SUFFICES ASSUME TypeOK, Withdrawn PROVE Inv
  OBVIOUS
<1> USE DEF Withdrawn
<1>1. StopOnWithdrawal /\ AuthorityCanBeStopped /\ NoAuthorityUnderFault
  BY DEF StopOnWithdrawal, AuthorityCanBeStopped, NoAuthorityUnderFault
<1>2. HandshakeOrder /\ HallFollowsWire
  BY HallResetType DEF HandshakeOrder, HallFollowsWire, HandshakeReset
<1>3. EmergencyWatched /\ EmergencyChecked /\ TransmittedMeansOutstanding
  BY DEF EmergencyWatched, EmergencyChecked, TransmittedMeansOutstanding
<1> QED
  BY <1>1, <1>2, <1>3 DEF Inv

\* No handshake is well typed and over.
LEMMA HandshakeResetType ==
    HandshakeReset \in [pending : BOOLEAN, zero_sent : BOOLEAN, sent : BOOLEAN]
  BY DEF HandshakeReset

\* close_serial withdraws the authority.
LEMMA CloseWithdraws ==
    ASSUME TypeOK, close_serial
    PROVE  /\ Withdrawn'
           /\ LinkTypeOK'
           /\ safety_stop_sent' \in BOOLEAN
           /\ rc_override_active' = FALSE
           /\ has_received_feedback' = FALSE
<1>1. open_wait' \in 0 .. ReconnectPeriod
  BY DEF TypeOK, LinkTypeOK, close_serial
<1>2. LinkTypeOK'
  BY <1>1, FixedFrameType, Zenon DEF TypeOK, LinkTypeOK, close_serial
<1> QED
  BY <1>2, Zenon DEF Withdrawn, close_serial

\* latch_safety_stop withdraws the authority, whatever the port does: either
\* the stop frame goes out, or the port is closed, or it had gone out before.
LEMMA LatchWithdraws ==
    ASSUME Inv, NEW override \in BOOLEAN, NEW received \in BOOLEAN,
           latch_safety_stop(override, received)
    PROVE  /\ Withdrawn'
           /\ LinkTypeOK'
           /\ AuthorityTypeOK'
           /\ rc_override_active' \in BOOLEAN
           /\ has_received_feedback' \in BOOLEAN
           /\ hall' \in HallType
<1> USE DEF Inv
<1>1. CASE close_serial
  <2>1. /\ Withdrawn' /\ LinkTypeOK' /\ safety_stop_sent' \in BOOLEAN
        /\ rc_override_active' \in BOOLEAN /\ has_received_feedback' \in BOOLEAN
    BY <1>1, CloseWithdraws, Zenon
  <2>2. safety_stop_latched' \in BOOLEAN
    BY DEF latch_safety_stop
  <2> QED
    BY <2>1, <2>2, HandshakeResetType, HallResetType, Zenon
       DEF Withdrawn, AuthorityTypeOK
<1>2. CASE ~close_serial
  <2>1. /\ autonomous_requested' = FALSE
        /\ fault_clear' = HandshakeReset
        /\ hall' = HallReset
        /\ rc_override_active' = override
        /\ has_received_feedback' = received
        /\ safety_stop_latched' = TRUE
        /\ UNCHANGED linkVars
    BY <1>2, Zenon DEF latch_safety_stop
  <2>2. /\ has_transmitted_command' = FALSE
        /\ safety_stop_sent' \in BOOLEAN
        /\ wire' \in {NoFrame, StopFrame}
    <3>1. CASE wire' = StopFrame /\ safety_stop_sent' = TRUE
                 /\ has_transmitted_command' = FALSE
      BY <3>1
    <3>2. CASE /\ TelemetryOnly \/ ~serial_open \/ safety_stop_sent
               /\ UNCHANGED <<has_transmitted_command, safety_stop_sent, wire>>
      <4>1. ~autonomous_requested
        BY <3>2 DEF AuthorityCanBeStopped
      <4> QED
        BY <3>2, <4>1, Zenon DEF StopOnWithdrawal, TransmittedMeansOutstanding, TypeOK,
           AuthorityTypeOK
    <3> QED
      BY <1>2, <3>1, <3>2, Zenon DEF latch_safety_stop
  <2>3. LinkTypeOK'
    BY <2>1, <2>2, FixedFrameType, Zenon DEF TypeOK, LinkTypeOK, linkVars
  <2> QED
    BY <2>1, <2>2, <2>3, HandshakeResetType, HallResetType, Zenon
       DEF Withdrawn, AuthorityTypeOK
<1> QED
  BY <1>1, <1>2

\* The state of a process that has just been started.
LEMMA FreshWithdrawn ==
    ASSUME FreshNode, pc' \in {"idle", "down"}, wire' \in {NoFrame, StopFrame}
    PROVE  TypeOK' /\ Withdrawn'
<1>1. /\ rx' \in 0 .. MaxBatch /\ open_wait' \in 0 .. ReconnectPeriod
      /\ command_stamp_age' \in 0 .. CommandTimeout
      /\ 0 \in 0 .. EmergencyTimeout + 2
  BY DEF FreshNode
<1>2. TimerTypeOK' /\ LinkTypeOK'
  BY <1>1, FixedFrameType, Zenon DEF FreshNode, TimerTypeOK, LinkTypeOK
<1>3. AuthorityTypeOK' /\ FeedbackTypeOK'
  BY HandshakeResetType DEF FreshNode, AuthorityTypeOK, FeedbackTypeOK
<1>4. InputTypeOK' /\ hall' \in HallType
  BY <1>1, HallResetType, Zenon DEF FreshNode, InputTypeOK, Gears
<1> QED
  BY <1>2, <1>3, <1>4, Zenon DEF FreshNode, TypeOK, Withdrawn

\* A step that touches neither the authority nor what it is judged by.
LEMMA SameInv ==
    ASSUME Inv, TypeOK', EmergencyChecked',
           UNCHANGED <<authorityVars, serial_open, status, emergency, hall, wire>>
    PROVE  Inv'
  BY DEF Inv, authorityVars, StopOnWithdrawal, AuthorityCanBeStopped,
         NoAuthorityUnderFault, HandshakeOrder, HallFollowsWire,
         EmergencyWatched, TransmittedMeansOutstanding

\* A step of which only a withdrawal, by a stop or by closing, is left.
LEMMA WithdrawingStep ==
    ASSUME Inv, TimerTypeOK', InputTypeOK', FeedbackTypeOK',
           \/ latch_safety_stop(rc_override_active, has_received_feedback)
           \/ close_serial /\ UNCHANGED safety_stop_latched
    PROVE  Inv'
<1>0. TypeOK' /\ Withdrawn' => Inv'
  BY WithdrawnInv, PTL
<1>1. CASE latch_safety_stop(rc_override_active, has_received_feedback)
  <2>1. Withdrawn' /\ LinkTypeOK' /\ AuthorityTypeOK' /\ hall' \in HallType
    BY <1>1, LatchWithdraws, Zenon DEF Inv, TypeOK, FeedbackTypeOK
  <2> QED
    BY <2>1, <1>0 DEF TypeOK
<1>2. CASE close_serial /\ UNCHANGED safety_stop_latched
  <2>1. Withdrawn' /\ LinkTypeOK' /\ safety_stop_sent' \in BOOLEAN
    BY <1>2, CloseWithdraws, Zenon DEF Inv
  <2>2. AuthorityTypeOK' /\ hall' \in HallType
    BY <1>2, <2>1, HandshakeResetType, HallResetType, Zenon
       DEF Withdrawn, Inv, TypeOK, AuthorityTypeOK
  <2> QED
    BY <2>1, <2>2, <1>0 DEF TypeOK
<1> QED
  BY <1>1, <1>2

\* The two flags that a stop or a close may change have their types.
LEMMA WithdrawnFlags ==
    ASSUME Inv,
           \/ latch_safety_stop(rc_override_active, has_received_feedback)
           \/ close_serial
    PROVE  rc_override_active' \in BOOLEAN /\ has_received_feedback' \in BOOLEAN
<1>1. CASE latch_safety_stop(rc_override_active, has_received_feedback)
  BY <1>1, LatchWithdraws, Zenon DEF Inv, TypeOK, FeedbackTypeOK
<1>2. CASE close_serial
  BY <1>2, CloseWithdraws, Zenon DEF Inv
<1> QED
  BY <1>1, <1>2

\* One case per callback; most of them withdraw the authority or leave it.
LEMMA NextInv == Inv /\ [Next]_vars => Inv'
<1> SUFFICES ASSUME Inv, [Next]_vars PROVE Inv'
  OBVIOUS
<1> USE DEF Inv
<1>0. TypeOK' /\ Withdrawn' => Inv'
  BY WithdrawnInv, PTL
<1>1. ASSUME NEW gear \in Gears, on_gear_command(gear) PROVE Inv'
  <2>1. InputTypeOK'
    BY <1>1, Zenon DEF on_gear_command, TypeOK, InputTypeOK
  <2>2. TypeOK'
    BY <1>1, <2>1, SameType, Zenon DEF on_gear_command, TypeOK
  <2>3. EmergencyChecked'
    BY <1>1 DEF on_gear_command, EmergencyChecked, timerVars, authorityVars
  <2> QED
    BY <1>1, <2>2, <2>3, SameInv DEF on_gear_command, linkVars, feedbackVars
<1>2. ASSUME NEW active \in BOOLEAN, on_emergency_status(active) PROVE Inv'
  <2>1. InputTypeOK'
    <3>1. 0 \in 0 .. EmergencyTimeout + 2
      OBVIOUS
    <3> QED
      BY <1>2, <3>1, Zenon DEF on_emergency_status, TypeOK, InputTypeOK
  <2>2. CASE latch_safety_stop(rc_override_active, has_received_feedback)
    <3>1. TimerTypeOK' /\ FeedbackTypeOK'
      BY <1>2, <2>2, WithdrawnFlags, SameType, Zenon
         DEF on_emergency_status, TypeOK, FeedbackTypeOK
    <3> QED
      BY <2>1, <2>2, <3>1, WithdrawingStep
  <2>3. CASE ~active
    <3>1. TypeOK'
      BY <1>2, <2>1, <2>3, SameType, Zenon DEF on_emergency_status, TypeOK, feedbackVars
    <3> QED
      BY <1>2, <2>3, <3>1 DEF on_emergency_status, timerVars, linkVars, authorityVars,
         StopOnWithdrawal, AuthorityCanBeStopped, NoAuthorityUnderFault, HandshakeOrder,
         HallFollowsWire, EmergencyWatched, TransmittedMeansOutstanding, EmergencyChecked
  <2> QED
    BY <1>2, <2>2, <2>3 DEF on_emergency_status
<1>3. ASSUME on_autonomous_request PROVE Inv'
  <2>1. fault_clear' \in [pending : BOOLEAN, zero_sent : BOOLEAN, sent : BOOLEAN]
    BY <1>3 DEF on_autonomous_request, TypeOK, AuthorityTypeOK, HandshakeReset
  <2>2. AuthorityTypeOK' /\ hall' \in HallType
    BY <1>3, <2>1, HallResetType, Zenon DEF on_autonomous_request, TypeOK, AuthorityTypeOK
  <2>3. TypeOK'
    BY <1>3, <2>2, SameType, Zenon DEF on_autonomous_request, TypeOK
  <2>4. (StopOnWithdrawal /\ AuthorityCanBeStopped /\ NoAuthorityUnderFault)'
    BY <1>3 DEF on_autonomous_request, AcceptsAutonomous, Callback, StopOnWithdrawal, AuthorityCanBeStopped,
       NoAuthorityUnderFault, HandshakeReset, linkVars, feedbackVars
  <2>5. HandshakeOrder'
    BY <1>3 DEF on_autonomous_request, HandshakeOrder, HandshakeReset
  <2>6. (HallFollowsWire /\ TransmittedMeansOutstanding)'
    BY <1>3, HallResetType DEF on_autonomous_request, HallFollowsWire,
       TransmittedMeansOutstanding
  <2>7. (EmergencyWatched /\ EmergencyChecked)'
    BY <1>3 DEF on_autonomous_request, AcceptsAutonomous, fresh_and_clear, EmergencyWatched, EmergencyChecked,
       inputVars, TypeOK, InputTypeOK
  <2> QED
    BY <2>3, <2>4, <2>5, <2>6, <2>7
<1>4. ASSUME on_manual_request PROVE Inv'
  <2>1. TimerTypeOK' /\ InputTypeOK'
    BY <1>4, SameType, Zenon DEF on_manual_request
  <2>2. CASE close_serial
    <3>1. FeedbackTypeOK'
      BY <1>4, <2>2, WithdrawnFlags, Zenon DEF on_manual_request, TypeOK, FeedbackTypeOK
    <3> QED
      BY <1>4, <2>1, <2>2, <3>1, WithdrawingStep DEF on_manual_request
  <2>3. CASE ~close_serial
    <3>1. /\ Withdrawn' /\ wire' \in ChassisCommand
          /\ safety_stop_sent' \in BOOLEAN
      <4>1. CASE ~serial_open \/ ~manual_stop_is_required
        <5>1. ~autonomous_requested
          BY <4>1 DEF manual_stop_is_required, AuthorityCanBeStopped
        <5>2. wire \in {NoFrame, StopFrame} /\ has_transmitted_command = FALSE
          BY <5>1, Zenon DEF StopOnWithdrawal, TransmittedMeansOutstanding, TypeOK,
             AuthorityTypeOK
        <5> QED
          BY <1>4, <2>3, <4>1, <5>2, FixedFrameType, Zenon
             DEF on_manual_request, Withdrawn, TypeOK, AuthorityTypeOK
      <4> QED
        BY <1>4, <2>3, <4>1, FixedFrameType, Zenon DEF on_manual_request, Withdrawn
    <3>2. FeedbackTypeOK' /\ UNCHANGED linkVars /\ UNCHANGED safety_stop_latched
      BY <1>4, <2>3, Zenon DEF on_manual_request, TypeOK, FeedbackTypeOK
    <3>3. AuthorityTypeOK' /\ hall' \in HallType
      BY <3>1, <3>2, HandshakeResetType, HallResetType, Zenon
         DEF Withdrawn, TypeOK, AuthorityTypeOK
    <3> QED
      BY <1>0, <2>1, <3>1, <3>2, <3>3, SameType DEF TypeOK
  <2> QED
    BY <2>2, <2>3
<1>5. ASSUME NEW velocity \in Velocities, NEW steering \in BOOLEAN,
             NEW age \in -1 .. CommandTimeout + 1,
             on_control_command(velocity, steering, age)
      PROVE  Inv'
  <2>1. TimerTypeOK'
    BY <1>5, SameType, Zenon DEF on_control_command
  <2>2. InputTypeOK'
    <3>1. \/ command_stamp_age' = command_stamp_age
          \/ command_stamp_age' = age /\ command_stamp_is_fresh(age)
      BY <1>5, Zenon DEF on_control_command
    <3>2. command_stamp_age' \in 0 .. CommandTimeout
      BY <3>1 DEF command_stamp_is_fresh, TypeOK, InputTypeOK
    <3> QED
      BY <1>5, <3>2, Zenon DEF on_control_command, TypeOK, InputTypeOK
  <2>3. CASE \/ latch_safety_stop(rc_override_active, has_received_feedback)
             \/ close_serial /\ UNCHANGED safety_stop_latched
    <3>1. FeedbackTypeOK'
      BY <1>5, <2>3, WithdrawnFlags, Zenon DEF on_control_command, TypeOK, FeedbackTypeOK
    <3> QED
      BY <2>1, <2>2, <2>3, <3>1, WithdrawingStep
  <2>4. CASE /\ fresh_and_clear /\ serial_open
             /\ wire' = CommandFrame(velocity, steering)
             /\ has_transmitted_command' = TRUE
             /\ fault_clear' = [fault_clear EXCEPT !.zero_sent = fault_clear.pending]
             /\ hall' = IF fault_clear.pending \/ rc_override_active THEN HallReset
                        ELSE note_effective_command(hall, wire'.speed)
             /\ UNCHANGED <<linkVars, autonomous_requested, safety_stop_latched,
                            safety_stop_sent, rc_override_active,
                            has_received_feedback>>
    <3>1. /\ wire' \in ChassisCommand
          /\ wire' \notin {NoFrame, StopFrame}
          /\ wire'.enable
          /\ wire'.speed \in Int
          /\ fault_clear.pending => wire' = ZeroFrame
      <4>1. velocity \in Int
        BY Zenon
      <4>2. wire' \in ChassisCommand
        BY <2>4, <4>1, CommandFrameType
      <4>3. wire' \notin {NoFrame, StopFrame} /\ wire'.enable
        BY <2>4, CommandFrameOutstanding
      <4>4. fault_clear.pending => wire' = ZeroFrame
        BY <2>4 DEF CommandFrame
      <4> QED
        BY <4>2, <4>3, <4>4 DEF ChassisCommand, Speeds
    <3>2. /\ hall' \in HallType
          /\ hall'.motion_expected =>
                /\ ~fault_clear.pending
                /\ hall'.direction = Direction(wire'.speed)
                /\ hall'.direction # 0
      <4>1. CASE fault_clear.pending \/ rc_override_active
        BY <2>4, <4>1, HallResetType
      <4>2. CASE ~(fault_clear.pending \/ rc_override_active)
        BY <2>4, <3>1, <4>2, NoteCommandType DEF TypeOK
      <4> QED
        BY <4>1, <4>2
    <3>3. AuthorityTypeOK'
      BY <2>4 DEF TypeOK, AuthorityTypeOK
    <3>4. TypeOK'
      <4>1. FeedbackTypeOK'
        BY <1>5, <2>4, Zenon DEF on_control_command, TypeOK, FeedbackTypeOK
      <4> QED
        BY <2>1, <2>2, <2>4, <3>1, <3>2, <3>3, <4>1, SameType DEF TypeOK
    <3>5. autonomous_requested
      BY <1>5 DEF on_control_command
    <3>6. (StopOnWithdrawal /\ AuthorityCanBeStopped /\ TransmittedMeansOutstanding)'
      BY <2>4, <3>1, <3>5 DEF StopOnWithdrawal, AuthorityCanBeStopped,
         TransmittedMeansOutstanding, linkVars
    <3>7. (NoAuthorityUnderFault /\ HandshakeOrder)'
      BY <1>5, <2>4, <3>1, <3>5 DEF on_control_command, NoAuthorityUnderFault,
         HandshakeOrder, TypeOK, AuthorityTypeOK
    <3>8. HallFollowsWire'
      BY <2>4, <3>1, <3>2, <3>5 DEF HallFollowsWire, TypeOK, AuthorityTypeOK
    <3>9. (EmergencyWatched /\ EmergencyChecked)'
      BY <1>5, <2>4, <3>5 DEF on_control_command, EmergencyWatched, EmergencyChecked,
         timerVars
    <3> QED
      BY <3>4, <3>6, <3>7, <3>8, <3>9
  <2> QED
    BY <1>5, <2>3, <2>4, Zenon DEF on_control_command
<1>6. ASSUME try_open_serial PROVE Inv'
  <2>1. TimerTypeOK' /\ wire' \in ChassisCommand
    BY <1>6, Zenon DEF try_open_serial, TypeOK, TimerTypeOK, LinkTypeOK
  <2>2. open_wait' \in 0 .. ReconnectPeriod
    BY <1>6 DEF try_open_serial, TypeOK, LinkTypeOK, linkVars
  <2>3. LinkTypeOK'
    BY <1>6, <2>1, <2>2, Zenon DEF try_open_serial, TypeOK, LinkTypeOK, linkVars
  <2>4. TypeOK'
    BY <1>6, <2>1, <2>3, SameType, Zenon DEF try_open_serial, TypeOK
  <2> QED
    BY <1>6, <2>4 DEF try_open_serial, MayOpen, authorityVars, feedbackVars, inputVars, linkVars,
       StopOnWithdrawal, AuthorityCanBeStopped, NoAuthorityUnderFault, HandshakeOrder,
       HallFollowsWire, EmergencyWatched, TransmittedMeansOutstanding, EmergencyChecked
<1>7. ASSUME check_emergency_status PROVE Inv'
  <2>1. TimerTypeOK' /\ InputTypeOK'
    BY <1>7, SameType, Zenon DEF check_emergency_status, TypeOK, TimerTypeOK
  <2>2. CASE latch_safety_stop(rc_override_active, has_received_feedback)
    <3>1. FeedbackTypeOK'
      BY <1>7, <2>2, WithdrawnFlags, Zenon DEF check_emergency_status, TypeOK, FeedbackTypeOK
    <3> QED
      BY <2>1, <2>2, <3>1, WithdrawingStep
  <2>3. CASE /\ ~EmergencyLost
             /\ UNCHANGED <<linkVars, authorityVars, hall, wire,
                            rc_override_active, has_received_feedback>>
    <3>1. TypeOK'
      BY <1>7, <2>1, <2>3, SameType, Zenon DEF check_emergency_status, TypeOK, feedbackVars
    <3>2. EmergencyChecked'
      BY <1>7, <2>3 DEF check_emergency_status, EmergencyLost, EmergencyChecked, fresh_and_clear,
         inputVars, authorityVars
    <3> QED
      BY <1>7, <2>3, <3>1, <3>2, SameInv DEF check_emergency_status, linkVars, inputVars
  <2> QED
    BY <1>7, <2>2, <2>3, Zenon DEF check_emergency_status
<1>8. ASSUME poll_serial \/ read_serial PROVE Inv'
  <2>1. TimerTypeOK'
    BY <1>8 DEF poll_serial, read_serial, TypeOK, TimerTypeOK
  <2>2. InputTypeOK'
    BY <1>8, SameType, Zenon DEF poll_serial, read_serial
  <2>3. CASE close_serial
    <3>1. FeedbackTypeOK' /\ UNCHANGED safety_stop_latched
      BY <1>8, <2>3, WithdrawnFlags, Zenon
         DEF poll_serial, read_serial, TypeOK, FeedbackTypeOK
    <3> QED
      BY <2>1, <2>2, <2>3, <3>1, WithdrawingStep
  <2>4. CASE ~close_serial
    <3>1. /\ UNCHANGED <<linkVars, authorityVars, feedbackVars, inputVars, hall,
                         published, wire>>
          /\ timer_ran' = timer_ran /\ pc # "check"
      BY <1>8, <2>4, Zenon DEF poll_serial, read_serial, authorityVars, feedbackVars
    <3>2. TypeOK'
      BY <2>1, <2>2, <3>1, SameType, Zenon DEF TypeOK
    <3>3. EmergencyChecked'
      BY <3>1 DEF EmergencyChecked, inputVars, authorityVars
    <3> QED
      BY <3>1, <3>2, <3>3, SameInv DEF linkVars, feedbackVars, inputVars
  <2> QED
    BY <2>3, <2>4
<1>9. ASSUME NEW fb \in Feedbacks, publish_feedback(fb) PROVE Inv'
  <2>1. fb \in ChassisFeedback
    BY Zenon
  <2>2. TimerTypeOK' /\ InputTypeOK'
    <3>1. rx' \in 0 .. MaxBatch
      BY <1>9 DEF publish_feedback, TypeOK, TimerTypeOK
    <3> QED
      BY <1>9, <3>1, SameType, Zenon DEF publish_feedback, TypeOK, TimerTypeOK
  <2>3. /\ status' \in [live : BOOLEAN, latched : BOOLEAN]
        /\ published' \in [velocity : {"none", "zero", "motion"},
                           mode : {"none", "manual", "autonomous", "no_command"}]
    <3>1. status' \in [live : BOOLEAN, latched : BOOLEAN]
      BY <1>9, <2>1 DEF publish_feedback, has_live_chassis_fault,
         has_latched_chassis_fault, ChassisFeedback
    <3>2. velocity_report(fb) \in {"none", "zero", "motion"}
      BY DEF velocity_report
    <3>3. reported_control_mode(fb) \in {"none", "manual", "autonomous", "no_command"}
      BY DEF reported_control_mode
    <3> QED
      BY <1>9, <3>1, <3>2, <3>3 DEF publish_feedback
  <2>4. fb.rc_override \in BOOLEAN /\ TRUE \in BOOLEAN
    BY <2>1 DEF ChassisFeedback
  <2>5. CASE latch_safety_stop(fb.rc_override, TRUE)
    <3>1. /\ Withdrawn' /\ LinkTypeOK' /\ AuthorityTypeOK' /\ hall' \in HallType
          /\ rc_override_active' \in BOOLEAN /\ has_received_feedback' \in BOOLEAN
      BY <2>4, <2>5, LatchWithdraws, Zenon
    <3> QED
      BY <1>0, <2>2, <2>3, <3>1 DEF TypeOK, FeedbackTypeOK
  <2>6. CASE close_serial /\ UNCHANGED safety_stop_latched
    <3>1. FeedbackTypeOK'
      BY <2>3, <2>6, WithdrawnFlags, Zenon DEF FeedbackTypeOK
    <3> QED
      BY <2>2, <2>6, <3>1, WithdrawingStep
  <2>7. CASE /\ ~FeedbackFault(fb)
             /\ rc_override_active' = fb.rc_override
             /\ has_received_feedback' = TRUE
             /\ UNCHANGED <<linkVars, autonomous_requested, has_transmitted_command,
                            safety_stop_latched, safety_stop_sent>>
             /\ \/ /\ ClearDue(fb)
                   /\ wire' = ClearFrame
                   /\ fault_clear' = [fault_clear EXCEPT !.sent = TRUE]
                   /\ hall' = HallReset
                \/ /\ ~ClearDue(fb)
                   /\ fault_clear' = IF ClearConfirmed(fb) THEN HandshakeReset
                                     ELSE fault_clear
                   /\ hall' = IF firmware_command_blocked(fb) THEN HallReset
                              ELSE HallObserve(hall, velocity_feedback_state(fb)
                                                       = "measured_motion")
                   /\ UNCHANGED wire
    <3>1. FeedbackTypeOK'
      BY <2>3, <2>4, <2>7, Zenon DEF FeedbackTypeOK
    <3>2. fault_clear' \in [pending : BOOLEAN, zero_sent : BOOLEAN, sent : BOOLEAN]
      <4>1. fault_clear \in [pending : BOOLEAN, zero_sent : BOOLEAN, sent : BOOLEAN]
        BY Zenon DEF TypeOK, AuthorityTypeOK
      <4> QED
        BY <2>7, <4>1, HandshakeResetType
    <3>3. AuthorityTypeOK'
      BY <2>7, <3>2, Zenon DEF TypeOK, AuthorityTypeOK
    <3>4. /\ hall' \in HallType
          /\ hall'.motion_expected =>
               /\ hall.motion_expected
               /\ hall'.direction = hall.direction
               /\ wire' = wire
      <4>1. CASE hall' = HallReset
        BY <4>1, HallResetType
      <4>2. CASE hall' = HallObserve(hall, velocity_feedback_state(fb)
                                             = "measured_motion") /\ UNCHANGED wire
        <5>1. (velocity_feedback_state(fb) = "measured_motion") \in BOOLEAN
          OBVIOUS
        <5> QED
          BY <4>2, <5>1, HallObserveType DEF TypeOK
      <4> QED
        BY <2>7, <4>1, <4>2, Zenon
    <3>5. wire' \in ChassisCommand
      BY <2>7, FixedFrameType, Zenon DEF TypeOK, LinkTypeOK
    <3>6. TypeOK'
      BY <2>2, <2>7, <3>1, <3>3, <3>4, <3>5, SameType, Zenon DEF TypeOK
    <3>7. CASE ClearDue(fb)
      <4>1. /\ fault_clear.pending /\ fault_clear.zero_sent /\ ~fault_clear.sent
            /\ autonomous_requested /\ wire = ZeroFrame
        BY <3>7 DEF ClearDue, HandshakeOrder
      <4>2. wire \notin {NoFrame, StopFrame} /\ ClearFrame \notin {NoFrame, StopFrame}
        BY <4>1 DEF ZeroFrame, MotionFrame, Frame, NoFrame, StopFrame, ClearFrame
      <4>3. (StopOnWithdrawal /\ AuthorityCanBeStopped /\ TransmittedMeansOutstanding)'
        BY <2>7, <3>7, <4>1, <4>2 DEF StopOnWithdrawal, AuthorityCanBeStopped,
           TransmittedMeansOutstanding, linkVars
      <4>4. fault_clear'.pending /\ fault_clear'.zero_sent /\ fault_clear'.sent
        BY <2>7, <3>7, <4>1 DEF TypeOK, AuthorityTypeOK
      <4>5. NoAuthorityUnderFault'
        BY <1>9, <2>7, <4>1, <4>4 DEF publish_feedback, NoAuthorityUnderFault, FeedbackFault
      <4>6. (HandshakeOrder /\ HallFollowsWire)'
        BY <2>7, <3>7, <4>1, <4>4, HallResetType DEF HandshakeOrder, HallFollowsWire
      <4>7. (EmergencyWatched /\ EmergencyChecked)'
        BY <1>9, <2>7 DEF publish_feedback, EmergencyWatched, EmergencyChecked, inputVars
      <4> QED
        BY <3>6, <4>3, <4>5, <4>6, <4>7
    <3>8. CASE ~ClearDue(fb)
      <4>1. UNCHANGED wire
        BY <2>7, <3>8
      <4>2. (StopOnWithdrawal /\ AuthorityCanBeStopped /\ TransmittedMeansOutstanding)'
        BY <2>7, <4>1 DEF StopOnWithdrawal, AuthorityCanBeStopped,
           TransmittedMeansOutstanding, linkVars
      <4>3. NoAuthorityUnderFault'
        BY <1>9, <2>7, <3>8 DEF publish_feedback, NoAuthorityUnderFault, FeedbackFault,
           ClearConfirmed
      <4>4. HandshakeOrder'
        BY <2>7, <3>8, <4>1 DEF HandshakeOrder, HandshakeReset
      <4>5. HallFollowsWire'
        BY <2>7, <3>4, <3>8, <4>1 DEF HallFollowsWire, HandshakeReset
      <4>6. (EmergencyWatched /\ EmergencyChecked)'
        BY <1>9, <2>7 DEF publish_feedback, EmergencyWatched, EmergencyChecked, inputVars
      <4> QED
        BY <3>6, <4>2, <4>3, <4>4, <4>5, <4>6
    <3> QED
      BY <3>7, <3>8
  <2> QED
    BY <1>9, <2>5, <2>6, <2>7, Zenon DEF publish_feedback
<1>10. ASSUME Tick PROVE Inv'
  <2>1. /\ emergency'.received = emergency.received
        /\ emergency'.active = emergency.active
        /\ emergency'.age = Older(emergency.age, EmergencyTimeout + 2)
        /\ emergency' \in [received : BOOLEAN, active : BOOLEAN,
                           age : 0 .. EmergencyTimeout + 2]
    BY <1>10 DEF Tick, TypeOK, InputTypeOK, Older
  <2>2. InputTypeOK'
    <3>1. command_stamp_age' \in 0 .. CommandTimeout
      BY <1>10 DEF Tick, TypeOK, InputTypeOK, Older
    <3> QED
      BY <1>10, <2>1, <3>1, Zenon DEF Tick, TypeOK, InputTypeOK
  <2>3. /\ hall' \in HallType
        /\ hall'.motion_expected = hall.motion_expected
        /\ hall'.direction = hall.direction
    <3>1. hall \in HallType
      BY DEF TypeOK
    <3> DEFINE ma == IF hall.motion_expected
                     THEN Older(hall.motion_age, HallAcquisitionTimeout)
                     ELSE hall.motion_age
               la == IF hall.loss_active
                     THEN Older(hall.loss_age, HallLossTimeout) ELSE hall.loss_age
    <3>2. ma \in 0 .. HallAcquisitionTimeout /\ la \in 0 .. HallLossTimeout
      BY <3>1 DEF HallType, Older
    <3>3. hall' = [hall EXCEPT !.motion_age = ma, !.loss_age = la]
      BY <1>10, <3>1 DEF Tick, HallType
    <3> HIDE DEF ma, la
    <3> QED
      BY <3>1, <3>2, <3>3 DEF HallType
  <2>4. LinkTypeOK'
    <3>1. open_wait' \in 0 .. ReconnectPeriod
      BY <1>10 DEF Tick, TypeOK, LinkTypeOK
    <3> QED
      BY <1>10, <3>1, Zenon DEF Tick, TypeOK, LinkTypeOK
  <2>5. TypeOK'
    BY <1>10, <2>2, <2>3, <2>4, SameType, Zenon DEF Tick, TypeOK, TimerTypeOK
  <2>6. (StopOnWithdrawal /\ AuthorityCanBeStopped /\ NoAuthorityUnderFault
           /\ HandshakeOrder /\ TransmittedMeansOutstanding /\ EmergencyChecked)'
    BY <1>10 DEF Tick, authorityVars, feedbackVars, StopOnWithdrawal,
       AuthorityCanBeStopped, NoAuthorityUnderFault, HandshakeOrder,
       TransmittedMeansOutstanding, EmergencyChecked
  <2>7. HallFollowsWire'
    BY <1>10, <2>3 DEF Tick, authorityVars, HallFollowsWire
  <2>8. EmergencyWatched'
    BY <1>10, <2>1 DEF Tick, authorityVars, EmergencyWatched, EmergencyChecked, Older,
       TypeOK, InputTypeOK
  <2> QED
    BY <2>5, <2>6, <2>7, <2>8
<1>11. ASSUME shutdown \/ launch \/ crash PROVE Inv'
  <2>1. wire' \in {NoFrame, StopFrame}
    <3>1. ~has_transmitted_command \/ TelemetryOnly \/ ~serial_open
             => wire \in {NoFrame, StopFrame}
      BY DEF TransmittedMeansOutstanding, StopOnWithdrawal, AuthorityCanBeStopped
    <3> QED
      BY <1>11, <3>1 DEF shutdown, launch, crash
  <2>2. FreshNode /\ pc' \in {"idle", "down"}
    BY <1>11, Zenon DEF shutdown, launch, crash
  <2> QED
    BY <1>0, <2>1, <2>2, FreshWithdrawn
<1>12. CASE UNCHANGED vars
  <2>1. TypeOK'
    BY <1>12, SameType, Zenon DEF vars, TypeOK, timerVars, linkVars, authorityVars,
       feedbackVars, inputVars
  <2>2. EmergencyChecked'
    BY <1>12 DEF vars, EmergencyChecked
  <2> QED
    BY <1>12, <2>1, <2>2, SameInv DEF vars, authorityVars
<1> QED
  BY <1>1, <1>2, <1>3, <1>4, <1>5, <1>6, <1>7, <1>8, <1>9, <1>10, <1>11, <1>12 DEF Next

-----------------------------------------------------------------------------
(* The theorems.                                                           *)

\* Everything below is read off this one.
LEMMA Invariance == Spec => []Inv
  BY InitInv, NextInv, PTL DEF Spec

\* The variables of RcVehicleInterfaceNode keep their types.
THEOREM TypeCorrect == Spec => []TypeOK
  BY Invariance, PTL DEF Inv

(***************************************************************************)
(* Whenever the node does not hold AUTONOMOUS, the last frame on the open  *)
(* connection is a software stop or there is none: no callback withdraws   *)
(* the authority and leaves a command frame behind.                        *)
(***************************************************************************)
THEOREM WithdrawalStops == Spec => []StopOnWithdrawal
  BY Invariance, PTL DEF Inv

\* While AUTONOMOUS is held the port is open and the stop frame unspent, so
\* every later withdrawal can still reach the chassis.
THEOREM AuthorityIsSafe == Spec => []AuthorityCanBeStopped
  BY Invariance, PTL DEF Inv

\* While AUTONOMOUS is held the latest telemetry shows no fault outside the
\* fault-clear handshake.
THEOREM FaultEndsAuthority == Spec => []NoAuthorityUnderFault
  BY Invariance, PTL DEF Inv

\* While AUTONOMOUS is held the clear emergency status is at most the timeout
\* and one tick old, also when no control command arrives.
THEOREM EmergencyIsWatched == Spec => []EmergencyWatched
  BY Invariance, PTL DEF Inv

\* The order of the frames of the fault-clear handshake.
THEOREM HandshakeIsOrdered == Spec => []HandshakeOrder
  BY Invariance, PTL DEF Inv

\* Hall supervision is about the motion that was last commanded.
THEOREM HallSupervisesWire == Spec => []HallFollowsWire
  BY Invariance, PTL DEF Inv

-----------------------------------------------------------------------------
(* Which steps write which frame.                                          *)

\* Frames other than those of Control messages do not move the car.
LEMMA StillFrames ==
    NoFrame.speed = 0 /\ StopFrame.speed = 0 /\ ClearFrame.speed = 0
  BY DEF NoFrame, StopFrame, ClearFrame, Frame

\* Neither writes anything but the stop frame.
LEMMA LatchOrCloseWire ==
    ASSUME NEW override, NEW received,
           latch_safety_stop(override, received) \/ close_serial
    PROVE  wire' \in {wire, NoFrame, StopFrame}
  BY Zenon DEF latch_safety_stop, close_serial

\* Only a Control message under fresh clear emergency status writes a frame
\* with a speed.
LEMMA SpeedIsCommanded ==
    ASSUME Next, wire' # wire, wire'.speed # 0
    PROVE  \E velocity \in Velocities, steering \in BOOLEAN :
              /\ autonomous_requested /\ fresh_and_clear
              /\ wire' = CommandFrame(velocity, steering)
<1>1. ASSUME NEW active \in BOOLEAN, on_emergency_status(active) PROVE FALSE
  BY <1>1, StillFrames, LatchOrCloseWire DEF on_emergency_status
<1>2. ASSUME on_manual_request PROVE FALSE
  BY <1>2, StillFrames, LatchOrCloseWire DEF on_manual_request
<1>3. ASSUME NEW velocity \in Velocities, NEW steering \in BOOLEAN, NEW age,
             on_control_command(velocity, steering, age)
      PROVE  /\ autonomous_requested /\ fresh_and_clear
             /\ wire' = CommandFrame(velocity, steering)
  BY <1>3, StillFrames, LatchOrCloseWire DEF on_control_command
<1>4. ASSUME check_emergency_status \/ poll_serial \/ read_serial PROVE FALSE
  BY <1>4, StillFrames, LatchOrCloseWire
     DEF check_emergency_status, poll_serial, read_serial
<1>5. ASSUME NEW fb \in Feedbacks, publish_feedback(fb) PROVE FALSE
  BY <1>5, StillFrames, LatchOrCloseWire DEF publish_feedback
<1>6. ASSUME shutdown \/ launch \/ crash PROVE FALSE
  BY <1>6, StillFrames DEF shutdown, launch, crash
<1>7. ~(\E gear \in Gears : on_gear_command(gear)) /\ ~on_autonomous_request
        /\ ~try_open_serial /\ ~Tick
  BY Zenon DEF on_gear_command, on_autonomous_request, try_open_serial, Tick
<1> QED
  BY <1>1, <1>2, <1>3, <1>4, <1>5, <1>6, <1>7, Zenon DEF Next

(***************************************************************************)
(* Every frame that moves the car was allowed by the emergency status, the *)
(* logical gear, the handshake and the latest telemetry.                   *)
(***************************************************************************)
THEOREM MotionIsSafe == Spec => MotionOnlyWhenSafe
<1>1. ASSUME Inv, [Next]_vars
      PROVE  [ wire' # wire /\ wire'.speed # 0 =>
                 /\ fresh_and_clear
                 /\ logical_gear_allows_speed(logical_gear, wire'.speed)
                 /\ ~fault_clear.pending
                 /\ ~status.live /\ ~status.latched ]_vars
  <2> SUFFICES ASSUME Next, wire' # wire, wire'.speed # 0
               PROVE  /\ fresh_and_clear
                      /\ logical_gear_allows_speed(logical_gear, wire'.speed)
                      /\ ~fault_clear.pending
                      /\ ~status.live /\ ~status.latched
    BY <1>1 DEF vars
  <2>1. PICK velocity \in Velocities, steering \in BOOLEAN :
             /\ autonomous_requested /\ fresh_and_clear
             /\ wire' = CommandFrame(velocity, steering)
    BY SpeedIsCommanded
  <2>2. ~fault_clear.pending
    BY <2>1 DEF CommandFrame, ZeroFrame, MotionFrame, Frame
  <2>3. logical_gear_allows_speed(logical_gear, wire'.speed)
    BY <2>1, <2>2 DEF CommandFrame, MotionFrame, Frame
  <2>4. ~status.live /\ ~status.latched
    BY <1>1, <2>1, <2>2 DEF Inv, NoAuthorityUnderFault
  <2> QED
    BY <2>1, <2>2, <2>3, <2>4
<1> QED
  BY <1>1, Invariance, PTL DEF Spec, MotionOnlyWhenSafe

(***************************************************************************)
(* A zero VelocityReport is made only when, after the frame is handled, no *)
(* commanded motion awaits its Hall confirmation.                          *)
(***************************************************************************)
THEOREM StandstillIsReal == Spec => StandstillNotMasked
<1>1. ASSUME Inv, [Next]_vars
      PROVE  [ rx' = rx - 1 /\ published'.velocity = "zero" =>
                 ~hall'.motion_expected ]_vars
  <2> SUFFICES ASSUME Next, rx' = rx - 1, published'.velocity = "zero"
               PROVE  ~hall'.motion_expected
    BY <1>1 DEF vars
  <2>1. rx' # rx
    BY <1>1 DEF Inv, TypeOK, TimerTypeOK
  <2>2. ASSUME NEW fb \in Feedbacks, publish_feedback(fb)
        PROVE  ~hall'.motion_expected
    <3>1. velocity_report(fb) = "zero"
      BY <2>2 DEF publish_feedback
    <3>2. FrameDecision(fb) = "not_required"
      BY <3>1 DEF velocity_report
    <3>3. CASE firmware_command_blocked(fb) \/ FeedbackFault(fb) \/ ClearDue(fb)
      <4>1. hall' = HallReset
        BY <2>2, <3>3, Zenon DEF publish_feedback, latch_safety_stop, close_serial
      <4> QED
        BY <4>1, HallResetType
    <3>4. CASE ~(firmware_command_blocked(fb) \/ FeedbackFault(fb) \/ ClearDue(fb))
      <4>1. ~hall.motion_expected
        BY <3>2, <3>4 DEF FrameDecision, HallDecision
      <4> QED
        BY <2>2, <3>4, <4>1 DEF publish_feedback, HallObserve
    <3> QED
      BY <3>3, <3>4
  <2>3. ASSUME FreshNode PROVE ~hall'.motion_expected
    BY <2>3, HallResetType DEF FreshNode
  <2>4. ASSUME read_serial PROVE FALSE
    BY <2>1, <2>4 DEF read_serial
  <2> QED
    BY <2>1, <2>2, <2>3, <2>4, Zenon DEF Next, on_gear_command, on_emergency_status,
       on_autonomous_request, on_manual_request, on_control_command, try_open_serial,
       check_emergency_status, poll_serial, Tick, shutdown, launch, crash, timerVars
<1> QED
  BY <1>1, Invariance, PTL DEF Spec, StandstillNotMasked

-----------------------------------------------------------------------------
(* The node implements ChassisAuthority.                                   *)

\* A Control message becomes a motion frame, a zero one in the handshake.
LEMMA CommandFrameShape ==
    ASSUME NEW velocity \in Int, NEW steering \in BOOLEAN
    PROVE  \E speed \in Speeds, angle \in BOOLEAN :
              /\ CommandFrame(velocity, steering) = MotionFrame(speed, angle)
              /\ fault_clear.pending => speed = 0 /\ ~angle
<1>1. 0 \in Speeds /\ control_to_chassis_motion(velocity) \in Speeds
  BY DEF Speeds, control_to_chassis_motion
<1>2. CASE fault_clear.pending
  <2>1. CommandFrame(velocity, steering) = MotionFrame(0, FALSE)
    BY <1>2 DEF CommandFrame, ZeroFrame
  <2> QED
    BY <1>1, <2>1
<1>3. CASE ~fault_clear.pending
  <2>1. \/ CommandFrame(velocity, steering) = MotionFrame(0, steering)
        \/ CommandFrame(velocity, steering)
             = MotionFrame(control_to_chassis_motion(velocity), steering)
    BY <1>3 DEF CommandFrame
  <2> QED
    BY <1>1, <1>3, <2>1
<1> QED
  BY <1>2, <1>3

\* A withdrawal is a Withdraw or a Disconnect of the abstract specification.
LEMMA WithdrawnRefines == Withdrawn' => Abstract!Withdraw \/ Abstract!Disconnect
<1> SUFFICES ASSUME Withdrawn' PROVE Abstract!Withdraw \/ Abstract!Disconnect
  OBVIOUS
<1>1. Authority' = "none" /\ fault_clear'.sent = FALSE
  BY DEF Withdrawn, Authority, HandshakeReset
<1> QED
  BY <1>1 DEF Withdrawn, Abstract!Withdraw, Abstract!Disconnect, Abstract!StopFrame,
     Abstract!NoFrame, Abstract!Frame, StopFrame, NoFrame, Frame

\* Closing the port withdraws.
LEMMA CloseWithdrawn == close_serial => Withdrawn'
  BY Zenon DEF close_serial, Withdrawn

\* Every step is one of ChassisAuthority, or none of its business.
LEMMA NextRefines == Inv /\ [Next]_vars => [Abstract!Next]_(Abstract!vars)
<1> SUFFICES ASSUME Inv, [Next]_vars PROVE [Abstract!Next]_(Abstract!vars)
  OBVIOUS
<1> USE DEF Inv
<1>0. Withdrawn' => Abstract!Next
  BY WithdrawnRefines DEF Abstract!Next
<1>1. UNCHANGED <<authorityVars, wire>> => UNCHANGED Abstract!vars
  BY DEF authorityVars, Abstract!vars, Authority
<1>2. ASSUME latch_safety_stop(rc_override_active, has_received_feedback)
      PROVE  Abstract!Next
  BY <1>0, <1>2, LatchWithdraws, Zenon DEF TypeOK, FeedbackTypeOK
<1>3. ASSUME on_autonomous_request PROVE Abstract!Next
  <2>1. CASE ~status.latched
    <3>1. Authority' = "full" /\ fault_clear'.sent = FALSE
      BY <1>3, <2>1 DEF on_autonomous_request, Authority, HandshakeReset
    <3> QED
      BY <1>3, <3>1 DEF on_autonomous_request, Abstract!Next, Abstract!Grant
  <2>2. CASE status.latched /\ fault_clear.pending
    <3>1. Authority = "zero_only" /\ Authority' = "zero_only" /\ fault_clear' = fault_clear
      BY <1>3, <2>2 DEF on_autonomous_request, Authority, HandshakeOrder
    <3>2. fault_clear.sent \in BOOLEAN
      BY DEF TypeOK, AuthorityTypeOK
    <3> QED
      BY <1>3, <3>1, <3>2 DEF on_autonomous_request, Abstract!Next, Abstract!Grant
  <2>3. CASE status.latched /\ ~fault_clear.pending
    <3>1. Authority # "zero_only" /\ Authority' = "zero_only" /\ fault_clear'.sent = FALSE
      BY <1>3, <2>3 DEF on_autonomous_request, Authority, HandshakeReset
    <3> QED
      BY <1>3, <3>1 DEF on_autonomous_request, Abstract!Next, Abstract!Grant
  <2> QED
    BY <2>1, <2>2, <2>3
<1>4. ASSUME on_manual_request PROVE [Abstract!Next]_(Abstract!vars)
  <2>1. CASE serial_open /\ manual_stop_is_required
    <3>1. Withdrawn'
      BY <1>4, <2>1, CloseWithdrawn, Zenon DEF on_manual_request, Withdrawn
    <3> QED
      BY <1>0, <3>1
  <2>2. CASE ~(serial_open /\ manual_stop_is_required)
    <3>1. ~autonomous_requested
      BY <2>2 DEF manual_stop_is_required, AuthorityCanBeStopped
    <3>2. wire \in {NoFrame, StopFrame} /\ has_transmitted_command = FALSE
      BY <3>1, Zenon DEF StopOnWithdrawal, TransmittedMeansOutstanding, TypeOK,
         AuthorityTypeOK
    <3>3. Withdrawn'
      BY <1>4, <2>2, <3>2, Zenon DEF on_manual_request, Withdrawn
    <3> QED
      BY <1>0, <3>3
  <2> QED
    BY <2>1, <2>2
<1>5. ASSUME NEW velocity \in Velocities, NEW steering \in BOOLEAN, NEW age,
             on_control_command(velocity, steering, age)
      PROVE  [Abstract!Next]_(Abstract!vars)
  <2>1. CASE latch_safety_stop(rc_override_active, has_received_feedback) \/ close_serial
    BY <1>0, <1>2, <2>1, CloseWithdrawn
  <2>2. CASE /\ wire' = CommandFrame(velocity, steering)
             /\ fault_clear' = [fault_clear EXCEPT !.zero_sent = fault_clear.pending]
             /\ UNCHANGED autonomous_requested
    <3>1. PICK speed \in Speeds, angle \in BOOLEAN :
               /\ CommandFrame(velocity, steering) = MotionFrame(speed, angle)
               /\ fault_clear.pending => speed = 0 /\ ~angle
      <4>1. velocity \in Int
        BY Zenon
      <4> QED
        BY <4>1, CommandFrameShape
    <3>2. autonomous_requested
      BY <1>5 DEF on_control_command
    <3>3. /\ fault_clear'.pending <=> fault_clear.pending
          /\ fault_clear'.sent = fault_clear.sent
      BY <2>2 DEF TypeOK, AuthorityTypeOK
    <3>4. Authority # "none" /\ Authority' = Authority
            /\ (Authority = "zero_only" => fault_clear.pending)
      BY <2>2, <3>2, <3>3 DEF Authority
    <3>5. Abstract!Command
      BY <2>2, <3>1, <3>3, <3>4 DEF Abstract!Command, Abstract!MotionFrame,
         Abstract!Frame, MotionFrame, Frame, Abstract!Speeds, Speeds
    <3> QED
      BY <3>5 DEF Abstract!Next
  <2> QED
    BY <1>5, <2>1, <2>2, Zenon DEF on_control_command
<1>6. ASSUME NEW fb \in Feedbacks, publish_feedback(fb)
      PROVE  [Abstract!Next]_(Abstract!vars)
  <2>1. CASE FeedbackFault(fb)
    <3>1. fb \in ChassisFeedback
      BY Zenon
    <3>2. fb.rc_override \in BOOLEAN /\ TRUE \in BOOLEAN
      BY <3>1 DEF ChassisFeedback
    <3>3. latch_safety_stop(fb.rc_override, TRUE)
      BY <1>6, <2>1, Zenon DEF publish_feedback
    <3> QED
      BY <1>0, <3>2, <3>3, LatchWithdraws, Zenon
  <2>2. CASE close_serial
    BY <1>0, <2>2, CloseWithdrawn
  <2>3. CASE /\ ClearDue(fb) /\ wire' = ClearFrame
             /\ fault_clear' = [fault_clear EXCEPT !.sent = TRUE]
             /\ UNCHANGED autonomous_requested
    <3>1. /\ fault_clear.pending /\ ~fault_clear.sent
          /\ autonomous_requested /\ wire = ZeroFrame
      BY <2>3 DEF ClearDue, HandshakeOrder
    <3>2. fault_clear'.pending /\ fault_clear'.sent = TRUE
      BY <2>3, <3>1 DEF TypeOK, AuthorityTypeOK
    <3>3. Authority = "zero_only" /\ Authority' = "zero_only"
      BY <2>3, <3>1, <3>2 DEF Authority
    <3>4. Abstract!Clear
      BY <2>3, <3>1, <3>2, <3>3 DEF Abstract!Clear, Abstract!ZeroFrame,
         Abstract!MotionFrame, Abstract!ClearFrame, Abstract!Frame, ZeroFrame,
         MotionFrame, ClearFrame, Frame
    <3> QED
      BY <3>4 DEF Abstract!Next
  <2>4. CASE /\ fault_clear' = IF ClearConfirmed(fb) THEN HandshakeReset
                               ELSE fault_clear
             /\ UNCHANGED <<autonomous_requested, wire>>
    <3>1. CASE ClearConfirmed(fb)
      <4>1. /\ Authority = "zero_only" /\ Authority' = "full"
            /\ fault_clear'.sent = FALSE
        BY <2>4, <3>1 DEF ClearConfirmed, Authority, HandshakeReset, HandshakeOrder
      <4>2. Abstract!Release
        BY <2>4, <4>1 DEF Abstract!Release
      <4> QED
        BY <4>2 DEF Abstract!Next
    <3>2. CASE ~ClearConfirmed(fb)
      BY <2>4, <3>2 DEF Abstract!vars, Authority
    <3> QED
      BY <3>1, <3>2
  <2> QED
    BY <1>6, <2>1, <2>2, <2>3, <2>4, Zenon DEF publish_feedback
<1>7. ASSUME shutdown \/ launch \/ crash PROVE Abstract!Next
  <2>1. wire' \in {NoFrame, StopFrame}
    <3>1. ~has_transmitted_command \/ TelemetryOnly \/ ~serial_open
             => wire \in {NoFrame, StopFrame}
      BY DEF TransmittedMeansOutstanding, StopOnWithdrawal, AuthorityCanBeStopped
    <3> QED
      BY <1>7, <3>1 DEF shutdown, launch, crash
  <2>2. Withdrawn'
    BY <1>7, <2>1, Zenon DEF shutdown, launch, crash, FreshNode, Withdrawn
  <2> QED
    BY <1>0, <2>2
<1>8. ASSUME check_emergency_status \/ poll_serial \/ read_serial
      PROVE  [Abstract!Next]_(Abstract!vars)
  <2>1. \/ latch_safety_stop(rc_override_active, has_received_feedback)
        \/ close_serial
        \/ UNCHANGED <<authorityVars, wire>>
    BY <1>8, Zenon DEF check_emergency_status, poll_serial, read_serial, authorityVars
  <2> QED
    BY <1>0, <1>1, <1>2, <2>1, CloseWithdrawn
<1>9. ASSUME NEW active \in BOOLEAN, on_emergency_status(active)
      PROVE  [Abstract!Next]_(Abstract!vars)
  BY <1>1, <1>2, <1>9 DEF on_emergency_status
<1>10. ASSUME \/ \E gear \in Gears : on_gear_command(gear)
              \/ try_open_serial \/ Tick \/ UNCHANGED vars
       PROVE  UNCHANGED Abstract!vars
  <2>1. UNCHANGED <<authorityVars, wire>>
    BY <1>10, Zenon DEF on_gear_command, try_open_serial, Tick, vars, authorityVars
  <2> QED
    BY <1>1, <2>1
<1> QED
  BY <1>3, <1>4, <1>5, <1>6, <1>7, <1>8, <1>9, <1>10, Zenon DEF Next

(***************************************************************************)
(* RcVehicleInterface implements ChassisAuthority: on every connection,    *)
(* enabled frames are written only under authority, only the zero frame    *)
(* under the handshake, one clear-fault frame per handshake and directly   *)
(* after a zero frame, and losing the authority ends with a stop.          *)
(***************************************************************************)
THEOREM Refinement == Spec => ImplementsAuthority
<1>1. Init => Abstract!Init
  BY DEF Init, InitialNode, Abstract!Init, Authority, HandshakeReset, NoFrame, Frame,
     Abstract!NoFrame, Abstract!Frame
<1> QED
  BY <1>1, NextRefines, Invariance, PTL DEF Spec, ImplementsAuthority, Abstract!Spec

\* In telemetry-only mode nothing holds authority, so nothing is due to be
\* written either.
LEMMA PassiveStep ==
    ASSUME TelemetryOnly, Inv, wire = NoFrame, [Next]_vars
    PROVE  /\ wire' = NoFrame
           /\ telemetry_open_attempted /\ ~serial_open /\ telemetry_open_attempted'
                 => ~serial_open'
<1> DEFINE Passive ==
             /\ wire' = NoFrame
             /\ telemetry_open_attempted /\ ~serial_open => ~serial_open'
           Silent == wire' = wire /\ UNCHANGED linkVars
<1>1. close_serial \/ Silent => Passive
  BY DEF close_serial, linkVars
<1>2. ~autonomous_requested /\ ~fault_clear.pending
  BY DEF Inv, AuthorityCanBeStopped, HandshakeOrder
<1>3. ASSUME NEW rc_override, NEW received, latch_safety_stop(rc_override, received)
      PROVE  Passive
  BY <1>1, <1>3, Zenon DEF latch_safety_stop
<1>4. ~Callback
  BY DEF Callback
<1>5. CASE try_open_serial
  <2>1. ~MayOpen \/ ~telemetry_open_attempted
    BY DEF MayOpen
  <2>2. wire' = wire
    BY <1>5 DEF try_open_serial
  <2> QED
    BY <1>1, <1>5, <2>1, <2>2, Zenon DEF try_open_serial
<1>6. CASE check_emergency_status \/ poll_serial \/ read_serial
  BY <1>1, <1>3, <1>6, Zenon DEF check_emergency_status, poll_serial, read_serial
<1>7. ASSUME NEW fb \in Feedbacks, publish_feedback(fb)
      PROVE  Passive
  <2>1. ~ClearDue(fb)
    BY <1>2 DEF ClearDue
  <2> QED
    BY <1>1, <1>3, <1>7, <2>1, Zenon DEF publish_feedback
<1>8. CASE Tick \/ UNCHANGED vars
  <2>1. wire' = wire /\ serial_open' = serial_open
    BY <1>8 DEF Tick, vars
  <2> QED
    BY <2>1
<1>9. CASE shutdown \/ launch \/ crash
  BY <1>9 DEF shutdown, launch, crash, FreshNode
<1> QED
  BY <1>4, <1>5, <1>6, <1>7, <1>8, <1>9, Zenon
     DEF Next, on_gear_command, on_emergency_status, on_autonomous_request,
         on_manual_request, on_control_command

(***************************************************************************)
(* With telemetry_only the node never writes to the chassis, whatever it   *)
(* is sent and however often it is restarted, and a port that was opened   *)
(* and lost stays closed for the life of the process.                      *)
(***************************************************************************)
THEOREM TelemetryOnlyIsPassive == Spec => TelemetryIsPassive
<1> DEFINE Quiet == TelemetryOnly => wire = NoFrame
<1>1. Init => Quiet
  BY DEF Init
<1>2. Inv /\ Quiet /\ [Next]_vars => Quiet'
  BY PassiveStep
<1>3. Inv /\ Quiet /\ [Next]_vars =>
        [ TelemetryOnly =>
            /\ wire' = NoFrame
            /\ telemetry_open_attempted /\ ~serial_open /\ telemetry_open_attempted'
                  => ~serial_open' ]_vars
  BY PassiveStep
<1> QED
  BY <1>1, <1>2, <1>3, Invariance, PTL DEF Spec, TelemetryIsPassive
=============================================================================

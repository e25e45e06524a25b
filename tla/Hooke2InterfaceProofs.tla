----------------------- MODULE Hooke2InterfaceProofs -----------------------
(***************************************************************************)
(* Proofs for Hooke2Interface, for every value of its parameters and every *)
(* set of scripts: type correctness, with the shift counter that wraps     *)
(* inside its range; no actuator is enabled before Autoware asked; and the *)
(* frames stay reset after a takeover, whatever the thread stores.         *)
(***************************************************************************)
EXTENDS Hooke2Interface, SequenceTheorems, TLAPS

\* Head and Tail of a nonempty sequence stay within its element set.
LEMMA QueueType ==
    ASSUME NEW S, NEW q \in Seq(S), q # <<>>
    PROVE  Head(q) \in S /\ Tail(q) \in Seq(S)
BY HeadTailProperties

\* The counter stays a value of its type, also below zero.
LEMMA CounterType ==
    ASSUME TypeOK
    PROVE  ShiftCounterAfter \in 0..CounterModulus - 1
<1>1. CounterModulus \in Nat /\ CounterModulus > 0 /\ shift_counter \in Int
      BY Hooke2Assumption DEF TypeOK
<1>2. (shift_counter - 1) % CounterModulus \in 0..CounterModulus - 1
      BY <1>1
<1> QED
      BY <1>1, <1>2, Hooke2Assumption DEF ShiftCounterAfter, TypeOK

-----------------------------------------------------------------------------
(* Type correctness.                                                       *)

\* Initially: nothing received, nothing sent, everything within its type.
LEMMA TypeInit == Init => TypeOK
<1> SUFFICES ASSUME Init PROVE TypeOK
      OBVIOUS
<1> USE DEF Init
<1>1. shift_counter \in 0..CounterModulus - 1 /\ inbox \in Inboxes
      BY Hooke2Assumption
<1>2. lights \in Lights
      BY Hooke2Assumption DEF Lights
<1>3. bus \in Frames
      BY DEF ResetFrames, Frames, Gears, TurnReports, Angles, Actuators
<1>4. out \in [vel : Int, thr : Int, acc : Int, brk : Int, aeb : BOOLEAN,
               angle : Angles, gear : Gears, park : BOOLEAN,
               turn : TurnReports, speed_drive : BOOLEAN]
      BY DEF Gears, TurnReports, Angles
<1>5. rpt \in [received : BOOLEAN, gear : Gears, turn : TurnReports,
               override : BOOLEAN, fault : BOOLEAN, enabled : BOOLEAN]
      BY DEF Gears, TurnReports
<1>6. cmd \in [control : ControlCmds \cup {None},
               actuation : ActuationCmds \cup {None},
               gear : AutowareGears \cup {None},
               turn : TurnCmds \cup {None},
               hazard : {"disable", "enable", None},
               emergency : BOOLEAN]
      OBVIOUS
<1>7. enabled \subseteq Actuators /\ speed \in Int /\ cmd_age \in 0..2 /\ rpt_age \in 0..2
      OBVIOUS
<1> QED
      BY <1>1, <1>2, <1>3, <1>4, <1>5, <1>6, <1>7, Zenon DEF TypeOK

\* One input taken leaves the others as they are.
LEMMA InboxType ==
    ASSUME TypeOK,
           NEW topic \in {"control", "actuation", "gear", "emergency", "turn",
                          "hazard", "request", "door", "park", "vcu", "wires",
                          "tick", "shutdown"},
           Input(topic)
    PROVE  inbox' \in Inboxes
<1>1. inbox \in Inboxes /\ inbox[topic] # <<>>
      /\ inbox' = [inbox EXCEPT ![topic] = Tail(@)]
      BY DEF TypeOK, Input
<1>2. CASE topic = "control"
      <2>1. Tail(inbox.control) \in Seq(ControlCmds)
            BY <1>1, <1>2, QueueType DEF Inboxes
      <2> QED  BY <1>1, <1>2, <2>1 DEF Inboxes
<1>3. CASE topic = "actuation"
      <2>1. Tail(inbox.actuation) \in Seq(ActuationCmds)
            BY <1>1, <1>3, QueueType DEF Inboxes
      <2> QED  BY <1>1, <1>3, <2>1 DEF Inboxes
<1>4. CASE topic = "gear"
      <2>1. Tail(inbox.gear) \in Seq(AutowareGears)
            BY <1>1, <1>4, QueueType DEF Inboxes
      <2> QED  BY <1>1, <1>4, <2>1 DEF Inboxes
<1>5. CASE topic = "emergency"
      <2>1. Tail(inbox.emergency) \in Seq(BOOLEAN)
            BY <1>1, <1>5, QueueType DEF Inboxes
      <2> QED  BY <1>1, <1>5, <2>1 DEF Inboxes
<1>6. CASE topic = "turn"
      <2>1. Tail(inbox.turn) \in Seq(TurnCmds)
            BY <1>1, <1>6, QueueType DEF Inboxes
      <2> QED  BY <1>1, <1>6, <2>1 DEF Inboxes
<1>7. CASE topic = "hazard"
      <2>1. Tail(inbox.hazard) \in Seq({"disable", "enable"})
            BY <1>1, <1>7, QueueType DEF Inboxes
      <2> QED  BY <1>1, <1>7, <2>1 DEF Inboxes
<1>8. CASE topic = "request"
      <2>1. Tail(inbox.request) \in Seq(BOOLEAN)
            BY <1>1, <1>8, QueueType DEF Inboxes
      <2> QED  BY <1>1, <1>8, <2>1 DEF Inboxes
<1>9. CASE topic = "door"
      <2>1. Tail(inbox.door) \in Seq({"open", "close"})
            BY <1>1, <1>9, QueueType DEF Inboxes
      <2> QED  BY <1>1, <1>9, <2>1 DEF Inboxes
<1>10. CASE topic = "park"
      <2>1. Tail(inbox.park) \in Seq(BOOLEAN)
            BY <1>1, <1>10, QueueType DEF Inboxes
      <2> QED  BY <1>1, <1>10, <2>1 DEF Inboxes
<1>11. CASE topic = "vcu"
      <2>1. Tail(inbox.vcu) \in Seq(VcuReports)
            BY <1>1, <1>11, QueueType DEF Inboxes
      <2> QED  BY <1>1, <1>11, <2>1 DEF Inboxes
<1>12. CASE topic = "wires"
      <2>1. Tail(inbox.wires) \in Seq(WireReports)
            BY <1>1, <1>12, QueueType DEF Inboxes
      <2> QED  BY <1>1, <1>12, <2>1 DEF Inboxes
<1>13. CASE topic = "tick"
      <2>1. Tail(inbox.tick) \in Seq({"tick"})
            BY <1>1, <1>13, QueueType DEF Inboxes
      <2> QED  BY <1>1, <1>13, <2>1 DEF Inboxes
<1>14. CASE topic = "shutdown"
      <2>1. Tail(inbox.shutdown) \in Seq({"shutdown"})
            BY <1>1, <1>14, QueueType DEF Inboxes
      <2> QED  BY <1>1, <1>14, <2>1 DEF Inboxes
<1> QED
      BY <1>2, <1>3, <1>4, <1>5, <1>6, <1>7, <1>8, <1>9, <1>10, <1>11, <1>12,
         <1>13, <1>14

\* A subscription stores what it received.
LEMMA ReceivedType ==
    ASSUME TypeOK, cmd_age' \in 0..2,
           NEW topic \in {"control", "actuation", "gear", "emergency", "turn",
                          "hazard"},
           Received(topic)
    PROVE  TypeOK'
<1>1. inbox' \in Inboxes
      BY InboxType DEF Received
<1>2. cmd' \in [control : ControlCmds \cup {None},
                actuation : ActuationCmds \cup {None},
                gear : AutowareGears \cup {None},
                turn : TurnCmds \cup {None},
                hazard : {"disable", "enable", None},
                emergency : BOOLEAN]
      <2>1. inbox \in Inboxes /\ inbox[topic] # <<>>
            /\ cmd' = [cmd EXCEPT ![topic] = Head(inbox[topic])]
            BY DEF Received, Input, TypeOK
      <2>2. CASE topic = "control"
            <3>1. Head(inbox.control) \in ControlCmds
                  BY <2>1, <2>2, QueueType DEF Inboxes
            <3> QED  BY <2>1, <2>2, <3>1 DEF TypeOK
      <2>3. CASE topic = "actuation"
            <3>1. Head(inbox.actuation) \in ActuationCmds
                  BY <2>1, <2>3, QueueType DEF Inboxes
            <3> QED  BY <2>1, <2>3, <3>1 DEF TypeOK
      <2>4. CASE topic = "gear"
            <3>1. Head(inbox.gear) \in AutowareGears
                  BY <2>1, <2>4, QueueType DEF Inboxes
            <3> QED  BY <2>1, <2>4, <3>1 DEF TypeOK
      <2>5. CASE topic = "emergency"
            <3>1. Head(inbox.emergency) \in BOOLEAN
                  BY <2>1, <2>5, QueueType DEF Inboxes
            <3> QED  BY <2>1, <2>5, <3>1 DEF TypeOK
      <2>6. CASE topic = "turn"
            <3>1. Head(inbox.turn) \in TurnCmds
                  BY <2>1, <2>6, QueueType DEF Inboxes
            <3> QED  BY <2>1, <2>6, <3>1 DEF TypeOK
      <2>7. CASE topic = "hazard"
            <3>1. Head(inbox.hazard) \in {"disable", "enable"}
                  BY <2>1, <2>7, QueueType DEF Inboxes
            <3> QED  BY <2>1, <2>7, <3>1 DEF TypeOK
      <2> QED  BY <2>2, <2>3, <2>4, <2>5, <2>6, <2>7
<1> QED
      BY <1>1, <1>2 DEF TypeOK, Received, authVars, modeVars, rptVars, outVars

\* The fields publishCommands computes.
LEMMA CommandsType ==
    ASSUME TypeOK, CommandsGuard, publishCommands
    PROVE  /\ out' \in [vel : Int, thr : Int, acc : Int, brk : Int, aeb : BOOLEAN,
                        angle : Angles, gear : Gears, park : BOOLEAN,
                        turn : TurnReports, speed_drive : BOOLEAN]
           /\ lights' \in Lights
<1>1. cmd.control \in ControlCmds /\ cmd.actuation \in ActuationCmds \cup {None}
      BY DEF TypeOK, CommandsGuard
<1>2. desired_speed \in Int /\ desired_acceleration \in Int
      BY <1>1 DEF desired_speed, desired_acceleration, ControlCmds
<1>3. PedalThrottle \in Int /\ PedalBrake \in Int
      BY <1>1, <1>2 DEF PedalThrottle, PedalBrake, ActuationCmds
<1>a. {MaxSpeed, MaxThrottle, MaxBrake, EmergencyBrake} \subseteq Int
      BY Hooke2Assumption
<1>4. SpeedCommand \in Int
      BY <1>2, <1>a DEF SpeedCommand, Clamp
<1>5. ThrottleCommand \in Int
      BY <1>3, <1>a DEF ThrottleCommand, Clamp
<1>6. BrakeCommand \in Int
      BY <1>3, <1>a DEF BrakeCommand, BrakeForShiftTrans, Clamp
<1>7. Stopping \in BOOLEAN /\ ShiftNeeded \in BOOLEAN
      BY DEF Stopping, Timeouted, TypeOK, ShiftNeeded
<1>8. toHooke2ShiftCmd \in Gears /\ rpt.gear \in Gears
      BY DEF toHooke2ShiftCmd, Gears, TypeOK
<1>9. \A e \in BOOLEAN : TurnLight(e) \in TurnReports
      BY DEF TurnLight, toHooke2TurnCmd, TypeOK, TurnCmds, TurnReports
<1>10. StaysEngaged \in BOOLEAN
      BY DEF StaysEngaged, TypeOK
<1>11. \A e \in BOOLEAN : toHooke2TurnCmdWithHazardRecover(e) \in Lights
      <2> TAKE e \in BOOLEAN
      <2>1. lights \in Lights
            BY DEF TypeOK
      <2>2. ThreshCycles \in Nat /\ RecoverNum \in Nat
            BY Hooke2Assumption
      <2>3. Recovering(e) \/ TurnMatched(e) \/ lights.since < ThreshCycles
            BY <2>1, <2>2 DEF Recovering, Lights
      <2> QED
            BY <2>1, <2>2, <2>3 DEF toHooke2TurnCmdWithHazardRecover, Lights
<1>b. ShiftCommand \in Gears /\ \A e \in BOOLEAN : SteeringCommand(e) \in Angles
      BY <1>8 DEF ShiftCommand, SteeringCommand, Angles
<1>12. ParkCommand \in BOOLEAN /\ out.speed_drive \in BOOLEAN
      BY DEF TypeOK, ParkCommand
<1>13. AccelerationCommand \in Int
      BY <1>2 DEF AccelerationCommand
<1>14. lights' \in Lights
      BY <1>10, <1>11 DEF publishCommands
<1> QED
      BY <1>4, <1>5, <1>6, <1>7, <1>b, <1>9, <1>10, <1>12, <1>13, <1>14
         DEF publishCommands

\* One step of the thread, of publishCan, or of the end of the node.
LEMMA ThreadType ==
    ASSUME TypeOK, ThreadKeeps, status' \in {"running", "crashed", "stopping", "stopped"},
           pc' \in {"loop", "mode", "park", "gear", "steer", "brake", "throttle",
                    "check", "done"},
           enabled' \subseteq Actuators,
           out' \in [vel : Int, thr : Int, acc : Int, brk : Int, aeb : BOOLEAN,
                     angle : Angles, gear : Gears, park : BOOLEAN,
                     turn : TurnReports, speed_drive : BOOLEAN]
    PROVE  TypeOK'
BY DEF TypeOK, ThreadKeeps, authVars, modeVars, rptVars

\* Every step of the node keeps the types.
LEMMA TypeNext == TypeOK /\ [Next]_vars => TypeOK'
<1> SUFFICES ASSUME TypeOK, [Next]_vars PROVE TypeOK'
      OBVIOUS
<1>1. CASE callbackControlCmd
      <2>1. cmd_age' \in 0..2
            BY <1>1 DEF callbackControlCmd
      <2> QED  BY <1>1, <2>1, ReceivedType DEF callbackControlCmd
<1>2. CASE callbackActuationCmd
      <2>1. cmd_age' \in 0..2
            BY <1>2 DEF callbackActuationCmd, TypeOK
      <2> QED  BY <1>2, <2>1, ReceivedType DEF callbackActuationCmd
<1>3. CASE callbackGearCmd
      <2>1. cmd_age' \in 0..2
            BY <1>3 DEF callbackGearCmd, TypeOK
      <2> QED  BY <1>3, <2>1, ReceivedType DEF callbackGearCmd
<1>4. CASE callbackEmergencyCmd
      <2>1. cmd_age' \in 0..2
            BY <1>4 DEF callbackEmergencyCmd, TypeOK
      <2> QED  BY <1>4, <2>1, ReceivedType DEF callbackEmergencyCmd
<1>5. CASE callbackTurnIndicatorsCommand
      <2>1. cmd_age' \in 0..2
            BY <1>5 DEF callbackTurnIndicatorsCommand, TypeOK
      <2> QED  BY <1>5, <2>1, ReceivedType DEF callbackTurnIndicatorsCommand
<1>6. CASE callbackHazardLightsCommand
      <2>1. cmd_age' \in 0..2
            BY <1>6 DEF callbackHazardLightsCommand, TypeOK
      <2> QED  BY <1>6, <2>1, ReceivedType DEF callbackHazardLightsCommand
<1>7. CASE onControlModeRequest
      <2>1. inbox' \in Inboxes
            BY <1>7, InboxType DEF onControlModeRequest
      <2>2. Head(inbox.request) \in BOOLEAN
            BY <1>7, QueueType DEF onControlModeRequest, Input, TypeOK, Inboxes
      <2>3. /\ engage_cmd' \in BOOLEAN /\ clear_needed' \in BOOLEAN
            /\ control_mode_cmd' \in BOOLEAN /\ asked' \in BOOLEAN
            BY <1>7, <2>2, Zenon DEF onControlModeRequest
      <2>4. takeover' \in {"no", "seen", "sent"}
            BY <1>7 DEF onControlModeRequest, TypeOK
      <2>5. UNCHANGED <<status, pc, prev_override, disable_auto_mode, auto_enabled,
                        cmd, cmd_age, rpt, rpt_age, pending, speed, parking,
                        shift_counter, lights, out, enabled, bus, door>>
            BY <1>7 DEF onControlModeRequest, modeVars, rptVars, outVars
      <2> QED
            BY <2>1, <2>3, <2>4, <2>5 DEF TypeOK
<1>8. CASE setDoor
      <2>1. inbox' \in Inboxes
            BY <1>8, InboxType DEF setDoor
      <2>2. Head(inbox.door) \in {"open", "close"}
            BY <1>8, QueueType DEF setDoor, Input, TypeOK, Inboxes
      <2> QED
            BY <1>8, <2>1, <2>2
               DEF setDoor, TypeOK, authVars, modeVars, rptVars, outVars
<1>9. CASE onParkReport504
      <2>1. inbox' \in Inboxes
            BY <1>9, InboxType DEF onParkReport504
      <2>2. Head(inbox.park) \in BOOLEAN
            BY <1>9, QueueType DEF onParkReport504, Input, TypeOK, Inboxes
      <2> QED
            BY <1>9, <2>1, <2>2
               DEF onParkReport504, TypeOK, authVars, modeVars, outVars
<1>10. CASE onVcuReport505
      <2>1. inbox' \in Inboxes
            BY <1>10, InboxType DEF onVcuReport505
      <2>2. Head(inbox.vcu) \in VcuReports
            BY <1>10, QueueType DEF onVcuReport505, Input, TypeOK, Inboxes
      <2>3. speed' \in Int /\ pending' \in [mode : Modes, turn : TurnReports]
            BY <1>10, <2>2 DEF onVcuReport505, VcuReports
      <2>4. auto_enabled' \in BOOLEAN
            BY <1>10 DEF onVcuReport505
      <2> QED
            BY <1>10, <2>1, <2>3, <2>4
               DEF onVcuReport505, TypeOK, authVars, modeVars, outVars
<1>11. CASE callbackHooke2Rpt
      <2>1. inbox' \in Inboxes
            BY <1>11, InboxType DEF callbackHooke2Rpt
      <2>2. Head(inbox.wires) \in WireReports
            BY <1>11, QueueType DEF callbackHooke2Rpt, Input, TypeOK, Inboxes
      <2>3. pending \in [mode : Modes, turn : TurnReports]
            BY <1>11 DEF callbackHooke2Rpt, TypeOK
      <2>4. rpt' \in [received : BOOLEAN, gear : Gears, turn : TurnReports,
                      override : BOOLEAN, fault : BOOLEAN, enabled : BOOLEAN]
            BY <1>11, <2>2, <2>3
               DEF callbackHooke2Rpt, processGlobalRpts, WireReports, TypeOK
      <2>5. auto_enabled' \in BOOLEAN /\ rpt_age' \in 0..2 /\ pending' = None
            BY <1>11 DEF callbackHooke2Rpt
      <2> QED
            BY <1>11, <2>1, <2>4, <2>5
               DEF callbackHooke2Rpt, TypeOK, authVars, modeVars, outVars
<1>12. CASE publishCommands
      <2>1. CommandsGuard
            BY <1>12 DEF publishCommands
      <2>2. /\ out' \in [vel : Int, thr : Int, acc : Int, brk : Int, aeb : BOOLEAN,
                         angle : Angles, gear : Gears, park : BOOLEAN,
                         turn : TurnReports, speed_drive : BOOLEAN]
            /\ lights' \in Lights
            BY <1>12, <2>1, CommandsType
      <2>3. shift_counter' \in 0..CounterModulus - 1
            BY <1>12, CounterType DEF publishCommands
      <2>4. /\ engage_cmd' \in BOOLEAN /\ clear_needed' \in BOOLEAN
            /\ prev_override' \in BOOLEAN /\ disable_auto_mode' \in BOOLEAN
            /\ takeover' \in {"no", "seen", "sent"}
            BY <1>12 DEF publishCommands, TypeOK, StaysEngaged, DisableAfter
      <2> QED
            BY <1>12, <2>2, <2>3, <2>4 DEF publishCommands, TypeOK, rptVars
<1>13. CASE publishCan
      <2>1. bus' \in Frames
            BY <1>13
               DEF publishCan, CanFrames, ResetFrames, Frames, TypeOK, Angles,
                   Gears, TurnReports, Actuators
      <2> QED
            BY <1>13, <2>1
               DEF publishCan, TypeOK, authVars, modeVars, rptVars, outVars
<1>14. CASE enableAutoMode
      <2>1. CASE LoopTop
            BY <1>14, <2>1, ThreadType DEF LoopTop, TypeOK
      <2>2. CASE StoreMode
            <3>1. out' \in [vel : Int, thr : Int, acc : Int, brk : Int, aeb : BOOLEAN,
                            angle : Angles, gear : Gears, park : BOOLEAN,
                            turn : TurnReports, speed_drive : BOOLEAN]
                  BY <2>2 DEF StoreMode, Store, TypeOK
            <3> QED  BY <2>2, <3>1, ThreadType DEF StoreMode, Store, TypeOK
      <2>3. CASE StorePark
            <3>1. out' \in [vel : Int, thr : Int, acc : Int, brk : Int, aeb : BOOLEAN,
                            angle : Angles, gear : Gears, park : BOOLEAN,
                            turn : TurnReports, speed_drive : BOOLEAN]
                  BY <2>3 DEF StorePark, Store, TypeOK
            <3> QED  BY <2>3, <3>1, ThreadType DEF StorePark, Store, TypeOK, Actuators
      <2>4. CASE StoreGear
            <3>1. out' \in [vel : Int, thr : Int, acc : Int, brk : Int, aeb : BOOLEAN,
                            angle : Angles, gear : Gears, park : BOOLEAN,
                            turn : TurnReports, speed_drive : BOOLEAN]
                  BY <2>4 DEF StoreGear, Store, TypeOK, Gears
            <3> QED  BY <2>4, <3>1, ThreadType DEF StoreGear, Store, TypeOK, Actuators
      <2>5. CASE StoreSteer
            <3>1. out' \in [vel : Int, thr : Int, acc : Int, brk : Int, aeb : BOOLEAN,
                            angle : Angles, gear : Gears, park : BOOLEAN,
                            turn : TurnReports, speed_drive : BOOLEAN]
                  BY <2>5 DEF StoreSteer, Store, TypeOK, Angles
            <3> QED  BY <2>5, <3>1, ThreadType DEF StoreSteer, Store, TypeOK, Actuators
      <2>6. CASE StoreBrake
            BY <2>6, ThreadType DEF StoreBrake, Store, TypeOK, Actuators
      <2>7. CASE StoreThrottle
            <3>1. out' \in [vel : Int, thr : Int, acc : Int, brk : Int, aeb : BOOLEAN,
                            angle : Angles, gear : Gears, park : BOOLEAN,
                            turn : TurnReports, speed_drive : BOOLEAN]
                  BY <2>7 DEF StoreThrottle, Store, TypeOK
            <3> QED  BY <2>7, <3>1, ThreadType DEF StoreThrottle, Store, TypeOK, Actuators
      <2>8. CASE checkResponse
            BY <2>8, ThreadType DEF checkResponse, Store, TypeOK
      <2> QED
            BY <1>14, <2>1, <2>2, <2>3, <2>4, <2>5, <2>6, <2>7, <2>8
               DEF enableAutoMode
<1>15. CASE Shutdown
      <2>1. inbox' \in Inboxes
            BY <1>15, InboxType DEF Shutdown
      <2> QED
            BY <1>15, <2>1 DEF Shutdown, TypeOK, authVars, modeVars, rptVars
<1>16. CASE Joined
      BY <1>16, ThreadType DEF Joined, TypeOK
<1>17. CASE Tick
      <2>1. inbox' \in Inboxes
            BY <1>17, InboxType DEF Tick
      <2>2. cmd_age' \in 0..2 /\ rpt_age' \in 0..2
            BY <1>17 DEF Tick, TypeOK
      <2> QED
            BY <1>17, <2>1, <2>2 DEF Tick, TypeOK, authVars, modeVars, outVars
<1>18. CASE UNCHANGED vars
      BY <1>18 DEF TypeOK, vars
<1> QED
      BY <1>1, <1>2, <1>3, <1>4, <1>5, <1>6, <1>7, <1>8, <1>9, <1>10, <1>11,
         <1>12, <1>13, <1>14, <1>15, <1>16, <1>17, <1>18
         DEF Next, Callback

\* Every field keeps its type in every run of the node: in particular the
\* uint8_t shift counter, which publishCommands decrements below zero for as
\* long as the vehicle is parked, and the hazard recovery count.
THEOREM TypeCorrect == Spec => []TypeOK
BY TypeInit, TypeNext, PTL DEF Spec

-----------------------------------------------------------------------------
(* Authority over the actuators.                                           *)

\* Before the first request the node is not engaged, the thread has never
\* left the top of its loop and nothing is enabled; from the takeover to the
\* next request the node is not engaged and the frames are disabled.
AuthorityInv ==
    /\ ~asked => /\ ~engage_cmd /\ pc \in {"loop", "done"}
                 /\ enabled = {} /\ bus.enabled = {}
    /\ takeover # "no" => disable_auto_mode /\ ~engage_cmd
    /\ takeover = "sent" => bus = ResetFrames

\* No authority, no takeover and reset frames when the node starts.
LEMMA AuthorityInit == Init => AuthorityInv
BY DEF Init, AuthorityInv, ResetFrames

\* What the invariant reads stays as it is.
LEMMA AuthorityFrame ==
    ASSUME AuthorityInv,
           UNCHANGED <<asked, engage_cmd, pc, enabled, bus, takeover, disable_auto_mode>>
    PROVE  AuthorityInv'
BY DEF AuthorityInv

\* Every step keeps the relation of request, takeover, flags and frames.
LEMMA AuthorityNext == TypeOK /\ AuthorityInv /\ [Next]_vars => AuthorityInv'
<1> SUFFICES ASSUME TypeOK, AuthorityInv, [Next]_vars PROVE AuthorityInv'
      OBVIOUS
<1>1. CASE \/ callbackControlCmd \/ callbackActuationCmd \/ callbackGearCmd
           \/ callbackEmergencyCmd \/ callbackTurnIndicatorsCommand
           \/ callbackHazardLightsCommand
      BY <1>1, AuthorityFrame
         DEF callbackControlCmd, callbackActuationCmd, callbackGearCmd,
             callbackEmergencyCmd, callbackTurnIndicatorsCommand,
             callbackHazardLightsCommand, Received, authVars, modeVars
<1>2. CASE setDoor \/ onParkReport504 \/ onVcuReport505 \/ callbackHooke2Rpt
           \/ Tick
      BY <1>2, AuthorityFrame
         DEF setDoor, onParkReport504, onVcuReport505, callbackHooke2Rpt, Tick,
             authVars, modeVars
<1>3. CASE Shutdown \/ Joined \/ UNCHANGED vars
      BY <1>3, AuthorityFrame
         DEF Shutdown, Joined, ThreadKeeps, vars, authVars, modeVars
<1>4. CASE onControlModeRequest
      <2>1. Head(inbox.request) \in BOOLEAN
            BY <1>4, QueueType DEF onControlModeRequest, Input, TypeOK, Inboxes
      <2>2. UNCHANGED <<pc, enabled, bus, disable_auto_mode>>
            BY <1>4 DEF onControlModeRequest, modeVars
      <2>3. CASE Head(inbox.request)
            BY <1>4, <2>3, <2>2 DEF onControlModeRequest, AuthorityInv
      <2>4. CASE ~Head(inbox.request)
            <3>1. ~engage_cmd' /\ takeover' = takeover /\ (asked' <=> asked)
                  BY <1>4, <2>4 DEF onControlModeRequest
            <3> QED  BY <3>1, <2>2 DEF AuthorityInv
      <2> QED  BY <2>1, <2>3, <2>4
<1>5. CASE publishCommands
      <2>1. /\ UNCHANGED <<asked, pc, enabled, bus>>
            /\ engage_cmd' => engage_cmd
            BY <1>5 DEF publishCommands, StaysEngaged
      <2>2. CASE takeover # "no"
            <3>1. ~engage_cmd /\ disable_auto_mode /\ takeover' = takeover
                  BY <1>5, <2>2 DEF publishCommands, AuthorityInv
            <3>2. ~StaysEngaged
                  BY <3>1 DEF StaysEngaged
            <3>3. disable_auto_mode'
                  BY <1>5, <3>1, <3>2 DEF publishCommands, DisableAfter
            <3> QED  BY <2>1, <3>1, <3>3 DEF AuthorityInv
      <2>3. CASE takeover = "no" /\ takeover' # "no"
            <3>1. /\ rpt.override /\ ~auto_enabled /\ ~StaysEngaged
                  /\ takeover' = "seen"
                  BY <1>5, <2>3 DEF publishCommands
            <3>2. disable_auto_mode' /\ ~engage_cmd'
                  BY <1>5, <3>1 DEF publishCommands, DisableAfter
            <3> QED  BY <2>1, <3>1, <3>2 DEF AuthorityInv
      <2>4. CASE takeover = "no" /\ takeover' = "no"
            BY <2>1, <2>4 DEF AuthorityInv
      <2> QED  BY <2>2, <2>3, <2>4
<1>6. CASE publishCan
      <2>1. /\ UNCHANGED <<asked, engage_cmd, pc, enabled, disable_auto_mode>>
            /\ bus' = CanFrames
            /\ takeover' = IF takeover = "seen" THEN "sent" ELSE takeover
            BY <1>6 DEF publishCan, authVars, modeVars
      <2>2. ~asked => bus'.enabled = {}
            BY <2>1 DEF AuthorityInv, CanFrames, ResetFrames
      <2>3. takeover # "no" => bus' = ResetFrames
            BY <2>1 DEF AuthorityInv, CanFrames
      <2> QED  BY <2>1, <2>2, <2>3 DEF AuthorityInv
<1>7. CASE enableAutoMode
      <2>1. UNCHANGED <<asked, engage_cmd, bus, takeover, disable_auto_mode>>
            BY <1>7
               DEF enableAutoMode, LoopTop, StoreMode, StorePark, StoreGear,
                   StoreSteer, StoreBrake, StoreThrottle, checkResponse, Store,
                   ThreadKeeps, authVars, modeVars
      <2>2. CASE ~asked
            <3>1. pc \in {"loop", "done"} /\ ~engage_cmd /\ enabled = {}
                  BY <2>2 DEF AuthorityInv
            <3>2. LoopTop
                  BY <1>7, <3>1
                     DEF enableAutoMode, StoreMode, StorePark, StoreGear,
                         StoreSteer, StoreBrake, StoreThrottle, checkResponse,
                         Store
            <3>3. pc' \in {"loop", "done"} /\ enabled' = {}
                  BY <3>1, <3>2 DEF LoopTop
            <3> QED  BY <2>1, <2>2, <3>3 DEF AuthorityInv
      <2>3. CASE asked
            BY <2>1, <2>3 DEF AuthorityInv
      <2> QED  BY <2>2, <2>3
<1> QED
      BY <1>1, <1>2, <1>3, <1>4, <1>5, <1>6, <1>7 DEF Next, Callback

\* The inductive invariant behind both safety theorems.
LEMMA Authority == Spec => []AuthorityInv
BY TypeCorrect, AuthorityInit, AuthorityNext, PTL DEF Spec

\* However callbacks, timers and the thread interleave, no frame enables an
\* actuator before Autoware has asked for autonomous driving.
THEOREM UnrequestedNeverEnabled == Spec => []NoUnrequestedEnable
<1>1. AuthorityInv => NoUnrequestedEnable
      BY DEF AuthorityInv, NoUnrequestedEnable
<1> QED  BY <1>1, Authority, PTL

\* Once a takeover has reached the bus it holds there until the next request,
\* although the thread may still be storing enable bits and targets.
THEOREM TakeoverIsKept == Spec => []TakeoverHolds
<1>1. AuthorityInv => TakeoverHolds
      BY DEF AuthorityInv, TakeoverHolds
<1> QED  BY <1>1, Authority, PTL
=============================================================================

------------------------------ MODULE RaceLoop ------------------------------
(***************************************************************************)
(* The runtime manager with the vehicle and the command gate it supervises.*)
(* Requests travel to the services one after the other and are served in   *)
(* their order; a request outlives the future the manager may have dropped *)
(* in a reset or when the clock stepped back.  What the manager knows of   *)
(* the vehicle is what the last report said.                               *)
(*                                                                         *)
(* The gate is Autoware's vehicle_cmd_gate, seen through the topics the    *)
(* manager exchanges with it.  The vehicle is the RC interface and the     *)
(* chassis behind it.  Whether the interface forwards commands (requested) *)
(* and which control mode it reports are two things: the report is made of *)
(* the firmware's status, in which the driver's override hides a request   *)
(* that is still granted.  Gate and interface act on what the manager has  *)
(* published last; reports and requests are late.                          *)
(***************************************************************************)
EXTENDS RaceRuntimeManager, Sequences

CONSTANTS
    MaxInFlight,    \* bound: requests on their way when futures are dropped
    ClockSteps      \* the clock may step back

ASSUME LoopAssumption ==
    /\ MaxInFlight \in Nat
    /\ ClockSteps \in BOOLEAN

VARIABLES
    vehicle,        \* the RC interface, its firmware and the course
    gate_engaged,   \* the engagement of the gate
    in_flight       \* requests sent and not yet served, for each service

envVars  == <<vehicle, gate_engaged, in_flight>>
loopVars == <<vars, envVars>>

\* autonomous_requested_; the driver's override; whether the vehicle moves, and
\* is at the end of the course.
Vehicles ==
    [requested : BOOLEAN, override : BOOLEAN, moving : BOOLEAN, at_goal : BOOLEAN]

-----------------------------------------------------------------------------
(* What the manager's environment does with what it publishes.             *)

\* The gate passes the trajectory follower's command on only while engaged
\* and enabled; an MRM replaces it by the emergency command.
FinalCommand ==
    IF gate_engaged /\ published.enabled /\ ~published.mrm THEN "go" ELSE "stop"

\* The gear is logical: every command is accepted, and park comes first.
logical_gear == IF published.gear = "drive" THEN "drive" ELSE "park"

\* Made of the firmware's status, not of what was requested: following says
\* that the firmware has a frame and no reason to block it.
reported_control_mode(following) ==
    CASE vehicle.override -> "manual"
      [] ~vehicle.override /\ vehicle.requested /\ following -> "autonomous"
      [] OTHER -> "no_command"

\* What input i says of the vehicle, the gate and the course.
Truth(i, following) ==
    CASE i = "localization_state" -> "initialized"
      [] i = "trajectory"    -> "valid"
      [] i = "route_state"   -> IF vehicle.at_goal /\ ~vehicle.moving
                                THEN "arrived" ELSE "set"
      [] i = "final_control" -> FinalCommand
      [] i = "control_mode"  -> reported_control_mode(following)
      [] i = "gear"          -> logical_gear
      [] i = "velocity"      -> IF vehicle.moving THEN "moving" ELSE "still"
      [] i = "engage"        -> IF gate_engaged THEN "engaged" ELSE "disengaged"
      [] OTHER               -> "message"

\* One round of reports.  A flaky one may stay away, as the velocity does while
\* the Hall sensor has not answered.
report ==
    /\ UNCHANGED <<phase, requestVars, activation_armed, startup_age,
                   serviceVars, published, envVars>>
    /\ raw_after' = (raw_after \/ activation_armed)
    /\ \E following \in BOOLEAN, silent \in SUBSET Flaky :
          input' = [i \in Inputs |->
                      IF i \in silent THEN input[i]
                      ELSE [message |-> Truth(i, following), age |-> 0]]

\* The interface forwards the gate's command while authorised, at zero speed
\* unless the gear allows it, and the firmware follows unless the driver
\* overrides it.  The planner lowers the speed to zero at the end of the
\* course, and nowhere else.
Driven ==
    /\ vehicle.requested /\ ~vehicle.override
    /\ FinalCommand = "go"
    /\ logical_gear = "drive"
    /\ ~vehicle.at_goal

Vehicle(v) ==
    /\ vehicle' = v
    /\ UNCHANGED <<vars, gate_engaged, in_flight>>

drive == Driven /\ Vehicle([vehicle EXCEPT !.moving = TRUE])

\* A stop frame, a zero frame or the firmware's own timeout.
brake ==
    /\ ~Driven /\ ~vehicle.override
    /\ Vehicle([vehicle EXCEPT !.moving = FALSE])

reach_goal == vehicle.moving /\ Vehicle([vehicle EXCEPT !.at_goal = TRUE])

\* The driver's switch: nothing is withdrawn, and after give_back the firmware
\* follows the frames again.  In between the driver lets it roll or stops it.
take_over == ~vehicle.override /\ Vehicle([vehicle EXCEPT !.override = TRUE])

give_back == vehicle.override /\ Vehicle([vehicle EXCEPT !.override = FALSE])

driver_stops == vehicle.override /\ Vehicle([vehicle EXCEPT !.moving = FALSE])

\* An emergency, a chassis fault or the loss of the port: the interface gives
\* the authority up.
withdraw == vehicle.requested /\ Vehicle([vehicle EXCEPT !.requested = FALSE])

-----------------------------------------------------------------------------
(* The two services.                                                       *)

Served(s) == in_flight' = [in_flight EXCEPT ![s] = Tail(@)]

\* The answer reaches the future the manager still holds, if it does.
Answered(s, success) ==
    IF Head(in_flight[s]).held
    THEN answer(s, success)
    ELSE UNCHANGED vars

\* AUTONOMOUS is refused under an emergency, a live fault or without a port.
\* MANUAL withdraws the authority even when its stop frame cannot be written;
\* the manager does not look at its answer.
serve_control_mode ==
    /\ in_flight["control_mode"] # <<>>
    /\ \/ /\ Head(in_flight["control_mode"]).request = "autonomous"
          /\ \E success \in BOOLEAN :
               /\ success => ~published.mrm
               /\ vehicle' = [vehicle EXCEPT !.requested = @ \/ success]
               /\ Answered("control_mode", success)
       \/ /\ Head(in_flight["control_mode"]).request = "manual"
          /\ vehicle' = [vehicle EXCEPT !.requested = FALSE]
          /\ Answered("control_mode", TRUE)
    /\ Served("control_mode")
    /\ UNCHANGED gate_engaged

serve_engage ==
    /\ in_flight["engage"] # <<>>
    /\ gate_engaged' = (Head(in_flight["engage"]).request = "engage")
    /\ Answered("engage", TRUE)
    /\ Served("engage")
    /\ UNCHANGED vehicle

-----------------------------------------------------------------------------
(* The manager's own steps.                                                *)

\* A new call is one that waits and did not wait before.
timer ==
    /\ UNCHANGED <<vehicle, gate_engaged>>
    /\ on_timer
    /\ in_flight' = [s \in Services |->
                       IF pending'[s].state = "waiting" /\ ~Waiting(s)
                       THEN Append(in_flight[s], [request |-> pending'[s].request,
                                                  held |-> TRUE])
                       ELSE in_flight[s]]

start == on_start /\ UNCHANGED envVars

stop == on_stop /\ UNCHANGED envVars

\* _reset_state drops the futures; the requests go on.
FuturesDropped ==
    /\ Len(in_flight["control_mode"]) + Len(in_flight["engage"]) <= MaxInFlight
    /\ in_flight' = [s \in Services |->
                       [n \in 1 .. Len(in_flight[s]) |->
                          [in_flight[s][n] EXCEPT !.held = FALSE]]]
    /\ UNCHANGED <<vehicle, gate_engaged>>

reset == on_reset /\ FuturesDropped

\* The timer finds the clock stepped back, in whatever phase.
rollback == ClockSteps /\ time_rollback /\ FuturesDropped

LoopInit ==
    /\ Init
    /\ vehicle = [requested |-> FALSE, override |-> FALSE, moving |-> FALSE,
                  at_goal |-> FALSE]
    /\ gate_engaged = FALSE
    /\ in_flight = [s \in Services |-> <<>>]

LoopNext ==
    \/ report
    \/ drive \/ brake \/ reach_goal \/ withdraw
    \/ take_over \/ give_back \/ driver_stops
    \/ serve_control_mode \/ serve_engage
    \/ timer \/ start \/ stop \/ reset \/ rollback

\* The timers and the executors run, reports are sent periodically, a vehicle
\* that is not driven comes to rest and the services answer.  Nothing makes
\* the vehicle move, the course end, a flaky report come, the driver or the
\* operator act, authority be lost or the clock step.
Fairness ==
    /\ WF_loopVars(timer)
    /\ WF_loopVars(report)
    /\ WF_loopVars(brake)
    /\ WF_loopVars(serve_control_mode)
    /\ WF_loopVars(serve_engage)

LoopSpec == LoopInit /\ [][LoopNext]_loopVars /\ Fairness

-----------------------------------------------------------------------------
(* Properties.                                                             *)

\* The phases in which nobody watches how the vehicle drives.
Unsupervised == {"IDLE", "READY", "FINISHED", "FAULT"}

\* No request r is on its way to s.
NoneSent(s, r) ==
    \A n \in 1 .. Len(in_flight[s]) : in_flight[s][n].request # r

\* The interface has no authority, or is about to lose it, and does not get it
\* back.
AuthorityWithdrawn ==
    /\ vehicle.requested => ~NoneSent("control_mode", "manual")
    /\ NoneSent("control_mode", "autonomous")

GateDisengaged == ~gate_engaged /\ NoneSent("engage", "engage")

(***************************************************************************)
(* A vehicle does not go on driving without supervision.  A clock step or  *)
(* a reset judged by an old speed may find it moving, engaged and with     *)
(* authority when the manager is back in IDLE; as in FAULT and FINISHED it *)
(* then comes to rest, unless the driver has it or the manager takes it up *)
(* again (_publish at the end of every timer, line 494).                   *)
(***************************************************************************)
MotionSupervised ==
    vehicle.moving /\ phase \in Unsupervised ~>
        \/ ~vehicle.moving
        \/ vehicle.override
        \/ phase \notin Unsupervised

(***************************************************************************)
(* FINISHED, which the operator's console reports as "stopped and out of   *)
(* automatic mode" (autoracer_rc.sh:2148), is true of the interface and    *)
(* the gate themselves, not only of the reports it was concluded from: the *)
(* MANUAL report may be the driver's override, but then the request that   *)
(* withdraws the authority has been sent, and no request that would grant  *)
(* it again, or engage the gate, is still on its way.                      *)
(***************************************************************************)
FinishedIsSafe == phase = "FINISHED" => AuthorityWithdrawn /\ GateDisengaged

(***************************************************************************)
(* A fault that lasts ends with the vehicle at rest, disengaged and its    *)
(* authority withdrawn for good (lines 487-492), if the driver lets go of  *)
(* it and its speed goes on being reported now and then.                   *)
(***************************************************************************)
FaultHandsOver ==
    <>[](phase = "FAULT" /\ ~vehicle.override) /\ []<>fresh("velocity") =>
        <>[](~vehicle.moving /\ ~gate_engaged /\ ~vehicle.requested)

(***************************************************************************)
(* At the end of the course STOPPING is left: the stop is confirmed, or a  *)
(* fault or the operator ends the attempt (lines 467-486), or the driver   *)
(* takes over.                                                             *)
(***************************************************************************)
ArrivalFinishes ==
    phase = "STOPPING" /\ vehicle.at_goal ~>
        phase # "STOPPING" \/ vehicle.override

(***************************************************************************)
(* "Press Q to request a normal stop" (autoracer_rc.sh:2116), answered     *)
(* with "stop accepted" (race_runtime_manager.py:268): the vehicle comes   *)
(* to rest, or the driver has it, or the attempt ends in a fault.          *)
(***************************************************************************)
StopHalts ==
    phase = "STOPPING" ~>
        ~vehicle.moving \/ vehicle.override \/ phase # "STOPPING"

(***************************************************************************)
(* "control must be manual before reset" and "vehicle must be disengaged   *)
(* before reset" (race_runtime_manager.py:282, 286): a reset manager finds *)
(* the vehicle manual and disengaged.                                      *)
(***************************************************************************)
ResetLeavesManual ==
    phase = "IDLE" => ~vehicle.requested /\ ~gate_engaged

-----------------------------------------------------------------------------
(* The inductive invariants behind FinishedIsSafe.                         *)

Requests(s) == [request : RequestsOf[s], held : BOOLEAN]

LoopTypeOK ==
    /\ vehicle \in Vehicles
    /\ gate_engaged \in BOOLEAN
    /\ DOMAIN in_flight = Services
    /\ \A s \in Services : in_flight[s] \in Seq(Requests(s))

\* The manager holds the future of the last request it sent, while it waits,
\* and of no other; an answer means that nothing is on its way any more.
FutureMatches(s) ==
    /\ pending[s].state \in {"accepted", "refused"} => in_flight[s] = <<>>
    /\ \A n \in 1 .. Len(in_flight[s]) :
          in_flight[s][n].held <=> Waiting(s) /\ n = Len(in_flight[s])
    /\ Waiting(s) =>
          /\ in_flight[s] # <<>>
          /\ in_flight[s][Len(in_flight[s])].request = pending[s].request

FuturesMatch == \A s \in Services : FutureMatches(s)

\* Timer callbacks since the AUTONOMOUS request was made, at least.
Stage ==
    CASE phase = "READY"    -> 1
      [] phase = "ARMING"   -> IF activation_armed THEN 3 ELSE 2
      [] phase = "ACTIVE"   -> 4
      [] phase = "STOPPING" -> 5
      [] OTHER              -> 0

\* From ARMING on no request grants authority any more.  In STOPPING the
\* retry time of the one that did is over, so that MANUAL is requested in the
\* first callback that finds the vehicle at rest, before the reports are
\* looked at.
AuthorityKnown ==
    /\ phase \in {"ARMING", "ACTIVE", "STOPPING", "FINISHED"} =>
          NoneSent("control_mode", "autonomous")
    /\ phase = "STOPPING" =>
          \/ pending["control_mode"].request = "manual"
          \/ pending["control_mode"] = [request |-> "autonomous",
                                        state |-> "accepted"]
    /\ phase = "FINISHED" => pending["control_mode"].request = "manual"
    /\ phase \in {"STOPPING", "FINISHED"} /\ vehicle.requested =>
          \/ pending["control_mode"].request = "autonomous"
          \/ ~NoneSent("control_mode", "manual")
    /\ phase # "FAULT" /\ pending["control_mode"].request = "autonomous" =>
          wait["control_mode"] = 0 \/ wait["control_mode"] + Stage <= Retry

\* No engage request is behind a disengage request.
DisengageLast ==
    \A m, n \in 1 .. Len(in_flight["engage"]) :
       m < n /\ in_flight["engage"][m].request = "disengage"
          => in_flight["engage"][n].request = "disengage"

DisengageNext ==
    /\ in_flight["engage"] # <<>>
    /\ Head(in_flight["engage"]).request = "disengage"

\* One request at most is left over from earlier attempts.
OneLeftOver == Len(in_flight["engage"]) <= (IF Waiting("engage") THEN 2 ELSE 1)

\* What the manager and the queue know of the gate.  Before the attempt is
\* active, a gate that an old request is about to disengage is reported
\* engaged once the vehicle is reported AUTONOMOUS, so that no engage request
\* is put behind the old one; from then on a gate that is not engaged stays
\* so, and one that is engaged is reported so.
GateKnown ==
    /\ phase = "ARMING" => pending["engage"].request # "disengage"
    /\ phase \in {"IDLE", "READY", "ARMING"} =>
         /\ gate_engaged /\ DisengageNext /\ message("control_mode") = "autonomous"
               => message("engage") = "engaged"
         /\ gate_engaged => DisengageLast
         /\ message("engage") = "engaged" =>
               gate_engaged \/ NoneSent("engage", "engage")
    /\ phase \in {"ACTIVE", "STOPPING"} =>
         /\ DisengageLast
         /\ gate_engaged \/ NoneSent("engage", "engage")
         /\ gate_engaged => message("engage") = "engaged"
    /\ phase = "FINISHED" => ~gate_engaged /\ NoneSent("engage", "engage")

LoopInv == Inv /\ LoopTypeOK /\ FuturesMatch

WithdrawInv == LoopInv /\ AuthorityKnown

EngageInv == LoopInv /\ OneLeftOver /\ GateKnown
=============================================================================

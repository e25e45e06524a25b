------------------------- MODULE RaceRuntimeManager -------------------------
(***************************************************************************)
(* RaceRuntimeManager: the supervisor that takes a race from IDLE over     *)
(* READY, ARMING and ACTIVE to STOPPING and FINISHED, or latches FAULT.    *)
(* It sees the rest of the system through eleven TimedInputs and two       *)
(* asynchronous service clients, and acts in a periodic timer.             *)
(*                                                                         *)
(* The node has one executor thread: a callback is atomic.  One tick is    *)
(* one timer period; on_timer acts on what is known now and then lets one  *)
(* period pass.  The publishers, the operator and the services are open:   *)
(* any message, request or answer may come at any time.                    *)
(***************************************************************************)
EXTENDS Integers

CONSTANTS
    AutoStart,        \* auto_start
    StartupTimeout,   \* startup_timeout_sec, in ticks
    Timeout,          \* the freshness timeouts, in ticks, for each input
    Retry,            \* service_retry_sec, in ticks
    MaxStall,         \* bound: ticks the clock may step back behind a call
    Flaky,            \* inputs whose publisher may fall silent
    MaybeDown,        \* services that may be unavailable
    Offered           \* the messages each input's publisher may send

VARIABLES
    phase,
    start_requested,
    stop_requested,
    activation_armed,
    raw_after,        \* _raw_control.receipt_sec > _activation_stamp
    startup_age,      \* now - _start_sec while in IDLE, where it is read
    input,            \* _timed_inputs
    pending,          \* _pending
    wait,             \* ticks until _call_service may call again
    published         \* what the last timer published

requestVars == <<start_requested, stop_requested>>
armingVars  == <<activation_armed, raw_after>>
serviceVars == <<pending, wait>>
vars == <<phase, start_requested, stop_requested, activation_armed, raw_after,
          startup_age, input, pending, wait, published>>

-----------------------------------------------------------------------------
(* TimedInput.                                                             *)

\* odometry stands for _odometry and _steering: the manager only asks whether
\* both are fresh.
Inputs == {"localization_state", "odometry", "trajectory", "route_state",
           "raw_control", "final_control", "control_mode", "gear", "velocity",
           "engage"}

\* What the manager distinguishes in a message.  A velocity is "moving" when
\* its magnitude reaches stop_speed_mps, a trajectory "short" when it has
\* fewer than two points, a final command "stop" when _final_is_stop says so.
MessagesOf ==
    [i \in Inputs |->
        CASE i = "localization_state" -> {"initialized", "uninitialized"}
          [] i = "trajectory"    -> {"valid", "short"}
          [] i = "route_state"   -> {"set", "arrived"}
          [] i = "final_control" -> {"stop", "go"}
          [] i = "control_mode"  -> {"autonomous", "manual", "no_command"}
          [] i = "gear"          -> {"drive", "park", "neutral"}
          [] i = "velocity"      -> {"still", "moving"}
          [] i = "engage"        -> {"engaged", "disengaged"}
          [] OTHER               -> {"message"}]

Services == {"control_mode", "engage"}

RequestsOf ==
    [s \in Services |-> IF s = "control_mode" THEN {"autonomous", "manual"}
                                              ELSE {"engage", "disengage"}]

ASSUME ManagerAssumption ==
    /\ AutoStart \in BOOLEAN
    /\ StartupTimeout \in Nat
    /\ Timeout \in [Inputs -> Nat]
    /\ Retry \in Nat \ {0}
    /\ MaxStall \in Nat
    /\ Retry - 1 <= MaxStall
    /\ Flaky \subseteq Inputs
    /\ MaybeDown \subseteq Services
    /\ \A i \in Inputs : Offered[i] \subseteq MessagesOf[i]

\* A message and the age of its stamp (the receipt is no older than that),
\* saturated where it no longer matters.
Cleared == [message |-> "none", age |-> 0]

message(i) == input[i].message

fresh(i) == message(i) # "none" /\ input[i].age <= Timeout[i]

\* The stamp may be old, but not older than the last one accepted.
update(i, m, age) ==
    /\ input[i] = Cleared \/ age <= input[i].age
    /\ input' = [input EXCEPT ![i] = [message |-> m, age |-> age]]
    /\ raw_after' = (raw_after \/ (i = "raw_control" /\ activation_armed))
    /\ UNCHANGED <<phase, requestVars, activation_armed, startup_age,
                   serviceVars, published>>

\* One tick later.  The inputs that are not flaky are refreshed in time.
Aged ==
    [i \in Inputs |->
        IF i \in Flaky /\ message(i) # "none" /\ input[i].age <= Timeout[i]
        THEN [message |-> message(i), age |-> input[i].age + 1]
        ELSE input[i]]

-----------------------------------------------------------------------------
(* What the state says about the inputs.                                   *)

\* abs(_speed_mps()) >= stop_speed_mps: no velocity yet counts as zero, and
\* the last velocity counts however old it is.
moving == message("velocity") = "moving"

base_failure ==
    \/ message("localization_state") # "initialized"
    \/ ~fresh("odometry")
    \/ ~fresh("trajectory")
    \/ message("trajectory") = "short"
    \/ ~fresh("velocity")
    \/ \E i \in {"gear", "control_mode"} : ~fresh(i)

expected_control_handover(p) == p \in {"STOPPING", "FAULT"} /\ ~moving

active_failure(p) ==
    \/ base_failure
    \/ ~fresh("raw_control")
    \/ ~fresh("final_control")
    \/ /\ message("control_mode") # "autonomous"
       /\ ~expected_control_handover(p)

final_is_stop == fresh("final_control") /\ message("final_control") = "stop"

\* Mutant: DRIVE is held while stopping.
desired_gear_command_DriveStopping(p) ==
    IF p \in {"ARMING", "ACTIVE", "STOPPING"} \/ moving THEN "drive" ELSE "park"

desired_gear_command(p) ==
    IF p \in {"ARMING", "ACTIVE"} \/ moving THEN "drive" ELSE "park"

HandedOver == message("control_mode") \in {"manual", "no_command"}

-----------------------------------------------------------------------------
(* _call_service, for the services of calls and the requests in it.        *)

NotCalled == [request |-> "none", state |-> "none"]

Waiting(s) == pending[s].state = "waiting"

\* A call is made if none is outstanding, the retry time is over and the
\* service is ready.
Callable(s) == ~Waiting(s) /\ wait[s] = 0

call_service(calls, request) ==
    \E down \in SUBSET MaybeDown :
        LET ready  == calls \ down
            called == {s \in ready : Callable(s)}
        IN  /\ pending' = [s \in Services |->
                             IF s \in called
                             THEN [request |-> request[s], state |-> "waiting"]
                             ELSE pending[s]]
            /\ wait' = [s \in Services |->
                          IF s \in called THEN Retry - 1
                          ELSE IF wait[s] > 0 THEN wait[s] - 1 ELSE 0]

no_call == call_service({}, [s \in Services |-> "none"])

\* The service answers; an unanswered call stays outstanding.
answer(s, success) ==
    /\ Waiting(s)
    /\ pending' = [pending EXCEPT ![s].state = IF success THEN "accepted"
                                                          ELSE "refused"]
    /\ UNCHANGED <<phase, requestVars, armingVars, startup_age, input, wait,
                   published>>

-----------------------------------------------------------------------------
(* Services the operator calls.                                            *)

\* A rejected request changes nothing.
on_start ==
    /\ phase \in {"IDLE", "READY"}
    /\ start_requested' = TRUE
    /\ UNCHANGED <<phase, stop_requested, armingVars, startup_age, input,
                   serviceVars, published>>

on_stop ==
    /\ stop_requested' = TRUE
    /\ UNCHANGED <<phase, start_requested, armingVars, startup_age, input,
                   serviceVars, published>>

\* Mutant: the futures of the last attempt are kept.
reset_state_KeepsCalls ==
    /\ phase' = "IDLE"
    /\ start_requested' = AutoStart
    /\ stop_requested' = FALSE
    /\ activation_armed' = FALSE
    /\ raw_after' = FALSE
    /\ startup_age' = 0
    /\ UNCHANGED pending

reset_state ==
    /\ phase' = "IDLE"
    /\ start_requested' = AutoStart
    /\ stop_requested' = FALSE
    /\ activation_armed' = FALSE
    /\ raw_after' = FALSE
    /\ startup_age' = 0
    /\ pending' = [s \in Services |-> NotCalled]

MayReset ==
    /\ ~moving
    /\ message("control_mode") # "autonomous"
    /\ message("engage") # "engaged"

on_reset ==
    /\ MayReset
    /\ reset_state
    /\ UNCHANGED <<input, wait, published>>

-----------------------------------------------------------------------------
(* _on_timer.                                                              *)

\* _publish.
Publication(p, armed) ==
    [gear    |-> desired_gear_command(p),
     mode    |-> IF p \in {"READY", "ARMING", "ACTIVE", "STOPPING"}
                 THEN "autonomous" ELSE "stop",
     enabled |-> p \in {"ACTIVE", "STOPPING"} \/ (p = "ARMING" /\ armed),
     mrm     |-> p = "FAULT"]

\* Mutants: the phase is published as it was before the transition; IDLE
\* returns before _publish.
publish_BeforeTransition ==
    /\ published' = Publication(phase, activation_armed)
    /\ input' = Aged
    /\ startup_age' = IF phase' # "IDLE" THEN 0
                      ELSE IF startup_age <= StartupTimeout THEN startup_age + 1
                      ELSE startup_age

publish_NotInIdle ==
    /\ published' = IF phase' = "IDLE" THEN published
                    ELSE Publication(phase', activation_armed')
    /\ input' = Aged
    /\ startup_age' = IF phase' # "IDLE" THEN 0
                      ELSE IF startup_age <= StartupTimeout THEN startup_age + 1
                      ELSE startup_age

\* The end of every timer callback: publish, then one period passes.
publish ==
    /\ published' = Publication(phase', activation_armed')
    /\ input' = Aged
    /\ startup_age' = IF phase' # "IDLE" THEN 0
                      ELSE IF startup_age <= StartupTimeout THEN startup_age + 1
                      ELSE startup_age

timer_idle ==
    /\ phase = "IDLE"
    /\ phase' = IF ~start_requested THEN "IDLE"
                ELSE IF ~base_failure THEN "READY"
                ELSE IF startup_age > StartupTimeout THEN "FAULT"
                ELSE "IDLE"
    /\ no_call
    /\ UNCHANGED <<requestVars, armingVars>>

\* A new AUTONOMOUS request replaces an answered one before the answer is
\* looked at.
timer_ready ==
    /\ phase = "READY"
    /\ \/ /\ base_failure
          /\ phase' = "FAULT"
          /\ no_call
       \/ /\ ~base_failure
          /\ call_service({"control_mode"}, [s \in Services |-> "autonomous"])
          /\ phase' = IF pending'["control_mode"].state = "accepted"
                      THEN "ARMING" ELSE "READY"
    /\ UNCHANGED <<requestVars, armingVars>>

\* Mutant: what the gate sends is not looked at.
Armable_IgnoresGate ==
    message("control_mode") = "autonomous" /\ message("gear") = "drive"

\* Everything is in place to enable control: the vehicle reports AUTONOMOUS
\* and DRIVE, and what the gate sends it is a stop.
Armable ==
    /\ message("control_mode") = "autonomous"
    /\ message("gear") = "drive"
    /\ final_is_stop

\* Mutant: engage in the first tick after arming.
EngageCalls_AtOnce == {"engage"}

\* Engaging waits for a raw control command received after arming.
EngageCalls == IF raw_after THEN {"engage"} ELSE {}

timer_arming ==
    /\ phase = "ARMING"
    /\ \/ /\ base_failure
          /\ phase' = "FAULT"
          /\ no_call
          /\ UNCHANGED armingVars
       \/ /\ ~base_failure /\ ~fresh("raw_control")
          /\ no_call
          /\ UNCHANGED <<phase, armingVars>>
       \/ /\ ~base_failure /\ fresh("raw_control")
          /\ activation_armed /\ message("engage") = "engaged"
          /\ phase' = "ACTIVE"
          /\ no_call
          /\ UNCHANGED armingVars
       \/ /\ ~base_failure /\ fresh("raw_control")
          /\ ~activation_armed /\ Armable
          /\ activation_armed' = TRUE
          /\ raw_after' = FALSE
          /\ no_call
          /\ UNCHANGED phase
       \/ /\ ~base_failure /\ fresh("raw_control")
          /\ activation_armed /\ message("engage") # "engaged" /\ Armable
          /\ call_service(EngageCalls, [s \in Services |-> "engage"])
          /\ UNCHANGED <<phase, armingVars>>
       \/ /\ ~base_failure /\ fresh("raw_control")
          /\ ~(activation_armed /\ message("engage") = "engaged") /\ ~Armable
          /\ no_call
          /\ UNCHANGED <<phase, armingVars>>
    /\ UNCHANGED requestVars

StopWanted == stop_requested \/ message("route_state") = "arrived"

timer_active ==
    /\ phase = "ACTIVE"
    /\ phase' = IF active_failure("ACTIVE") THEN "FAULT"
                ELSE IF StopWanted THEN "STOPPING" ELSE "ACTIVE"
    /\ no_call
    /\ UNCHANGED <<requestVars, armingVars>>

\* Mutant: the disengage request's future is also kept under "control_mode".
HandOverRequest_WrongKey == [s \in Services |-> "disengage"]

HandOverRequest ==
    [s \in Services |-> IF s = "engage" THEN "disengage" ELSE "manual"]

\* Mutant: the stop is confirmed before the gate reports disengaged.
StopConfirmed_StillEngaged ==
    HandedOver /\ message("gear") \in {"park", "neutral"}

StopConfirmed ==
    /\ HandedOver
    /\ message("gear") \in {"park", "neutral"}
    /\ message("engage") = "disengaged"

timer_stopping ==
    /\ phase = "STOPPING"
    /\ \/ /\ moving
          /\ phase' = IF active_failure("STOPPING") THEN "FAULT" ELSE "STOPPING"
          /\ no_call
       \/ /\ ~moving
          /\ call_service(Services, HandOverRequest)
          /\ phase' = IF StopConfirmed THEN "FINISHED" ELSE "STOPPING"
    /\ UNCHANGED <<requestVars, armingVars>>

\* Mutant: a fault only disengages the gate.
timer_fault_OnlyDisengages ==
    /\ phase = "FAULT"
    /\ call_service(IF moving THEN {} ELSE {"engage"}, HandOverRequest)
    /\ UNCHANGED <<phase, requestVars, armingVars>>

timer_fault ==
    /\ phase = "FAULT"
    /\ call_service(IF moving THEN {} ELSE Services, HandOverRequest)
    /\ UNCHANGED <<phase, requestVars, armingVars>>

timer_finished ==
    /\ phase = "FINISHED"
    /\ no_call
    /\ UNCHANGED <<phase, requestVars, armingVars>>

on_timer ==
    /\ \/ timer_idle
       \/ timer_ready
       \/ timer_arming
       \/ timer_active
       \/ timer_stopping
       \/ timer_fault
       \/ timer_finished
    /\ publish

\* The timer finds the clock behind its last reading: everything is reset and
\* forgotten, except when the services were called last.  With no input left
\* the timer then stays in IDLE.
time_rollback ==
    /\ reset_state
    /\ input' = [i \in Inputs |-> Cleared]
    /\ wait' \in [Services -> 0 .. MaxStall]
    /\ \A s \in Services : wait'[s] >= wait[s]
    /\ published' = [gear |-> "park", mode |-> "stop", enabled |-> FALSE,
                     mrm |-> FALSE]

-----------------------------------------------------------------------------
Init ==
    /\ phase = "IDLE"
    /\ start_requested = AutoStart
    /\ stop_requested = FALSE
    /\ activation_armed = FALSE
    /\ raw_after = FALSE
    /\ startup_age = 0
    /\ input = [i \in Inputs |-> Cleared]
    /\ pending = [s \in Services |-> NotCalled]
    /\ wait = [s \in Services |-> 0]
    /\ published = [gear |-> "none", mode |-> "none", enabled |-> FALSE,
                    mrm |-> FALSE]

Subscription ==
    \E i \in Inputs : \E m \in Offered[i], age \in 0 .. Timeout[i] :
        update(i, m, IF i \in Flaky THEN age ELSE 0)

Next ==
    \/ Subscription
    \/ on_start
    \/ on_stop
    \/ on_reset
    \/ \E s \in Services, success \in BOOLEAN : answer(s, success)
    \/ on_timer
    \/ time_rollback

Spec == Init /\ [][Next]_vars
-----------------------------------------------------------------------------
(* Properties.                                                             *)

Phases == {"IDLE", "READY", "ARMING", "ACTIVE", "STOPPING", "FINISHED", "FAULT"}

Trackers(i) ==
    {Cleared} \cup [message : MessagesOf[i], age : 0 .. Timeout[i] + 1]

Calls(s) ==
    {NotCalled} \cup [request : RequestsOf[s],
                      state : {"waiting", "accepted", "refused"}]

Publications ==
    [gear : {"none", "drive", "park"}, mode : {"none", "autonomous", "stop"},
     enabled : BOOLEAN, mrm : BOOLEAN]

\* The type of every variable of the manager; a future is kept under the key of
\* the service it was sent to.
TypeOK ==
    /\ phase \in Phases
    /\ start_requested \in BOOLEAN
    /\ stop_requested \in BOOLEAN
    /\ activation_armed \in BOOLEAN
    /\ raw_after \in BOOLEAN
    /\ startup_age \in 0 .. StartupTimeout + 1
    /\ DOMAIN input = Inputs
    /\ \A i \in Inputs : input[i] \in Trackers(i)
    /\ DOMAIN pending = Services
    /\ \A s \in Services : pending[s] \in Calls(s)
    /\ wait \in [Services -> 0 .. MaxStall]
    /\ published \in Publications

(***************************************************************************)
(* The acceptance that takes READY to ARMING answers an AUTONOMOUS request *)
(* of this attempt, never the MANUAL request with which an earlier attempt *)
(* ended: until control is handed over no other request is outstanding or  *)
(* answered (_pending survives phases and is dropped only by a reset).     *)
(***************************************************************************)
AcceptanceIsOurs ==
    /\ phase = "IDLE" => pending["control_mode"] = NotCalled
    /\ phase = "READY" => pending["control_mode"].request # "manual"
    /\ phase \in {"ARMING", "ACTIVE"} =>
          pending["control_mode"] = [request |-> "autonomous",
                                     state |-> "accepted"]

(***************************************************************************)
(* The vehicle is asked to engage only in an attempt that has armed the    *)
(* activation and has then received another raw control command; whatever  *)
(* becomes of the attempt, the request is not taken for one of the next.   *)
(***************************************************************************)
EngageOrdered ==
    /\ pending["engage"].request = "engage" => activation_armed /\ raw_after
    /\ activation_armed => phase \notin {"IDLE", "READY"}
    /\ phase = "ACTIVE" => activation_armed

(***************************************************************************)
(* Outside IDLE the gate and the MRM consumers act on the present phase:   *)
(* a latched FAULT is never hidden behind an older publication that still  *)
(* enables control, and control is never announced before it is armed.     *)
(***************************************************************************)
GateSeesPhase ==
    phase # "IDLE" =>
        /\ published.mrm = (phase = "FAULT")
        /\ published.mode = Publication(phase, activation_armed).mode
        /\ published.enabled = Publication(phase, activation_armed).enabled

(***************************************************************************)
(* Autoware control becomes enabled only while the command that reaches    *)
(* the vehicle is a fresh stop, the vehicle itself reports AUTONOMOUS and  *)
(* DRIVE, and the AUTONOMOUS request of this attempt was accepted.         *)
(***************************************************************************)
EnabledFromStop ==
    [][ ~published.enabled /\ published'.enabled =>
          /\ fresh("final_control") /\ message("final_control") = "stop"
          /\ fresh("control_mode") /\ message("control_mode") = "autonomous"
          /\ fresh("gear") /\ message("gear") = "drive"
          /\ pending["control_mode"] = [request |-> "autonomous",
                                        state |-> "accepted"] ]_vars

-----------------------------------------------------------------------------
(* The inductive invariant behind the properties above.                    *)

EngageCleared ==
    phase \in {"IDLE", "READY"} => pending["engage"] = NotCalled

Inv ==
    /\ TypeOK
    /\ AcceptanceIsOurs
    /\ EngageOrdered
    /\ GateSeesPhase
    /\ EngageCleared
=============================================================================

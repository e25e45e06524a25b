----------------------- MODULE RaceRuntimeManagerProofs -----------------------
(***************************************************************************)
(* RaceRuntimeManager keeps its invariant for all timeouts, retry times    *)
(* and publishers, and enables control only from a commanded stop.         *)
(***************************************************************************)
EXTENDS RaceRuntimeManager, TLAPS

CallOf(r, st) == [request |-> r, state |-> st]

-----------------------------------------------------------------------------
(* The parts the timer's branches share.                                   *)

\* What _call_service leaves behind: every call is as before or a new one
\* that waits for its answer.
LEMMA CallServiceEffect ==
    ASSUME TypeOK, NEW calls \in SUBSET Services, NEW request,
           \A s \in calls : request[s] \in RequestsOf[s],
           call_service(calls, request)
    PROVE  /\ DOMAIN pending' = Services
           /\ wait' \in [Services -> 0 .. MaxStall]
           /\ \A s \in Services : pending'[s] \in Calls(s)
           /\ \A s \in Services :
                 \/ pending'[s] = pending[s]
                 \/ s \in calls /\ pending'[s] = CallOf(request[s], "waiting")
<1>1. PICK down \in SUBSET MaybeDown :
        LET ready  == calls \ down
            called == {s \in ready : Callable(s)}
        IN  /\ pending' = [s \in Services |->
                             IF s \in called THEN CallOf(request[s], "waiting")
                             ELSE pending[s]]
            /\ wait' = [s \in Services |->
                          IF s \in called THEN Retry - 1
                          ELSE IF wait[s] > 0 THEN wait[s] - 1 ELSE 0]
  BY DEF call_service, CallOf
<1>2. \A s \in Services :
         \/ pending'[s] = pending[s]
         \/ s \in calls /\ pending'[s] = CallOf(request[s], "waiting")
  BY <1>1
<1>3. wait' \in [Services -> 0 .. MaxStall]
  <2>1. \A s \in Services : wait[s] \in 0 .. MaxStall
    BY DEF TypeOK
  <2>2. \A s \in Services :
           /\ Retry - 1 \in 0 .. MaxStall
           /\ wait[s] > 0 => wait[s] - 1 \in 0 .. MaxStall
           /\ 0 \in 0 .. MaxStall
    BY <2>1, ManagerAssumption
  <2>3. QED
    BY <1>1, <2>2
<1>4. DOMAIN pending' = Services
  BY <1>1
<1>5. \A s \in Services : pending'[s] \in Calls(s)
  <2>1. \A s \in calls : CallOf(request[s], "waiting") \in Calls(s)
    BY DEF CallOf, Calls
  <2>2. \A s \in Services : pending[s] \in Calls(s)
    BY DEF TypeOK
  <2>3. QED
    BY <1>2, <2>1, <2>2, Zenon
<1>6. QED
  BY <1>2, <1>3, <1>4, <1>5

\* A timer that calls no service leaves the pending calls alone.
LEMMA NoCallEffect ==
    ASSUME TypeOK, no_call
    PROVE  /\ DOMAIN pending' = Services
           /\ wait' \in [Services -> 0 .. MaxStall]
           /\ \A s \in Services : pending'[s] \in Calls(s)
           /\ \A s \in Services : pending'[s] = pending[s]
<1>1. call_service({}, [s \in Services |-> "none"])
  BY DEF no_call
<1>2. QED
  BY <1>1, CallServiceEffect

\* A tick keeps the inputs well typed.
LEMMA AgedType ==
    ASSUME TypeOK
    PROVE  DOMAIN Aged = Inputs /\ \A i \in Inputs : Aged[i] \in Trackers(i)
<1>1. SUFFICES ASSUME NEW i \in Inputs PROVE Aged[i] \in Trackers(i)
  BY DEF Aged
<1>2. input[i] \in Trackers(i) /\ Timeout[i] \in Nat
  BY ManagerAssumption DEF TypeOK
<1>3. CASE i \in Flaky /\ message(i) # "none" /\ input[i].age <= Timeout[i]
  <2>1. input[i] \in [message : MessagesOf[i], age : 0 .. Timeout[i] + 1]
    BY <1>2, <1>3 DEF Trackers, Cleared, message
  <2>2. input[i].age + 1 \in 0 .. Timeout[i] + 1 /\ message(i) \in MessagesOf[i]
    BY <1>2, <1>3, <2>1 DEF message
  <2>3. Aged[i] = [message |-> message(i), age |-> input[i].age + 1]
    BY <1>3 DEF Aged
  <2>4. QED
    BY <2>2, <2>3 DEF Trackers
<1>4. CASE ~(i \in Flaky /\ message(i) # "none" /\ input[i].age <= Timeout[i])
  BY <1>2, <1>4 DEF Aged
<1>5. QED
  BY <1>3, <1>4

\* What _publish sends is well typed in every phase.
LEMMA PublicationType ==
    ASSUME NEW p, NEW armed \in BOOLEAN
    PROVE  Publication(p, armed) \in Publications
  BY DEF Publication, Publications, desired_gear_command

\* The type of what every timer callback ends with.
LEMMA PublishType ==
    ASSUME TypeOK, publish, activation_armed' \in BOOLEAN
    PROVE  /\ published' \in Publications
           /\ startup_age' \in 0 .. StartupTimeout + 1
           /\ DOMAIN input' = Inputs
           /\ \A i \in Inputs : input'[i] \in Trackers(i)
<1>1. published' \in Publications
  BY PublicationType DEF publish
<1>2. startup_age' \in 0 .. StartupTimeout + 1
  BY ManagerAssumption DEF publish, TypeOK
<1>3. QED
  BY <1>1, <1>2, AgedType DEF publish

-----------------------------------------------------------------------------
\* The manager starts in IDLE with nothing asked.
LEMMA InitInv == Init => Inv
<1>1. SUFFICES ASSUME Init PROVE Inv
  OBVIOUS
<1>2. TypeOK
  <2>1. 0 \in 0 .. StartupTimeout + 1 /\ 0 \in 0 .. MaxStall
    BY ManagerAssumption
  <2>2. \A i \in Inputs : input[i] \in Trackers(i)
    BY <1>1 DEF Init, Trackers
  <2>3. \A s \in Services : pending[s] \in Calls(s)
    BY <1>1 DEF Init, Calls
  <2>4. published \in Publications
    BY <1>1 DEF Init, Publications
  <2>5. QED
    BY <1>1, <2>1, <2>2, <2>3, <2>4, ManagerAssumption DEF Init, TypeOK, Phases
<1>3. QED
  BY <1>1, <1>2 DEF Init, Inv, AcceptanceIsOurs, EngageOrdered, GateSeesPhase,
                    EngageCleared, NotCalled, Services

\* A reset, by the operator or by a rolled back clock, leaves nothing of the
\* attempt.
LEMMA ResetInv ==
    ASSUME Inv, reset_state,
           DOMAIN input' = Inputs, \A i \in Inputs : input'[i] \in Trackers(i),
           wait' \in [Services -> 0 .. MaxStall], published' \in Publications
    PROVE  Inv'
<1>1. TypeOK'
  <2>1. 0 \in 0 .. StartupTimeout + 1
    BY ManagerAssumption
  <2>2. DOMAIN pending' = Services /\ \A s \in Services : pending'[s] \in Calls(s)
    BY DEF reset_state, Calls
  <2>3. QED
    BY <2>1, <2>2, ManagerAssumption DEF reset_state, TypeOK, Phases, Trackers, Calls
<1>2. QED
  BY <1>1 DEF Inv, reset_state, AcceptanceIsOurs, EngageOrdered, GateSeesPhase,
              EngageCleared, NotCalled, Services
\* The type invariant after a timer callback whose branch is well typed.
LEMMA TimerType ==
    ASSUME TypeOK, publish,
           phase' \in Phases, activation_armed' \in BOOLEAN,
           raw_after' \in BOOLEAN, UNCHANGED requestVars,
           DOMAIN pending' = Services,
           wait' \in [Services -> 0 .. MaxStall],
           \A s \in Services : pending'[s] \in Calls(s)
    PROVE  TypeOK'
<1>1. /\ published' \in Publications
      /\ startup_age' \in 0 .. StartupTimeout + 1
      /\ DOMAIN input' = Inputs
      /\ \A i \in Inputs : input'[i] \in Trackers(i)
  BY PublishType
<1>2. start_requested' \in BOOLEAN /\ stop_requested' \in BOOLEAN
  BY DEF TypeOK, requestVars
<1>3. QED
  BY <1>1, <1>2 DEF TypeOK, Trackers, Calls, Phases, Publications

\* After the timer the publication is that of the new phase.
LEMMA PublishSeen ==
    ASSUME publish PROVE GateSeesPhase'
  BY DEF publish, GateSeesPhase, Publication

\* The parts of the invariant about calls and arming, from what the timer's
\* branches assign.
LEMMA TimerInv ==
    ASSUME Inv, on_timer PROVE Inv'
<1> USE DEF Inv
<1>1. publish /\ TypeOK /\ GateSeesPhase'
  BY PublishSeen DEF on_timer
<1>2. phase \in Phases /\ activation_armed \in BOOLEAN /\ raw_after \in BOOLEAN
  BY DEF TypeOK
<1>3. CASE timer_idle
  <2>1. /\ DOMAIN pending' = Services
        /\ wait' \in [Services -> 0 .. MaxStall]
        /\ \A s \in Services : pending'[s] \in Calls(s)
        /\ \A s \in Services : pending'[s] = pending[s]
    BY <1>1, <1>3, NoCallEffect DEF timer_idle
  <2>2. phase' \in {"IDLE", "READY", "FAULT"} /\ UNCHANGED <<requestVars, armingVars>>
    BY <1>3 DEF timer_idle
  <2>3. TypeOK'
    BY <1>1, <1>2, <2>1, <2>2, TimerType DEF Phases, armingVars
  <2>4. QED
    BY <1>1, <1>3, <2>1, <2>2, <2>3
       DEF timer_idle, AcceptanceIsOurs, EngageOrdered, EngageCleared, NotCalled,
           armingVars, Services
<1>4. CASE timer_ready
  <2>1. /\ DOMAIN pending' = Services
        /\ wait' \in [Services -> 0 .. MaxStall]
        /\ \A s \in Services : pending'[s] \in Calls(s)
        /\ pending'["engage"] = pending["engage"]
        /\ \/ pending'["control_mode"] = pending["control_mode"]
           \/ pending'["control_mode"] = CallOf("autonomous", "waiting")
    <3>1. CASE base_failure /\ no_call
      BY <1>1, <3>1, NoCallEffect DEF Services
    <3>2. CASE call_service({"control_mode"}, [s \in Services |-> "autonomous"])
      BY <1>1, <3>2, CallServiceEffect DEF Services, RequestsOf
    <3>3. QED
      BY <1>4, <3>1, <3>2 DEF timer_ready
  <2>2. /\ phase' \in {"READY", "ARMING", "FAULT"}
        /\ UNCHANGED <<requestVars, armingVars>>
        /\ phase' = "ARMING" => pending'["control_mode"].state = "accepted"
    BY <1>4 DEF timer_ready
  <2>3. TypeOK'
    BY <1>1, <1>2, <2>1, <2>2, TimerType DEF Phases, armingVars
  <2>4. AcceptanceIsOurs'
    <3>1. pending["control_mode"].request # "manual"
      BY <1>4 DEF timer_ready, AcceptanceIsOurs
    <3>2. pending'["control_mode"].request # "manual"
      BY <2>1, <3>1 DEF CallOf
    <3>3. pending'["control_mode"] \in Calls("control_mode")
      BY <2>1 DEF Services
    <3>4. pending'["control_mode"].state = "accepted" =>
             pending'["control_mode"] = [request |-> "autonomous",
                                         state |-> "accepted"]
      BY <3>2, <3>3 DEF Calls, RequestsOf, NotCalled, Services
    <3>5. QED
      BY <2>2, <3>2, <3>4 DEF AcceptanceIsOurs
  <2>5. QED
    BY <1>1, <1>4, <2>1, <2>2, <2>3, <2>4
       DEF timer_ready, EngageOrdered, EngageCleared, NotCalled, armingVars
<1>5. CASE timer_arming
  <2>1. /\ DOMAIN pending' = Services
        /\ wait' \in [Services -> 0 .. MaxStall]
        /\ \A s \in Services : pending'[s] \in Calls(s)
        /\ pending'["control_mode"] = pending["control_mode"]
        /\ \/ pending'["engage"] = pending["engage"]
           \/ /\ pending'["engage"] = CallOf("engage", "waiting")
              /\ activation_armed /\ raw_after /\ UNCHANGED armingVars
    <3>1. CASE no_call
      BY <1>1, <3>1, NoCallEffect DEF Services
    <3>2. CASE /\ activation_armed /\ UNCHANGED armingVars
               /\ call_service(EngageCalls, [s \in Services |-> "engage"])
      BY <1>1, <3>2, CallServiceEffect DEF Services, RequestsOf, EngageCalls
    <3>3. QED
      BY <1>5, <3>1, <3>2 DEF timer_arming
  <2>2. /\ phase = "ARMING"
        /\ phase' \in {"ARMING", "ACTIVE", "FAULT"}
        /\ UNCHANGED requestVars
        /\ phase' = "ACTIVE" => activation_armed'
        /\ \/ UNCHANGED armingVars
           \/ ~activation_armed /\ activation_armed' = TRUE /\ raw_after' = FALSE
    BY <1>5 DEF timer_arming, armingVars
  <2>3. TypeOK'
    BY <1>1, <1>2, <2>1, <2>2, TimerType DEF Phases, armingVars
  <2>4. QED
    BY <1>1, <2>1, <2>2, <2>3
       DEF AcceptanceIsOurs, EngageOrdered, EngageCleared, NotCalled, CallOf,
           armingVars
<1>6. CASE timer_active
  <2>1. /\ DOMAIN pending' = Services
        /\ wait' \in [Services -> 0 .. MaxStall]
        /\ \A s \in Services : pending'[s] \in Calls(s)
        /\ \A s \in Services : pending'[s] = pending[s]
    BY <1>1, <1>6, NoCallEffect DEF timer_active
  <2>2. /\ phase = "ACTIVE" /\ phase' \in {"ACTIVE", "STOPPING", "FAULT"}
        /\ UNCHANGED <<requestVars, armingVars>>
    BY <1>6 DEF timer_active
  <2>3. TypeOK'
    BY <1>1, <1>2, <2>1, <2>2, TimerType DEF Phases, armingVars
  <2>4. QED
    BY <1>1, <2>1, <2>2, <2>3
       DEF AcceptanceIsOurs, EngageOrdered, EngageCleared, armingVars, Services
<1>7. CASE timer_stopping \/ timer_fault \/ timer_finished
  <2>1. /\ DOMAIN pending' = Services
        /\ wait' \in [Services -> 0 .. MaxStall]
        /\ \A s \in Services : pending'[s] \in Calls(s)
        /\ \/ pending'["engage"] = pending["engage"]
           \/ pending'["engage"] = CallOf("disengage", "waiting")
    <3>1. CASE no_call
      BY <1>1, <3>1, NoCallEffect DEF Services
    <3>2. CASE \E calls \in SUBSET Services : call_service(calls, HandOverRequest)
      BY <1>1, <3>2, CallServiceEffect DEF Services, RequestsOf, HandOverRequest
    <3>3. QED
      BY <1>7, <3>1, <3>2 DEF timer_stopping, timer_fault, timer_finished
  <2>2. /\ phase' \in {"STOPPING", "FINISHED", "FAULT"}
        /\ UNCHANGED <<requestVars, armingVars>>
    BY <1>7 DEF timer_stopping, timer_fault, timer_finished
  <2>3. TypeOK'
    BY <1>1, <1>2, <2>1, <2>2, TimerType DEF Phases, armingVars
  <2>4. QED
    BY <1>1, <2>1, <2>2, <2>3
       DEF AcceptanceIsOurs, EngageOrdered, EngageCleared, CallOf, armingVars
<1>8. QED
  BY <1>3, <1>4, <1>5, <1>6, <1>7 DEF on_timer

-----------------------------------------------------------------------------
\* One case per callback and per phase of the timer.
LEMMA NextInv == Inv /\ [Next]_vars => Inv'
<1>1. SUFFICES ASSUME Inv, [Next]_vars PROVE Inv'
  OBVIOUS
<1>2. TypeOK
  BY <1>1 DEF Inv
<1>3. ASSUME Subscription PROVE Inv'
  <2>0. PICK i \in Inputs : \E m \in Offered[i], age \in 0 .. Timeout[i] :
           update(i, m, IF i \in Flaky THEN age ELSE 0)
    BY <1>3 DEF Subscription
  <2>1. PICK m \in Offered[i], age \in 0 .. Timeout[i] :
           update(i, m, IF i \in Flaky THEN age ELSE 0)
    BY <2>0
  <2>2. [message |-> m, age |-> IF i \in Flaky THEN age ELSE 0] \in Trackers(i)
    BY ManagerAssumption DEF Trackers
  <2>3. TypeOK'
    <3>1. DOMAIN input' = Inputs /\ \A j \in Inputs : input'[j] \in Trackers(j)
      BY <1>2, <2>1, <2>2 DEF TypeOK, update
    <3>2. raw_after' \in BOOLEAN
      BY <1>2, <2>1 DEF TypeOK, update
    <3>3. UNCHANGED <<phase, requestVars, activation_armed, startup_age,
                      serviceVars, published>>
      BY <2>1 DEF update
    <3>4. QED
      BY <1>2, <3>1, <3>2, <3>3 DEF TypeOK, requestVars, serviceVars, Trackers, Calls
  <2>4. QED
    BY <1>1, <2>1, <2>3
       DEF Inv, update, AcceptanceIsOurs, EngageOrdered, GateSeesPhase,
           Publication, EngageCleared, serviceVars
<1>4. ASSUME on_start \/ on_stop PROVE Inv'
  <2>1. /\ UNCHANGED <<phase, armingVars, startup_age, input, serviceVars, published>>
        /\ start_requested' \in BOOLEAN /\ stop_requested' \in BOOLEAN
    BY <1>2, <1>4 DEF on_start, on_stop, TypeOK
  <2>2. TypeOK'
    BY <1>2, <2>1 DEF TypeOK, Trackers, Calls, armingVars, serviceVars
  <2>3. QED
    BY <1>1, <2>1, <2>2
       DEF Inv, armingVars, serviceVars, AcceptanceIsOurs, EngageOrdered,
           GateSeesPhase, Publication, EngageCleared
<1>5. ASSUME on_reset PROVE Inv'
  BY <1>1, <1>2, <1>5, ResetInv DEF on_reset, TypeOK
<1>6. ASSUME NEW s \in Services, NEW success \in BOOLEAN, answer(s, success)
      PROVE  Inv'
  <2>1. /\ DOMAIN pending' = Services
        /\ pending'[s].request = pending[s].request
        /\ pending[s].state = "waiting"
        /\ pending'[s] \in Calls(s)
        /\ \A t \in Services \ {s} : pending'[t] = pending[t]
    <3>1. pending[s] \in [request : RequestsOf[s],
                          state : {"waiting", "accepted", "refused"}]
      BY <1>2, <1>6 DEF TypeOK, Calls, NotCalled, answer, Waiting
    <3>2. QED
      BY <1>2, <1>6, <3>1 DEF TypeOK, Calls, answer, Waiting
  <2>2. UNCHANGED <<phase, requestVars, armingVars, startup_age, input, wait,
                    published>>
    BY <1>6 DEF answer
  <2>3. TypeOK'
    <3>1. \A t \in Services : pending'[t] \in Calls(t)
      BY <1>2, <2>1 DEF TypeOK
    <3>2. QED
      BY <1>2, <2>1, <2>2, <3>1
         DEF TypeOK, requestVars, armingVars, Trackers, Calls
  <2>4. phase # "IDLE" /\ (phase = "READY" => s # "engage")
    BY <1>1, <2>1
       DEF Inv, AcceptanceIsOurs, EngageCleared, NotCalled, Services
  <2>5. AcceptanceIsOurs'
    BY <1>1, <2>1, <2>2, <2>4 DEF Inv, AcceptanceIsOurs, Services
  <2>6. EngageOrdered' /\ EngageCleared'
    BY <1>1, <2>1, <2>2, <2>4
       DEF Inv, EngageOrdered, EngageCleared, Services, armingVars
  <2>7. GateSeesPhase'
    BY <1>1, <2>2 DEF Inv, GateSeesPhase, Publication, armingVars
  <2>8. QED
    BY <2>3, <2>5, <2>6, <2>7 DEF Inv
<1>7. ASSUME on_timer PROVE Inv'
  BY <1>1, <1>7, TimerInv
<1>8. ASSUME time_rollback PROVE Inv'
  <2>1. \A i \in Inputs : input'[i] \in Trackers(i)
    BY <1>8 DEF time_rollback, Trackers
  <2>2. published' \in Publications
    BY <1>8 DEF time_rollback, Publications
  <2>3. QED
    BY <1>1, <1>8, <2>1, <2>2, ResetInv DEF time_rollback
<1>9. ASSUME UNCHANGED vars PROVE Inv'
  BY <1>1, <1>9
     DEF vars, Inv, TypeOK, Trackers, Calls, AcceptanceIsOurs, EngageOrdered,
         GateSeesPhase, Publication, EngageCleared
<1>10. QED
  BY <1>1, <1>3, <1>4, <1>5, <1>6, <1>7, <1>8, <1>9 DEF Next

\* The invariant holds in every reachable state.
LEMMA Invariance == Spec => []Inv
  BY InitInv, NextInv, PTL DEF Spec

-----------------------------------------------------------------------------
(* The manager's variables are well typed for all timeouts, retry times    *)
(* and sets of messages (race_runtime_manager.py).                         *)
THEOREM TypeCorrect == Spec => []TypeOK
<1>1. Inv => TypeOK
  BY DEF Inv
<1>2. QED
  BY <1>1, Invariance, PTL

(* READY advances only on the acceptance of an AUTONOMOUS request made in  *)
(* the present attempt (lines 421-433 and the reset of line 301).          *)
THEOREM AcceptanceOfThisAttempt == Spec => []AcceptanceIsOurs
<1>1. Inv => AcceptanceIsOurs
  BY DEF Inv
<1>2. QED
  BY <1>1, Invariance, PTL

(* Engaging is requested only after arming and a later raw command (lines  *)
(* 450-455).                                                               *)
THEOREM EngagingIsOrdered == Spec => []EngageOrdered
<1>1. Inv => EngageOrdered
  BY DEF Inv
<1>2. QED
  BY <1>1, Invariance, PTL

(* Whatever callbacks run between two timers, the gate acts on the present *)
(* phase, except that a reset to IDLE is announced by the next timer.      *)
THEOREM PublicationFollowsPhase == Spec => []GateSeesPhase
<1>1. Inv => GateSeesPhase
  BY DEF Inv
<1>2. QED
  BY <1>1, Invariance, PTL

(* Control is enabled only from a commanded stop: the step that publishes  *)
(* is_autoware_control_enabled (line 536) after it was off is the arming   *)
(* of lines 445-453, since every other enabled phase was announced before. *)
THEOREM ControlEnabledFromStop == Spec => EnabledFromStop
<1>1. ASSUME Inv, [Next]_vars, ~published.enabled, published'.enabled
      PROVE  /\ fresh("final_control") /\ message("final_control") = "stop"
             /\ fresh("control_mode") /\ message("control_mode") = "autonomous"
             /\ fresh("gear") /\ message("gear") = "drive"
             /\ pending["control_mode"] = [request |-> "autonomous",
                                           state |-> "accepted"]
  <2>1. on_timer
    <3>1. published' # published
      BY <1>1
    <3>2. ~UNCHANGED vars /\ ~Subscription /\ ~on_start /\ ~on_stop /\ ~on_reset
      BY <3>1 DEF vars, Subscription, update, on_start, on_stop, on_reset
    <3>3. \A s \in Services, success \in BOOLEAN : ~answer(s, success)
      BY <3>1 DEF answer
    <3>4. ~time_rollback
      BY <1>1 DEF time_rollback
    <3>5. QED
      BY <1>1, <3>2, <3>3, <3>4 DEF Next
  <2>2. /\ published' = Publication(phase', activation_armed')
        /\ \/ phase' \in {"ACTIVE", "STOPPING"}
           \/ phase' = "ARMING" /\ activation_armed'
    BY <1>1, <2>1 DEF on_timer, publish, Publication
  <2>3. phase # "IDLE" => /\ phase \notin {"ACTIVE", "STOPPING"}
                          /\ ~(phase = "ARMING" /\ activation_armed)
    BY <1>1 DEF Inv, GateSeesPhase, Publication
  <2>4. timer_arming /\ Armable /\ ~base_failure
    <3>1. ~timer_active /\ ~timer_stopping
      BY <2>3 DEF timer_active, timer_stopping
    <3>2. ~timer_idle /\ ~timer_fault /\ ~timer_finished
      BY <2>2 DEF timer_idle, timer_fault, timer_finished
    <3>3. ~timer_ready
      <4>1. ASSUME timer_ready PROVE FALSE
        <5>1. ~activation_armed' /\ phase' \in {"READY", "ARMING", "FAULT"}
          BY <1>1, <4>1 DEF timer_ready, armingVars, Inv, EngageOrdered
        <5>2. QED
          BY <2>2, <5>1
      <4>2. QED
        BY <4>1
    <3>4. timer_arming
      BY <2>1, <3>1, <3>2, <3>3 DEF on_timer
    <3>5. ~activation_armed
      BY <2>3, <3>4 DEF timer_arming
    <3>6. QED
      BY <2>2, <3>4, <3>5 DEF timer_arming, armingVars
  <2>5. phase = "ARMING"
    BY <2>4 DEF timer_arming
  <2>6. QED
    BY <1>1, <2>4, <2>5 DEF Armable, final_is_stop, base_failure, Inv, AcceptanceIsOurs
<1>2. Inv /\ [Next]_vars =>
        [~published.enabled /\ published'.enabled =>
          /\ fresh("final_control") /\ message("final_control") = "stop"
          /\ fresh("control_mode") /\ message("control_mode") = "autonomous"
          /\ fresh("gear") /\ message("gear") = "drive"
          /\ pending["control_mode"] = [request |-> "autonomous",
                                        state |-> "accepted"]]_vars
  BY <1>1, Zenon
<1>3. QED
  BY <1>2, Invariance, PTL DEF Spec, EnabledFromStop
=============================================================================

---------------------------- MODULE RaceLoopProofs ----------------------------
(***************************************************************************)
(* The supervised loop: the manager's invariant survives the late reports, *)
(* the queued requests and the clock steps of RaceLoop, and what FINISHED  *)
(* says is true of the interface, the gate and the requests on their way.  *)
(***************************************************************************)
EXTENDS RaceLoop, RaceRuntimeManagerProofs, SequenceTheorems, TLAPS

-----------------------------------------------------------------------------
(* Queues.                                                                 *)

\* What is left of a queue once its head is served.
LEMMA ServedQueue ==
    ASSUME NEW S, NEW q \in Seq(S), q # <<>>
    PROVE  /\ Tail(q) \in Seq(S)
           /\ Len(q) \in Nat /\ Len(q) >= 1
           /\ Head(q) = q[1] /\ q[1] \in S
           /\ Len(Tail(q)) = Len(q) - 1
           /\ \A n \in 1 .. Len(Tail(q)) :
                 n + 1 \in 1 .. Len(q) /\ Tail(q)[n] = q[n + 1]
  BY HeadTailProperties, EmptySeq, LenProperties

\* A queue with one more request.
LEMMA SentQueue ==
    ASSUME NEW S, NEW q \in Seq(S), NEW e \in S
    PROVE  /\ Append(q, e) \in Seq(S)
           /\ Append(q, e) # <<>>
           /\ Len(q) \in Nat
           /\ Len(Append(q, e)) = Len(q) + 1
           /\ Append(q, e)[Len(q) + 1] = e
           /\ \A n \in 1 .. Len(q) : Append(q, e)[n] = q[n]
  BY AppendProperties

-----------------------------------------------------------------------------
(* Reports.                                                                *)

\* What is reported of a well typed vehicle is a message the manager knows.
LEMMA TruthType ==
    ASSUME NEW i \in Inputs, NEW following \in BOOLEAN
    PROVE  Truth(i, following) \in MessagesOf[i]
  BY DEF Truth, MessagesOf, Inputs, FinalCommand, logical_gear,
         reported_control_mode

\* A report brings the truth about every input that is not flaky, and about a
\* flaky one unless it stays away; nothing else changes.
LEMMA ReportEffect ==
    ASSUME report
    PROVE  /\ \E following \in BOOLEAN : \A i \in Inputs :
                 \/ input'[i] = [message |-> Truth(i, following), age |-> 0]
                 \/ i \in Flaky /\ input'[i] = input[i]
           /\ DOMAIN input' = Inputs
           /\ UNCHANGED <<phase, requestVars, activation_armed, startup_age,
                          serviceVars, published, envVars>>
<1>1. PICK following \in BOOLEAN, silent \in SUBSET Flaky :
         input' = [i \in Inputs |->
                     IF i \in silent THEN input[i]
                     ELSE [message |-> Truth(i, following), age |-> 0]]
  BY DEF report
<1>2. \A i \in Inputs :
         \/ input'[i] = [message |-> Truth(i, following), age |-> 0]
         \/ i \in Flaky /\ input'[i] = input[i]
  BY <1>1
<1>3. UNCHANGED <<phase, requestVars, activation_armed, startup_age,
                  serviceVars, published, envVars>>
  BY DEF report
<1>4. QED
  BY <1>1, <1>2, <1>3

\* Reports keep the manager's invariant.
LEMMA ReportInv ==
    ASSUME Inv, report
    PROVE  Inv'
<1>1. TypeOK
  BY DEF Inv
<1>2. UNCHANGED <<phase, requestVars, activation_armed, startup_age,
                  serviceVars, published>>
  BY ReportEffect
<1>3. DOMAIN input' = Inputs /\ \A i \in Inputs : input'[i] \in Trackers(i)
  <2>1. PICK following \in BOOLEAN : \A i \in Inputs :
           \/ input'[i] = [message |-> Truth(i, following), age |-> 0]
           \/ input'[i] = input[i]
    BY ReportEffect
  <2>2. \A i \in Inputs :
           [message |-> Truth(i, following), age |-> 0] \in Trackers(i)
    BY TruthType, ManagerAssumption DEF Trackers
  <2>3. \A i \in Inputs : input[i] \in Trackers(i)
    BY <1>1 DEF TypeOK
  <2>4. QED
    BY <2>1, <2>2, <2>3, ReportEffect
<1>4. raw_after' \in BOOLEAN /\ (raw_after => raw_after')
  BY <1>1 DEF report, TypeOK
<1>5. TypeOK'
  BY <1>1, <1>2, <1>3, <1>4 DEF TypeOK, requestVars, serviceVars, Trackers, Calls
<1>6. QED
  BY <1>2, <1>4, <1>5
     DEF Inv, AcceptanceIsOurs, EngageOrdered, GateSeesPhase, Publication,
         EngageCleared, serviceVars

-----------------------------------------------------------------------------
(* What the manager's timer does to phases, messages and requests.         *)

\* A service is called only when no answer is outstanding.
LEMMA CallMade ==
    ASSUME NEW calls \in SUBSET Services, NEW request,
           call_service(calls, request), NEW s \in Services
    PROVE  \/ pending'[s] = pending[s]
           \/ /\ s \in calls /\ ~Waiting(s)
              /\ pending'[s] = CallOf(request[s], "waiting")
<1>1. PICK down \in SUBSET MaybeDown :
        LET ready  == calls \ down
            called == {t \in ready : Callable(t)}
        IN  pending' = [t \in Services |->
                             IF t \in called THEN CallOf(request[t], "waiting")
                             ELSE pending[t]]
  BY DEF call_service, CallOf
<1>2. QED
  BY <1>1 DEF Callable

\* Without a call no request changes.
LEMMA NothingCalled ==
    ASSUME no_call, NEW s \in Services
    PROVE  pending'[s] = pending[s]
<1>1. call_service({}, [t \in Services |-> "none"])
  BY DEF no_call
<1>2. QED
  BY <1>1, CallMade

\* The occasions on which the timer makes a request.
Occasion(r) ==
    /\ r = "autonomous" => phase = "READY"
    /\ r = "engage" => /\ phase = "ARMING"
                       /\ message("engage") # "engaged"
                       /\ message("control_mode") = "autonomous"
    /\ r \in {"manual", "disengage"} => phase \in {"STOPPING", "FAULT"}

\* A timer callback leaves a request alone or makes a new one, on occasion.
LEMMA TimerCalls ==
    ASSUME on_timer, NEW s \in Services
    PROVE  \/ pending'[s] = pending[s]
           \/ /\ ~Waiting(s)
              /\ \E r \in RequestsOf[s] :
                    Occasion(r) /\ pending'[s] = CallOf(r, "waiting")
<1>1. CASE no_call
  BY <1>1, NothingCalled
<1>2. CASE timer_ready /\ ~no_call
  <2>1. /\ phase = "READY"
        /\ call_service({"control_mode"}, [t \in Services |-> "autonomous"])
    BY <1>2 DEF timer_ready
  <2>2. \/ pending'[s] = pending[s]
        \/ /\ s = "control_mode" /\ ~Waiting(s)
           /\ pending'[s] = CallOf("autonomous", "waiting")
    BY <2>1, CallMade DEF Services
  <2>3. QED
    BY <2>1, <2>2 DEF Occasion, RequestsOf, Services
<1>3. CASE timer_arming /\ ~no_call
  <2>1. /\ phase = "ARMING" /\ message("engage") # "engaged" /\ Armable
        /\ call_service(EngageCalls, [t \in Services |-> "engage"])
    BY <1>3 DEF timer_arming
  <2>2. \/ pending'[s] = pending[s]
        \/ /\ s = "engage" /\ ~Waiting(s)
           /\ pending'[s] = CallOf("engage", "waiting")
    BY <2>1, CallMade DEF Services, EngageCalls
  <2>3. QED
    BY <2>1, <2>2 DEF Occasion, RequestsOf, Services, Armable
<1>4. CASE (timer_stopping \/ timer_fault) /\ ~no_call
  <2>1. PICK calls \in SUBSET Services :
           phase \in {"STOPPING", "FAULT"} /\ call_service(calls, HandOverRequest)
    BY <1>4 DEF timer_stopping, timer_fault
  <2>2. \/ pending'[s] = pending[s]
        \/ ~Waiting(s) /\ pending'[s] = CallOf(HandOverRequest[s], "waiting")
    BY <2>1, CallMade
  <2>3. HandOverRequest[s] \in RequestsOf[s] \cap {"manual", "disengage"}
    BY DEF HandOverRequest, RequestsOf, Services
  <2>4. QED
    BY <2>1, <2>2, <2>3 DEF Occasion
<1>5. QED
  BY <1>1, <1>2, <1>3, <1>4
     DEF on_timer, timer_idle, timer_active, timer_finished

\* The transitions of the timer, with the reports the later ones rest on.
LEMMA TimerPhases ==
    ASSUME on_timer
    PROVE  /\ phase' = "IDLE" => phase = "IDLE"
           /\ phase' = "READY" => phase \in {"IDLE", "READY"}
           /\ phase' = "ARMING" => phase \in {"READY", "ARMING"}
           /\ phase' = "ACTIVE" =>
                 \/ phase = "ACTIVE"
                 \/ phase = "ARMING" /\ message("engage") = "engaged"
           /\ phase' = "STOPPING" => phase \in {"ACTIVE", "STOPPING"}
           /\ phase' = "FINISHED" =>
                 \/ phase = "FINISHED"
                 \/ phase = "STOPPING" /\ ~moving /\ StopConfirmed
  BY DEF on_timer, timer_idle, timer_ready, timer_arming, timer_active,
         timer_stopping, timer_fault, timer_finished

\* Time changes no message.
LEMMA TimerMessages ==
    ASSUME on_timer, NEW i \in Inputs
    PROVE  message(i)' = message(i)
  BY DEF on_timer, publish, Aged, message

-----------------------------------------------------------------------------
(* The queues and the futures.                                             *)

\* What a timer callback sends: nothing, or the request it starts to wait for.
LEMMA TimerSends ==
    ASSUME timer, NEW s \in Services
    PROVE  \/ pending'[s] = pending[s] /\ in_flight'[s] = in_flight[s]
           \/ /\ ~Waiting(s)
              /\ \E r \in RequestsOf[s] :
                    /\ Occasion(r)
                    /\ pending'[s] = CallOf(r, "waiting")
                    /\ in_flight'[s] = Append(in_flight[s],
                                              [request |-> r, held |-> TRUE])
<1>1. in_flight'[s] =
         IF pending'[s].state = "waiting" /\ ~Waiting(s)
         THEN Append(in_flight[s], [request |-> pending'[s].request, held |-> TRUE])
         ELSE in_flight[s]
  BY DEF timer
<1>2. CASE pending'[s] = pending[s]
  BY <1>1, <1>2 DEF Waiting
<1>3. ASSUME ~Waiting(s), NEW r \in RequestsOf[s], Occasion(r),
             pending'[s] = CallOf(r, "waiting")
      PROVE  in_flight'[s] = Append(in_flight[s], [request |-> r, held |-> TRUE])
  BY <1>1, <1>3 DEF CallOf
<1>4. QED
  BY <1>2, <1>3, TimerCalls DEF timer

\* The head of a queue is served and answered.
Serves(s, success) ==
    in_flight[s] # <<>> /\ Answered(s, success) /\ Served(s)

\* Only the last request of a queue may be one the manager waits for.
LEMMA ServeEffect ==
    ASSUME LoopInv, NEW s \in Services, NEW success \in BOOLEAN, Serves(s, success)
    PROVE  /\ in_flight'[s] = Tail(in_flight[s])
           /\ DOMAIN in_flight' = Services
           /\ \A t \in Services \ {s} :
                 in_flight'[t] = in_flight[t] /\ pending'[t] = pending[t]
           /\ \/ /\ Waiting(s) /\ Len(in_flight[s]) = 1
                 /\ pending'[s].state \in {"accepted", "refused"}
                 /\ pending'[s].request = pending[s].request
              \/ /\ ~(Waiting(s) /\ Len(in_flight[s]) = 1)
                 /\ pending'[s] = pending[s]
           /\ UNCHANGED <<phase, requestVars, armingVars, startup_age, input, wait,
                          published>>
           /\ Inv'
<1>1. TypeOK /\ LoopTypeOK /\ FuturesMatch /\ Inv
  BY DEF LoopInv, Inv
<1>2. /\ in_flight[s] \in Seq(Requests(s)) /\ in_flight[s] # <<>>
      /\ DOMAIN in_flight = Services /\ DOMAIN pending = Services
  BY <1>1 DEF LoopTypeOK, Serves, TypeOK
<1>3. Head(in_flight[s]) = in_flight[s][1] /\ 1 \in 1 .. Len(in_flight[s])
  BY <1>2, ServedQueue
<1>4. Head(in_flight[s]).held <=> Waiting(s) /\ 1 = Len(in_flight[s])
  BY <1>1, <1>3 DEF FuturesMatch, FutureMatches
<1>5. /\ in_flight'[s] = Tail(in_flight[s])
      /\ DOMAIN in_flight' = Services
      /\ \A t \in Services \ {s} : in_flight'[t] = in_flight[t]
  BY <1>2 DEF Serves, Served
<1>6. CASE Head(in_flight[s]).held
  <2>1. answer(s, success)
    BY <1>6 DEF Serves, Answered
  <2>2. Inv'
    BY <1>1, <2>1, NextInv DEF Next
  <2>3. pending[s] \in [request : RequestsOf[s],
                        state : {"waiting", "accepted", "refused"}]
    BY <1>1, <1>4, <1>6 DEF TypeOK, Calls, NotCalled, Waiting
  <2>4. /\ pending'[s].state \in {"accepted", "refused"}
        /\ pending'[s].request = pending[s].request
        /\ \A t \in Services \ {s} : pending'[t] = pending[t]
    BY <1>2, <2>1, <2>3 DEF answer
  <2>5. UNCHANGED <<phase, requestVars, armingVars, startup_age, input, wait,
                    published>>
    BY <2>1 DEF answer
  <2>6. QED
    BY <1>4, <1>5, <1>6, <2>2, <2>4, <2>5
<1>7. CASE ~Head(in_flight[s]).held
  <2>1. UNCHANGED vars
    BY <1>7 DEF Serves, Answered
  <2>2. Inv'
    BY <1>1, <2>1, NextInv
  <2>3. QED
    BY <1>4, <1>5, <1>7, <2>1, <2>2 DEF vars, requestVars, armingVars
<1>8. QED
  BY <1>6, <1>7

\* A vehicle step leaves everything but the vehicle alone.
VehicleStep ==
    \/ drive \/ brake \/ reach_goal \/ withdraw
    \/ take_over \/ give_back \/ driver_stops

\* The steps that change neither requests nor queues.
LEMMA QuietSteps ==
    ASSUME report \/ VehicleStep \/ start \/ stop \/ UNCHANGED loopVars
    PROVE  UNCHANGED <<phase, activation_armed, pending, wait, published,
                       gate_engaged, in_flight>>
<1>1. CASE report
  BY <1>1, ReportEffect DEF serviceVars, envVars
<1>2. CASE VehicleStep
  BY <1>2 DEF VehicleStep, drive, brake, reach_goal, withdraw, take_over,
              give_back, driver_stops, Vehicle, vars, serviceVars
<1>3. CASE start \/ stop
  BY <1>3 DEF start, stop, on_start, on_stop, armingVars, serviceVars, envVars
<1>4. CASE UNCHANGED loopVars
  BY <1>4 DEF loopVars, vars, envVars
<1>5. QED
  BY <1>1, <1>2, <1>3, <1>4

\* A reset and a clock step drop the futures, leave the requests on their way
\* and find or make the reports harmless.
LEMMA DropEffect ==
    ASSUME LoopTypeOK, reset \/ rollback, NEW s \in Services
    PROVE  /\ pending'[s] = NotCalled
           /\ DOMAIN in_flight' = Services
           /\ in_flight'[s] \in Seq(Requests(s))
           /\ Len(in_flight'[s]) = Len(in_flight[s])
           /\ Len(in_flight[s]) <= MaxInFlight
           /\ \A n \in 1 .. Len(in_flight[s]) :
                 /\ in_flight'[s][n].request = in_flight[s][n].request
                 /\ ~in_flight'[s][n].held
           /\ phase' = "IDLE"
           /\ message("control_mode")' # "autonomous"
           /\ message("engage")' # "engaged"
           /\ UNCHANGED <<vehicle, gate_engaged>>
<1>1. /\ in_flight[s] \in Seq(Requests(s)) /\ Len(in_flight[s]) \in Nat
      /\ \A n \in 1 .. Len(in_flight[s]) : in_flight[s][n] \in Requests(s)
  BY LenProperties, ElementOfSeq DEF LoopTypeOK
<1>2. in_flight'[s] = [n \in 1 .. Len(in_flight[s]) |->
                          [in_flight[s][n] EXCEPT !.held = FALSE]]
  BY DEF reset, rollback, FuturesDropped
<1>3. \A n \in 1 .. Len(in_flight[s]) :
         /\ in_flight'[s][n] \in Requests(s)
         /\ in_flight'[s][n].request = in_flight[s][n].request
         /\ ~in_flight'[s][n].held
  <2>1. \A e \in Requests(s) :
           /\ [e EXCEPT !.held = FALSE] \in Requests(s)
           /\ [e EXCEPT !.held = FALSE].request = e.request
           /\ ~[e EXCEPT !.held = FALSE].held
    BY DEF Requests
  <2>2. \A n \in 1 .. Len(in_flight[s]) :
           in_flight'[s][n] = [in_flight[s][n] EXCEPT !.held = FALSE]
    BY <1>2
  <2>3. QED
    BY <1>1, <2>1, <2>2, Zenon
<1>4. in_flight'[s] \in Seq(Requests(s)) /\ Len(in_flight'[s]) = Len(in_flight[s])
  <2>1. in_flight'[s] \in [1 .. Len(in_flight[s]) -> Requests(s)]
    BY <1>2, <1>3, Zenon
  <2>2. in_flight'[s] \in Seq(Requests(s))
    BY <1>1, <2>1, SeqDef, Zenon
  <2>3. DOMAIN in_flight'[s] = 1 .. Len(in_flight[s])
    BY <2>1
  <2>4. QED
    BY <1>1, <2>2, <2>3, LenProperties
<1>5. Len(in_flight[s]) <= MaxInFlight
  <2>1. /\ Len(in_flight["control_mode"]) \in Nat /\ Len(in_flight["engage"]) \in Nat
        /\ Len(in_flight["control_mode"]) + Len(in_flight["engage"]) <= MaxInFlight
    BY LenProperties DEF reset, rollback, FuturesDropped, LoopTypeOK, Services
  <2>2. \A a, b, m \in Nat : a + b <= m => a <= m /\ b <= m
    OBVIOUS
  <2>3. /\ Len(in_flight["control_mode"]) <= MaxInFlight
        /\ Len(in_flight["engage"]) <= MaxInFlight
    BY <2>1, <2>2, LoopAssumption, Zenon
  <2>4. s = "control_mode" \/ s = "engage"
    BY DEF Services
  <2>5. QED
    BY <2>3, <2>4, Zenon
<1>6. /\ message("control_mode")' # "autonomous"
      /\ message("engage")' # "engaged"
  <2>1. CASE reset
    BY <2>1 DEF reset, on_reset, MayReset, message
  <2>2. CASE rollback
    BY <2>2 DEF rollback, time_rollback, message, Cleared, Inputs
  <2>3. QED
    BY <2>1, <2>2
<1>7. /\ pending'[s] = NotCalled /\ phase' = "IDLE"
      /\ DOMAIN in_flight' = Services
      /\ UNCHANGED <<vehicle, gate_engaged>>
  BY DEF reset, on_reset, rollback, time_rollback, reset_state, FuturesDropped
<1>8. QED
  BY <1>3, <1>4, <1>5, <1>6, <1>7

-----------------------------------------------------------------------------
(* The loop's invariant, conjunct by conjunct.                             *)

\* The control mode service answers; only AUTONOMOUS grants authority, and
\* MANUAL withdraws it.
LEMMA ServeControlMode ==
    ASSUME serve_control_mode
    PROVE  /\ \E success \in BOOLEAN : Serves("control_mode", success)
           /\ \E b \in BOOLEAN :
                 /\ vehicle' = [vehicle EXCEPT !.requested =
                       Head(in_flight["control_mode"]).request = "autonomous"
                         /\ (@ \/ b)]
           /\ UNCHANGED gate_engaged
<1>1. CASE Head(in_flight["control_mode"]).request = "autonomous"
  <2>1. PICK success \in BOOLEAN :
           /\ vehicle' = [vehicle EXCEPT !.requested = @ \/ success]
           /\ Answered("control_mode", success)
    BY <1>1 DEF serve_control_mode
  <2>2. Serves("control_mode", success)
    BY <2>1 DEF serve_control_mode, Serves
  <2>3. QED
    BY <1>1, <2>1, <2>2 DEF serve_control_mode
<1>2. CASE Head(in_flight["control_mode"]).request = "manual"
  <2>1. /\ vehicle' = [vehicle EXCEPT !.requested = FALSE]
        /\ Answered("control_mode", TRUE)
    BY <1>2 DEF serve_control_mode
  <2>2. Serves("control_mode", TRUE)
    BY <2>1 DEF serve_control_mode, Serves
  <2>3. QED
    BY <1>2, <2>1, <2>2 DEF serve_control_mode
<1>3. QED
  BY <1>1, <1>2 DEF serve_control_mode

\* The gate answers and is then what the request said.
LEMMA ServeEngage ==
    ASSUME serve_engage
    PROVE  /\ Serves("engage", TRUE)
           /\ gate_engaged' = (Head(in_flight["engage"]).request = "engage")
           /\ UNCHANGED vehicle
  BY DEF serve_engage, Serves

\* The steps of the loop by what they do to the queues.
LEMMA LoopCases ==
    ASSUME [LoopNext]_loopVars
    PROVE  \/ \/ report \/ VehicleStep \/ start \/ stop
              \/ UNCHANGED loopVars
           \/ serve_control_mode \/ serve_engage
           \/ timer \/ reset \/ rollback
  BY DEF LoopNext, VehicleStep

\* The manager's own invariant holds in the loop.
LEMMA LoopManager ==
    ASSUME LoopInv, [LoopNext]_loopVars
    PROVE  Inv'
<1>1. Inv /\ LoopTypeOK
  BY DEF LoopInv
<1>2. CASE report
  BY <1>1, <1>2, ReportInv
<1>3. CASE VehicleStep \/ UNCHANGED loopVars
  <2>1. UNCHANGED vars
    BY <1>3 DEF VehicleStep, drive, brake, reach_goal, withdraw, take_over,
                give_back, driver_stops, Vehicle, loopVars
  <2>2. QED
    BY <1>1, <2>1, NextInv
<1>4. CASE serve_control_mode
  BY <1>4, ServeControlMode, ServeEffect DEF Services
<1>5. CASE serve_engage
  BY <1>5, ServeEngage, ServeEffect DEF Services
<1>6. CASE timer \/ start \/ stop \/ reset \/ rollback
  BY <1>1, <1>6, NextInv DEF timer, start, stop, reset, rollback, Next
<1>7. QED
  BY <1>2, <1>3, <1>4, <1>5, <1>6, LoopCases

\* A served queue keeps its type.
LEMMA ServedType ==
    ASSUME LoopInv, NEW s \in Services, NEW success \in BOOLEAN, Serves(s, success)
    PROVE  /\ DOMAIN in_flight' = Services
           /\ \A t \in Services : in_flight'[t] \in Seq(Requests(t))
<1>1. \A t \in Services : in_flight[t] \in Seq(Requests(t))
  BY DEF LoopInv, LoopTypeOK
<1>2. /\ in_flight[s] # <<>> /\ in_flight'[s] = Tail(in_flight[s])
      /\ DOMAIN in_flight' = Services
      /\ \A t \in Services \ {s} : in_flight'[t] = in_flight[t]
  BY ServeEffect DEF Serves
<1>3. in_flight'[s] \in Seq(Requests(s))
  BY <1>1, <1>2, ServedQueue
<1>4. QED
  BY <1>1, <1>2, <1>3

\* Vehicle, gate and queues are well typed.
LEMMA LoopTypes ==
    ASSUME LoopInv, [LoopNext]_loopVars
    PROVE  LoopTypeOK'
<1>1. LoopTypeOK /\ TypeOK
  BY DEF LoopInv, Inv
<1>2. vehicle \in Vehicles /\ gate_engaged \in BOOLEAN
      /\ DOMAIN in_flight = Services
      /\ \A t \in Services : in_flight[t] \in Seq(Requests(t))
  BY <1>1 DEF LoopTypeOK
<1>3. CASE report \/ VehicleStep \/ start \/ stop \/ UNCHANGED loopVars
  <2>1. UNCHANGED <<gate_engaged, in_flight>>
    BY <1>3, QuietSteps
  <2>2. vehicle' \in Vehicles
    <3>1. CASE VehicleStep
      BY <1>2, <3>1 DEF VehicleStep, drive, brake, reach_goal, withdraw,
                        take_over, give_back, driver_stops, Vehicle, Vehicles
    <3>2. CASE report
      BY <1>2, <3>2, ReportEffect DEF envVars
    <3>3. CASE start \/ stop \/ UNCHANGED loopVars
      BY <1>2, <3>3 DEF start, stop, envVars, loopVars
    <3>4. QED
      BY <1>3, <3>1, <3>2, <3>3
  <2>3. QED
    BY <1>2, <2>1, <2>2 DEF LoopTypeOK, Requests, Vehicles
<1>4. CASE serve_control_mode
  <2>1. PICK success \in BOOLEAN : Serves("control_mode", success)
    BY <1>4, ServeControlMode
  <2>2. /\ DOMAIN in_flight' = Services
        /\ \A t \in Services : in_flight'[t] \in Seq(Requests(t))
    BY <2>1, ServedType DEF Services
  <2>3. vehicle' \in Vehicles /\ gate_engaged' = gate_engaged
    BY <1>2, <1>4, ServeControlMode DEF Vehicles
  <2>4. QED
    BY <1>2, <2>2, <2>3 DEF LoopTypeOK, Requests, Vehicles
<1>5. CASE serve_engage
  <2>1. /\ DOMAIN in_flight' = Services
        /\ \A t \in Services : in_flight'[t] \in Seq(Requests(t))
    BY <1>5, ServeEngage, ServedType DEF Services
  <2>2. gate_engaged' \in BOOLEAN /\ vehicle' = vehicle
    BY <1>5, ServeEngage
  <2>3. QED
    BY <1>2, <2>1, <2>2 DEF LoopTypeOK, Requests, Vehicles
<1>6. CASE timer
  <2>1. ASSUME NEW s \in Services PROVE in_flight'[s] \in Seq(Requests(s))
    <3>1. CASE in_flight'[s] = in_flight[s]
      BY <1>2, <3>1
    <3>2. ASSUME NEW r \in RequestsOf[s],
                 in_flight'[s] = Append(in_flight[s],
                                        [request |-> r, held |-> TRUE])
          PROVE  in_flight'[s] \in Seq(Requests(s))
      <4>1. [request |-> r, held |-> TRUE] \in Requests(s)
        BY DEF Requests
      <4>2. QED
        BY <1>2, <3>2, <4>1, SentQueue
    <3>3. QED
      BY <1>6, <3>1, <3>2, TimerSends
  <2>2. DOMAIN in_flight' = Services /\ UNCHANGED <<vehicle, gate_engaged>>
    BY <1>6 DEF timer
  <2>3. QED
    BY <1>2, <2>1, <2>2 DEF LoopTypeOK, Requests, Vehicles
<1>7. CASE reset \/ rollback
  <2>1. /\ DOMAIN in_flight' = Services /\ UNCHANGED <<vehicle, gate_engaged>>
        /\ \A s \in Services : in_flight'[s] \in Seq(Requests(s))
    BY <1>1, <1>7, DropEffect DEF Services
  <2>2. QED
    BY <1>2, <2>1 DEF LoopTypeOK, Requests, Vehicles
<1>8. QED
  BY <1>3, <1>4, <1>5, <1>6, <1>7, LoopCases

\* The manager waits for the last request it sent and for no other.
LEMMA LoopFutures ==
    ASSUME LoopInv, [LoopNext]_loopVars
    PROVE  FuturesMatch'
<1>1. LoopTypeOK /\ TypeOK /\ FuturesMatch
  BY DEF LoopInv, Inv
<1>2. SUFFICES ASSUME NEW s \in Services PROVE FutureMatches(s)'
  BY DEF FuturesMatch
<1>3. FutureMatches(s) /\ in_flight[s] \in Seq(Requests(s))
  BY <1>1 DEF FuturesMatch, LoopTypeOK
<1>4. ASSUME pending'[s] = pending[s], in_flight'[s] = in_flight[s]
      PROVE  FutureMatches(s)'
  BY <1>3, <1>4 DEF FutureMatches, Waiting
<1>5. CASE report \/ VehicleStep \/ start \/ stop \/ UNCHANGED loopVars
  BY <1>4, <1>5, QuietSteps
<1>6. ASSUME NEW t \in Services, NEW success \in BOOLEAN, Serves(t, success)
      PROVE  FutureMatches(s)'
  <2>1. CASE t # s
    BY <1>4, <1>6, <2>1, ServeEffect
  <2>2. CASE t = s
    <3>1. /\ in_flight[s] # <<>> /\ in_flight'[s] = Tail(in_flight[s])
          /\ \/ /\ Waiting(s) /\ Len(in_flight[s]) = 1
                /\ pending'[s].state \in {"accepted", "refused"}
             \/ /\ ~(Waiting(s) /\ Len(in_flight[s]) = 1)
                /\ pending'[s] = pending[s]
      BY <1>6, <2>2, ServeEffect DEF Serves
    <3>2. /\ in_flight'[s] \in Seq(Requests(s))
          /\ Len(in_flight[s]) \in Nat /\ Len(in_flight[s]) >= 1
          /\ Len(in_flight'[s]) = Len(in_flight[s]) - 1
          /\ \A n \in 1 .. Len(in_flight'[s]) :
                /\ n + 1 \in 1 .. Len(in_flight[s])
                /\ in_flight'[s][n] = in_flight[s][n + 1]
      BY <1>3, <3>1, ServedQueue
    <3>3. CASE Waiting(s) /\ Len(in_flight[s]) = 1
      <4>1. Len(in_flight'[s]) = 0 /\ pending'[s].state # "waiting"
        BY <3>1, <3>2, <3>3
      <4>2. in_flight'[s] = <<>>
        BY <3>2, <4>1, EmptySeq
      <4>3. \A n \in 1 .. Len(in_flight'[s]) : FALSE
        BY <4>1
      <4>4. QED
        BY <4>1, <4>2, <4>3 DEF FutureMatches, Waiting
    <3>4. CASE Waiting(s) /\ Len(in_flight[s]) # 1
      <4>1. pending'[s] = pending[s] /\ Waiting(s)'
        BY <3>1, <3>4 DEF Waiting
      <4>2. /\ Len(in_flight'[s]) \in 1 .. Len(in_flight'[s])
            /\ in_flight'[s] # <<>>
        <5>1. \A a \in Nat : a >= 1 /\ a # 1 => a - 1 \in Nat /\ a - 1 >= 1
          OBVIOUS
        <5>2. Len(in_flight'[s]) \in Nat /\ Len(in_flight'[s]) >= 1
          BY <3>2, <3>4, <5>1, Zenon
        <5>3. \A q : q = <<>> => Len(q) = 0
          OBVIOUS
        <5>4. QED
          BY <5>2, <5>3
      <4>3. in_flight'[s][Len(in_flight'[s])] = in_flight[s][Len(in_flight[s])]
        BY <3>2, <4>2
      <4>4. \A n \in 1 .. Len(in_flight'[s]) :
               in_flight'[s][n].held <=> n = Len(in_flight'[s])
        BY <1>3, <3>2, <3>4 DEF FutureMatches
      <4>5. pending'[s].state = "waiting"
        BY <4>1 DEF Waiting
      <4>6. in_flight'[s][Len(in_flight'[s])].request = pending'[s].request
        BY <1>3, <3>4, <4>1, <4>3 DEF FutureMatches
      <4>7. QED
        BY <4>1, <4>2, <4>4, <4>5, <4>6 DEF FutureMatches
    <3>5. CASE ~Waiting(s)
      <4>1. pending'[s] = pending[s] /\ ~Waiting(s)'
        BY <3>1, <3>5 DEF Waiting
      <4>2. pending[s].state \notin {"accepted", "refused"}
        BY <1>3, <3>1 DEF FutureMatches
      <4>3. \A n \in 1 .. Len(in_flight'[s]) : ~in_flight'[s][n].held
        BY <1>3, <3>2, <3>5 DEF FutureMatches
      <4>4. pending'[s].state \notin {"accepted", "refused"}
        BY <4>1, <4>2
      <4>5. QED
        BY <4>1, <4>3, <4>4 DEF FutureMatches
    <3>6. QED
      BY <3>3, <3>4, <3>5
  <2>3. QED
    BY <2>1, <2>2
<1>7. CASE serve_control_mode \/ serve_engage
  BY <1>6, <1>7, ServeControlMode, ServeEngage DEF Services
<1>8. CASE timer
  <2>1. ASSUME ~Waiting(s), NEW r \in RequestsOf[s],
               pending'[s] = CallOf(r, "waiting"),
               in_flight'[s] = Append(in_flight[s], [request |-> r, held |-> TRUE])
        PROVE  FutureMatches(s)'
    <3>1. [request |-> r, held |-> TRUE] \in Requests(s)
      BY DEF Requests
    <3>2. /\ in_flight'[s] # <<>>
          /\ Len(in_flight[s]) \in Nat
          /\ Len(in_flight'[s]) = Len(in_flight[s]) + 1
          /\ in_flight'[s][Len(in_flight[s]) + 1] = [request |-> r, held |-> TRUE]
          /\ \A n \in 1 .. Len(in_flight[s]) : in_flight'[s][n] = in_flight[s][n]
      BY <1>3, <2>1, <3>1, SentQueue
    <3>3. \A n \in 1 .. Len(in_flight[s]) : ~in_flight[s][n].held
      BY <1>3, <2>1 DEF FutureMatches
    <3>4. \A n \in 1 .. Len(in_flight'[s]) :
             in_flight'[s][n].held <=> n = Len(in_flight'[s])
      BY <3>2, <3>3
    <3>5. QED
      BY <2>1, <3>2, <3>4 DEF FutureMatches, CallOf, Waiting
  <2>2. QED
    BY <1>4, <1>8, <2>1, TimerSends
<1>9. CASE reset \/ rollback
  <2>1. /\ pending'[s] = NotCalled
        /\ \A n \in 1 .. Len(in_flight'[s]) : ~in_flight'[s][n].held
    BY <1>1, <1>9, DropEffect
  <2>2. pending'[s].state = "none"
    BY <2>1 DEF NotCalled
  <2>3. QED
    BY <2>1, <2>2 DEF FutureMatches, Waiting
<1>10. QED
  BY <1>5, <1>7, <1>8, <1>9, LoopCases

\* Requests leave a queue unnoticed: what was not sent is not on its way.
LEMMA ServedNone ==
    ASSUME LoopInv, NEW s \in Services, NEW success \in BOOLEAN,
           Serves(s, success), NEW t \in Services, NEW r, NoneSent(t, r)
    PROVE  NoneSent(t, r)'
<1>1. in_flight[s] \in Seq(Requests(s)) /\ in_flight[s] # <<>>
  BY DEF LoopInv, LoopTypeOK, Serves
<1>2. CASE t = s
  <2>1. in_flight'[s] = Tail(in_flight[s])
    BY ServeEffect
  <2>2. \A n \in 1 .. Len(in_flight'[s]) :
           n + 1 \in 1 .. Len(in_flight[s]) /\ in_flight'[s][n] = in_flight[s][n + 1]
    BY <1>1, <2>1, ServedQueue
  <2>3. QED
    BY <1>2, <2>2 DEF NoneSent
<1>3. CASE t # s
  BY <1>3, ServeEffect DEF NoneSent
<1>4. QED
  BY <1>2, <1>3

\* A timer callback sends only what it has occasion to.
LEMMA TimerNone ==
    ASSUME LoopTypeOK, timer, NEW t \in Services, NEW r, NoneSent(t, r), ~Occasion(r)
    PROVE  NoneSent(t, r)'
<1>1. in_flight[t] \in Seq(Requests(t))
  BY DEF LoopTypeOK
<1>2. CASE in_flight'[t] = in_flight[t]
  BY <1>2 DEF NoneSent
<1>3. ASSUME NEW q \in RequestsOf[t], Occasion(q),
             in_flight'[t] = Append(in_flight[t], [request |-> q, held |-> TRUE])
      PROVE  NoneSent(t, r)'
  <2>1. q # r
    BY <1>3
  <2>2. [request |-> q, held |-> TRUE] \in Requests(t)
    BY DEF Requests
  <2>3. /\ Len(in_flight[t]) \in Nat
        /\ Len(in_flight'[t]) = Len(in_flight[t]) + 1
        /\ in_flight'[t][Len(in_flight[t]) + 1].request = q
        /\ \A n \in 1 .. Len(in_flight[t]) : in_flight'[t][n] = in_flight[t][n]
    BY <1>1, <1>3, <2>2, SentQueue
  <2>4. QED
    BY <2>1, <2>3 DEF NoneSent
<1>4. QED
  BY <1>2, <1>3, TimerSends

\* At rest: nothing is driven, sent or engaged.
LEMMA LoopInitInv == LoopInit => LoopInv
<1>1. SUFFICES ASSUME LoopInit PROVE LoopInv
  OBVIOUS
<1>2. Inv
  BY <1>1, InitInv DEF LoopInit
<1>3. LoopTypeOK
  BY <1>1, EmptySeq DEF LoopInit, LoopTypeOK, Vehicles
<1>4. FuturesMatch
  BY <1>1, EmptySeq
     DEF LoopInit, Init, FuturesMatch, FutureMatches, Waiting, NotCalled, Services
<1>5. QED
  BY <1>2, <1>3, <1>4 DEF LoopInv

\* The loop's invariant, for all constants.
LEMMA LoopInvariance == LoopSpec => []LoopInv
<1>1. LoopInv /\ [LoopNext]_loopVars => LoopInv'
  BY LoopManager, LoopTypes, LoopFutures DEF LoopInv
<1>2. QED
  BY <1>1, LoopInitInv, PTL DEF LoopSpec

-----------------------------------------------------------------------------
(* Authority.                                                              *)

\* A call starts the retry time; otherwise it runs out.
LEMMA CallWaits ==
    ASSUME NEW calls \in SUBSET Services, NEW request,
           call_service(calls, request), NEW s \in Services
    PROVE  \/ /\ pending'[s] = pending[s]
              /\ wait'[s] = IF wait[s] > 0 THEN wait[s] - 1 ELSE 0
           \/ /\ ~Waiting(s) /\ pending'[s].state = "waiting"
              /\ wait'[s] = Retry - 1
<1>1. PICK down \in SUBSET MaybeDown :
        LET ready  == calls \ down
            called == {t \in ready : Callable(t)}
        IN  /\ pending' = [t \in Services |->
                             IF t \in called THEN CallOf(request[t], "waiting")
                             ELSE pending[t]]
            /\ wait' = [t \in Services |->
                          IF t \in called THEN Retry - 1
                          ELSE IF wait[t] > 0 THEN wait[t] - 1 ELSE 0]
  BY DEF call_service, CallOf
<1>2. QED
  BY <1>1 DEF CallOf, Callable

\* So it does in every timer callback.
LEMMA TimerWaits ==
    ASSUME on_timer, NEW s \in Services
    PROVE  \/ /\ pending'[s] = pending[s]
              /\ wait'[s] = IF wait[s] > 0 THEN wait[s] - 1 ELSE 0
           \/ /\ ~Waiting(s) /\ pending'[s].state = "waiting"
              /\ wait'[s] = Retry - 1
<1>1. ASSUME no_call
      PROVE  /\ pending'[s] = pending[s]
             /\ wait'[s] = IF wait[s] > 0 THEN wait[s] - 1 ELSE 0
  <2>1. call_service({}, [t \in Services |-> "none"])
    BY <1>1 DEF no_call
  <2>2. PICK down \in SUBSET MaybeDown :
          LET ready  == {} \ down
              called == {t \in ready : Callable(t)}
          IN  /\ pending' = [t \in Services |->
                               IF t \in called THEN CallOf("none", "waiting")
                               ELSE pending[t]]
              /\ wait' = [t \in Services |->
                            IF t \in called THEN Retry - 1
                            ELSE IF wait[t] > 0 THEN wait[t] - 1 ELSE 0]
    BY <2>1 DEF call_service, CallOf
  <2>3. QED
    BY <2>2
<1>2. CASE timer_ready /\ ~no_call
  <2>1. call_service({"control_mode"}, [t \in Services |-> "autonomous"])
    BY <1>2 DEF timer_ready
  <2>2. QED
    BY <2>1, CallWaits DEF Services
<1>3. CASE timer_arming /\ ~no_call
  <2>1. call_service(EngageCalls, [t \in Services |-> "engage"])
    BY <1>3 DEF timer_arming
  <2>2. QED
    BY <2>1, CallWaits DEF Services, EngageCalls
<1>4. CASE (timer_stopping \/ timer_fault) /\ ~no_call
  <2>1. PICK calls \in SUBSET Services : call_service(calls, HandOverRequest)
    BY <1>4 DEF timer_stopping, timer_fault
  <2>2. QED
    BY <2>1, CallWaits
<1>5. QED
  BY <1>1, <1>2, <1>3, <1>4
     DEF on_timer, timer_idle, timer_active, timer_finished

\* A timer callback takes the attempt at most one stage further.
LEMMA TimerStage ==
    ASSUME Inv, on_timer, phase \in {"READY", "ARMING", "ACTIVE", "STOPPING"}
    PROVE  Stage \in Nat /\ Stage' \in Nat /\ Stage' <= Stage + 1
<1>1. Stage \in Nat /\ Stage' \in Nat
  BY DEF Stage
<1>2. CASE timer_ready
  <2>1. phase = "READY" /\ ~activation_armed
    BY <1>2 DEF timer_ready, Inv, EngageOrdered
  <2>2. phase' \in {"READY", "ARMING", "FAULT"} /\ ~activation_armed'
    BY <1>2, <2>1 DEF timer_ready, armingVars
  <2>3. QED
    BY <2>1, <2>2 DEF Stage
<1>3. CASE timer_arming
  <2>1. /\ phase = "ARMING"
        /\ \/ phase' = "FAULT"
           \/ phase' = "ARMING"
           \/ activation_armed /\ phase' = "ACTIVE"
    BY <1>3 DEF timer_arming
  <2>2. QED
    BY <2>1 DEF Stage
<1>4. CASE timer_active
  <2>1. phase = "ACTIVE" /\ phase' \in {"ACTIVE", "STOPPING", "FAULT"}
    BY <1>4 DEF timer_active
  <2>2. QED
    BY <2>1 DEF Stage
<1>5. CASE timer_stopping
  <2>1. phase = "STOPPING" /\ phase' \in {"STOPPING", "FINISHED", "FAULT"}
    BY <1>5 DEF timer_stopping
  <2>2. QED
    BY <2>1 DEF Stage
<1>6. QED
  BY <1>2, <1>3, <1>4, <1>5
     DEF on_timer, timer_idle, timer_fault, timer_finished

\* A callback that finds the vehicle at rest asks for MANUAL, if the service is
\* there and the AUTONOMOUS request was answered long enough ago.
LEMMA ManualAsked ==
    ASSUME "control_mode" \notin MaybeDown, timer_stopping, ~moving,
           Callable("control_mode")
    PROVE  pending'["control_mode"].request = "manual"
<1>1. call_service(Services, HandOverRequest)
  BY DEF timer_stopping
<1>2. PICK down \in SUBSET MaybeDown :
        LET ready  == Services \ down
            called == {t \in ready : Callable(t)}
        IN  pending' = [t \in Services |->
                           IF t \in called
                           THEN CallOf(HandOverRequest[t], "waiting")
                           ELSE pending[t]]
  BY <1>1 DEF call_service, CallOf
<1>3. pending'["control_mode"] = CallOf(HandOverRequest["control_mode"], "waiting")
  BY <1>2 DEF Services
<1>4. QED
  BY <1>3 DEF CallOf, HandOverRequest, Services

\* The steps between the timer callbacks grant no authority from ARMING on.
LEMMA AuthorityKept ==
    ASSUME LoopInv, AuthorityKnown,
           report \/ VehicleStep \/ start \/ stop \/ UNCHANGED loopVars
    PROVE  AuthorityKnown'
<1>1. UNCHANGED <<phase, activation_armed, pending, wait, in_flight>>
  BY QuietSteps
<1>2. vehicle'.requested => vehicle.requested
  <2>1. CASE VehicleStep
    BY <2>1 DEF VehicleStep, drive, brake, reach_goal, withdraw, take_over,
                give_back, driver_stops, Vehicle, LoopInv, LoopTypeOK, Vehicles
  <2>2. CASE report
    BY <2>2, ReportEffect DEF envVars
  <2>3. CASE start \/ stop \/ UNCHANGED loopVars
    BY <2>3 DEF start, stop, loopVars, envVars
  <2>4. QED
    BY <2>1, <2>2, <2>3
<1>3. /\ NoneSent("control_mode", "autonomous")' = NoneSent("control_mode", "autonomous")
      /\ NoneSent("control_mode", "manual")' = NoneSent("control_mode", "manual")
      /\ Stage' = Stage
  BY <1>1 DEF NoneSent, Stage
<1>4. QED
  BY <1>1, <1>2, <1>3 DEF AuthorityKnown

\* Serving a request that is not AUTONOMOUS leaves no authority.
LEMMA AuthorityServed ==
    ASSUME LoopInv, AuthorityKnown, serve_control_mode \/ serve_engage
    PROVE  AuthorityKnown'
<1>1. "control_mode" \in Services /\ "engage" \in Services
  BY DEF Services
<1>2. CASE serve_control_mode
  <2>1. PICK success \in BOOLEAN : Serves("control_mode", success)
    BY <1>2, ServeControlMode
  <2>2. /\ UNCHANGED <<phase, activation_armed, wait>>
        /\ pending'["control_mode"].request = pending["control_mode"].request
        /\ \/ Waiting("control_mode")
           \/ pending'["control_mode"] = pending["control_mode"]
    BY <1>1, <2>1, ServeEffect DEF armingVars
  <2>3. NoneSent("control_mode", "autonomous") =>
           /\ NoneSent("control_mode", "autonomous")'
           /\ Head(in_flight["control_mode"]).request # "autonomous"
    <3>1. /\ in_flight["control_mode"] \in Seq(Requests("control_mode"))
          /\ in_flight["control_mode"] # <<>>
      BY <1>1, <2>1 DEF LoopInv, LoopTypeOK, Serves
    <3>2. /\ Head(in_flight["control_mode"]) = in_flight["control_mode"][1]
          /\ 1 \in 1 .. Len(in_flight["control_mode"])
      BY <3>1, ServedQueue
    <3>3. QED
      BY <1>1, <2>1, <3>2, ServedNone DEF NoneSent
  <2>4. Head(in_flight["control_mode"]).request # "autonomous" =>
           ~vehicle'.requested
    BY <1>2, ServeControlMode DEF LoopInv, LoopTypeOK, Vehicles
  <2>5. Stage' = Stage
    BY <2>2 DEF Stage
  <2>6. phase = "STOPPING" /\ Waiting("control_mode") =>
           pending["control_mode"].request = "manual"
    BY DEF AuthorityKnown, Waiting
  <2>7. QED
    BY <2>2, <2>3, <2>4, <2>5, <2>6 DEF AuthorityKnown
<1>3. CASE serve_engage
  <2>1. /\ UNCHANGED <<phase, activation_armed, wait, vehicle>>
        /\ pending'["control_mode"] = pending["control_mode"]
        /\ in_flight'["control_mode"] = in_flight["control_mode"]
    BY <1>1, <1>3, ServeEngage, ServeEffect DEF armingVars
  <2>2. /\ NoneSent("control_mode", "autonomous")' =
              NoneSent("control_mode", "autonomous")
        /\ NoneSent("control_mode", "manual")' = NoneSent("control_mode", "manual")
        /\ Stage' = Stage
    BY <2>1 DEF NoneSent, Stage
  <2>3. QED
    BY <2>1, <2>2 DEF AuthorityKnown
<1>4. QED
  BY <1>2, <1>3

\* The timer: AUTONOMOUS is asked for in READY only, and FINISHED is concluded
\* only once MANUAL has been asked for.
LEMMA AuthorityTimed ==
    ASSUME "control_mode" \notin MaybeDown, Retry <= 5,
           LoopInv, AuthorityKnown, timer
    PROVE  AuthorityKnown'
<1> DEFINE call == pending["control_mode"]
           next == pending'["control_mode"]
<1>1. /\ "control_mode" \in Services /\ on_timer /\ vehicle' = vehicle
      /\ Inv /\ TypeOK /\ LoopTypeOK /\ FuturesMatch
  BY DEF LoopInv, Inv, timer, Services
<1>2. \/ next = call /\ in_flight'["control_mode"] = in_flight["control_mode"]
      \/ /\ ~Waiting("control_mode") /\ phase = "READY"
         /\ next = CallOf("autonomous", "waiting")
      \/ /\ ~Waiting("control_mode") /\ phase \in {"STOPPING", "FAULT"}
         /\ next = CallOf("manual", "waiting")
         /\ in_flight'["control_mode"] = Append(in_flight["control_mode"],
                                           [request |-> "manual", held |-> TRUE])
  <2>1. RequestsOf["control_mode"] = {"autonomous", "manual"}
    BY DEF RequestsOf, Services
  <2>2. QED
    BY <1>1, <2>1, TimerSends DEF Occasion
<1>3. /\ phase' = "IDLE" => phase = "IDLE"
      /\ phase' = "READY" => phase \in {"IDLE", "READY"}
      /\ phase' = "ARMING" => phase \in {"READY", "ARMING"}
      /\ phase' = "ACTIVE" => phase \in {"ARMING", "ACTIVE"}
      /\ phase' = "STOPPING" => phase \in {"ACTIVE", "STOPPING"}
      /\ phase' = "FINISHED" =>
            phase = "FINISHED" \/ (phase = "STOPPING" /\ ~moving)
  BY <1>1, TimerPhases
<1>4. wait["control_mode"] \in Nat /\ Retry \in Nat /\ Retry >= 1
  BY <1>1, ManagerAssumption DEF TypeOK
<1>5. \/ /\ next = call
         /\ wait'["control_mode"] = IF wait["control_mode"] > 0
                                    THEN wait["control_mode"] - 1 ELSE 0
      \/ /\ ~Waiting("control_mode") /\ next.state = "waiting"
         /\ wait'["control_mode"] = Retry - 1
  BY <1>1, TimerWaits
<1>6. phase' \in {"ARMING", "ACTIVE", "STOPPING", "FINISHED"} =>
         NoneSent("control_mode", "autonomous")'
  <2>1. CASE phase # "READY" /\ phase' \in {"ARMING", "ACTIVE", "STOPPING", "FINISHED"}
    <3>1. NoneSent("control_mode", "autonomous")
      BY <1>3, <2>1 DEF AuthorityKnown
    <3>2. QED
      BY <1>1, <2>1, <3>1, TimerNone DEF Occasion
  <2>2. CASE phase = "READY" /\ phase' \in {"ARMING", "ACTIVE", "STOPPING", "FINISHED"}
    <3>1. next.state = "accepted"
      BY <1>1, <2>2 DEF on_timer, timer_idle, timer_ready, timer_arming,
                        timer_active, timer_stopping, timer_fault, timer_finished
    <3>2. call.state = "accepted" /\ in_flight'["control_mode"] = in_flight["control_mode"]
      BY <1>2, <3>1 DEF CallOf
    <3>3. in_flight'["control_mode"] = <<>>
      BY <1>1, <3>2 DEF FuturesMatch, FutureMatches
    <3>4. QED
      BY <3>3 DEF NoneSent
  <2>3. QED
    BY <2>1, <2>2
<1>7. ASSUME phase = "STOPPING", call.request = "autonomous"
      PROVE  Callable("control_mode")
  <2>1. call.state = "accepted"
    BY <1>7 DEF AuthorityKnown
  <2>2. wait["control_mode"] = 0 \/ wait["control_mode"] + 5 <= Retry
    BY <1>7 DEF AuthorityKnown, Stage
  <2>3. QED
    BY <1>4, <2>1, <2>2 DEF Callable, Waiting
<1>8. phase' = "STOPPING" =>
         next.request = "manual" \/ next = CallOf("autonomous", "accepted")
  <2>1. CASE phase = "ACTIVE"
    BY <1>1, <1>2, <2>1 DEF Inv, AcceptanceIsOurs, CallOf
  <2>2. CASE phase = "STOPPING"
    BY <1>2, <2>2 DEF AuthorityKnown, CallOf
  <2>3. QED
    BY <1>3, <2>1, <2>2
<1>9. phase' = "FINISHED" => next.request = "manual"
  <2>1. CASE phase = "FINISHED"
    BY <1>2, <2>1 DEF AuthorityKnown
  <2>2. CASE phase = "STOPPING" /\ ~moving /\ call.request = "autonomous"
    <3>1. timer_stopping
      BY <1>1, <2>2 DEF on_timer, timer_idle, timer_ready, timer_arming,
                        timer_active, timer_fault, timer_finished
    <3>2. QED
      BY <1>7, <2>2, <3>1, ManualAsked
  <2>3. CASE phase = "STOPPING" /\ call.request # "autonomous"
    BY <1>2, <2>3 DEF AuthorityKnown, CallOf
  <2>4. QED
    BY <1>3, <2>1, <2>2, <2>3
<1>10. phase' \in {"STOPPING", "FINISHED"} /\ vehicle'.requested =>
          next.request = "autonomous" \/ ~NoneSent("control_mode", "manual")'
  <2>1. CASE phase = "ACTIVE" /\ phase' = "STOPPING"
    BY <1>1, <1>2, <2>1 DEF Inv, AcceptanceIsOurs
  <2>2. CASE /\ phase \in {"STOPPING", "FINISHED"}
             /\ next = call
             /\ in_flight'["control_mode"] = in_flight["control_mode"]
    BY <1>1, <2>2 DEF AuthorityKnown, NoneSent
  <2>3. CASE in_flight'["control_mode"] = Append(in_flight["control_mode"],
                                           [request |-> "manual", held |-> TRUE])
    <3>1. /\ in_flight["control_mode"] \in Seq(Requests("control_mode"))
          /\ [request |-> "manual", held |-> TRUE] \in Requests("control_mode")
      BY <1>1 DEF LoopTypeOK, Requests, RequestsOf
    <3>2. /\ Len(in_flight["control_mode"]) \in Nat
          /\ Len(in_flight'["control_mode"]) = Len(in_flight["control_mode"]) + 1
          /\ in_flight'["control_mode"][Len(in_flight["control_mode"]) + 1].request
                = "manual"
      BY <2>3, <3>1, SentQueue
    <3>3. QED
      BY <3>2 DEF NoneSent
  <2>4. QED
    BY <1>2, <1>3, <2>1, <2>2, <2>3
<1>11. phase' # "FAULT" /\ next.request = "autonomous" =>
          wait'["control_mode"] = 0 \/ wait'["control_mode"] + Stage' <= Retry
  <2>1. SUFFICES ASSUME phase' # "FAULT", next.request = "autonomous"
                 PROVE  \/ wait'["control_mode"] = 0
                        \/ wait'["control_mode"] + Stage' <= Retry
    OBVIOUS
  <2>2. phase' # "FINISHED"
    BY <1>9, <2>1
  <2>3. CASE next = call
    <3>1. phase # "IDLE"
      BY <1>1, <2>1, <2>3 DEF Inv, AcceptanceIsOurs, NotCalled
    <3>2. phase \in {"READY", "ARMING", "ACTIVE", "STOPPING"}
      BY <1>1, <1>3, <2>1, <2>2, <3>1 DEF LoopInv, Inv, TypeOK, Phases, on_timer,
         timer_idle, timer_ready, timer_arming, timer_active, timer_stopping,
         timer_fault, timer_finished
    <3>3. Stage \in Nat /\ Stage' \in Nat /\ Stage' <= Stage + 1
      BY <1>1, <3>2, TimerStage
    <3>4. wait["control_mode"] = 0 \/ wait["control_mode"] + Stage <= Retry
      BY <2>1, <2>3, <3>2 DEF AuthorityKnown
    <3>5. wait'["control_mode"] = IF wait["control_mode"] > 0
                                  THEN wait["control_mode"] - 1 ELSE 0
      BY <1>5, <2>3 DEF Waiting
    <3>6. \A w, m, n, r \in Nat : (w = 0 \/ w + m <= r) /\ n <= m + 1 =>
             \/ (IF w > 0 THEN w - 1 ELSE 0) = 0
             \/ (IF w > 0 THEN w - 1 ELSE 0) + n <= r
      OBVIOUS
    <3>7. QED
      BY <1>4, <3>3, <3>4, <3>5, <3>6, Zenon
  <2>4. CASE next # call
    <3>1. phase = "READY" /\ next.state = "waiting"
      BY <1>2, <2>1, <2>4 DEF CallOf
    <3>2. phase' = "READY"
      BY <1>1, <2>1, <3>1 DEF on_timer, timer_idle, timer_ready, timer_arming,
         timer_active, timer_stopping, timer_fault, timer_finished
    <3>3. wait'["control_mode"] = Retry - 1 /\ Stage' = 1
      BY <1>5, <2>4, <3>2 DEF Stage
    <3>4. QED
      BY <1>4, <3>3
  <2>5. QED
    BY <2>3, <2>4
<1>12. QED
  BY <1>6, <1>8, <1>9, <1>10, <1>11 DEF AuthorityKnown, CallOf

\* What is known of the authority stays known, under every step.
LEMMA LoopAuthority ==
    ASSUME "control_mode" \notin MaybeDown, Retry <= 5,
           WithdrawInv, [LoopNext]_loopVars
    PROVE  AuthorityKnown'
<1>1. LoopInv /\ AuthorityKnown
  BY DEF WithdrawInv
<1>2. CASE report \/ VehicleStep \/ start \/ stop \/ UNCHANGED loopVars
  BY <1>1, <1>2, AuthorityKept
<1>3. CASE serve_control_mode \/ serve_engage
  BY <1>1, <1>3, AuthorityServed
<1>4. CASE timer
  BY <1>1, <1>4, AuthorityTimed
<1>5. CASE reset \/ rollback
  <2>1. phase' = "IDLE" /\ pending'["control_mode"] = NotCalled
    BY <1>1, <1>5, DropEffect DEF LoopInv, Services
  <2>2. QED
    BY <2>1 DEF AuthorityKnown, NotCalled
<1>6. QED
  BY <1>2, <1>3, <1>4, <1>5, LoopCases

-----------------------------------------------------------------------------
(* FINISHED is out of automatic mode for good (race_runtime_manager.py:    *)
(* 474-486, autoracer_rc.sh:2148): the authority is withdrawn or the       *)
(* request that withdraws it is on its way, whatever the driver's override *)
(* made of the reports, for every set of reports that stay away and every  *)
(* number of requests left over by resets and clock steps.  It takes the   *)
(* control mode service to be there, and a retry time no longer than the   *)
(* five callbacks between the AUTONOMOUS request and STOPPING (0.25 s at   *)
(* 20 Hz in every parameter file): otherwise an override can confirm the   *)
(* stop before MANUAL has been asked for.                                  *)
THEOREM FinishedWithdrawn ==
    ASSUME "control_mode" \notin MaybeDown, Retry <= 5
    PROVE  LoopSpec => [](phase = "FINISHED" => AuthorityWithdrawn)
<1>1. LoopInit => AuthorityKnown
  BY DEF LoopInit, Init, AuthorityKnown, NotCalled, Services
<1>2. LoopInv /\ AuthorityKnown /\ [LoopNext]_loopVars => AuthorityKnown'
  BY LoopAuthority DEF WithdrawInv
<1>3. AuthorityKnown => (phase = "FINISHED" => AuthorityWithdrawn)
  BY DEF AuthorityKnown, AuthorityWithdrawn
<1>4. QED
  BY <1>1, <1>2, <1>3, LoopInvariance, PTL DEF LoopSpec

-----------------------------------------------------------------------------
(* The gate.                                                               *)

\* Unless a report comes, the messages the manager has stay the same.
LEMMA MessagesKept ==
    ASSUME LoopInv, [LoopNext]_loopVars, ~report, ~reset, ~rollback,
           NEW i \in Inputs
    PROVE  message(i)' = message(i)
<1>1. CASE timer
  BY <1>1, TimerMessages DEF timer
<1>2. CASE serve_control_mode \/ serve_engage
  <2>1. PICK s \in Services, success \in BOOLEAN : Serves(s, success)
    BY <1>2, ServeControlMode, ServeEngage DEF Services
  <2>2. UNCHANGED input
    BY <2>1, ServeEffect
  <2>3. QED
    BY <2>2 DEF message
<1>3. CASE VehicleStep \/ start \/ stop \/ UNCHANGED loopVars
  BY <1>3 DEF VehicleStep, drive, brake, reach_goal, withdraw, take_over,
              give_back, driver_stops, Vehicle, start, stop, on_start, on_stop,
              loopVars, vars, message
<1>4. QED
  BY <1>1, <1>2, <1>3, LoopCases

\* Once the steps other than a timer callback and a served engage request are
\* done, requests to the gate and its engagement are as before; only a reset
\* drops the future.
LEMMA GateLeftAlone ==
    ASSUME LoopInv, [LoopNext]_loopVars, ~serve_engage, ~timer, ~reset,
           ~rollback
    PROVE  /\ in_flight'["engage"] = in_flight["engage"]
           /\ pending'["engage"] = pending["engage"]
           /\ UNCHANGED <<phase, gate_engaged>>
<1>1. CASE serve_control_mode
  BY <1>1, ServeControlMode, ServeEffect DEF Services
<1>2. QED
  BY <1>1, LoopCases, QuietSteps

\* At most one request to the gate is left over from earlier attempts, if a
\* reset finds at most one on its way.
LEMMA LoopOneLeftOver ==
    ASSUME MaxInFlight <= 1, LoopInv, OneLeftOver, [LoopNext]_loopVars
    PROVE  OneLeftOver'
<1>1. /\ LoopTypeOK /\ "engage" \in Services
      /\ in_flight["engage"] \in Seq(Requests("engage"))
      /\ Len(in_flight["engage"]) \in Nat
  BY LenProperties DEF LoopInv, LoopTypeOK, Services
<1>2. CASE serve_engage
  <2>1. /\ in_flight["engage"] # <<>>
        /\ in_flight'["engage"] = Tail(in_flight["engage"])
        /\ \/ /\ Waiting("engage") /\ Len(in_flight["engage"]) = 1
              /\ pending'["engage"].state \in {"accepted", "refused"}
           \/ pending'["engage"] = pending["engage"]
    BY <1>1, <1>2, ServeEngage, ServeEffect DEF Serves
  <2>2. Len(in_flight'["engage"]) = Len(in_flight["engage"]) - 1
    BY <1>1, <2>1, ServedQueue
  <2>3. QED
    BY <1>1, <2>1, <2>2 DEF OneLeftOver, Waiting
<1>3. CASE timer
  <2>1. ASSUME ~Waiting("engage"), NEW r \in RequestsOf["engage"],
               pending'["engage"] = CallOf(r, "waiting"),
               in_flight'["engage"] = Append(in_flight["engage"],
                                             [request |-> r, held |-> TRUE])
        PROVE  OneLeftOver'
    <3>1. [request |-> r, held |-> TRUE] \in Requests("engage")
      BY DEF Requests
    <3>2. Len(in_flight'["engage"]) = Len(in_flight["engage"]) + 1
      BY <1>1, <2>1, <3>1, SentQueue
    <3>3. pending'["engage"].state = "waiting"
      BY <2>1 DEF CallOf
    <3>4. QED
      BY <1>1, <2>1, <3>2, <3>3 DEF OneLeftOver, Waiting
  <2>2. QED
    BY <1>1, <1>3, <2>1, TimerSends DEF OneLeftOver, Waiting
<1>4. CASE reset \/ rollback
  <2>1. /\ Len(in_flight'["engage"]) = Len(in_flight["engage"])
        /\ Len(in_flight["engage"]) <= MaxInFlight
    BY <1>1, <1>4, DropEffect
  <2>2. QED
    BY <1>1, <2>1, LoopAssumption DEF OneLeftOver
<1>5. QED
  BY <1>2, <1>3, <1>4, GateLeftAlone DEF OneLeftOver, Waiting

\* A report about the gate and the control mode is true of both.
LEMMA GateReported ==
    ASSUME "engage" \notin Flaky,
           LoopInv, GateKnown, report
    PROVE  GateKnown'
<1>1. UNCHANGED <<phase, pending, gate_engaged, in_flight>>
  BY ReportEffect DEF serviceVars, envVars
<1>2. message("engage")' = IF gate_engaged THEN "engaged" ELSE "disengaged"
  <2>1. PICK following \in BOOLEAN :
           input'["engage"] = [message |-> Truth("engage", following), age |-> 0]
    BY ReportEffect DEF Inputs
  <2>2. QED
    BY <2>1 DEF message, Truth
<1>3. QED
  BY <1>1, <1>2 DEF GateKnown, DisengageNext, DisengageLast, NoneSent

\* The gate serves a request.
LEMMA GateServed ==
    ASSUME LoopInv, OneLeftOver, GateKnown, serve_engage
    PROVE  GateKnown'
<1> DEFINE q == in_flight["engage"]
           next == in_flight'["engage"]
<1>1. /\ q \in Seq(Requests("engage")) /\ q # <<>> /\ next = Tail(q)
      /\ "engage" \in Services
  BY ServeEngage, ServeEffect DEF LoopInv, LoopTypeOK, Serves, Services
<1>2. /\ Len(q) \in Nat /\ 1 \in 1 .. Len(q) /\ Head(q) = q[1]
      /\ Len(next) = Len(q) - 1
      /\ \A n \in 1 .. Len(next) : n + 1 \in 1 .. Len(q) /\ next[n] = q[n + 1]
  BY <1>1, ServedQueue
<1>3. /\ gate_engaged' = (q[1].request = "engage")
      /\ UNCHANGED <<phase, input>>
      /\ pending'["engage"].request = pending["engage"].request
  BY <1>1, <1>2, ServeEngage, ServeEffect
<1>4. q[1].request \in {"engage", "disengage"}
  <2>1. q[1] \in Requests("engage")
    BY <1>1, ServedQueue
  <2>2. QED
    BY <2>1 DEF Requests, RequestsOf, Services
<1>5. /\ NoneSent("engage", "engage") => NoneSent("engage", "engage")'
      /\ NoneSent("engage", "engage") => q[1].request # "engage"
  BY <1>2 DEF NoneSent
<1>6. q[1].request = "disengage" /\ DisengageLast => NoneSent("engage", "engage")'
  BY <1>2 DEF DisengageLast, NoneSent
<1>7. DisengageLast => DisengageLast'
  BY <1>2 DEF DisengageLast
<1>8. CASE phase \in {"IDLE", "READY", "ARMING"}
  <2>1. Len(q) <= 2 /\ (Len(q) = 2 => Waiting("engage"))
    <3>1. Len(q) <= IF Waiting("engage") THEN 2 ELSE 1
      BY DEF OneLeftOver
    <3>2. Len(q) \in Nat
      BY <1>2
    <3>3. QED
      BY <3>1, <3>2
  <2>2. ~DisengageNext' \/ ~gate_engaged'
    <3>1. SUFFICES ASSUME DisengageNext' PROVE FALSE
      OBVIOUS
    <3>2. next \in Seq(Requests("engage")) /\ next # <<>>
      BY <1>1, <3>1, ServedQueue DEF DisengageNext
    <3>3. Head(next) = next[1] /\ Len(next) >= 1
      BY <3>2, ServedQueue
    <3>4. Len(q) = 2 /\ next[1] = q[2]
      <4>1. \A a \in Nat : a - 1 >= 1 /\ a <= 2 => a = 2 /\ 1 \in 1 .. (a - 1)
        OBVIOUS
      <4>2. Len(q) = 2 /\ 1 \in 1 .. Len(next)
        BY <1>2, <2>1, <3>3, <4>1, Zenon
      <4>3. QED
        BY <1>2, <4>2
    <3>5. pending["engage"].request = "disengage" /\ Waiting("engage")
      BY <1>1, <2>1, <3>1, <3>3, <3>4
         DEF DisengageNext, LoopInv, FuturesMatch, FutureMatches
    <3>6. phase = "ARMING"
      BY <1>8, <3>5 DEF LoopInv, Inv, EngageCleared, Waiting, NotCalled
    <3>7. QED
      BY <3>5, <3>6 DEF GateKnown
  <2>3. DisengageLast'
    BY <1>2, <2>1 DEF DisengageLast
  <2>4. message("engage") = "engaged" => gate_engaged' \/ NoneSent("engage", "engage")'
    BY <1>3, <1>4, <1>5, <1>6, <1>8 DEF GateKnown
  <2>5. message("engage")' = message("engage")
    BY <1>3 DEF message
  <2>6. phase' \in {"IDLE", "READY", "ARMING"} /\ phase' = phase
    BY <1>3, <1>8
  <2>7. phase' = "ARMING" => pending'["engage"].request # "disengage"
    BY <1>3, <2>6 DEF GateKnown
  <2>8. QED
    BY <2>2, <2>3, <2>4, <2>5, <2>6, <2>7 DEF GateKnown
<1>9. CASE phase \in {"ACTIVE", "STOPPING"}
  BY <1>3, <1>4, <1>5, <1>6, <1>7, <1>9 DEF GateKnown, message
<1>10. CASE phase = "FINISHED"
  BY <1>3, <1>5, <1>10 DEF GateKnown
<1>11. CASE phase = "FAULT"
  BY <1>3, <1>11 DEF GateKnown
<1>12. QED
  BY <1>8, <1>9, <1>10, <1>11 DEF LoopInv, Inv, TypeOK, Phases

\* The timer asks the gate to engage only when no disengage request stands in
\* the way, and to disengage only when the attempt ends.
LEMMA GateTimed ==
    ASSUME LoopInv, OneLeftOver, GateKnown, timer
    PROVE  GateKnown'
<1> DEFINE q == in_flight["engage"]
           next == in_flight'["engage"]
           Asked(r) ==
              /\ ~Waiting("engage") /\ Occasion(r)
              /\ pending'["engage"] = CallOf(r, "waiting")
              /\ next = Append(q, [request |-> r, held |-> TRUE])
<1>1. /\ on_timer /\ gate_engaged' = gate_engaged
      /\ LoopTypeOK /\ Inv /\ "engage" \in Services
      /\ q \in Seq(Requests("engage")) /\ Len(q) \in Nat
  BY LenProperties DEF LoopInv, LoopTypeOK, timer, Services
<1>2. /\ message("engage")' = message("engage")
      /\ message("control_mode")' = message("control_mode")
  BY <1>1, TimerMessages DEF Inputs
<1>3. /\ phase' = "ARMING" => phase \in {"READY", "ARMING"}
      /\ phase' \in {"IDLE", "READY", "ARMING"} =>
            phase \in {"IDLE", "READY", "ARMING"}
      /\ phase' = "ACTIVE" =>
            \/ phase = "ACTIVE"
            \/ phase = "ARMING" /\ message("engage") = "engaged"
      /\ phase' = "STOPPING" => phase \in {"ACTIVE", "STOPPING"}
      /\ phase' = "FINISHED" =>
            \/ phase = "FINISHED"
            \/ phase = "STOPPING" /\ message("engage") = "disengaged"
  BY <1>1, TimerPhases DEF StopConfirmed
<1>4. ASSUME NEW r \in RequestsOf["engage"], Asked(r)
      PROVE  /\ Len(next) = Len(q) + 1
             /\ next[Len(q) + 1].request = r
             /\ \A n \in 1 .. Len(q) : next[n] = q[n]
  <2>1. [request |-> r, held |-> TRUE] \in Requests("engage")
    BY DEF Requests
  <2>2. QED
    BY <1>1, <1>4, <2>1, SentQueue
<1>5. CASE pending'["engage"] = pending["engage"] /\ next = q
  <2>1. /\ DisengageLast' = DisengageLast
        /\ DisengageNext' = DisengageNext
        /\ NoneSent("engage", "engage")' = NoneSent("engage", "engage")
    BY <1>5 DEF DisengageLast, DisengageNext, NoneSent
  <2>2. phase = "READY" => pending["engage"].request # "disengage"
    BY <1>1 DEF Inv, EngageCleared, NotCalled
  <2>3. NoneSent("engage", "engage") => DisengageLast
    <3>1. \A n \in 1 .. Len(q) : q[n].request \in {"engage", "disengage"}
      <4>1. \A n \in 1 .. Len(q) : q[n] \in Requests("engage")
        BY <1>1, ElementOfSeq
      <4>2. QED
        BY <4>1 DEF Requests, RequestsOf, Services
    <3>2. QED
      BY <3>1 DEF NoneSent, DisengageLast
  <2>4. QED
    BY <1>1, <1>2, <1>3, <1>5, <2>1, <2>2, <2>3 DEF GateKnown
<1>6. CASE Asked("engage")
  <2>1. /\ phase = "ARMING" /\ message("engage") # "engaged"
        /\ message("control_mode") = "autonomous"
    BY <1>6 DEF Occasion
  <2>2. phase' \notin {"ACTIVE", "STOPPING", "FINISHED"}
    BY <1>3, <2>1
  <2>3. Len(q) <= 1
    BY <1>6 DEF OneLeftOver
  <2>4. /\ Len(next) = Len(q) + 1
        /\ \A n \in 1 .. Len(q) : next[n] = q[n]
        /\ next[Len(q) + 1].request = "engage"
    BY <1>4, <1>6 DEF RequestsOf, Services
  <2>5. gate_engaged /\ q # <<>> => q[1].request # "disengage"
    BY <1>1, <2>1, ServedQueue DEF GateKnown, DisengageNext
  <2>6. gate_engaged => DisengageLast'
    <3>1. SUFFICES ASSUME gate_engaged, NEW m \in 1 .. Len(next),
                          NEW n \in 1 .. Len(next), m < n,
                          next[m].request = "disengage"
                   PROVE  FALSE
      BY DEF DisengageLast
    <3>2. m = 1 /\ Len(q) = 1
      <4>1. \A a \in Nat : a <= 1 /\ m \in 1 .. (a + 1) /\ n \in 1 .. (a + 1)
                            => m = 1 /\ a = 1
        BY <3>1
      <4>2. m \in 1 .. (Len(q) + 1) /\ n \in 1 .. (Len(q) + 1)
        BY <2>4, Zenon
      <4>3. QED
        BY <1>1, <2>3, <4>1, <4>2, Zenon
    <3>3. q # <<>> /\ q[1].request = "disengage"
      BY <2>4, <3>1, <3>2, EmptySeq
    <3>4. QED
      BY <2>5, <3>1, <3>3
  <2>7. ~(gate_engaged /\ DisengageNext')
    <3>1. SUFFICES ASSUME gate_engaged, DisengageNext' PROVE FALSE
      OBVIOUS
    <3>2. Head(next) = next[1]
      <4>1. [request |-> "engage", held |-> TRUE] \in Requests("engage")
        BY DEF Requests, RequestsOf, Services
      <4>2. next \in Seq(Requests("engage")) /\ next # <<>>
        BY <1>1, <1>6, <4>1, SentQueue
      <4>3. QED
        BY <4>2, ServedQueue
    <3>3. next[1].request = "disengage"
      BY <3>1, <3>2 DEF DisengageNext
    <3>4. Len(q) = 1
      <4>1. Len(q) # 0
        BY <2>4, <3>3
      <4>2. \A a \in Nat : a <= 1 /\ a # 0 => a = 1
        OBVIOUS
      <4>3. QED
        BY <1>1, <2>3, <4>1, <4>2, Zenon
    <3>5. q # <<>> /\ q[1].request = "disengage"
      BY <2>4, <3>3, <3>4, EmptySeq
    <3>6. QED
      BY <2>5, <3>1, <3>5
  <2>8. pending'["engage"].request # "disengage"
    BY <1>6 DEF CallOf
  <2>9. QED
    BY <1>1, <1>2, <2>1, <2>2, <2>6, <2>7, <2>8 DEF GateKnown
<1>7. CASE Asked("disengage")
  <2>1. phase \in {"STOPPING", "FAULT"}
    BY <1>7 DEF Occasion
  <2>2. phase' \notin {"IDLE", "READY", "ARMING", "ACTIVE"}
    BY <1>3, <2>1
  <2>3. /\ Len(next) = Len(q) + 1
        /\ \A n \in 1 .. Len(q) : next[n] = q[n]
        /\ next[Len(q) + 1].request = "disengage"
    BY <1>4, <1>7 DEF RequestsOf, Services
  <2>4. DisengageLast => DisengageLast'
    BY <1>1, <2>3 DEF DisengageLast
  <2>5. NoneSent("engage", "engage") => NoneSent("engage", "engage")'
    BY <1>1, <2>3 DEF NoneSent
  <2>6. QED
    BY <1>1, <1>2, <1>3, <2>1, <2>2, <2>4, <2>5 DEF GateKnown
<1>8. QED
  <2>1. RequestsOf["engage"] = {"engage", "disengage"}
    BY DEF RequestsOf, Services
  <2>2. QED
    BY <1>1, <1>5, <1>6, <1>7, <2>1, TimerSends

\* A reset is granted on reports that the vehicle is not AUTONOMOUS and the
\* gate is not engaged, and a clock step forgets the reports, whatever is still
\* on its way.
LEMMA GateDropped ==
    ASSUME MaxInFlight <= 1, LoopInv, reset \/ rollback
    PROVE  GateKnown'
<1>1. /\ LoopTypeOK /\ "engage" \in Services
      /\ Len(in_flight["engage"]) \in Nat
  BY LenProperties DEF LoopInv, LoopTypeOK, Services
<1>2. /\ phase' = "IDLE"
      /\ message("control_mode")' # "autonomous" /\ message("engage")' # "engaged"
      /\ Len(in_flight'["engage"]) = Len(in_flight["engage"])
      /\ Len(in_flight["engage"]) <= MaxInFlight
  BY <1>1, DropEffect
<1>3. Len(in_flight'["engage"]) \in Nat /\ Len(in_flight'["engage"]) <= 1
  BY <1>1, <1>2, LoopAssumption
<1>4. DisengageLast'
  BY <1>3 DEF DisengageLast
<1>5. QED
  BY <1>2, <1>4 DEF GateKnown

\* What is known of the gate stays known, under every step.
LEMMA LoopGate ==
    ASSUME MaxInFlight <= 1, "engage" \notin Flaky,
           EngageInv, [LoopNext]_loopVars
    PROVE  GateKnown'
<1>1. LoopInv /\ OneLeftOver /\ GateKnown
  BY DEF EngageInv
<1>2. CASE report
  BY <1>1, <1>2, GateReported
<1>3. CASE serve_engage
  BY <1>1, <1>3, GateServed
<1>4. CASE timer
  BY <1>1, <1>4, GateTimed
<1>5. CASE reset \/ rollback
  BY <1>1, <1>5, GateDropped
<1>6. CASE ~(report \/ serve_engage \/ timer \/ reset
             \/ rollback)
  <2>1. /\ in_flight'["engage"] = in_flight["engage"]
        /\ pending'["engage"] = pending["engage"]
        /\ UNCHANGED <<phase, gate_engaged>>
    BY <1>1, <1>6, GateLeftAlone
  <2>2. /\ message("engage")' = message("engage")
        /\ message("control_mode")' = message("control_mode")
    BY <1>1, <1>6, MessagesKept DEF Inputs
  <2>3. QED
    BY <1>1, <2>1, <2>2 DEF GateKnown, DisengageNext, DisengageLast, NoneSent
<1>7. QED
  BY <1>2, <1>3, <1>4, <1>5, <1>6

-----------------------------------------------------------------------------
(* FINISHED is true of interface, gate and queues (race_runtime_manager.py:*)
(* 467-486), provided the control mode service is there in time, no report *)
(* comes without the gate's engagement and a reset or a clock step finds   *)
(* at most one request on its way.  With two, an engage request of the     *)
(* present attempt may stand behind a disengage request of an earlier one, *)
(* and FINISHED be concluded between the two.                              *)
THEOREM FinishedIsTrue ==
    ASSUME "control_mode" \notin MaybeDown, Retry <= 5, MaxInFlight <= 1,
           "engage" \notin Flaky
    PROVE  LoopSpec => []FinishedIsSafe
<1>1. LoopInit => OneLeftOver /\ GateKnown
  <2>1. SUFFICES ASSUME LoopInit PROVE OneLeftOver /\ GateKnown
    OBVIOUS
  <2>2. in_flight["engage"] = <<>> /\ Len(in_flight["engage"]) = 0
    BY <2>1, EmptySeq DEF LoopInit, Services
  <2>3. OneLeftOver
    <3>1. 0 <= 1 /\ 0 <= 2
      OBVIOUS
    <3>2. QED
      BY <2>2, <3>1, Zenon DEF OneLeftOver
  <2>4. GateKnown
    <3>1. NoneSent("engage", "engage")
      BY <2>2 DEF NoneSent
    <3>2. phase = "IDLE" /\ ~gate_engaged
      BY <2>1 DEF LoopInit, Init
    <3>3. QED
      BY <3>1, <3>2 DEF GateKnown
  <2>5. QED
    BY <2>3, <2>4
<1>2. LoopInv /\ OneLeftOver /\ GateKnown /\ [LoopNext]_loopVars
         => OneLeftOver' /\ GateKnown'
  BY LoopOneLeftOver, LoopGate DEF EngageInv
<1>3. GateKnown => (phase = "FINISHED" => GateDisengaged)
  BY DEF GateKnown, GateDisengaged
<1>4. (phase = "FINISHED" => AuthorityWithdrawn)
        /\ (phase = "FINISHED" => GateDisengaged) => FinishedIsSafe
  BY DEF FinishedIsSafe
<1>5. QED
  BY <1>1, <1>2, <1>3, <1>4, LoopInvariance, FinishedWithdrawn, PTL DEF LoopSpec
=============================================================================

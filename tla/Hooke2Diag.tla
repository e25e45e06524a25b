----------------------------- MODULE Hooke2Diag -----------------------------
(***************************************************************************)
(* Hooke2DiagPublisher: the node that watches the Hooke2 chassis.  Its     *)
(* callbacks and the updater's two checks run on a single-threaded         *)
(* executor.  It keeps a window of commanded and of measured accelerations *)
(* and raises a brake or accelerator fault when the vehicle does not do    *)
(* what it is told; a second check watches for silence and system faults.  *)
(*                                                                         *)
(* Every message carries the time it was sent, here its age in ticks.  The *)
(* environment is a vehicle that answers a command one tick later, or one  *)
(* whose brake or drive is broken, on a drive made of phases that last as  *)
(* long as they like.  Each topic sends once per tick; at most Dropouts    *)
(* messages are lost.  Accelerations are in m/s^2.                         *)
(***************************************************************************)
EXTENDS Integers, Sequences, FiniteSetsExt

CONSTANTS
    StoreTime,        \* accel_store_time, in ticks
    DiffThresh,       \* accel_diff_thresh
    MinDecel,         \* min_decel
    MaxAccel,         \* max_accel
    Timeout,          \* can_timeout_sec and hooke2_msg_timeout_sec, in ticks
    Scripts,          \* the phases a drive may go through
    Dropouts,         \* how many messages may be lost
    None              \* no message yet

Topics == {"can", "rpt", "odom", "acc", "cmd"}
Healths == {"healthy", "weak_brake", "weak_drive", "repaired"}
\* A stored sample; ages past every bound they are compared with saturate.
Samples == [age : 0..StoreTime + 1, value : Int]
Reports == [enabled : BOOLEAN, sys_fault : BOOLEAN]
Reasons == {"can", "msgs", "other"}
\* Who drives (auto), how fast, whether a wire reports a fault, whether the
\* node's CAN topic is served, whether the reports come (bus), whether the
\* vehicle has been repaired, the commanded acceleration, and the one the
\* driver or standing still brings about when the command does not.
Phases == [auto : BOOLEAN, fast : BOOLEAN, fault : BOOLEAN, can : BOOLEAN,
           bus : BOOLEAN, repair : BOOLEAN, cmd : Int, driver : Int]

ASSUME DiagAssumption ==
    /\ {StoreTime, DiffThresh, Timeout, Dropouts} \subseteq Nat
    /\ MinDecel \in Int /\ MaxAccel \in Int
    /\ Scripts \subseteq Seq(Phases) \ {<<>>}
    /\ None \notin Reports \cup BOOLEAN

VARIABLES
    last_can, last_msgs,     \* ticks since the last frame and report
    rpt,                     \* the synchronized reports, or None
    odom,                    \* fast enough for the fault check, or None
    acc_que, acc_cmd_que,
    checker,                 \* reasons of the last checkHooke2Msgs
    accel_brake,             \* result of the last checkHooke2AccelBrake
    due,                     \* topics that have not sent this tick
    drops,                   \* messages that may still be lost
    script,                  \* the phase of the drive and those to come
    vehicle                  \* its health and its measured acceleration

nodeVars == <<last_can, last_msgs, rpt, odom, acc_que, acc_cmd_que>>
vars == <<last_can, last_msgs, rpt, odom, acc_que, acc_cmd_que, checker,
          accel_brake, due, drops, script, vehicle>>
envVars == <<drops, script, vehicle>>

Now == Head(script)

\* The node subscribes to /can_driver_node/can_tx; the launch files have the
\* driver publish /can_tx_to_autoware, so frames may be missing while the
\* reports made from them come in.
Sending(phase) ==
    Topics \ ((IF phase.can THEN {} ELSE {"can"})
              \cup (IF phase.bus THEN {} ELSE {"rpt"}))

Init ==
    /\ last_can = 0 /\ last_msgs = 0
    /\ rpt = None /\ odom = None
    /\ acc_que = <<>> /\ acc_cmd_que = <<>>
    /\ checker = {} /\ accel_brake = "OK"
    /\ script \in Scripts
    /\ due = Sending(Now) /\ drops = Dropouts
    /\ vehicle \in [health : Healths \ {"repaired"}, acc : {0}]

-----------------------------------------------------------------------------
(* Subscriptions.                                                          *)

Arrives(topic) == topic \in due /\ due' = due \ {topic}

callbackCan ==
    /\ Arrives("can")
    /\ last_can' = 0
    /\ UNCHANGED <<last_msgs, rpt, odom, acc_que, acc_cmd_que, checker,
                   accel_brake, envVars>>

\* The interface fills in enabled and hooke2_sys_fault_active only; the
\* per-actuator fault fields of its reports keep their default, false.
callbackHooke2Rpt ==
    /\ Arrives("rpt")
    /\ "can" \notin due
    /\ last_msgs' = 0
    /\ rpt' = [enabled |-> Now.auto, sys_fault |-> Now.fault]
    /\ UNCHANGED <<last_can, odom, acc_que, acc_cmd_que, checker,
                   accel_brake, envVars>>

callbackOdometry ==
    /\ Arrives("odom")
    /\ odom' = Now.fast
    /\ UNCHANGED <<last_can, last_msgs, rpt, acc_que, acc_cmd_que, checker,
                   accel_brake, envVars>>

Ready == rpt # None /\ odom # None
Autonomous == Ready /\ rpt.enabled

\* At most one old sample leaves per new one.
\* Mutant: the age is that of the sample just added.
DropOldByNewest(que) ==
    IF Len(que) >= 2 /\ que[Len(que)].age > StoreTime THEN Tail(que) ELSE que
DropOld(que) ==
    IF Len(que) >= 2 /\ que[2].age > StoreTime THEN Tail(que) ELSE que

\* Mutant: low speed does not clear the window.
addValueAnySpeed(que, value) ==
    IF Autonomous
    THEN DropOld(Append(que, [age |-> 0, value |-> value]))
    ELSE <<>>
addValueToQue(que, value) ==
    IF Autonomous /\ odom
    THEN DropOld(Append(que, [age |-> 0, value |-> value]))
    ELSE <<>>

callbackAccel ==
    /\ Arrives("acc")
    /\ acc_que' = addValueToQue(acc_que, vehicle.acc)
    /\ UNCHANGED <<last_can, last_msgs, rpt, odom, acc_cmd_que, checker,
                   accel_brake, envVars>>

callbackControlCmd ==
    /\ Arrives("cmd")
    /\ acc_cmd_que' = addValueToQue(acc_cmd_que, Now.cmd)
    /\ UNCHANGED <<last_can, last_msgs, rpt, odom, acc_que, checker,
                   accel_brake, envVars>>

-----------------------------------------------------------------------------
(* The updater.                                                            *)

isTimeoutCanMsgs == last_can > Timeout
isTimeoutHooke2Msgs == last_msgs > Timeout
receivedHooke2Msgs == rpt # None

\* hooke2_sys_fault_active with no actuator's own fault field set; looked
\* at only when nothing else is wrong.
isOtherAccident == rpt.sys_fault /\ ~isTimeoutCanMsgs /\ ~isTimeoutHooke2Msgs

\* Mutant: silence of the CAN bus is noticed only once reports have come.
checkMsgsOnceReceived ==
    IF ~receivedHooke2Msgs THEN {}
    ELSE (IF isTimeoutCanMsgs THEN {"can"} ELSE {})
         \cup (IF isTimeoutHooke2Msgs THEN {"msgs"} ELSE {})
         \cup (IF isOtherAccident THEN {"other"} ELSE {})
checkHooke2Msgs ==
    (IF isTimeoutCanMsgs THEN {"can"} ELSE {})
    \cup (IF isTimeoutHooke2Msgs THEN {"msgs"} ELSE {})
    \cup (IF receivedHooke2Msgs /\ isOtherAccident THEN {"other"} ELSE {})

checkEnoughDataStored(que) == que # <<>> /\ Head(que).age > StoreTime

Values(que) == {que[i].value : i \in 1..Len(que)}
getMinValue(que) == Min(Values(que))
getMaxValue(que) == Max(Values(que))

\* Not even the strongest deceleration reaches the weakest one commanded.
checkBrakeFault ==
    LET maximum_acc_cmd == Max({getMaxValue(acc_cmd_que), MinDecel})
    IN  /\ maximum_acc_cmd < 0
        /\ maximum_acc_cmd - getMinValue(acc_que) < -DiffThresh

\* Mutant: the sign of the difference is swapped.
checkAccelFaultSwapped ==
    LET minimum_acc_cmd == Min({getMinValue(acc_cmd_que), MaxAccel})
    IN  /\ minimum_acc_cmd > 0
        /\ getMaxValue(acc_que) - minimum_acc_cmd > DiffThresh
checkAccelFault ==
    LET minimum_acc_cmd == Min({getMinValue(acc_cmd_que), MaxAccel})
    IN  /\ minimum_acc_cmd > 0
        /\ minimum_acc_cmd - getMaxValue(acc_que) > DiffThresh

EnoughData ==
    /\ Autonomous
    /\ checkEnoughDataStored(acc_que) /\ checkEnoughDataStored(acc_cmd_que)

\* Mutant: an alarm stands until there is data to withdraw it.
checkAccelBrakeLatched ==
    IF EnoughData /\ checkBrakeFault THEN "brake"
    ELSE IF EnoughData /\ checkAccelFault THEN "accel" ELSE accel_brake
checkHooke2AccelBrake ==
    IF EnoughData /\ checkBrakeFault THEN "brake"
    ELSE IF EnoughData /\ checkAccelFault THEN "accel" ELSE "OK"

\* The updater's timer runs both checks.
update ==
    /\ checker' = checkHooke2Msgs
    /\ accel_brake' = checkHooke2AccelBrake
    /\ UNCHANGED <<nodeVars, due, envVars>>

-----------------------------------------------------------------------------
(* The environment.                                                        *)

Lost ==
    /\ drops > 0
    /\ \E topic \in due : due' = due \ {topic}
    /\ drops' = drops - 1
    /\ UNCHANGED <<nodeVars, checker, accel_brake, script, vehicle>>

\* A command within the vehicle's limits.
Wanted(cmd) == Max({MinDecel, Min({MaxAccel, cmd})})

\* The vehicle's answer to the command of the tick before: missing where the
\* brake or the drive is broken.
Response ==
    LET wanted == Wanted(Now.cmd)
    IN  CASE vehicle.health = "weak_brake" -> Max({wanted, 0})
          [] vehicle.health = "weak_drive" -> Min({wanted, 0})
          [] OTHER                         -> wanted

Older(n, bound) == IF n <= bound THEN n + 1 ELSE n
Aged(que) == [i \in DOMAIN que |-> [que[i] EXCEPT !.age = Older(@, StoreTime)]]

\* Time passes, perhaps into the next phase.  The vehicle follows the
\* commands while it drives itself at speed.
Tick ==
    /\ due = {}
    /\ last_can' = Older(last_can, Timeout)
    /\ last_msgs' = Older(last_msgs, Timeout)
    /\ acc_que' = Aged(acc_que) /\ acc_cmd_que' = Aged(acc_cmd_que)
    /\ script' \in {script} \cup (IF Len(script) > 1 THEN {Tail(script)} ELSE {})
    /\ LET next == Head(script')
           follows == Now.auto /\ Now.fast /\ next.auto /\ next.fast
       IN  /\ vehicle' = [health |-> IF next.repair /\ vehicle.health # "healthy"
                                    THEN "repaired" ELSE vehicle.health,
                          acc |-> IF follows THEN Response ELSE next.driver]
           /\ due' = Sending(next)
    /\ UNCHANGED <<rpt, odom, checker, accel_brake, drops>>

Next ==
    \/ callbackCan \/ callbackHooke2Rpt \/ callbackOdometry
    \/ callbackAccel \/ callbackControlCmd
    \/ update \/ Lost \/ Tick

\* The executor serves every topic and the updater, and time goes on.
Fairness ==
    /\ WF_vars(callbackCan) /\ WF_vars(callbackHooke2Rpt)
    /\ WF_vars(callbackOdometry) /\ WF_vars(callbackAccel)
    /\ WF_vars(callbackControlCmd) /\ WF_vars(Tick)
    /\ WF_vars(update)

Spec == Init /\ [][Next]_vars /\ Fairness

-----------------------------------------------------------------------------
\* Types.  The windows stay bounded although addValueToQue drops at most one
\* old sample per new one.
TypeOK ==
    /\ last_can \in 0..Timeout + 1 /\ last_msgs \in 0..Timeout + 1
    /\ rpt \in Reports \cup {None} /\ odom \in BOOLEAN \cup {None}
    /\ acc_que \in Seq(Samples) /\ acc_cmd_que \in Seq(Samples)
    /\ Len(acc_que) <= StoreTime + 2 /\ Len(acc_cmd_que) <= StoreTime + 2
    /\ checker \subseteq Reasons
    /\ accel_brake \in {"OK", "brake", "accel"}
    /\ due \subseteq Topics /\ drops \in 0..Dropouts
    /\ script \in Seq(Phases) \ {<<>>}
    /\ vehicle \in [health : Healths, acc : Int]

\* A vehicle that answers its commands within a tick is never accused, over
\* any sequence of takeovers, hand-backs, slow phases, command changes and
\* the lost messages allowed: the two windows always share a command and
\* the answer to it.
NoFalseAlarm == vehicle.health = "healthy" => accel_brake = "OK"

\* A check that finds a fault has seen no measurement that comes within
\* accel_diff_thresh of the answer to any command of the window: not one of
\* the decelerations, or accelerations, asked for was delivered.
AlarmJustified ==
    [][ \A i \in 1..Len(acc_cmd_que), j \in 1..Len(acc_que) :
          LET answer == Wanted(acc_cmd_que[i].value)
          IN  /\ update /\ accel_brake' = "brake"
                    => acc_que[j].value > answer + DiffThresh
              /\ update /\ accel_brake' = "accel"
                    => acc_que[j].value < answer - DiffThresh ]_vars

\* Driving itself at speed, with its reports coming in.
Watched == Now.auto /\ Now.fast /\ Now.bus

\* A vehicle that keeps being told to brake, or to drive, and does not is
\* reported and stays reported, whatever the windows held before: samples of
\* earlier phases leave them, although only one goes for each that comes.
FaultFound ==
    /\ <>[](vehicle.health = "weak_brake" /\ Watched /\ Now.cmd < -DiffThresh)
         => <>[](accel_brake = "brake")
    /\ <>[](vehicle.health = "weak_drive" /\ Watched /\ Now.cmd > DiffThresh)
         => <>[](accel_brake = "accel")

\* Once the vehicle answers again the accusation is withdrawn for good.
AlarmEnds ==
    (vehicle.health = "repaired") ~> [](accel_brake = "OK")

\* Silence that lasts is reported for good, even if nothing was ever heard.
\* With the topic names of the launch files this is every drive: the CAN
\* alarm then stands although the bus is alive.
SilenceReported ==
    /\ <>[](~Now.can) => <>[]("can" \in checker)
    /\ <>[](~Now.bus) => <>[]("msgs" \in checker)

-----------------------------------------------------------------------------
(* The inductive invariant behind TypeOK.                                  *)

\* A window holds at most one sample per tick, the oldest first, as far as
\* ages are told apart; none of the present tick while its topic is due.
Spaced(que, topic) ==
    /\ \A i, j \in 1..Len(que) :
          i < j => \/ que[i].age = StoreTime + 1
                   \/ que[i].age >= que[j].age + (j - i)
    /\ topic \in due => \A i \in 1..Len(que) : que[i].age >= 1

WindowInv == TypeOK /\ Spaced(acc_que, "acc") /\ Spaced(acc_cmd_que, "cmd")

-----------------------------------------------------------------------------
(* The inductive invariant behind NoFalseAlarm.  Every disturbance, a lost *)
(* message or a change of phase, costs at most one command its answer; the *)
(* windows reach back further than there are disturbances.                 *)

\* A vehicle that is taken over says so on the bus, in the rest of the drive.
TakeoverReported ==
    \A n \in 1..Len(script) : script[n].bus \/ script[n].auto

\* How old the last command with its answer may be: the disturbances still to
\* come are kept in reserve.
Slack == StoreTime - (drops + (Len(script) - 1))

\* From the n-th on, the samples of the window are no older than age.
Recent(que, n, age) == \A k \in n..Len(que) : que[k].age <= age

\* A command with its answer, neither about to leave its window.
Matched(accs, cmds, age) ==
    \E i \in 1..Len(cmds), j \in 1..Len(accs) :
       /\ accs[j].value = Wanted(cmds[i].value)
       /\ Recent(accs, j, age) /\ Recent(cmds, i + 1, age)

Young(que, age) == que = <<>> \/ que[1].age <= age

\* The checks pass, at least until the youngest of this is too old.
Covered(accs, cmds, age) ==
    Young(accs, age) \/ Young(cmds, age) \/ Matched(accs, cmds, age)

\* This acceleration answers a stored command.
Answers(acc, cmds) ==
    \E i \in 1..Len(cmds) :
       acc = Wanted(cmds[i].value) /\ Recent(cmds, i + 1, 0)

\* The node knows that the vehicle does not follow its commands now.
KnownDriver ==
    \/ ~Now.auto /\ (rpt = None \/ ~rpt.enabled)
    \/ ~Now.fast /\ odom \in {None, FALSE}

\* Unless disturbed, the next measurement answers a stored command or finds
\* the node aware that there is nothing to answer.
NextSecure ==
    IF Now.auto /\ Now.fast
    THEN \/ "cmd" \in due \/ acc_cmd_que = <<>>
         \/ acc_cmd_que[Len(acc_cmd_que)].value = Now.cmd
    ELSE \/ ~Now.auto /\ ("rpt" \in due \/ rpt = None \/ ~rpt.enabled)
         \/ ~Now.fast /\ ("odom" \in due \/ odom \in {None, FALSE})

Owed == IF NextSecure THEN 1 ELSE 2

\* Cover for the age, or a measurement due that brings it.
Provided(age) ==
    \/ Covered(acc_que, acc_cmd_que, age)
    \/ /\ "acc" \in due
       /\ Covered(acc_que, acc_cmd_que, age + 1)
       /\ Answers(vehicle.acc, acc_cmd_que) \/ KnownDriver

AnswersKept == Slack >= Owed /\ Provided(Slack - Owed)

AlarmInv ==
    /\ WindowInv
    /\ TakeoverReported
    /\ vehicle.health = "healthy" => AnswersKept /\ accel_brake = "OK"
=============================================================================

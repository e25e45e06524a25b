--------------------------- MODULE Hooke2CanPath ---------------------------
(***************************************************************************)
(* A command's way to the Hooke2 chassis and its report's way back: the    *)
(* interface packs the command (Hooke2Codec), the driver sends it          *)
(* (CanDriver), the chassis reads it, follows it and reports, the driver   *)
(* receives and publishes the report and canTxCallback unpacks it.         *)
(*                                                                         *)
(* A script says which commands and reports a behaviour is about and the   *)
(* values they take one after the other.  The interface repeats its        *)
(* commands and the chassis its reports, so a lost frame is made good.     *)
(***************************************************************************)
EXTENDS CanDriver, Hooke2Codec

CONSTANT Scripts   \* sequence of [brand, commands, reports, steps, disturbed]

VARIABLES
    script,    \* the number of the script
    step,      \* how far the script has come
    chassis,   \* report id -> what is true of the chassis
    seen       \* report id -> what the interface last made of the report

pathVars == <<script, step, chassis, seen>>

Script == Scripts[script]
CanFrame(id, data) == [id |-> id, data |-> data]

-----------------------------------------------------------------------------
(* The chassis, by the signal descriptions in the handlers' comments.      *)

Actuator == [enabled |-> Dbc(1, 2, 0), hardware |-> Dbc(15, 8, 0),
             communication |-> Dbc(23, 8, 0)]
FourWords(names) ==
    [n \in Range(names) |->
       Dbc(16 * ((CHOOSE i \in DOMAIN names : names[i] = n) - 1) + 7, 16, 0)]
Wheels == <<"front_left", "front_right", "rear_left", "rear_right">>

DbcReports ==
    500 :> (Actuator @@ [pedal |-> Dbc(31, 16, 0)])
    @@ 501 :> (Actuator @@ [pedal |-> Dbc(31, 16, 0)])
    @@ 502 :> (Actuator @@ [angle |-> Dbc(31, 16, -500), spd |-> Dbc(63, 8, 0)])
    @@ 503 :> [gear |-> Dbc(2, 3, 0), fault |-> Dbc(15, 8, 0)]
    @@ 504 :> [parking |-> Dbc(0, 1, 0), fault |-> Dbc(15, 8, 0)]
    @@ 505 :> [acc |-> Dbc(7, 12, 0), speed |-> Dbc(23, 16, 0),
               mode |-> Dbc(36, 2, 0), drive |-> Dbc(39, 3, 0),
               steer |-> Dbc(10, 3, 0), brake_light |-> Dbc(11, 1, 0),
               front |-> Dbc(33, 1, 0), back |-> Dbc(34, 1, 0),
               aeb |-> Dbc(32, 1, 0), errcode |-> Dbc(47, 8, 0),
               turn |-> Dbc(57, 2, 0)]
    @@ 506 :> FourWords(Wheels)
    @@ [id \in 507..511 |-> FourWords(<<1, 2, 3, 4>>)]
    @@ 512 :> [voltage |-> Dbc(7, 16, 0), current |-> Dbc(23, 16, -32000),
               soc |-> Dbc(39, 8, 0)]
    @@ [id \in 514..515 |-> [i \in 0..7 |-> Dbc(8 * i + 7, 8, 0)]]
    @@ 516 :> [i \in 0..0 |-> Dbc(7, 8, 0)]

\* The frame of a report, negative values in two's complement.
ReportData(id, truth) ==
    DbcWrite({LET d == DbcReports[id][field]
              IN  <<d.bit, d.length, (truth[field] - d.offset) % 2^d.length>>
                : field \in DOMAIN truth})

\* What becomes true of the chassis when it obeys a command.
ReportOf(command) == command + 400
Obeys(command, read, truth) ==
    [truth EXCEPT ![ReportOf(command)] =
       [field \in DOMAIN @ |->
          CASE field = "enabled" -> read.en
            [] field \in {"gear", "parking"} -> read.target
            [] field \in {"pedal", "angle", "spd", "turn", "drive", "steer"} ->
                 read[field]
            [] OTHER -> @[field]]]

AtRest(id) == [field \in DOMAIN DbcReports[id] |-> 0]

\* The codec on the values of the scripts, worked out once.
CommandFrames ==
    [n \in DOMAIN Scripts |->
       [i \in DOMAIN Scripts[n].steps |->
          [k \in DOMAIN Scripts[n].commands |->
             LET id == Scripts[n].commands[k]
             IN  CanFrame(id, UpdateData(id, Scripts[n].steps[i][id]))]]]
Reads ==
    [f \in UNION {Range(fs) : fs \in UNION {Range(CommandFrames[n]) : n \in DOMAIN Scripts}} |->
       ChassisReads(f.id, f.data)]
Truths(id) ==
    {AtRest(id)}
    \cup {w[id] : w \in {v \in UNION {Range(Scripts[n].steps) : n \in DOMAIN Scripts} :
                           id \in DOMAIN v}}
    \cup {Obeys(f.id, Reads[f], id :> AtRest(id))[id] :
            f \in {g \in DOMAIN Reads : ReportOf(g.id) = id}}
ReportFrames == [id \in ReportIds |->
                   [t \in Truths(id) |-> CanFrame(id, ReportData(id, t))]]

-----------------------------------------------------------------------------
\* The chassis measures what a step says, and is at rest otherwise.
Measured(n, wanted) ==
    [id \in Scripts[n].reports |->
       IF id \in DOMAIN wanted THEN wanted[id] ELSE AtRest(id)]

PathInit ==
    /\ Init
    /\ script \in DOMAIN Scripts /\ brand = Script.brand
    /\ step = 1
    /\ chassis = Measured(script, Script.steps[1])
    /\ seen = [id \in Script.reports |-> <<>>]

\* The interface wants something else, or the chassis measures something else.
NextStep ==
    /\ step < Len(Script.steps)
    /\ step' = step + 1
    /\ LET next == Script.steps[step + 1]
       IN  chassis' = [id \in Script.reports |->
                         IF id \in DOMAIN next THEN next[id] ELSE chassis[id]]
    /\ UNCHANGED <<vars, script, seen>>

\* The timer of the interface sends a frame per command.
PublishCan ==
    /\ Script.commands # <<>>
    /\ Request(CommandFrames[script][step])
    /\ UNCHANGED pathVars

Obey ==
    /\ Carry
    /\ chassis' = Obeys(Head(wire).id, Reads[Head(wire)], chassis)
    /\ UNCHANGED <<script, step, seen>>

Report ==
    /\ Arrive(SetToSeq({ReportFrames[id][chassis[id]] : id \in Script.reports}))
    /\ UNCHANGED pathVars

Unpack ==
    /\ Take
    /\ LET f == Head(out)
       IN  seen' = IF isTargetId(f.id) /\ f.id \in ReportIds
                   THEN [seen EXCEPT ![f.id] = canTxCallback(f.id, f.data)]
                   ELSE seen
    /\ UNCHANGED <<script, step, chassis>>

\* A script may leave out failing calls and the end of the node.
Undisturbed == UNCHANGED <<ok, faults>> /\ phase' \in {"running", "failed"}

PathNext ==
    \/ Driver /\ UNCHANGED pathVars /\ (Script.disturbed \/ Undisturbed)
    \/ NextStep \/ PublishCan \/ Obey \/ Report \/ Unpack

\* The driver's thread and executor, the interface's timer, the bus and the
\* chassis keep going; faults, stops and new wishes may never come.
PathSpec ==
    /\ PathInit /\ [][PathNext]_<<vars, pathVars>>
    /\ WF_<<vars, pathVars>>(can_rx_thread /\ UNCHANGED pathVars)
    /\ WF_<<vars, pathVars>>(Send /\ UNCHANGED <<faults, pathVars>>)
    /\ WF_<<vars, pathVars>>(Join /\ UNCHANGED pathVars)
    /\ WF_<<vars, pathVars>>(PublishCan)
    /\ WF_<<vars, pathVars>>(Obey)
    /\ WF_<<vars, pathVars>>(Report)
    /\ WF_<<vars, pathVars>>(Unpack)

-----------------------------------------------------------------------------
\* A report's meaning: the value of a signal, a state's name, a fault's
\* presence.
GearName == <<"PARK", "REVERSE", "NEUTRAL", "DRIVE">>
SignalMeans(field, value) ==
    CASE field \in {"enabled", "hardware", "communication"} -> value = 1
      [] field = "gear" -> IF value \in DOMAIN GearName THEN GearName[value] ELSE "NONE"
      [] OTHER -> value
Meaning(id, truth) ==
    CASE id \in 500..502 \cup {504} ->
           [field \in DOMAIN truth |-> SignalMeans(field, truth[field])]
      [] id = 503 -> [gear |-> SignalMeans("gear", truth.gear), fault |-> truth.fault = 1]
      [] id = 505 ->
           [hazards |-> truth.turn = 3]
           @@ [truth EXCEPT !.turn = IF @ = 1 THEN "left"
                                     ELSE IF @ = 2 THEN "right" ELSE "disable"]
      [] OTHER -> truth

\* What the interface should come to read of the reports of a step: what
\* it commanded, held to the signal's range, where a report follows a command.
Expected ==
    [n \in DOMAIN Scripts |->
       [i \in DOMAIN Scripts[n].steps |->
          LET wanted == Scripts[n].steps[i]
              truth == Measured(n, wanted)
              Held(c) == [field \in Fields(c) |-> Bounded(c, field, wanted[c][field])]
          IN  [id \in Scripts[n].reports |->
                 Meaning(id, IF id - 400 \in Range(Scripts[n].commands)
                             THEN Obeys(id - 400, Held(id - 400), truth)[id]
                             ELSE truth[id])]]]

\* While the driver runs, what the interface reads back settles to what it
\* commands (and to what the sensors measure), through packing, sending,
\* the chassis, receiving in batches and unpacking, although writes and
\* reads may fail and queues drop their oldest.  The driver has to catch up
\* with the queue now and then: the frames of a cycle that are always the
\* oldest would never be sent.  With the ESD client, whose batches may hold
\* old records, the reading comes back to the command again and again.
EchoSettles ==
    LET Echoed == seen = Expected[script][step]
    IN  <>[](phase = "running" /\ ok) /\ []<>(tx = <<>>) =>
          IF Script.brand = "esd" THEN []<>Echoed ELSE <>[]Echoed
=============================================================================

-------------------------- MODULE MCHooke2CanPath --------------------------
EXTENDS Hooke2CanPath

MCFrame == [id : (100..105) \cup ReportIds, data : Data]

\* Commands: both ends of each range, beyond them, and set bits around every
\* field.  The scaled values are ones whose quotient by the precision is
\* exact as a double.
Throttle(en, pedal) == [en |-> en, vel |-> 1200, acc |-> 250, pedal |-> pedal]
Brake(en, pedal) == [aeb |-> 1, dec |-> 0, pedal |-> pedal, en |-> en]
Steer(en, angle, spd) == [en |-> en, angle |-> angle, spd |-> spd]
Target(target) == [target |-> target, en |-> 1]
Mode(turn, drive, steer) ==
    [turn |-> turn, vin |-> 1, drive |-> drive, steer |-> steer]

Command(card, id, steps) ==
    [brand |-> card, commands |-> <<id>>, reports |-> {id + 400},
     steps |-> [i \in DOMAIN steps |-> id :> steps[i]], disturbed |-> FALSE]

\* Measurements: negative values, every byte in use.
Vcu(acc, speed, turn) ==
    [acc |-> acc, speed |-> speed, mode |-> 1, drive |-> 1, steer |-> 2,
     brake_light |-> 1, front |-> 0, back |-> 1, aeb |-> 0, errcode |-> 200,
     turn |-> turn]
Wheel(w) == [front_left |-> w, front_right |-> 65535 - w, rear_left |-> 258,
             rear_right |-> 4660]
Sensor(card, id, steps) ==
    [brand |-> card, commands |-> <<>>, reports |-> {id},
     steps |-> [i \in DOMAIN steps |-> id :> steps[i]], disturbed |-> FALSE]

Disturbed(s) == [s EXCEPT !.disturbed = TRUE]

MCScripts ==
    <<Disturbed(Command("socket", 102, <<Steer(1, 440, 250)>>)),
     Disturbed(Command("esd", 102, <<Steer(1, -13, 7)>>)),
     Disturbed(Command("innodisk", 101, <<Brake(1, 1000)>>)),
     Command("socket", 102, <<Steer(1, 440, 250), Steer(1, -441, 251)>>),
     Command("kvaser", 100, <<Throttle(1, 1001)>>),
     [brand |-> "kvaser", commands |-> <<100, 101>>, reports |-> {500, 501},
      steps |-> <<100 :> Throttle(1, 300) @@ 101 :> Brake(1, 40)>>,
      disturbed |-> FALSE],
     Command("innodisk", 103, <<Target(4), Reset(103)>>),
     Command("kvaser", 104, <<Target(1), Reset(104)>>),
     Command("innodisk", 105, <<Mode(3, 1, 2)>>),
     Sensor("socket", 505, <<Vcu(-1000, -32768, 1), Vcu(1000, 32767, 2)>>),
     Sensor("esd", 506, <<Wheel(513), Wheel(61185)>>),
     Sensor("kvaser", 507, <<<<1, 65535, 256, 43981>>>>),
     Sensor("kvaser", 511, <<<<256, 1, 0, 255>>>>),
     Sensor("innodisk", 512,
            <<[voltage |-> 4812, current |-> -32000, soc |-> 87],
              [voltage |-> 30000, current |-> 33535, soc |-> 100]>>),
     Sensor("kvaser", 515, <<[i \in 0..7 |-> 65 + i]>>),
     Sensor("kvaser", 516, <<[i \in 0..0 |-> 90]>>),
     Sensor("unknown", 500, <<AtRest(500)>>)>>
=============================================================================

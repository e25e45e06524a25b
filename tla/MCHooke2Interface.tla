------------------------- MODULE MCHooke2Interface -------------------------
EXTENDS Hooke2Interface

Inputs == {"control", "actuation", "gear", "emergency", "turn", "hazard",
           "request", "door", "park", "vcu", "wires", "tick", "shutdown"}
Script(b) == [k \in Inputs |-> IF k \in DOMAIN b THEN b[k] ELSE <<>>]

Forward == [v |-> 100, a |-> 5]
Backward == [v |-> -50, a |-> -20]
Manual == [mode |-> 0, turn |-> "off", speed |-> 0]
Auto == [mode |-> 1, turn |-> "off", speed |-> 0]
Hazards == [mode |-> 1, turn |-> "hazards", speed |-> 0]
Moving == [mode |-> 2, turn |-> "off", speed |-> 60]
Off == [on |-> {"steer"}, faulty |-> {}, gear |-> "forward"]
On == [on |-> Wires, faulty |-> {}, gear |-> "forward"]
Faulty == [on |-> Wires, faulty |-> {"brake"}, gear |-> "park"]

\* A takeover and a second request; gear changes at and above standstill;
\* lamps; an emergency with pedal commands; silence; the end of the process.
MCScripts == {
    Script([control |-> <<Forward>>, gear |-> <<"DRIVE">>,
            request |-> <<TRUE, TRUE>>, vcu |-> <<Manual, Auto>>,
            wires |-> <<Off, Off>>]),
    Script([control |-> <<Forward>>, gear |-> <<"DRIVE">>,
            request |-> <<TRUE, FALSE>>, vcu |-> <<Auto, Moving>>,
            wires |-> <<On, Faulty>>]),
    Script([control |-> <<Backward>>, gear |-> <<"PARK", "REVERSE">>,
            park |-> <<FALSE, TRUE, FALSE>>, vcu |-> <<Auto, Moving>>,
            wires |-> <<Off, Off>>]),
    Script([control |-> <<Forward>>, gear |-> <<"DRIVE">>,
            request |-> <<TRUE>>, vcu |-> <<Hazards>>, wires |-> <<On>>,
            turn |-> <<"left">>, hazard |-> <<"disable", "enable">>]),
    Script([control |-> <<Backward>>, gear |-> <<"NEUTRAL">>,
            vcu |-> <<Auto>>, wires |-> <<On>>,
            emergency |-> <<TRUE, FALSE, TRUE>>,
            actuation |-> <<[accel |-> 30, brake |-> 0]>>]),
    Script([control |-> <<Forward>>, gear |-> <<"DRIVE">>,
            request |-> <<TRUE>>, vcu |-> <<Auto>>, wires |-> <<Off>>,
            tick |-> <<"tick", "tick">>]),
    Script([request |-> <<TRUE, FALSE>>, door |-> <<"open">>,
            shutdown |-> <<"shutdown">>])}
=============================================================================

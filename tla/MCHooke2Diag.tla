---------------------------- MODULE MCHooke2Diag ----------------------------
(* Instance: a window of four ticks, commands beyond min_decel, zero and   *)
(* positive, and drives that change them while the windows fill, hand the  *)
(* vehicle over and back, slow down, lose the bus or report a wire fault.  *)
EXTENDS Hooke2Diag

MCMinDecel == -3

Phase(auto, fast, cmd) ==
    [auto |-> auto, fast |-> fast, fault |-> FALSE, can |-> TRUE,
     bus |-> TRUE, repair |-> FALSE, cmd |-> cmd, driver |-> 0]
Brake  == Phase(TRUE, TRUE, -5)
Drive  == Phase(TRUE, TRUE, 2)
Coast  == Phase(TRUE, TRUE, 0)
Slow   == Phase(TRUE, FALSE, -5)
Manual == [Phase(FALSE, TRUE, -5) EXCEPT !.driver = 2]
Faulty == [Coast EXCEPT !.fault = TRUE]
Dead   == [Brake EXCEPT !.can = FALSE, !.bus = FALSE]
\* The wiring of the launch files.
Wired(phase) == [phase EXCEPT !.can = FALSE]

Fixed(phase) == [phase EXCEPT !.repair = TRUE]

MCScripts == {<<Brake, Drive>>, <<Drive, Slow, Fixed(Brake)>>,
              <<Brake, Manual, Fixed(Brake)>>, <<Wired(Drive), Dead>>,
              <<Dead, Faulty>>}
=============================================================================

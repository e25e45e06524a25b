------------------------ MODULE MCRaceRuntimeManager ------------------------
EXTENDS RaceRuntimeManager

\* The publishers the start-up waits for send the one message that matters;
\* velocity, mode, gear, gate command and engagement vary freely.
MCOffered ==
    [i \in Inputs |->
        CASE i = "localization_state" -> {"initialized"}
          [] i = "trajectory"         -> {"valid"}
          [] i = "route_state"        -> {}
          [] i = "control_mode"       -> {"autonomous", "manual"}
          [] i = "gear"               -> {"drive", "park"}
          [] OTHER                    -> MessagesOf[i]]

\* A velocity report may be one tick old.
MCTimeout == [i \in Inputs |-> IF i = "velocity" THEN 1 ELSE 0]

MCFlaky == {"velocity"}
=============================================================================

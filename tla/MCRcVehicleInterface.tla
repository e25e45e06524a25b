------------------------ MODULE MCRcVehicleInterface ------------------------
EXTENDS RcVehicleInterface

\* A speed below the minimum, one above the maximum, in both directions.
MCVelocities == {-3, -1, 0, 3}

\* Every reading of the fault bits with every reading of the Hall sensor;
\* the sensor bits are the four consistent patterns and one contradiction.
MCFeedbacks ==
    {fb \in ChassisFeedback :
        /\ <<fb.hall_valid, fb.standstill, fb.speed_zero>> \in
             {<<TRUE, FALSE, FALSE>>, <<FALSE, TRUE, TRUE>>,
              <<FALSE, FALSE, TRUE>>, <<TRUE, TRUE, TRUE>>}
        /\ fb.history => fb.fault_latched}
=============================================================================

--------------------------- MODULE MCRcReconnect ---------------------------
(***************************************************************************)
(* The vehicle interface with one history variable: whether a feedback     *)
(* frame was handled since the present connection was opened.              *)
(***************************************************************************)
EXTENDS RcVehicleInterface

VARIABLE heard

\* One healthy frame and one with a live fault are enough to lose the port
\* in the middle of a batch.
MCFeedbacks ==
    {fb \in ChassisFeedback :
        /\ fb.auto_enabled /\ ~fb.rc_override /\ ~fb.halted
        /\ ~fb.fault_latched /\ ~fb.history
        /\ ~fb.hall_valid /\ fb.standstill /\ fb.speed_zero}

MCVelocities == {0}

HistoryInit == Init /\ heard = FALSE

HistoryNext ==
    /\ Next
    /\ heard' = (serial_open' /\ (heard \/ rx' < rx))

HistorySpec == HistoryInit /\ [][HistoryNext]_<<vars, heard>>

(***************************************************************************)
(* The rejection of rc_vehicle_interface_node.cpp:600-603, "rejected       *)
(* AUTONOMOUS mode until the first valid chassis feedback frame is         *)
(* received", for the connection the command frames will go to:            *)
(* close_serial forgets the feedback of the previous one (line 331).       *)
(***************************************************************************)
FeedbackBeforeAuthority ==
    [][ ~autonomous_requested /\ autonomous_requested' => heard ]_<<vars, heard>>
=============================================================================

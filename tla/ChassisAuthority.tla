-------------------------- MODULE ChassisAuthority --------------------------
(***************************************************************************)
(* What the RC vehicle interface promises the chassis, without serial      *)
(* ports, timers or telemetry: an authority that is granted and withdrawn, *)
(* and the frames that may follow one another on one connection.           *)
(*                                                                         *)
(* RcVehicleInterface implements this specification (Authority in that     *)
(* module is the refinement mapping).                                      *)
(***************************************************************************)
EXTENDS ChassisFrames

VARIABLES
    authority,   \* "none", "zero_only" (diagnostic handshake) or "full"
    cleared,     \* a clear-fault frame was sent under the present authority
    wire         \* last frame written on the present connection

vars == <<authority, cleared, wire>>

-----------------------------------------------------------------------------
Init ==
    /\ authority = "none"
    /\ cleared = FALSE
    /\ wire = NoFrame

\* Authority is granted (or granted again); nothing is written for it.
Grant ==
    /\ authority' \in {"zero_only", "full"}
    /\ cleared' = (cleared /\ authority = "zero_only" /\ authority' = "zero_only")
    /\ UNCHANGED wire

\* The handshake ends: the historical fault is reported clear.
Release ==
    /\ authority = "zero_only"
    /\ authority' = "full"
    /\ cleared' = FALSE
    /\ UNCHANGED wire

\* An enabled frame.  Under zero_only authority it is the zero frame.
Command ==
    /\ authority # "none"
    /\ \E speed \in Speeds, steering \in BOOLEAN :
          /\ authority = "zero_only" => speed = 0 /\ ~steering
          /\ wire' = MotionFrame(speed, steering)
    /\ UNCHANGED <<authority, cleared>>

\* One clear-fault frame, directly after an enabled zero frame.
Clear ==
    /\ authority = "zero_only"
    /\ wire = ZeroFrame
    /\ ~cleared
    /\ cleared' = TRUE
    /\ wire' = ClearFrame
    /\ UNCHANGED authority

\* Authority ends and the stop frame is the last thing on the wire.
Withdraw ==
    /\ authority' = "none"
    /\ cleared' = FALSE
    /\ wire' = StopFrame

\* The connection is gone, and with it whatever was authorised on it.
Disconnect ==
    /\ authority' = "none"
    /\ cleared' = FALSE
    /\ wire' = NoFrame

Next == Grant \/ Release \/ Command \/ Clear \/ Withdraw \/ Disconnect

Spec == Init /\ [][Next]_vars
=============================================================================

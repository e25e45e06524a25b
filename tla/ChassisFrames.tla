---------------------------- MODULE ChassisFrames ----------------------------
(***************************************************************************)
(* The command frames of the RC chassis, as far as the firmware's reaction *)
(* distinguishes them (ChassisCommand of rc_serial_protocol.hpp).          *)
(***************************************************************************)
EXTENDS Integers

CONSTANTS
    MinimumSpeed,   \* minimum_command_speed_mps: slower commands become zero
    MaximumSpeed    \* maximum_command_speed_mps: faster commands are clamped

ASSUME SpeedAssumption ==
    /\ MinimumSpeed \in Nat
    /\ MaximumSpeed \in Nat \ {0}
    /\ MinimumSpeed <= MaximumSpeed

Speeds == -MaximumSpeed .. MaximumSpeed

\* steering is abstracted to whether a nonzero angle is commanded.
ChassisCommand ==
    [enable : BOOLEAN, software_stop : BOOLEAN, clear_fault : BOOLEAN,
     speed : Speeds, steering : BOOLEAN]

Frame(enable, stop, clear, speed, steering) ==
    [enable |-> enable, software_stop |-> stop, clear_fault |-> clear,
     speed |-> speed, steering |-> steering]

\* NoFrame: nothing was written on this connection yet.
NoFrame    == Frame(FALSE, FALSE, FALSE, 0, FALSE)
StopFrame  == Frame(FALSE, TRUE, FALSE, 0, FALSE)
ClearFrame == Frame(FALSE, FALSE, TRUE, 0, FALSE)
MotionFrame(speed, steering) == Frame(TRUE, FALSE, FALSE, speed, steering)
ZeroFrame  == MotionFrame(0, FALSE)
=============================================================================

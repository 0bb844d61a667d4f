----------------------- MODULE MCVehicleCommandSender -----------------------
(* Instances of VehicleCommandSender for TLC: an executor and a              *)
(* HomePositionSetter of another process.                                   *)
EXTENDS VehicleCommandSender, TLC

CONSTANTS exec, home, SetHome, DoSetMode

TwoThreads    == exec :> exec @@ home :> home
OwnComponents == exec :> 1 @@ home :> 0
=============================================================================

-------------------------- MODULE MCMissionExecutor --------------------------
(***************************************************************************)
(* MissionExecutor on small missions.                                      *)
(***************************************************************************)
EXTENDS MissionExecutor

Flight   == <<"takeoff", "waypoint", "waypoint", "hold", "rtl">>
Short    == <<"takeoff", "waypoint", "custom", "waypoint">>
Settings == <<"takeoff", "settings", "waypoint", "custom", "waypoint", "reset", "waypoint", "land">>
Cameras  == <<"takeoff", "camera", "waypoint", "custom", "camera", "land">>
Broken   == <<"takeoff", "undefined">>

FlightMissions == {Flight, Short, Broken}
SettingsOnly   == {Settings}
CamerasOnly    == {Cameras}
LiveMissions   == {Flight, Cameras, Settings}
=============================================================================

SPECIFICATION FairSpec
CONSTANTS
  Missions <- LiveMissions
  OnResume = "default"
  OnFailure = "default"
  FailingModes = {"Rtl"}
  CustomOutcomes = {"done", "later"}
  StoredOutcomes = {"done", "abort"}
  Resumable = {}
  LandedKnown = {TRUE}
  Persistence = TRUE
  SaveResults = {"saved"}
  UserAborts = TRUE
  PositionLost = TRUE
  MaxLevel = 10
  MaxStops = 3
INVARIANTS
  KeepersOwnState SettingsKept NoFlightFromGround
PROPERTIES
  MissionEnds
CHECK_DEADLOCK FALSE

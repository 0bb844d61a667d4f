SPECIFICATION Spec
CONSTANTS
  Missions <- CamerasOnly
  OnResume = "default"
  OnFailure = "default"
  FailingModes = {"Rtl"}
  CustomOutcomes = {"done", "later"}
  StoredOutcomes = {"done", "abort"}
  Resumable = {}
  LandedKnown = {TRUE, FALSE}
  Persistence = FALSE
  SaveResults = {"saved"}
  UserAborts = TRUE
  PositionLost = FALSE
  MaxLevel = 10
  MaxStops = 2
INVARIANTS
  AbortEndsMission
CHECK_DEADLOCK FALSE

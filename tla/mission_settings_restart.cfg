SPECIFICATION Spec
CONSTANTS
  Missions <- SettingsOnly
  OnResume = "storing"
  OnFailure = "default"
  FailingModes = {}
  CustomOutcomes = {"done"}
  StoredOutcomes = {"done"}
  Resumable = {}
  LandedKnown = {TRUE}
  Persistence = TRUE
  SaveResults = {"saved"}
  UserAborts = FALSE
  PositionLost = FALSE
  MaxLevel = 10
  MaxStops = 3
INVARIANTS
  SettingsKept
CHECK_DEADLOCK FALSE

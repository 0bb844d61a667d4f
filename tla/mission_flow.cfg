SPECIFICATION Spec
CONSTANTS
  Missions <- FlightMissions
  OnResume = "storing"
  OnFailure = "custom"
  FailingModes = {"own", "Rtl", "Descend", "Takeoff", "Loiter"}
  CustomOutcomes = {"done", "later", "abort", "jump"}
  StoredOutcomes = {"done"}
  Resumable = {"custom"}
  LandedKnown = {TRUE, FALSE}
  Persistence = TRUE
  SaveResults = {"saved", "unopened", "unwritten"}
  UserAborts = TRUE
  PositionLost = TRUE
  MaxLevel = 5
  MaxStops = 2
INVARIANTS
  TypeOK OneContinuation AbortEndsMission FliesInOwnMode AbortsNested
PROPERTIES
  ImplementsMission
CHECK_DEADLOCK FALSE

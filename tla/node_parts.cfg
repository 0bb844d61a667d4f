SPECIFICATION PartsSpec
CONSTANTS
  Parts = {"checks", "shared", "mode", "mission file", "vtol", "navigation", "frames"}
  None = None
  Absent = Absent
  Partial = Partial
  NaN = NaN
  Period = 8
  Interval = 1
  MaxAway = 2
  MaxStart = 7
  MaxEvents = 1
  MaxLost = 30
  Nodes = {1, 2}
  Topics = {1, 2}
  MaxInstances = 3
  MaxTokens = 3
  MaxCallbacks = 5
  TypeNames = {"TrajectoryNoPosition", "FwLateralLongitudinal", "Attitude", "DirectActuators", "RoverSpeedRate"}
  MaxTypes = 2
  UserRates = {0, 10}
  WhileDisarmed = FALSE
  Documents <- MissionDocuments
  RelativeName = FALSE
  MaxWrites = 3
  StatusTimeout = 3
  Spacing = 1
  ResetAfter = 2
  Limit = 2
  MaxChanges = 2
  MaxFaults = 1
  LocalFields = {"position_xy", "velocity_xy", "attitude"}
  GlobalFields = {"lat_lon", "altitude_msl"}
  CounterSize = 3
  Attitudes <- AttitudeSamples
  Points <- PointSamples
  Yaws <- YawSamples
  YawRates <- RateSamples
INVARIANTS
  PartsTypeOK LiveFmuKeepsProcess LostFmuEndsProcess
  OneInstance InOrderOfRegistration
  ConfigurationFitsSetpoint ControlsOnlyWhatItRequires TimerFollowsRate
  LatestLoaded RoundTrip PublishedUsable ConversionsAgree
PROPERTIES TransitionHappens
CHECK_DEADLOCK FALSE

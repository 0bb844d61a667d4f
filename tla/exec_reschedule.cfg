SPECIFICATION Spec
CONSTANTS
  own = own
  a = a
  b = b
  OwnMode = own
  NoMode = NoMode
  NoMsg = NoMsg
  Modes <- TwoModes
  Calls <- ScheduleCalls
  MaxReqs = 3
  MaxEvents = 1
  IssueFrom <- Rescheduler
  OneWait = TRUE
  CompletesAnytime = FALSE
  LooseAcks = FALSE
  Activation = "Always"
  ActivateWhileDisarmed = FALSE
  DeferStates = {"disabled"}
  ModeResults = {"Success"}
PROPERTIES StoredCallbackIsCalled
CHECK_DEADLOCK FALSE

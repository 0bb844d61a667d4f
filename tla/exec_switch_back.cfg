SPECIFICATION FairSpec
CONSTANTS
  own = own
  a = a
  b = b
  OwnMode = own
  NoMode = NoMode
  NoMsg = NoMsg
  Modes <- TwoModes
  Calls <- OneSchedule
  MaxReqs = 1
  MaxEvents = 2
  IssueFrom <- ExampleUser
  OneWait = TRUE
  CompletesAnytime = FALSE
  LooseAcks = FALSE
  Activation = "Always"
  ActivateWhileDisarmed = FALSE
  DeferStates = {"disabled"}
  ModeResults = {"Success"}
PROPERTIES AnsweredWhenSwitchedBack
CHECK_DEADLOCK FALSE

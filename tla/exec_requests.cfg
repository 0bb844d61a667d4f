SPECIFICATION FairSpec
CONSTANTS
  own = own
  a = a
  b = b
  OwnMode = own
  NoMode = NoMode
  NoMsg = NoMsg
  Modes <- TwoModes
  Calls <- AllCalls
  MaxReqs = 2
  MaxEvents = 2
  IssueFrom <- RetryingUser
  OneWait = TRUE
  CompletesAnytime = FALSE
  LooseAcks = FALSE
  Activation = "Immediately"
  ActivateWhileDisarmed = FALSE
  DeferStates = {"disabled"}
  ModeResults = {"Success"}
INVARIANTS TypeOK NoLostRequest
PROPERTIES ImplementsExecutor ArmingKeepsModeOff AnsweredWhenReplaced FollowsFmu
CHECK_DEADLOCK FALSE

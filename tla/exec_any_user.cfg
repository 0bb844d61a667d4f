SPECIFICATION Spec
CONSTANTS
  own = own
  a = a
  b = b
  OwnMode = own
  NoMode = NoMode
  NoMsg = NoMsg
  Modes <- TwoModes
  Calls <- AllCalls
  MaxReqs = 2
  MaxEvents = 1
  IssueFrom <- AnyUser
  OneWait = FALSE
  CompletesAnytime = TRUE
  LooseAcks = TRUE
  Activation = "OnlyWhenArmed"
  ActivateWhileDisarmed = TRUE
  DeferStates = {"disabled", "would"}
  ModeResults = {"Success", "ModeFailureOther"}
INVARIANTS AtMostOneAnswer ModeOnlyWhenSelected
CHECK_DEADLOCK FALSE

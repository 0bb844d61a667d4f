SPECIFICATION FairSpec
CONSTANTS
  NumParts = 2
  Topics <- TwoTopics
  FormatTries = 2
  RequestTries = 2
  Slots = {1, 2, 3}
  NoSlot = NoSlot
  NoMsg = NoMsg
  None = None
  OtherProcess = OtherProcess
  Systems <- SomeSystems
  PreShutdown = TRUE
  EmptyParts = {2}
  EarlyOverrides = {1}
INVARIANTS TypeOK OwnSlot CompatibleOnly AllOrNothing
PROPERTIES StartupEnds
CHECK_DEADLOCK FALSE

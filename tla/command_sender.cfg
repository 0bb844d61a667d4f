SPECIFICATION FairSpec
CONSTANTS
  exec = exec
  home = home
  SetHome = SetHome
  DoSetMode = DoSetMode
  Senders = {exec, home}
  Thread <- TwoThreads
  Component <- OwnComponents
  Commands = {SetHome, DoSetMode}
  HomeCommands = {SetHome}
  HomeSenders = {home}
  MaxTries = 2
  MaxCalls = 2
  NoSig = NoSig
  NoAck = NoAck
INVARIANTS TypeOK AnswerBelongs
PROPERTIES ImplementsCommand CallReturns
CHECK_DEADLOCK FALSE

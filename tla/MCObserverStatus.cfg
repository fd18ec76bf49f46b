CONSTANTS
  NumTasks = 4
  MaxTokens = 3
  MaxFaults = 1
  MaxOutbox = 2
SPECIFICATION StatusFairSpec
CHECK_DEADLOCK FALSE
INVARIANTS
  NoStrayClient
  StateIsTrue
  OnlineWhileServing
  GoneIsOffline
PROPERTIES
  TokenIsRenewed
  TokenIsPresented
  ShutdownEnds

CONSTANTS
  NumTasks = 2
  MaxTokens = 2
  MaxFaults = 0
  MaxOutbox = 2
SPECIFICATION StatusSpec
CHECK_DEADLOCK FALSE
INVARIANT ShutdownClosesMqtt

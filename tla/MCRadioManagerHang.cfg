CONSTANTS
  u1 = u1
  u2 = u2
  Clients <- OneClient
  Commands <- RadioCommands
  MaxConns = 2
  NumPorts = 1
  MaxRetries = 0
  MaxFaults = 1
  MaxThrows = 0
SPECIFICATION FairSpec
CHECK_DEADLOCK FALSE
PROPERTY RecoversAutomatically

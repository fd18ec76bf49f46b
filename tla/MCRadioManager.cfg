CONSTANTS
  u1 = u1
  u2 = u2
  Clients <- OneClient
  Commands <- RadioCommands
  MaxConns = 4
  NumPorts = 2
  MaxRetries = 1
  MaxFaults = 1
  MaxThrows = 1
SPECIFICATION FairSpec
CHECK_DEADLOCK FALSE
INVARIANTS
  OneConnectLoop
  LinksAreOwned
PROPERTY Reconnects

CONSTANTS
  r1 = r1
  r2 = r2
  Replies <- OneReply
  NoReply = NoReply
  QuietMs = 1
  TtlMs = 2
  IntervalMs = 2
  UncertainMs = 3
  MaxTime = 6
  MaxFaults = 1
SPECIFICATION OutFairSpec
INVARIANTS
  IInv
PROPERTIES
  AdvertsKeepTheirDistance
  ImplementsSharedAirtime
  PendingAdvertIsAttempted

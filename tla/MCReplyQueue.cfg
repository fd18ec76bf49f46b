CONSTANTS
  r1 = r1
  r2 = r2
  r3 = r3
  Replies <- ThreeReplies
  NoReply = NoReply
  QuietMs = 2
  TtlMs = 3
  MaxTime = 5
  MaxFaults = 1
SPECIFICATION FairSpec
INVARIANTS
  NoOvertaking
  DuplicatesNeedFaults
  ExpiredWasNotSent
PROPERTIES
  EveryReplyResolves
  ImplementsDelivery

CONSTANTS
  r1 = r1
  r2 = r2
  r3 = r3
  Replies <- TwoReplies
  NoReply = NoReply
  QuietMs = 2
  TtlMs = 3
  MaxTime = 6
  MaxFaults = 1
SPECIFICATION FairSpec
PROPERTY TtlBoundsTheQueue

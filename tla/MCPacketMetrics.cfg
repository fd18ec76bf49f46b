CONSTANTS
  NumBrokers = 2
  NumPackets = 2
  req = req
  raw = raw
  Codes = {req, raw}
  Buckets = {"other"}
  BucketOf <- MCBucketOf
  RetentionMs = 1
  OneDayMs = 2
  Ladder <- MCLadder
  MaxBuckets = 2
  NoSnapshot = NoSnapshot
  MaxTime = 4
  MaxFaults = 1
SYMMETRY MCSymmetry
SPECIFICATION Spec
CHECK_DEADLOCK FALSE
INVARIANTS
  DeliveriesAreTrue
  EveryPacketOnce
  OldSamplesGo
  ChartsAgree
  TrendsAreComplete

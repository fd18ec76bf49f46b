CONSTANTS
  Views = {"overview", "repeaters"}
  Presets = {"24h", "7d"}
  Customs = {"dates"}
  NoQuery = NoQuery
  NumSlots = 2
  MaxClicks = 2
  MaxFaults = 1
  MaxSamples = 1
  t0 = t0
  t1 = t1
  Texts <- BothTexts
  NoText = t0
  Total <- Found
  PageSize = 1
SPECIFICATION PageFairSpec
CHECK_DEADLOCK FALSE
INVARIANTS
  SingleFlight
  StatusIsTrue
  TableIsTrue
PROPERTY SampleIsShown

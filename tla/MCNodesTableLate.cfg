CONSTANTS
  Views = {"overview", "repeaters"}
  Presets = {"24h"}
  Customs = {"dates"}
  NoQuery = NoQuery
  NumSlots = 2
  MaxClicks = 3
  MaxFaults = 1
  MaxSamples = 1
  t0 = t0
  t1 = t1
  Texts <- BothTexts
  NoText = t0
  Total <- Found
  PageSize = 1
SPECIFICATION PageSpec
CHECK_DEADLOCK FALSE
INVARIANT TableShowsTheSearch

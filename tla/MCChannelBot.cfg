CONSTANTS
  m1 = m1
  m2 = m2
  m3 = m3
  pong = pong
  report = report
  Messages = {m1, m2, m3}
  Texts = {pong, report}
  TextOf <- MCTextOf
  MaxHops = 1
  MinHops = 1
  DedupTtlMs = 2
  DedupMaxEntries = 2
  RepeatTimeoutMs = 2
  RepeatMaxEntries = 2
  MaxTime = 3
  MaxAccepts = 3
  MaxRestarts = 1
SPECIFICATION FairSpec
INVARIANT CacheIsExact
INVARIANT OnlyAcceptedIsRemembered
INVARIANT AccountsBalance
PROPERTY NothingOverdueStays
PROPERTY EveryCheckEnds
CHECK_DEADLOCK FALSE

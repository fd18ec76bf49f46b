CONSTANTS
  Replies = {1}
  Null = Null
  MaxFaults = 1
  Keys <- MCKeys
  Names = {"a", "b"}
  Types = {"REPEATER", "CHAT"}
  Queries <- MCQueries
  Searches <- MCSearches
  Pages <- MCPages
  MinQuery = 2
  MaxQuery = 3
  ShownDigits = 3
  MaxTime = 2
  MaxAdverts = 3
SPECIFICATION Spec
CHECK_DEADLOCK FALSE
INVARIANTS
  RepliesSurviveUpgrade
  UpgradeNeverSticks
  PendingRepliesRestore
  CountsMatchHistory
  ReadsMatchHistory

CONSTANTS
  Replies = {1}
  Null = Null
  MaxFaults = 0
  Keys <- MCKeys
  Names = {"a"}
  Types = {"REPEATER"}
  Queries <- MCQueries
  Searches <- MCSearches
  Pages <- MCPages
  MinQuery = 2
  MaxQuery = 3
  ShownDigits = 3
  MaxTime = 4
  MaxAdverts = 3
SPECIFICATION Spec
CHECK_DEADLOCK FALSE
INVARIANT TrendComparesPeriods

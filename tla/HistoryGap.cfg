CONSTANTS
  Syncers = {s1}
  Backfillers = {b1}
  Omitted <- OmittedIds
  MaxId = 4
  MaxGone = 1
  MaxRuns = 3
  PageSize = 2
  MaxMessages = 2
  RecallsRead = TRUE
SPECIFICATION HistorySpec
CHECK_DEADLOCK FALSE
INVARIANTS PagingLeavesNoGap

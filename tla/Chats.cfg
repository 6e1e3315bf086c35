SPECIFICATION MCSpec
CONSTANTS
  Syncers = {s1}
  Backfillers = {b1}
  Omitted <- OmittedIds
  MaxId = 4
  MaxGone = 1
  MaxRuns = 2
  PageSize = 2
  MaxMessages = 1
  RecallsRead = FALSE
  Numbers = {1, 2, 3}
  Dates = {1, 2}
  Limits = {1, 2}
  Wheres = {"w1", "w2"}
  MaxEdits = 1
  Here = here
  Other = other
  MessageIds = {m1, m2}
  MaxActs = 2
  Restrictions <- SomeRestrictions
  Rights <- SomeRights
  Unnamed = unnamed
  MaxChanges = 1
CHECK_DEADLOCK FALSE
INVARIANTS HistoryCovered PagesComplete ModerationHonest ReportSound
PROPERTIES NothingElseChanged

CONSTANTS
  Messages = {m1}
  a = a
  b = b
  Media = {a, b}
  None = None
  FileName <- OwnNames
  Jobs = {j1, j2}
  Ops = {"download", "upload", "index"}
  HistoryMedia = {"none", "downloaded", "skipped", "failed"}
  SyncMedia = {"downloaded", "skipped", "failed"}
  EditSeconds = {1}
  MaxVersions = 2
  MaxInbox = 1
SPECIFICATION CacheSpec
INVARIANTS MatchesAreCurrent FileOfCurrentMedia
SYMMETRY Symmetric
CHECK_DEADLOCK FALSE

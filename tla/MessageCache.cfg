CONSTANTS
  Messages = {m1}
  a = a
  b = b
  Media = {a, b}
  None = None
  FileName <- OwnNames
  Jobs = {j1, j2}
  Ops = {"backfill", "sync", "download", "delete"}
  HistoryMedia = {"none", "downloaded", "skipped", "failed"}
  SyncMedia = {"none", "downloaded", "skipped", "failed"}
  EditSeconds = {1}
  MaxVersions = 2
  MaxInbox = 1
SPECIFICATION CacheSpec
SYMMETRY Symmetric
CHECK_DEADLOCK FALSE
INVARIANTS IdentityNamesFile
PROPERTIES NewerEditsWin TombstonesStay

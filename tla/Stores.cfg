SPECIFICATION MCSpec
CONSTANTS
  p1 = p1
  p2 = p2
  Client = {p1, p2}
  NoClient = NoClient
  Peers = {peer}
  Account = Account
  MaxCalls = 2
  Limit = 1
  Window = 2
  Waits = {1, 2}
  MaxTime = 2
  Common = Common
  Chan = Chan
  User = User
  Channels = {}
  Private = {User}
  NoChat = NoChat
  Ids = {1, 2}
  Modes = {"all", "groups", "manual"}
  Feeds <- OneStream
  MaxOpens = 2
  f1 = f1
  f2 = f2
  Invocations = {p1, p2}
  FolderChats = {f1, f2}
  FolderKeys = {fk}
  FolderRequests <- SomeRequests
  MaxFolder = 3
  MaxElse = 1
SYMMETRY StoresSymmetry
CHECK_DEADLOCK FALSE
INVARIANTS LedgerHonest RejectionIsSafe CooldownHonoured WriteLimit NothingLost InOrder ExpiredNotPending FoldersConsistent
PROPERTIES FolderWritesMinimal

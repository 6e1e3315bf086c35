SPECIFICATION MCSpec
CONSTANTS
  c1 = c1
  c2 = c2
  k1 = k1
  send = send
  kick = kick
  f1 = f1
  f2 = f2
  Client = {c1, c2}
  NoClient = NoClient
  Peers = {}
  Account = Account
  MaxCalls = 2
  Limit = 2
  Window = 2
  Waits = {1}
  MaxTime = 0
  Keys = {k1}
  NoKey = NoKey
  Commands = {send, kick}
  Prints = {f1, f2}
  Plan <- MCPlan
  Handlers = {c1, c2}
  RandomIds = {r1}
  EventIds = {f1, f2}
  Interactions = {"view", "report"}
  Users = {u1, u2}
  ReaderPeers = {q1}
  ReaderOffsets = {1}
  MaxIssued = 1
  MaxAds = 2
  MaxStarts = 2
  MaxSwitches = 1
SYMMETRY Symmetric
INVARIANTS OneWriterPerKey StartedKeepsKey ReportHonest ReplayFaithful ReaderSafe
PROPERTIES KeepsPromise CallbacksAdmitted
CHECK_DEADLOCK FALSE

SPECIFICATION Spec
CONSTANTS
  c1 = c1
  c2 = c2
  k1 = k1
  send = send
  kick = kick
  f1 = f1
  f2 = f2
  Client = {c1, c2}
  NoClient = NoClient
  Peers = {}
  Account = Account
  MaxCalls = 2
  Limit = 2
  Window = 2
  Waits = {1}
  MaxTime = 0
  Keys = {k1}
  NoKey = NoKey
  Commands = {send, kick}
  Prints = {f1}
  Plan <- MCPlan
SYMMETRY Symmetric
INVARIANTS FloodWaitLeavesKeyFree
CHECK_DEADLOCK FALSE

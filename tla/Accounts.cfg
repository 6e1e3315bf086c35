SPECIFICATION MCSpec
CONSTANTS
  p1 = p1  p2 = p2  p3 = p3  u1 = u1  u2 = u2  k1 = k1  k2 = k2
  Clients = {p1, p2}
  Users = {u1, u2}
  Imported = {u2}
  Keys = {k1, k2}
  None = None
  MaxRuns = 3
  Processes = {p1, p2, p3}
  MaxSidecars = 2
CHECK_DEADLOCK FALSE
INVARIANTS SessionSafe DirectorySafe
PROPERTIES LockComesBack NothingTakenAway

SPECIFICATION Spec
CONSTANTS
  c1 = c1 c2 = c2 a1 = a1 v1 = v1 v2 = v2
  ServerIds = {0, 1}
  Clients <- TwoClients
  Admins <- OneAdmin
  Keys = {1}
  Values <- TwoValues
  Absent = Absent
  None = None
  SlowStart = FALSE
  ReuseIds = TRUE
  MaxCalls = 6
  MaxCrashes = 1
SYMMETRY ClientsAndValues
INVARIANTS TypeOK SingleWriter Durable NoStrandedLock
PROPERTY LoopsSeeOneMembership
CHECK_DEADLOCK FALSE

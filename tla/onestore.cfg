SPECIFICATION SpecC
CONSTANTS
  c1 = c1 c2 = c2 a1 = a1 v1 = v1 v2 = v2
  ServerIds = {0, 1, 2}
  Clients <- TwoClients
  Admins <- OneAdmin
  Keys = {1}
  Values <- TwoValues
  Absent = Absent
  None = None
  SlowStart = FALSE
  ReuseIds = FALSE
  MaxCalls = 5
  MaxCrashes = 1
SYMMETRY ClientsAndValues
PROPERTY IsOneStore
CHECK_DEADLOCK FALSE

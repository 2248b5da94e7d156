SPECIFICATION Spec
CONSTANTS
  c1 = c1 c2 = c2 a1 = a1 v1 = v1 v2 = v2
  ServerIds = {0, 1, 2}
  Clients <- OneClient
  Admins <- OneAdmin
  Keys = {1}
  Values <- OneValue
  Absent = Absent
  None = None
  SlowStart = FALSE
  ReuseIds = FALSE
  MaxCalls = 3
  MaxCrashes = 1
PROPERTY AddLeavesNoLock
CHECK_DEADLOCK FALSE

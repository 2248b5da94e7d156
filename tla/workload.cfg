SPECIFICATION FairSpec
CONSTANTS
  NumKeys = 5
  NumThreads = 2
  NumRequests = 6
  PutRatio = 1
  Cycle = 3
  Absent = Absent
  MaxTests = 2
  MaxFaults = 1
INVARIANTS TypeOK NoFalseAlarm NobodySpins
PROPERTY TestEnds
CHECK_DEADLOCK FALSE

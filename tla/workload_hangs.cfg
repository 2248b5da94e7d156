SPECIFICATION FairSpec
CONSTANTS
  NumKeys = 1
  NumThreads = 2
  NumRequests = 4
  PutRatio = 1
  Cycle = 2
  Absent = Absent
  MaxTests = 1
  MaxFaults = 0
PROPERTY TestEnds
CHECK_DEADLOCK FALSE

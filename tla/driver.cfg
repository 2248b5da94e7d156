SPECIFICATION FairSpec
CONSTANTS
  MaxClients = 2
  MaxServers = 2
  MaxThreads = 2
  MaxRuns = 2
  MaxCommands = 3
  MaxFailures = 1
  MaxFaults = 1
INVARIANTS TypeOK ThreadsHaveClients WaitsHaveCause
PROPERTIES IdsAreFresh CommandsEnd
CHECK_DEADLOCK FALSE

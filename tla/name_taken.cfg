SPECIFICATION Spec
CONSTANTS
  MaxClients = 2
  MaxServers = 2
  MaxThreads = 2
  MaxRuns = 1
  MaxCommands = 3
  MaxFailures = 1
  MaxFaults = 1
INVARIANT NamesAreFree
CHECK_DEADLOCK FALSE

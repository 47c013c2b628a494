CONSTANTS
  j1 = j1
  j2 = j2
  j3 = j3
  Jobs = {j1, j2}
  SocketClients = {j2}
  Signed = {j1}
  MaxConns = 1
  Deadline = 1
  JobRetention = 1
  ConnectionTTL = 2
  ChallengeTTL = 1
  MaxInFlightJobs = 1
  MaxRetainedJobs = 1
  MaxConnections = 2
  MaxRuntimeJobs = 1
  MaxClock = 4
  MaxFaults = 0
  MaxRestarts = 1
  RelayRestarts = TRUE
SPECIFICATION LiveSpec
CHECK_DEADLOCK FALSE
INVARIANTS
  FreshInv
  RetainedIsBounded
PROPERTIES
  RecordsAreReaped
  SocketsExpire

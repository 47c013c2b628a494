CONSTANTS
  j1 = j1
  j2 = j2
  j3 = j3
  Jobs = {j1, j2}
  SocketClients = {j1}
  Signed = {j1, j2}
  MaxConns = 2
  Deadline = 1
  JobRetention = 1
  ConnectionTTL = 2
  ChallengeTTL = 4
  MaxInFlightJobs = 1
  MaxRetainedJobs = 1
  MaxConnections = 2
  MaxRuntimeJobs = 1
  MaxClock = 3
  MaxFaults = 1
  MaxRestarts = 0
  RelayRestarts = FALSE
SPECIFICATION Spec
CONSTRAINT TimelyDigests
CHECK_DEADLOCK FALSE
INVARIANTS
  TypeOK
  GenerationNotReused
PROPERTIES
  KeepsPromise
  EvidenceIsNeverRetracted
  TerminalDigestIsFinal

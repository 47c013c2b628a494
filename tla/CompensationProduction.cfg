CONSTANTS
  e1 = e1
  e2 = e2
  e3 = e3
  e4 = e4
  Human = Human
  Execs = {e1}
  Op <- IssueOnly
  After <- Unordered
  HumanMay = {}
  MaxCommits = 4
  MaxPRs = 2
  MaxGov = 1
  ValidGov = {1}
  MergeMethodReported = TRUE
  EmptyListReport = "absent"
  MaxFaults = 1
  MaxEnv = 0
  LateRequests = TRUE
SPECIFICATION FairSpec
CHECK_DEADLOCK FALSE
PROPERTIES
  ProvenBranchIsCompensated

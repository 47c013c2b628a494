CONSTANTS
  e1 = e1
  e2 = e2
  e3 = e3
  e4 = e4
  Human = Human
  Execs = {e1, e2, e3}
  Op <- IssueIssueAbort
  After <- Unordered
  HumanMay = {}
  MaxCommits = 3
  MaxPRs = 2
  MaxGov = 1
  ValidGov = {1}
  MergeMethodReported = TRUE
  EmptyListReport = "absent"
  MaxFaults = 1
  MaxEnv = 0
  LateRequests = TRUE
SPECIFICATION Spec
CHECK_DEADLOCK FALSE
SYMMETRY IssuesAlike
INVARIANTS
  NoSecondPublication
  PublicationInv

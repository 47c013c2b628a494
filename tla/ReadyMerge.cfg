CONSTANTS
  e1 = e1
  e2 = e2
  e3 = e3
  e4 = e4
  Human = Human
  Execs = {e1, e2, e3}
  Op <- IssueReadyMerge
  After <- IssueFirst
  HumanMay = {"push", "closePR", "mergePR"}
  MaxCommits = 4
  MaxPRs = 1
  MaxGov = 1
  ValidGov = {1}
  MergeMethodReported = TRUE
  EmptyListReport = "absent"
  MaxFaults = 1
  MaxEnv = 2
  LateRequests = TRUE
SPECIFICATION Spec
CHECK_DEADLOCK FALSE
INVARIANTS
  ReadyHeadConforms
  MergesAdmittedHead
  MergeFailureMeansNotMerged
  RequestInv

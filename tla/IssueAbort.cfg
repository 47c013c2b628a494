CONSTANTS
  e1 = e1
  e2 = e2
  e3 = e3
  e4 = e4
  Human = Human
  Execs = {e1, e2}
  Op <- IssueAbort
  After <- Unordered
  HumanMay = {"push", "deleteBranch", "openPR", "closePR", "reopenPR", "mergePR", "retargetPR"}
  MaxCommits = 4
  MaxPRs = 2
  MaxGov = 1
  ValidGov = {1}
  MergeMethodReported = TRUE
  EmptyListReport = "absent"
  MaxFaults = 1
  MaxEnv = 2
  LateRequests = TRUE
SPECIFICATION Spec
CHECK_DEADLOCK FALSE
INVARIANTS
  TypeOK
  ReportWasTrue
  AbortDeletesWhatItSaw
  UndisturbedAbortCleansUp

CONSTANTS
  e1 = e1
  e2 = e2
  e3 = e3
  e4 = e4
  Human = Human
  Execs = {e1, e2}
  Op <- IssueAbort
  After <- Unordered
  HumanMay = {"push", "deleteBranch", "openPR", "toggleDraft", "closeIssue", "governance"}
  MaxCommits = 4
  MaxPRs = 2
  MaxGov = 2
  ValidGov = {1}
  MergeMethodReported = TRUE
  EmptyListReport = "available"
  MaxFaults = 2
  MaxEnv = 1
  LateRequests = TRUE
SPECIFICATION Spec
CHECK_DEADLOCK FALSE
INVARIANTS
  ReportWasTrue
  CompensationDeletesItsOwn
PROPERTIES
  ProvenBranchIsCompensated

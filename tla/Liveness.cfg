CONSTANTS
  e1 = e1
  e2 = e2
  e3 = e3
  e4 = e4
  Human = Human
  Execs = {e1, e2, e3, e4}
  Op <- Lifecycle
  After <- InSequence
  HumanMay = {"push", "toggleDraft", "mergePR", "deleteBranch"}
  MaxCommits = 4
  MaxPRs = 1
  MaxGov = 1
  ValidGov = {1}
  MergeMethodReported = FALSE
  EmptyListReport = "absent"
  MaxFaults = 1
  MaxEnv = 1
  LateRequests = TRUE
SPECIFICATION FairSpec
CHECK_DEADLOCK FALSE
PROPERTIES
  EveryExecutionEnds

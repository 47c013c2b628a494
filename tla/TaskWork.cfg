CONSTANTS
  c1 = c1
  c2 = c2
  c3 = c3
  f1 = f1
  f2 = f2
  f3 = f3
  t1 = t1
  t2 = t2
  p1 = p1
  p2 = p2
  x1 = x1
  x2 = x2
  r1 = r1
  r2 = r2
  u1 = u1
  root = root
  none = none
  Tasks = {t1, t2}
  Calls = {c1, c2, c3}
  Pushes = {u1}
  Finalizers = {f1, f2, f3}
  Root = root
  NoCommit = none
  Paths = {p1, p2}
  Contents = {x1}
  RootTree <- MCRootTree
  MaxBase = 2
  MaxEdits = 2
  MaxRewinds = 1
  MaxFaults = 1
  Task = t1
  TaskOf <- MCTaskOf
  Requests = {r1, r2}
  RequestOf <- MCRequestOf
  Changes <- MCChanges
  Scope <- MCScope
  MaxBegun = 2
  MaxDisturbances = 2
SPECIFICATION Spec
SYMMETRY OperationsAlike
CONSTRAINT FewSteps
CHECK_DEADLOCK FALSE
INVARIANTS
  TypeOK
  SucceededWasOnBranch
  AppliedAtMostOnce
  RetryResolves
  SuccessIsRecorded
  TerminatedAdmitsNothing
PROPERTIES
  LandsWithinScope
  RecordsAreFinal

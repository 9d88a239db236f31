SPECIFICATION Spec
CONSTANTS
  Nothing = Nothing
  Workers = {w1}
  Orders = {o1}
  Nameable <- AnyName
  Quota <- SequentialQuota
  Verdicts = {"FOUND"}
  SolverResults = {"OPTIMAL"}
  ScanMayFail = FALSE
  StartSolved = TRUE
INVARIANTS NothingOutlivesItsScenario ExplanationFresh
PROPERTIES ChildrenKeepParents StateNeverBackwards SnapshotsImmutable
CHECK_DEADLOCK FALSE

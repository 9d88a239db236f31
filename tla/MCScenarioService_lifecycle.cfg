SPECIFICATION Spec
CONSTANTS
  Nothing = Nothing
  Workers = {w1, w2}
  Orders = {o1}
  Nameable <- NoName
  Quota <- LifecycleQuota
  Verdicts = {"FOUND", "NONE"}
  SolverResults = {"OPTIMAL", "FEASIBLE", "ERROR"}
  ScanMayFail = FALSE
  StartSolved = FALSE
INVARIANTS TypeOK AcceptedOnlyAcceptable SolvedHasRun StoredRunWasValidated
PROPERTIES RunsNeverOverwritten
CHECK_DEADLOCK FALSE

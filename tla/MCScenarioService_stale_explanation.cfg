SPECIFICATION Spec
CONSTANTS
  Nothing = Nothing
  Workers = {w1}
  Orders = {o1}
  Nameable <- NoName
  Quota <- ReadingQuota
  Verdicts = {"FOUND", "NONE"}
  SolverResults = {"OPTIMAL"}
  ScanMayFail = FALSE
  StartSolved = TRUE
INVARIANTS ExplanationFresh
CHECK_DEADLOCK FALSE

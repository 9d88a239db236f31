SPECIFICATION Spec
CONSTANTS
  Nothing = Nothing
  Workers = {w1, w2}
  Orders = {o1}
  Nameable <- NoName
  Quota <- DeleteQuota
  Verdicts = {"FOUND", "NONE"}
  SolverResults = {"OPTIMAL"}
  ScanMayFail = FALSE
  StartSolved = TRUE
PROPERTIES EveryRequestEnds
CHECK_DEADLOCK FALSE

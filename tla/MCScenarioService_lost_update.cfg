SPECIFICATION Spec
CONSTANTS
  Nothing = Nothing
  Workers = {w1, w2}
  Orders = {o1, o2}
  Nameable <- NoName
  Quota <- SearchQuota
  Verdicts = {"FOUND", "NONE"}
  SolverResults = {"OPTIMAL"}
  ScanMayFail = FALSE
  StartSolved = TRUE
PROPERTIES AlternativesKept
CHECK_DEADLOCK FALSE

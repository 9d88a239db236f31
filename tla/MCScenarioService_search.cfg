SPECIFICATION Spec
CONSTANTS
  Nothing = Nothing
  Workers = {w1, w2}
  Orders = {o1, o2}
  Nameable <- NoName
  Quota <- SearchQuota
  Verdicts = {"FOUND"}
  SolverResults = {"OPTIMAL", "FEASIBLE"}
  ScanMayFail = FALSE
  StartSolved = TRUE
INVARIANTS LinkLeadsToDerivedRun
PROPERTIES AlternativesKept
CHECK_DEADLOCK FALSE

SPECIFICATION Spec
CONSTANTS
  Nothing = Nothing
  Workers = {w1, w2}
  Orders = {o1, o2}
  Nameable <- AnyName
  Quota <- MemoryQuota
  SolverResults = {"OPTIMAL", "ERROR"}
SYMMETRY Alike
INVARIANTS TypeOK LinkLeadsToDerivedRun NothingLeftBehind
PROPERTIES AlternativesKept
CHECK_DEADLOCK FALSE

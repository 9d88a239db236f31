SPECIFICATION Spec
CONSTANTS
  Nothing = Nothing
  Requests = {q1, q2}
  Biggest <- PastTheLimit
  PadLimit = 4
  Radix = 4
  PageSize = 2
  Crashes = 2
  Failures = 1
INVARIANTS
  TypeOK
  CounterLeads
  HeldIsFree
CHECK_DEADLOCK FALSE

\* Searches whose solver may run out of time before it has any plan.
SPECIFICATION Spec
CONSTANTS
  Snapshots <- NoSnaps
  Searches <- SolveSearches
INVARIANT NoneWasSearched
CHECK_DEADLOCK FALSE

\* One order in every combination of up to two departures from a perfect fit,
\* and three orders competing for three slots, under every solver behaviour.
SPECIFICATION Spec
CONSTANTS
  Snapshots <- SolveSnaps
  Searches <- SolveSearches
INVARIANTS
  TypeOK
  StoredRunsPass
  OthersStayOnBaseline
  GateAgreesWithValidator
  ModelStaysFeasible
  ObjectivesDescribePlan
  OptimalPlanIsUnique
  UnplacedMeansFull
  SlotsNeverMaskService
PROPERTIES
  KeepsPromise
  EventuallyAnswered
CHECK_DEADLOCK FALSE

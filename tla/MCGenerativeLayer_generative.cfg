SPECIFICATION Spec
CONSTANTS
  Clients = {c1}
  Configured = {TRUE, FALSE}
  Runs <- MCRuns
  Conforming <- MCConforming
  OffSchema <- MCOffSchema
  Documents <- MCDocuments
  KnownTerminals = {"A", "B", "C"}
  KnownShippers = {"SHP-1"}
  MaxBatch = 2
INVARIANT TypeOK
INVARIANT ServedIsGrounded
INVARIANT CardsAgreeWithRun
INVARIANT SourceTellsServed
INVARIANT SuggestionActionable
INVARIANT DraftsAreHonest
PROPERTY FailsOnlyOffSchema
PROPERTY WrittenOnce
PROPERTY EveryRequestEnds

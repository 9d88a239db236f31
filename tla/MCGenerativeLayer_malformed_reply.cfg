SPECIFICATION Spec
CONSTANTS
  Clients = {c1}
  Configured = {TRUE}
  Runs <- MCRuns
  Conforming <- MCConforming
  OffSchema <- MCOffSchema
  Documents <- MCDocuments
  KnownTerminals = {"A", "B", "C"}
  KnownShippers = {"SHP-1"}
  MaxBatch = 2
INVARIANT NeverFails

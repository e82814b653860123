SPECIFICATION Spec
SYMMETRY Interchangeable
CONSTANTS
  Drafts = {d1}
  Based = {d1}
  Contracts = {k1, k2}
  Clients = {c1}
  Sessions = {s1, s2}
  JobLimit = 2
  ResultLimit = 1
  MaxRevision = 2
  MaxPolicy = 2
  MaxJobs = 3
  MaxResults = 3
  MaxRuns = 2
  MaxChanges = 1
  MaxLosses = 1
  PrepareRetries = 1
INVARIANTS TypeOK LeaseExclusive ResultsAgree
PROPERTIES RecordedWhileCurrent ActiveRetained

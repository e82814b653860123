SPECIFICATION AskingSpec
CONSTANTS
  Drafts = {d1}
  Based = {d1}
  Contracts = {k1}
  Clients = {c1}
  Sessions = {s1, s2}
  JobLimit = 2
  ResultLimit = 2
  MaxRevision = 1
  MaxPolicy = 1
  MaxJobs = 1
  MaxResults = 4
  MaxRuns = 3
  MaxChanges = 0
  MaxLosses = 1
  PrepareRetries = 1
PROPERTIES PendingTriggered

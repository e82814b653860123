SPECIFICATION FairSpec
CONSTANTS
  Drafts = {d1}
  Based = {d1}
  Contracts = {k1}
  Clients = {c1, c2}
  Sessions = {s1, s2}
  JobLimit = 2
  ResultLimit = 2
  MaxRevision = 1
  MaxPolicy = 1
  MaxJobs = 2
  MaxResults = 2
  MaxRuns = 2
  MaxChanges = 0
  MaxLosses = 0
  PrepareRetries = 1
INVARIANTS OneJobPerKey
  

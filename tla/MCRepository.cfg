CONSTANTS
  r1 = r1
  r2 = r2
  l1 = l1
  l2 = l2
  Remote = {r1, r2}
  Local = {l1, l2}
  MaxRetries = 1
  MaxFaults = 2
SPECIFICATION FairSpec
INVARIANTS TypeOK RevisionCounts ConflictMeansContention
PROPERTIES ImplementsAtomicStore Answered
CHECK_DEADLOCK FALSE

CONSTANTS
  c1 = c1
  c2 = c2
  w1 = w1
  w2 = w2
  n1 = n1
  n2 = n2
  d1 = d1
  noDigest = noDigest
  Clients = {c1}
  Workers = {w1}
  Names = {n1}
  Mirrored = {n1}
  PackNames = {}
  Digests = {d1}
  NoDigest = noDigest
  FileCount <- MCFileCount
  Policies <- StrictOnly
  InitialPolicy <- Strict
  Reports <- AllClean
  MaxJobs = 2
  MaxPolicies = 2
  MaxTime = 0
  MaxChanges = 1
  MaxLosses = 1
SPECIFICATION Spec
INVARIANTS UniqueVersions TypeOK PendingHasWork EvidenceOncePerJob
PROPERTIES RevokedForever

CONSTANTS
  h1 = h1
  h2 = h2
  s1 = s1
  s2 = s2
  p1 = p1
  Packs = {p1}
  Members <- BothReleases
  Inputs = {i1, i2}
  i1 = i1
  i2 = i2
  Handlers = {h1, h2}
  Subjects = {s1, s2}
  Wanted = {p1}
  TransferTTL = 1
  TicketTTL = 1
  Retention = 1
  MaxTickets = 2
  MaxReceipts = 1
  MaxReleases = 2
  MaxEpochs = 2
  MaxAuths = 2
  MaxGrants = 1
  MaxTime = 2
SYMMETRY Interchangeable
SPECIFICATION Spec
INVARIANTS TypeOK OneReceipt SubjectsApart RetriesAcknowledged LimitsHonest
PROPERTIES ExpiredForever RevocationEndsAccess PackUnderOnePolicy

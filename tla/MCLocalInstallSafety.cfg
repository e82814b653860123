SPECIFICATION Spec
CONSTANTS
  d1 = d1
  d2 = d2
  k1 = k1
  Roots = {r1}
  Skills = {1}
  Digests = {d1, d2}
  Packs = {k1}
  Direct = Direct
  Absent = Absent
  Members <- MCMembers
  Processes = {p1, p2}
  Nobody = Nobody
  Edited = Edited
  Raced = Raced
  Torn = Torn
  NoStage = NoStage
  NoMarker = NoMarker
  MaxCrashes = 1
  MaxTears = 1
  MaxEdits = 1
INVARIANTS TypeOK Settled
PROPERTIES Atomically EditsSurvive
SYMMETRY Interchangeable

SPECIFICATION Spec
CONSTANTS
  d1 = d1
  d2 = d2
  k1 = k1
  Roots = {r1, r2}
  Skills = {1, 2}
  Digests = {d1}
  Packs = {k1}
  Direct = Direct
  Absent = Absent
  Members <- MCMembers
  Processes = {p1}
  Nobody = Nobody
  Edited = Edited
  Raced = Raced
  Torn = Torn
  NoStage = NoStage
  NoMarker = NoMarker
  MaxCrashes = 1
  MaxTears = 0
  MaxEdits = 0
INVARIANT Recoverable

SPECIFICATION Spec
CONSTANTS
  Project = {p1, p2}
  Key = {k1, k2, k3}
  Value = {v1, v2}
  MaxEntries = 2
  Ttl = 1
  None = None
SYMMETRY Symmetry
INVARIANTS
  TypeOK
  OnlyLatest
  RecentIsKept

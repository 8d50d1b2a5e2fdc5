SPECIFICATION FairSpec
CONSTANTS
  Doc = {d1, d2}
  Key = {k1}
  Reader = {r1, r2}
  Writer = {w1, w2}
  Ttl = 1
  MaxWrites = 2
  None = None
INVARIANTS
  TypeOK
  Coherent
PROPERTY
  StalenessEnds
CHECK_DEADLOCK FALSE

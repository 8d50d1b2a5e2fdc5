SPECIFICATION ServerSpec
CONSTANTS
  Request = {r1, r2, r3, r4}
  Project = {p1}
  User = {u1, u2}
  Worker = {w1, w2}
  MaxPerProject = 3
  MaxPerUser = 2
  MaxQueued = 2
  None = None
  Missing = Missing
  Invalid = Invalid
  Profile <- MCProfile
  Components <- MCComponents
  Environ <- MCEnviron
SYMMETRY Interchangeable
INVARIANTS
  ServerTypeOK
  CountsAreExact
  UsedPartsAreOpen
  StoppedLeavesNothing
CHECK_DEADLOCK FALSE

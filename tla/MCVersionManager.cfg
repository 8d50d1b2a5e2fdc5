SPECIFICATION FairSpec
CONSTANTS
  Version = {v1, v2, v3}
  Blank = {v3}
  Grace = 2
  None = None
  Down = Down
INVARIANTS
  AtMostOneActive
  SettledAgrees
PROPERTIES
  OnlyExpiredAreDeleted
  ActivationSettles

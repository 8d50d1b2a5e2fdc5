SPECIFICATION Spec
CONSTANTS
  Version = {v1, v2}
  Blank = {}
  Grace = 1
  None = None
  Down = Down
INVARIANT
  AtomicSwap

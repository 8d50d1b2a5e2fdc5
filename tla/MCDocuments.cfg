SPECIFICATION DocumentsSpec
CONSTANTS
  Kb = {kb1, kb2}
  Doc = {d1}
  Actor = {a1, a2}
  MaxChunks = 2
  MaxRevs = 3
  None = None
INVARIANTS
  IngestedIsIndexed
  DeletedIsGone
  RawFollows

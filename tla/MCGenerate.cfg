SPECIFICATION FairSpec
CONSTANTS
  u1 = u1
  shared = shared
  inKb1 = inKb1
  inKb2 = inKb2
  public = public
  c0 = c0
  c1 = c1
  User = {u1}
  Shared = shared
  Doc = {inKb1, inKb2, public}
  Owner <- Owners
  ChunkId <- ChunkIds
  Query = {q1}
  Call = {g1, g2}
  Ttl = 1
  FoundTtl = 0
  MaxRetries = 1
  MaxRevs = 2
  None = None
INVARIANTS
  TypeOK
  OwnAnswersFresh
PROPERTY
  StaleAnswersEnd
CHECK_DEADLOCK FALSE

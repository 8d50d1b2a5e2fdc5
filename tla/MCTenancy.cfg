SPECIFICATION Spec
CONSTANTS
  u1 = u1
  u2 = u2
  shared = shared
  k = k
  default = default
  Id <- MCId
  User <- MCUser
  KbName = {k}
  KbChoice <- MCKbChoice
  Doc = {d, Blank}
  Blank = Blank
  SharedUser = shared
  Nobody = Nobody
  ScopeChoice <- MCScopeChoice
  FilterChoice <- MCFilterChoice
  DefaultKb = default
  Website = "website"
  Actor = {j1, j2}
  VectorName = {"dense", "bm25", "other"}
  Unnamed = Unnamed
  IndexSparse = "bm25"
  NoBlock = NoBlock
  Absent = Absent
  Row <- MCRow
  Registered = {"website", "custom"}
  Joined <- MCJoined
  MaxJobs = 2
SYMMETRY Symmetry
INVARIANTS
  TypeOK
  Isolation
  IndexedIsServed
  CreationIsExclusive

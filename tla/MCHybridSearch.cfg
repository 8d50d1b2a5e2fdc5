SPECIFICATION SearchSpec
CONSTANTS
  p1 = p1
  p2 = p2
  p3 = p3
  p4 = p4
  c1 = c1
  c2 = c2
  c3 = c3
  Point = {p1, p2, p3, p4}
  ChunkId <- ChunkIds
  Overlap <- Overlaps
  Lengths <- TextLengths
  MaxScore = 1
  ScoreUnit = 3782
  Limit = 2
  Settings <- ProjectSettings
  RrfK = 60
  MaxChanges = 1
  Nothing = Nothing
INVARIANTS
  SearchTypeOK
  AgreementKept
  CutIsJustified

SPECIFICATION FairSpec
CONSTANTS
  Job = {j1, j2, j3, j4}
  Worker = {w1, w2}
  MaxSize = 2
  Idle = Idle
  Stopped = Stopped
INVARIANTS
  TypeOK
  FirstInFirstOut
  RecordsMatchPlaces
  NoJobLost
  CountersAgree
PROPERTIES
  BoardSpec
  AcceptedIsDecided
  BlockedIsServed
  ShutdownReturns
CHECK_DEADLOCK FALSE

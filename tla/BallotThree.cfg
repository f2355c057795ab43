CONSTANTS
  n1 = n1
  n2 = n2
  n3 = n3
  Node = {n1, n2, n3}
  Value = {1, 2}
  UINT32_MAX = 3
  QuorumSlices <- MCSlices
  VBlocking <- MCVBlocking
  Validity <- SomeMaybe
  Candidates <- Candidates3
  Hears <- Chain
  MaxCounter <- TimeOut2
  Restartable = {n2}
  MaxRestarts = 1
SPECIFICATION Spec
INVARIANTS NoBadState  Agreement Published
PROPERTIES HeardStable Muted SentNewer CommitFixed TimeoutMovesAtFirst
CHECK_DEADLOCK FALSE

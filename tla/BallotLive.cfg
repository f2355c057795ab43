CONSTANTS
  n1 = n1
  n2 = n2
  n3 = n3
  Node = {n1, n2}
  Value = {1, 2}
  UINT32_MAX = 3
  QuorumSlices <- MCSlices
  VBlocking <- MCVBlocking
  Validity <- AllValid
  Candidates <- AnyCandidates
  Hears <- Everyone
  MaxCounter <- OneTimeout
  Restartable = {}
  MaxRestarts = 0
SPECIFICATION FairSpec
PROPERTIES Spread Decides
CHECK_DEADLOCK FALSE

CONSTANTS
  n1 = n1
  n2 = n2
  n3 = n3
  Node = {n1, n2}
  Value = {1, 2}
  UINT32_MAX = 3
  QuorumSlices <- MCSlices
  VBlocking <- MCVBlocking
  Validity <- AllValid
  Candidates <- AnyCandidates
  Hears <- Everyone
  MaxCounter <- OneTimeout
  Restartable = {n1, n2}
  MaxRestarts = 1
SPECIFICATION Spec
PROPERTIES TimeoutMoves
CHECK_DEADLOCK FALSE

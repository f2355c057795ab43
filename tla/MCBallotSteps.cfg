CONSTANTS
  n1 = n1
  n2 = n2
  Node = {n1, n2}
  Value = {1, 2}
  UINT32_MAX = 3
  QuorumSlices <- MCSlices
  VBlocking <- MCVBlocking
  Validity <- MCValidity
  Candidates <- MCCandidates
  MaxCounter = 2
  MaxRestarts = 1
SPECIFICATION Spec
INVARIANTS NoAssertionFails Agreement
PROPERTIES ImplementsVoting
CHECK_DEADLOCK FALSE

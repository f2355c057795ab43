CONSTANTS
  Node = {1, 2}
  Value = {1, 2, 3}
  QuorumSlices <- MCSlices
  Proposals <- MCProposals
  Valid <- MCValid
  Variation <- MCVariation
  MaxRestarts <- MCRestarts
SPECIFICATION FairSpec
INVARIANTS NoBadState Backed
PROPERTIES SentNewer Nominated Converges
CHECK_DEADLOCK FALSE

CONSTANTS
  Node = {1, 2, 3, 4}
  Configs <- MCConfigs
SPECIFICATION Spec
INVARIANTS BlockingMeetsSlices QuorumFound ClosestIsBest LeaderPossible NormalForm

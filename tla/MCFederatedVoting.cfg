CONSTANTS
  n1 = n1
  n2 = n2
  n3 = n3
  n4 = n4
  Node = {n1, n2, n3, n4}
  Good = {n1, n2, n3}
  Value = {1, 2}
  UINT32_MAX = 1
  QuorumSlices <- MCSlices
SPECIFICATION Spec
INVARIANTS Agreement IInv
SYMMETRY Sym
CHECK_DEADLOCK FALSE

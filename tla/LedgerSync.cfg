CONSTANTS
  MaxLedger = 10
  Freq = 4
  CatchupCounts = {0, 1, 5}
  FirstLedgers = {1, 2}
  MaxRestarts = 1
SPECIFICATION Spec
INVARIANTS InOrder Kept NoneMissing
PROPERTIES Drains
CHECK_DEADLOCK FALSE

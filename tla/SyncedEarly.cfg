CONSTANTS
  MaxLedger = 10
  Freq = 4
  CatchupCounts = {0, 1, 5}
  FirstLedgers = {1, 2}
  MaxRestarts = 1
SPECIFICATION Spec
INVARIANTS SameLedger
CHECK_DEADLOCK FALSE

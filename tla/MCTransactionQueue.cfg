CONSTANTS
  Account = {"A", "B"}
  Tx = {"a1", "a2", "bumpA", "bumpB", "b1"}
  SourceID <- MCSourceID
  FeeSourceID <- MCFeeSourceID
  SeqNum <- MCSeqNum
  FeeBid <- MCFeeBid
  NumOperations <- MCNumOperations
  Inner <- MCInner
  Balances <- MCBalances
  Limits = {2, 3}
  PendingDepth = 2
  BanDepth = 2
SPECIFICATION Spec
INVARIANTS FeesExact SizesExact Contiguous NotQueued
PROPERTIES Leaves

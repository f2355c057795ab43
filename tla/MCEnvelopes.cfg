CONSTANTS
  Env = {"b","c","d"}
  SlotOf <- MCSlotOf
  Peer = {"p1", "p2"}
  QSet = {"q", "bad"}
  TxSet = {"t"}
  Needs <- MCNeeds
  LocalQSet = "q"
  Sane = {"q"}
  Has <- MCHas
  MaxSlots = 1
  FirstSlot = 2
SPECIFICATION FairSpec
INVARIANTS Awaited Dropped LoopEnds
PROPERTIES DeliveredOnce Served
CHECK_DEADLOCK FALSE

SPECIFICATION FairSpec
CONSTANTS
  Query = {q1}
  Signals <- BuyOrHold
  MaxQty = 1
  MaxRetries = 0
  MaxDeliveries = 2
  Slots = 1
  Faults = {"timeout"}
INVARIANT OneSlotStarves
PROPERTY EveryQueryEnds
CHECK_DEADLOCK FALSE

SPECIFICATION Spec
CONSTANTS
  Query = {q1}
  Signals <- BuyOrHold
  MaxQty = 1
  MaxRetries = 1
  MaxDeliveries = 1
  Slots = 3
  Faults = {}
INVARIANT BlockForcesHold
CHECK_DEADLOCK FALSE

SPECIFICATION HangingSpec
CONSTANTS
  Query = {q1}
  Signals <- BuyOrHold
  MaxQty = 1
  MaxRetries = 1
  MaxDeliveries = 1
  Slots = 3
  Faults = {"agent", "publish", "timeout", "worker", "process"}
INVARIANT TradeIsCleared
INVARIANT RiskSeesBothBranches
INVARIANT VisibleIsRecorded
PROPERTY LateAnswersIgnored
PROPERTY ImplementsPromise
PROPERTY BegunRunsEnd
CHECK_DEADLOCK FALSE

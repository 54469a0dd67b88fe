SPECIFICATION Spec
CONSTANTS
  Job = {j1, j2}
  MaxRetries = 3
  MaxCrashes = 0
  MaxSends = 3
  MaxPolls = 5
  Terminal = {"filled", "canceled"}
  BrokerConfigured = FALSE
  OrderColumn = FALSE
  Faults = {}
INVARIANT UndisturbedSucceeds
CHECK_DEADLOCK FALSE

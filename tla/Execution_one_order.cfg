SPECIFICATION Spec
CONSTANTS
  Job = {j1, j2}
  MaxRetries = 1
  MaxCrashes = 0
  MaxSends = 2
  MaxPolls = 1
  Terminal = {"filled"}
  BrokerConfigured = TRUE
  OrderColumn = TRUE
  Faults = {"lost"}
INVARIANT OneOrderPerQuery
CHECK_DEADLOCK FALSE

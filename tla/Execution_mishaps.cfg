SPECIFICATION Spec
CONSTANTS
  Job = {j1, j2}
  MaxRetries = 0
  MaxCrashes = 1
  MaxSends = 2
  MaxPolls = 2
  Terminal = {"filled"}
  BrokerConfigured = TRUE
  OrderColumn = TRUE
  Faults = {"reject", "lost", "poll", "db", "crash"}
SYMMETRY JobSymmetry
INVARIANT UnrecordedIsExplained
INVARIANT DuplicatesAreMishaps
INVARIANT RecordsAreTrue
INVARIANT SuccessIsRecorded
CHECK_DEADLOCK FALSE

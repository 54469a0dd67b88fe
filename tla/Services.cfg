SPECIFICATION MCFairSpec
CONSTANTS
  Query = {u1, u2}
  Slot = {s1, s2}
  Faults = {"redis", "run", "broker", "ttl", "leave"}
  Reader = {r1, r2}
  MaxRows = 3
  PortfolioFaults = {"redis", "broker"}
  Thread = {t1, t2}
  SessionTTL = 2
  MaxClock = 4
  SessionFaults = {"login"}
  Request = {q1, q2}
  Ticker = {a, b}
  MaxDailies = 2
  WatchFaults = {"db", "broker", "connection"}
  TaxOrder = {o1}
  Year = {0, 1, 2}
  Moment = {1, 179, 180, 181, 908, 909, 910, 911, 1638, 1639, 1640}
  Letter = {m1, m2}
  AgentRun = {e1}
  LetterTicker = {a, b}
  LetterFaults = {"db", "kill"}
  Job = {j1, j2}
INVARIANTS
  ServicesTypeOK
  SessionsAreCurrent
  DailyRunsAreExplained
  SummariesKeepTheirYear
  AlertsTellFailures
PROPERTIES
  PollingIsTrue
  PollingEnds
  SnapshotsFollowRows
  WaitersGetIn
  ImplementsWatchlistPromise
  PlacedGetsRecorded
CHECK_DEADLOCK FALSE

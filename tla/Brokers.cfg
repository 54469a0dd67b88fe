SPECIFICATION MCSpec
CONSTANTS
  Check = {k1, k2}
  Ticker = {t1, t2}
  Values = {400, 1000}
  Prices = {0, 5}
  Atrs = {0, 1}
  Default = 500
  MaxOpen = 2
  Holding = {0, 30}
  Seed = {0, 600}
  Faults = {"alpaca", "redis", "overlap"}
  MaxOrders = 3
  Name = {n}
  Price = {1, 2}
  Qty = {1}
  StartingCash = 2
  MaxMoves = 1
  PaperFaults = {"redis", "quote"}
  Caller = {c1, c2}
  MaxCalls = 3
  MaxSends = 2
  MaxVenue = 3
  VenueFaults = {"request", "server", "lost"}
  Post = {p1, p2}
  Timeout = 30
  Countdown = 30
  MaxRetries = 1
  MaxRedeliveries = 1
  TradeFaults = {"publish", "process", "connection"}
SYMMETRY MCSymmetry
INVARIANTS
  BrokersTypeOK
  EntriesFitWhatWasRead
  TradesAreExplained
PROPERTIES
  LoneEntriesFitWhatIsHeld
  UnsetMarkStaysUnset
  MarkNeverFalls
  PaperBooksAgree
  OrdersHaveCauses
CHECK_DEADLOCK FALSE

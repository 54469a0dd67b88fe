SPECIFICATION Spec
CONSTANTS
  Check = {c1, c2}
  Ticker = {t1, t2}
  Values = {400, 1000}
  Prices = {10}
  Atrs = {1}
  Default = 1000
  Holding = {0}
  MaxOpen = 10
  Seed = {0}
  Faults = {}
SYMMETRY CheckSymmetry
INVARIANT DrawdownHalts
CHECK_DEADLOCK FALSE

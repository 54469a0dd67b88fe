SPECIFICATION TaxSpec
CONSTANTS
  TaxOrder = {o1, o2}
  Year = {0, 1, 2}
  Moment = {1, 179, 180, 181, 908, 909, 910, 911, 1638, 1639, 1640}
INVARIANT LongHeldIsLongTerm
CHECK_DEADLOCK FALSE

SPECIFICATION Spec
CONSTANTS
  s1 = s1
  s2 = s2
  Sessions = {s1, s2}
  Operations <- FirstDoesAll
  Returns = {r1, r2}
  Requested <- OneLine
  Delivered = 2
  MaxReceipts = 2
  MaxMixed = 1
  NoSession = NoSession
SYMMETRY Symmetry
INVARIANTS EachPostedOnce  BalanceSettles 
PROPERTY StockOnlyFromUnposted
CHECK_DEADLOCK FALSE

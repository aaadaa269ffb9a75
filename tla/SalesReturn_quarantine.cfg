SPECIFICATION Spec
CONSTANTS
  s1 = s1
  s2 = s2
  Sessions = {s1}
  Operations <- FirstDoesAll
  Returns = {r1}
  Requested <- OneLine
  Delivered = 2
  MaxReceipts = 0
  MaxMixed = 0
  NoSession = NoSession
INVARIANT DamagedStaysOut
CHECK_DEADLOCK FALSE

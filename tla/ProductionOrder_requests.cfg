SPECIFICATION Spec
CONSTANTS
  s1 = s1
  s2 = s2
  m1 = m1
  m2 = m2
  Sessions = {s1, s2}
  Operations <- FirstDoesAll
  Last = 2
  Materials = {m1, m2}
  PerUnit <- OneEach
  Opening <- TwoAndOne
  Plans = {1, 2}
  Outputs = {0, 1}
  Issues = {0, 1}
  MaxReceived = 2
  MaxEvents = 2
  MaxFailures = 1
INVARIANTS TypeOK StockFollowsLedger IssuedWithinNeed WorkInSequence WorkIsAccounted
PROPERTY ResultsAreKept
CHECK_DEADLOCK FALSE

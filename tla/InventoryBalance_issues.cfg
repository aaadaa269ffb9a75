SPECIFICATION Spec
CONSTANTS
  Batches = {b1, b2}
  NoBatch = NoBatch
  Calls = {"in", "out", "reserve", "release", "view"}
  Quantities = {1, 2}
  MaxReceipts = 2
  MaxReserved = 1
  MaxDebt = 0
SYMMETRY Symmetry
INVARIANT TypeOK
PROPERTIES RowsMoveWithLedger IssuesLeaveSoundRows LooseIssuesInOrder
CHECK_DEADLOCK FALSE

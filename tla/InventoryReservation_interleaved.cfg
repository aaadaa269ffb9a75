SPECIFICATION ReservationSpec
CONSTANTS
  Batches = {b1}
  NoBatch = NoBatch
  Sessions = {s1, s2}
  Operations = {"create", "release", "cancel", "in", "out"}
  Ids = {i1}
  Quantities = {1, 2}
  Opening <- OneEach
  MaxReceived = 1
  MaxIssued = 4
SYMMETRY Symmetry
INVARIANT StockWithinReceipts
CHECK_DEADLOCK FALSE

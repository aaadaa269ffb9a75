SPECIFICATION Spec
CONSTANTS
  s1 = s1
  s2 = s2
  Sessions = {s1, s2}
  Operations <- FirstDoesAll
  Deliveries = {d1, d2}
  Items = {i1, i2}
  Ordered <- OneEach
  Opening <- OneEach
  Quantities = {0, 1}
  MaxMixed = 1
  MaxOpen = 1
  MaxFailures = 1
SYMMETRY Symmetry
INVARIANTS TypeOK LedgerComesFirst OncePerDelivery ConfirmedIsComplete DeliveredMeansShipped
CHECK_DEADLOCK FALSE

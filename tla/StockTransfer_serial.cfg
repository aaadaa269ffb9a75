SPECIFICATION SerialSpec
CONSTANTS
  w1 = w1
  w2 = w2
  Requests = {r1}
  Operations = {"create", "submit", "approve", "return", "reject", "cancel", "delete", "post", "notes", "route", "lines"}
  Users = {u1, u2}
  Warehouses = {w1, w2}
  LineIds = {l1, l2}
  BatchLines = {l2}
  Quantities = {1, 2}
  OpeningLoose <- ScarceLoose
  OpeningBatch <- ScarceBatch
  OpeningBatchQty = 2
  MaxPosts = 2
  NoUser = NoUser
  NoRequest = NoRequest
SYMMETRY Symmetry
INVARIANT AuditTrailCurrent
PROPERTIES LinesChangeOnlyWhenEditable FollowsLifecycle
CHECK_DEADLOCK FALSE

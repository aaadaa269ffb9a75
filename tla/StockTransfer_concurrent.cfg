SPECIFICATION Spec
CONSTANTS
  w1 = w1
  w2 = w2
  Requests = {r1, r2}
  Operations = {"create", "submit", "approve", "delete", "post", "notes", "lines"}
  Users = {u1, u2}
  Warehouses = {w1, w2}
  LineIds = {l1, l2}
  BatchLines = {l2}
  Quantities = {2}
  OpeningLoose <- ScarceLoose
  OpeningBatch <- ScarceBatch
  OpeningBatchQty = 2
  MaxPosts = 1
  NoUser = NoUser
  NoRequest = NoRequest
SYMMETRY Symmetry
INVARIANTS TypeOK StockMatchesLedger LockHolderPosts PostedMeansPosted CreatorNeverApproves
PROPERTY MovesOnlyWhenApproved
CHECK_DEADLOCK FALSE

SPECIFICATION FairSpec
CONSTANTS
  w1 = w1
  w2 = w2
  Requests = {r1, r2}
  Operations = {"create", "submit", "approve", "post"}
  Users = {u1, u2}
  Warehouses = {w1, w2}
  LineIds = {l1}
  BatchLines = {}
  Quantities = {2}
  OpeningLoose <- AmpleLoose
  OpeningBatch <- NoBatchStock
  OpeningBatchQty = 0
  MaxPosts = 1
  NoUser = NoUser
  NoRequest = NoRequest
PROPERTY EveryRequestEnds
CHECK_DEADLOCK FALSE

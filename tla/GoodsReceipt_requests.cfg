SPECIFICATION Spec
CONSTANTS
  s1 = s1
  s2 = s2
  Sessions = {s1, s2}
  Operations <- FirstDoesAll
  Receipts = {g1, g2}
  PoLines = {p1, p2}
  Ordered <- OneEach
  Quantities = {0, 1}
  MaxPosted = 1
  MaxMixed = 1
  NoSession = NoSession
SYMMETRY Symmetry
INVARIANTS LedgerFollowsHeader 
PROPERTY PostsUnmarkedOnly
CHECK_DEADLOCK FALSE

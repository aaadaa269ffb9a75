SPECIFICATION FairSpec
CONSTANTS
  w1 = w1
  w2 = w2
  t1 = t1
  t2 = t2
  t3 = t3
  Txns = {t1, t2, t3}
  Warehouses = {w1, w2}
  Legs <- CrossingLegs
  Opening <- MCOpening
  Readers = {v1}
  NoTxn = NoTxn
INVARIANTS TypeOK LedgerIsCommittedPosts NoInventedStock
PROPERTIES PostingNeverOverdraws PostingEnds BalancesSettle
CHECK_DEADLOCK FALSE

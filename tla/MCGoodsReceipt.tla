----------------------------- MODULE MCGoodsReceipt -----------------------------
(* Small instances of GoodsReceipt for TLC. *)
EXTENDS GoodsReceipt, TLC
CONSTANTS s1, s2

OneEach == [l \in PoLines |-> 1]

\* The first session does everything, the second what is to happen meanwhile.
FirstDoesAll ==
  (s1 :> {"create", "receive", "inspect", "accept", "reject", "cancel", "update",
          "header", "remove", "post"}) @@
  (s2 :> {"accept", "post"})

Symmetry == Permutations(Receipts) \cup Permutations(PoLines)
=============================================================================

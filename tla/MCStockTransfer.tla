--------------------------- MODULE MCStockTransfer ---------------------------
(* Small instances of StockTransfer for TLC. *)
EXTENDS StockTransfer, TLC
CONSTANTS w1, w2

\* Enough outside the batch for two posts of the quantity 2 ...
AmpleLoose == (w1 :> 4) @@ (w2 :> 0)
NoBatchStock == (w1 :> 0) @@ (w2 :> 0)

\* ... and stock of which two lines of 2 each pass the check, but not together.
ScarceLoose == (w1 :> 1) @@ (w2 :> 0)
ScarceBatch == (w1 :> 2) @@ (w2 :> 0)

Symmetry == Permutations(Requests) \cup Permutations(Users)
=============================================================================

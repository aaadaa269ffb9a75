---------------------------- MODULE MCStockPosting ----------------------------
(* Small instances of StockPosting for TLC. *)
EXTENDS StockPosting, TLC
CONSTANTS w1, w2, t1, t2, t3

Move(from, to, q) == <<[wh |-> from, qty |-> -q], [wh |-> to, qty |-> q]>>

\* Two transfers in opposite directions, which lock the balances in opposite
\* orders, and an issue of all that is in the first warehouse: when both issues
\* pass their check its ledger ends below zero.
CrossingLegs == (t1 :> Move(w1, w2, 2)) @@ (t2 :> Move(w2, w1, 1))
                  @@ (t3 :> <<[wh |-> w1, qty |-> -3]>>)
MCOpening == (w1 :> 3) @@ (w2 :> 1)
=============================================================================

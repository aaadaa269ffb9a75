-------------------------- MODULE MCInventoryBalance ---------------------------
(* Small instances of InventoryBalance for TLC. *)
EXTENDS InventoryBalance, TLC

Symmetry == Permutations(Batches)
=============================================================================

------------------------ MODULE MCInventoryReservation -------------------------
(* Small instances of InventoryReservation for TLC. *)
EXTENDS InventoryReservation, TLC

OneEach == [k \in Keys |-> 1]
Symmetry == Permutations(Sessions) \cup Permutations(Ids)
=============================================================================

----------------------------- MODULE MCSalesDelivery -----------------------------
(* Small instances of SalesDelivery for TLC. *)
EXTENDS SalesDelivery, TLC
CONSTANTS s1, s2

OneEach == [i \in Items |-> 1]

\* The first session does everything, the second what is to happen meanwhile.
FirstDoesAll ==
  (s1 :> {"create", "ship", "deliver", "cancel", "remove", "update", "confirm", "convert"}) @@
  (s2 :> {"confirm"})

Symmetry == Permutations(Deliveries) \cup Permutations(Items)
=============================================================================

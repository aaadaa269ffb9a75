------------------------------ MODULE MCSalesReturn ------------------------------
(* Small instances of SalesReturn for TLC. *)
EXTENDS SalesReturn, TLC
CONSTANTS s1, s2

\* The first session does everything, the second what is to happen meanwhile.
FirstDoesAll ==
  (s1 :> {"create", "submit", "approve", "reject", "cancel", "update", "receive", "credit",
          "pay"}) @@
  (s2 :> {"approve", "receive", "credit"})

Lines(good, damaged) == [c \in Conditions |-> IF c = "GOOD" THEN good ELSE damaged]

\* One line per request: two good pieces or a damaged one.
OneLine == {Lines(2, 0), Lines(0, 1)}

\* A line for each condition.
TwoLines == {Lines(1, 1)}

Symmetry == Permutations(Returns)
=============================================================================

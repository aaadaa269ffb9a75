--------------------------- MODULE MCProductionOrder ---------------------------
(* Small instances of ProductionOrder for TLC. *)
EXTENDS ProductionOrder, TLC
CONSTANTS s1, s2, m1, m2

OneEach == [m \in Materials |-> 1]

\* The first session does everything, the second what is to happen meanwhile.
FirstDoesAll ==
  (s1 :> {"create", "update", "remove", "cancel", "release", "start", "finish", "complete",
          "issue"}) @@
  (s2 :> {"release", "complete", "issue"})

\* Enough of the first material for an issue too many, of the second for one.
TwoAndOne == (m1 :> 2) @@ (m2 :> 1)
=============================================================================

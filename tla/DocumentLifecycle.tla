-------------------------- MODULE DocumentLifecycle --------------------------
(***************************************************************************)
(* What a stock document with an approval step promises, whatever the      *)
(* requests that drive it: its status follows the workflow, it is posted   *)
(* from APPROVED only, and its effect on stock happens once, in the same   *)
(* instant as the change to POSTED.  StockTransfer implements it when its  *)
(* requests do not overlap.                                                *)
(***************************************************************************)
EXTENDS Naturals

CONSTANT Pending        \* the name the document has for "submitted"

VARIABLES status,       \* "ABSENT" before creation and after deletion
          effects       \* how often the document has moved stock

vars == <<status, effects>>

Init == status = "ABSENT" /\ effects = 0

Move(from, to) == status \in from /\ status' = to /\ UNCHANGED effects

Create  == Move({"ABSENT"}, "DRAFT")
Submit  == Move({"DRAFT", "RETURNED"}, Pending)
Approve == Move({Pending}, "APPROVED")
Return  == Move({Pending}, "RETURNED")
Reject  == Move({Pending}, "REJECTED")
Cancel  == Move({"DRAFT", Pending}, "CANCELLED")
Delete  == Move({"DRAFT", "RETURNED"}, "ABSENT")
Post    == status = "APPROVED" /\ status' = "POSTED" /\ effects' = effects + 1

Next == Create \/ Submit \/ Approve \/ Return \/ Reject \/ Cancel \/ Delete \/ Post

Spec == Init /\ [][Next]_vars
=============================================================================

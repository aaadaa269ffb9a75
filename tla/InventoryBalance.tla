--------------------------- MODULE InventoryBalance ----------------------------
(***************************************************************************)
(* The balance rows of one item in one warehouse under calls that do not   *)
(* overlap: each of updateBalance(), reserveStock(), releaseReservation()  *)
(* and a page view with its reconciliation is one step, and a movement     *)
(* writes the ledger with the balance.                                     *)
(***************************************************************************)
EXTENDS BalanceRows

CONSTANTS
  Calls,         \* the calls made, of those in Next
  MaxReceipts,   \* bound: receipts
  MaxReserved,   \* bound: quantity reserved in all
  MaxDebt        \* bound: how deep the warehouse is overdrawn when an issue begins

ASSUME ConstantsAssumption ==
  {MaxReceipts, MaxReserved, MaxDebt} \subseteq Nat

VARIABLES
  ledger,    \* the net quantity of stock_ledger for the item in the warehouse
  policy,    \* inventory_policies: negative stock is allowed in the warehouse
  receipts,  \* history variable: number of receipts
  loose      \* history variable: the last call was an issue without a batch

vars == <<rows, ledger, policy, receipts, loose>>

Init ==
  /\ rows = <<>>
  /\ ledger = 0
  /\ policy \in BOOLEAN
  /\ receipts = 0
  /\ loose = FALSE

\* updateBalance(..., 'IN')
In(k, q) ==
  /\ receipts < MaxReceipts
  /\ rows' = WithRow(rows, k, Receive(RowOf(rows, k), q))
  /\ ledger' = ledger + q
  /\ receipts' = receipts + 1
  /\ loose' = FALSE
  /\ UNCHANGED policy

\* updateBalance(..., 'OUT') of a batch
OutBatch(k, q) ==
  /\ k # NoBatch
  /\ ledger >= -MaxDebt
  /\ Covered(RowOf(rows, k).onHand, q, policy)
  /\ rows' = IssueBatch(rows, k, q)
  /\ ledger' = ledger - q
  /\ loose' = FALSE
  /\ UNCHANGED <<policy, receipts>>

\* updateBalance(..., 'OUT') without a batch
OutLoose(q) ==
  /\ ledger >= -MaxDebt
  /\ Covered(TotalOnHand(rows), q, policy)
  /\ \E order \in Candidates(rows) : rows' = IssueLoose(rows, order, q)
  /\ ledger' = ledger - q
  /\ loose' = TRUE
  /\ UNCHANGED <<policy, receipts>>

Reserve(k, q) ==
  /\ SumOf(rows, "reserved") + q <= MaxReserved
  /\ \E j \in Found(rows, k) :
       /\ q <= rows[j].available
       /\ rows' = WithRow(rows, j, Reserved(rows[j], q))
  /\ loose' = FALSE
  /\ UNCHANGED <<ledger, policy, receipts>>

\* Of a quantity that is reserved: reservations are released once each.
Release(k, q) ==
  /\ SumOf(rows, "reserved") >= q
  /\ \E j \in Found(rows, k) :
       /\ rows[j].available \in 0..1       \* bound: a release multiplies it by ten
       /\ rows' = WithRow(rows, j, Released(rows[j], q))
  /\ loose' = FALSE
  /\ UNCHANGED <<ledger, policy, receipts>>

\* A page shows some of the rows.
View(page) ==
  /\ receipts > 0                         \* the ledger has a row of the item
  /\ rows' = Reconciled(rows, page, ledger)
  /\ loose' = FALSE
  /\ UNCHANGED <<ledger, policy, receipts>>

Next ==
  \/ \E k \in Keys, q \in Quantities :
       \/ "in" \in Calls /\ In(k, q)
       \/ "out" \in Calls /\ OutBatch(k, q)
       \/ "reserve" \in Calls /\ Reserve(k, q)
       \/ "release" \in Calls /\ Release(k, q)
  \/ "out" \in Calls /\ \E q \in Quantities : OutLoose(q)
  \/ "view" \in Calls /\ \E page \in SUBSET (DOMAIN rows) : View(page)

Spec == Init /\ [][Next]_vars

(***************************************************************************)
(* Properties.                                                             *)
(***************************************************************************)
TypeOK ==
  /\ DOMAIN rows \subseteq Keys
  /\ \A k \in DOMAIN rows : rows[k] \in Row
  /\ ledger \in Int
  /\ policy \in BOOLEAN
  /\ receipts \in 0..MaxReceipts
  /\ loose \in BOOLEAN

\* However an issue is spread over unbatched and batch rows, and whatever earlier
\* calls and page views made of them, a movement changes their sum by what it
\* writes to the ledger.
RowsMoveWithLedger ==
  [][ledger' # ledger =>
       TotalOnHand(rows') - TotalOnHand(rows) = ledger' - ledger]_vars

\* Without a policy that allows it an issue takes no row below zero, even when
\* the rows it is spread over include one that a page view left in debt.
IssueNeverOverdraws ==
  [][ledger' < ledger /\ ~policy =>
       \A k \in DOMAIN rows' :
         rows'[k].onHand < RowOf(rows, k).onHand => rows'[k].onHand >= 0]_vars

\* "Stock Ledger Single Source of Truth Reconciliation" (comment in
\* enrichDynamicReservations()): the rows add up to what the ledger says the
\* warehouse has.
RowsAddUpToLedger == TotalOnHand(rows) = ledger

\* An issue that names no batch takes from a batch only what the unbatched row
\* does not have, and from a smaller batch only when the larger ones are empty.
BatchesAreLastResort ==
  [][loose' =>
       \A k \in Batches \cap DOMAIN rows : rows'[k].onHand < rows[k].onHand =>
         \A j \in DOMAIN rows \ {k} :
           rows[j].onHand > rows[k].onHand \/ j = NoBatch => rows'[j].onHand <= 0]_vars

\* An overdraft the policy allows never sits on one row while another has stock:
\* an unbatched issue that leaves debt has emptied every row.
DebtOnlyWhenEmpty ==
  [][loose' =>
       \A k \in DOMAIN rows' :
         rows'[k].onHand < 0 /\ rows'[k] # RowOf(rows, k) =>
           \A j \in DOMAIN rows' : rows'[j].onHand <= 0]_vars

\* After an issue no row it touched reserves more than it has.
IssueTrimsReservations ==
  [][ledger' < ledger =>
       \A k \in DOMAIN rows' : rows'[k] # RowOf(rows, k) =>
         /\ rows'[k].reserved \in 0..AtLeast(0, rows'[k].onHand)
         /\ rows'[k].available = rows'[k].onHand - rows'[k].reserved]_vars

\* Issues that the rows cover, and those a policy lets through, leave sound rows:
\* none below zero unless allowed, none with more reserved than there is.
IssuesLeaveSoundRows == IssueNeverOverdraws /\ IssueTrimsReservations

\* The four groups of updateBalance()'s ranking, largest first, decide which rows
\* give, and only when none has anything left is there debt.
LooseIssuesInOrder == BatchesAreLastResort /\ DebtOnlyWhenEmpty

\* "Available = On Hand - Reserved - Safety Stock" (docs/BUSINESS_RULES.md, 2.2),
\* of an item without safety stock.
AvailableIsDifference ==
  \A k \in DOMAIN rows : rows[k].available = rows[k].onHand - rows[k].reserved
=============================================================================

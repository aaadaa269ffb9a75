------------------------------ MODULE BalanceRows ------------------------------
(***************************************************************************)
(* The rows inventory_balances has for one item in one warehouse, one per  *)
(* batch and one without a batch, and the arithmetic of                    *)
(* InventoryBalanceService on them.  `rows' maps the batches that have a   *)
(* row to [onHand, reserved, available]; the operators take the rows as a  *)
(* parameter, since updateBalance() works on copies.  Quantities are whole *)
(* numbers; the code rounds to four decimals.                              *)
(***************************************************************************)
EXTENDS Integers, Sequences, FiniteSets, SequencesExt, Functions

CONSTANTS
  Batches,
  NoBatch,
  Quantities   \* quantities of calls, below 10

ASSUME BatchAssumption == IsFiniteSet(Batches) /\ NoBatch \notin Batches
ASSUME QuantityAssumption == Quantities \subseteq 1..9

VARIABLE rows

Keys == Batches \cup {NoBatch}
Row == [onHand: Int, reserved: Int, available: Int]
EmptyRow == [onHand |-> 0, reserved |-> 0, available |-> 0]

SumOf(rs, column) == SumFunction([k \in DOMAIN rs |-> rs[k][column]])
TotalOnHand(rs) == SumOf(rs, "onHand")

AtMost(a, b) == IF a < b THEN a ELSE b
AtLeast(a, b) == IF a < b THEN b ELSE a
Clamp(x, top) == AtLeast(0, AtMost(AtLeast(0, top), x))

\* The row with this on hand after an OUT: the reservation shrinks to fit.
Left(row, onHand) ==
  LET reserved == Clamp(row.reserved, onHand)
  IN [onHand |-> onHand, reserved |-> reserved, available |-> onHand - reserved]

\* The row of batch k, or a new one.
RowOf(rs, k) == IF k \in DOMAIN rs THEN rs[k] ELSE EmptyRow
WithRow(rs, k, row) == [j \in DOMAIN rs \cup {k} |-> IF j = k THEN row ELSE rs[j]]

\* findByItemWarehouse(): the rows it may return for a batch, or for none (the
\* row with the most stock, and any of them when several have as much).
Found(rs, k) ==
  IF k # NoBatch THEN {k} \cap DOMAIN rs
  ELSE {j \in DOMAIN rs : \A i \in DOMAIN rs : rs[i].onHand <= rs[j].onHand}

\* getAvailableStock()
AvailableStock(rs, k) ==
  IF k = NoBatch THEN TotalOnHand(rs) - SumOf(rs, "reserved")
  ELSE RowOf(rs, k).onHand - RowOf(rs, k).reserved

(***************************************************************************)
(* updateBalance()                                                         *)
(***************************************************************************)
\* Mutant: the row is saved without its available column.
ReceiveWithoutAvailable(row, q) ==
  [onHand |-> row.onHand + q, reserved |-> row.reserved]

Receive(row, q) ==
  [row EXCEPT !.onHand = @ + q, !.available = row.onHand + q - row.reserved]

\* Mutant: every caller may overdraw.
CoveredAlways(onHand, q, may) == TRUE

\* `may': negative stock is allowed by the caller or the inventory policy.
Covered(onHand, q, may) == q <= onHand \/ may

\* Mutant: rows by stock alone, whatever their batch.
BeforeByStock(rs, j, k) == rs[j].onHand >= rs[k].onHand

\* The order in which an OUT without a batch goes through the rows: rows with
\* stock before the others, the unbatched before the batches, then by stock.
Before(rs, j, k) ==
  LET rank(i) == (IF rs[i].onHand > 0 THEN 0 ELSE 2) + (IF i = NoBatch THEN 0 ELSE 1)
  IN rank(j) < rank(k) \/ (rank(j) = rank(k) /\ rs[j].onHand >= rs[k].onHand)
Candidates(rs) ==
  {s \in SetToSeqs(DOMAIN rs) :
     \A i, j \in DOMAIN s : i < j => Before(rs, s[i], s[j])}

\* Mutant: the loop forgets to count down what is left to take.
DrainEach(rs, order, q) ==
  [rows |-> [k \in DOMAIN rs |->
               Left(rs[k], rs[k].onHand - AtMost(q, AtLeast(0, rs[k].onHand)))],
   rest |-> AtLeast(0, q - TotalOnHand(rs))]

\* One turn of the loop: [rows, rest to take] after row k gave what it has.
TakeFrom(acc, k) ==
  LET take == AtMost(acc.rest, AtLeast(0, acc.rows[k].onHand))
  IN IF take = 0 THEN acc
     ELSE [rows |-> WithRow(acc.rows, k, Left(acc.rows[k], acc.rows[k].onHand - take)),
           rest |-> acc.rest - take]

\* What the loop takes from the rows, in that order: [rows, rest to take].
Drain(rs, order, q) == FoldLeft(TakeFrom, [rows |-> rs, rest |-> q], order)

\* What is still to take goes below zero on the unbatched row, else on the
\* largest, else on a new one.
Debtor(rs, order) ==
  IF NoBatch \in DOMAIN rs \/ order = <<>> THEN NoBatch ELSE order[1]

IssueLoose(rs, order, q) ==
  LET drained == Drain(rs, order, q)
      k == Debtor(rs, order)
      row == RowOf(drained.rows, k)
  IN IF drained.rest = 0 THEN drained.rows
     ELSE WithRow(drained.rows, k, Left(row, row.onHand - drained.rest))

IssueBatch(rs, k, q) ==
  WithRow(rs, k, Left(RowOf(rs, k), RowOf(rs, k).onHand - q))

(***************************************************************************)
(* reserveStock() and releaseReservation()                                 *)
(***************************************************************************)
Reserved(row, q) ==
  [row EXCEPT !.reserved = @ + q, !.available = @ - q]

\* `Number(balance.available) + quantity' with the quantity of an
\* InventoryReservation entity, a DECIMAL column, which the driver returns as
\* text: JavaScript concatenates.  Quantities have one digit here.
Concat(n, q) == IF n < 0 THEN 10 * n - q ELSE 10 * n + q

Released(row, q) ==
  [row EXCEPT !.reserved = @ - q, !.available = Concat(@, q)]

\* enrichDynamicReservations() on the rows of a page: a row that differs from
\* what the ledger sums to for the WAREHOUSE gets that on hand.
Reconciled(rs, page, net) ==
  [k \in DOMAIN rs |-> IF k \in page THEN [rs[k] EXCEPT !.onHand = net] ELSE rs[k]]
=============================================================================

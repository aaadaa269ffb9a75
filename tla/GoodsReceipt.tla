------------------------------ MODULE GoodsReceipt ------------------------------
(***************************************************************************)
(* GoodsReceiptService: the receipts of one purchase order, their lines,   *)
(* the stock ledger and what the order counts as received.  receive(),     *)
(* inspect(), accept(), reject(), cancel() of an unposted receipt and      *)
(* update() load the receipt, change the copy and save it without a lock;  *)
(* post() and cancel() of a posted receipt run in a transaction, of which  *)
(* only post() locks the receipt.                                          *)
(*                                                                         *)
(* save() works as in StockTransfer: it selects the row again (SaveSelect) *)
(* and writes the columns in which the copy differs from it (SaveWrite),   *)
(* and fails when the loaded lines miss one that was inserted since.  What *)
(* a transaction writes shows at its commit; a row it wrote stays locked   *)
(* till then.  The balances behind the ledger are StockPosting's subject.  *)
(***************************************************************************)
EXTENDS Integers, FiniteSetsExt, Functions

CONSTANTS
  Sessions,    \* concurrent requests
  Operations,  \* what each may do, of those in Start
  Receipts,    \* goods receipts of the order
  PoLines,     \* lines of the order; a receipt has at most one line for each
  Ordered,     \* quantity ordered per line; every price is 1
  Quantities,  \* quantities accepted on a line of a receipt, 0 for no line
  MaxPosted,   \* bound: quantity a receipt may put on the ledger per line
  MaxMixed,    \* bound: receipts there are once requests overlap
  NoSession    \* holder of a lock nobody holds

ASSUME ConstantsAssumption ==
  /\ NoSession \notin Sessions
  /\ IsFiniteSet(Receipts) /\ Receipts # {}
  /\ IsFiniteSet(PoLines)
  /\ Ordered \in [PoLines -> Nat \ {0}]
  /\ Quantities \subseteq Nat
  /\ {MaxPosted, MaxMixed} \subseteq Nat

VARIABLES
  receipt,   \* goods_receipts: status, and whether posted_at and posted_by are set
  lines,     \* goods_receipt_lines: quantity accepted per line of the order
  ledger,    \* stock_ledger rows of each receipt: quantity in and out
  received,  \* purchase_order_lines.received_quantity
  order,     \* purchase_orders: status and received_amount
  lock,      \* who holds the row lock of a receipt
  pc,        \* where each session is
  op,        \* the operation it runs
  doc,       \* the receipt it works on
  copy,      \* the row it loaded and changed
  stale,     \* a line was inserted since it loaded the receipt
  dirty,     \* columns its save() is about to write
  todo,      \* quantities it inserts, posts or reverses
  tx,        \* its transaction: order lines read and written, order to write
  mixed      \* history variable: two requests have been under way together

document == <<receipt, lines>>
effects == <<ledger, received, order>>
local == <<op, doc, copy, dirty, todo, tx>>
vars == <<receipt, lines, ledger, received, order, lock, pc, op, doc, copy,
          stale, dirty, todo, tx, mixed>>

Statuses == {"DRAFT", "RECEIVED", "INSPECTION", "ACCEPTED", "REJECTED", "POSTED",
             "CANCELLED"}
Absent == {"NONE", "REMOVED"}       \* not created yet, deleted
OrderStatuses == {"APPROVED", "PARTIALLY_RECEIVED", "FULLY_RECEIVED", "CLOSED", "CANCELLED"}
Receivable == {"APPROVED", "PARTIALLY_RECEIVED", "FULLY_RECEIVED"}
Columns == {"status", "posted"}

NoRow == [status |-> "NONE", posted |-> FALSE]
NoLines == [l \in PoLines |-> 0]
NoTx == [known |-> {}, wrote |-> {}, counts |-> NoLines, status |-> "KEEP", money |-> 0]
Present(g) == receipt[g].status \notin Absent
Moving(s) == {l \in PoLines : todo[s][l] > 0}

Init ==
  /\ receipt = [g \in Receipts |-> NoRow]
  /\ lines = [g \in Receipts |-> NoLines]
  /\ ledger = [g \in Receipts |-> [l \in PoLines |-> [in |-> 0, out |-> 0]]]
  /\ received = NoLines
  /\ order = [status |-> "APPROVED", value |-> 0]
  /\ lock = [g \in Receipts |-> NoSession]
  /\ pc = [s \in Sessions |-> "idle"]
  /\ op = [s \in Sessions |-> "none"]
  /\ doc = [s \in Sessions |-> CHOOSE g \in Receipts : TRUE]
  /\ copy = [s \in Sessions |-> NoRow]
  /\ stale = [s \in Sessions |-> FALSE]
  /\ dirty = [s \in Sessions |-> {}]
  /\ todo = [s \in Sessions |-> NoLines]
  /\ tx = [s \in Sessions |-> NoTx]
  /\ mixed = FALSE

(***************************************************************************)
(* Helpers of the request steps.                                           *)
(***************************************************************************)
Goto(s, to) == pc' = [pc EXCEPT ![s] = to]

End(s) ==
  /\ Goto(s, "idle")
  /\ op' = [op EXCEPT ![s] = "none"]
  /\ doc' = [doc EXCEPT ![s] = CHOOSE g \in Receipts : TRUE]
  /\ copy' = [copy EXCEPT ![s] = NoRow]
  /\ dirty' = [dirty EXCEPT ![s] = {}]
  /\ todo' = [todo EXCEPT ![s] = NoLines]
  /\ tx' = [tx EXCEPT ![s] = NoTx]
  /\ UNCHANGED mixed

\* A request for operation o on receipt g starts, holding a copy and quantities.
Begin(s, o, g, row, quantities, to) ==
  /\ pc[s] = "idle"
  /\ o \in Operations[s]
  /\ Goto(s, to)
  /\ op' = [op EXCEPT ![s] = o]
  /\ doc' = [doc EXCEPT ![s] = g]
  /\ copy' = [copy EXCEPT ![s] = row]
  /\ todo' = [todo EXCEPT ![s] = quantities]
  /\ stale' = [stale EXCEPT ![s] = FALSE]
  /\ mixed' = (mixed \/ \E t \in Sessions : pc[t] # "idle")
  /\ mixed' => Cardinality({g} \cup {h \in Receipts : receipt[h].status # "NONE"}) <= MaxMixed
  /\ UNCHANGED <<effects, lock, dirty, tx>>

\* The session goes on to the next line it inserts, if there is one.
InsertNext(s, left) ==
  \/ /\ left # NoLines
     /\ Goto(s, "insert")
     /\ todo' = [todo EXCEPT ![s] = left]
     /\ UNCHANGED <<op, doc, copy, dirty, tx, mixed>>
  \/ left = NoLines /\ End(s)

(***************************************************************************)
(* create(), and the lines it shares with update(): header and lines, each *)
(* committed on its own.                                                   *)
(***************************************************************************)
Create(s, g, quantities) ==
  /\ receipt[g].status = "NONE"
  /\ quantities # NoLines
  /\ Begin(s, "create", g, NoRow, quantities, "insert")
  /\ receipt' = [receipt EXCEPT ![g].status = "DRAFT"]
  /\ UNCHANGED lines

\* The line's foreign key needs the receipt and waits for its row lock.
InsertLine(s) ==
  /\ pc[s] = "insert"
  /\ Present(doc[s])
  /\ lock[doc[s]] = NoSession
  /\ \E l \in Moving(s) :
       /\ lines' = [lines EXCEPT ![doc[s]][l] = @ + todo[s][l]]
       /\ InsertNext(s, [todo[s] EXCEPT ![l] = 0])
  /\ stale' = [t \in Sessions |-> stale[t] \/ (t # s /\ pc[t] # "idle" /\ doc[t] = doc[s])]
  /\ UNCHANGED <<receipt, effects, lock>>

(***************************************************************************)
(* Handlers that load, check and save the receipt.                         *)
(***************************************************************************)
Load(s, o, g, row, quantities, to) ==
  /\ Present(g)
  /\ Begin(s, o, g, row, quantities, to)
  /\ UNCHANGED document

Advance(s, o, g, from, to) ==
  /\ receipt[g].status = from
  /\ Load(s, o, g, [receipt[g] EXCEPT !.status = to], NoLines, "select")

Receive(s, g) == Advance(s, "receive", g, "DRAFT", "RECEIVED")
Inspect(s, g) == Advance(s, "inspect", g, "RECEIVED", "INSPECTION")
Accept(s, g) == Advance(s, "accept", g, "INSPECTION", "ACCEPTED")
Reject(s, g) == Advance(s, "reject", g, "INSPECTION", "REJECTED")

\* A posted receipt is reversed in a transaction.
Cancel(s, g) ==
  /\ receipt[g].status # "CANCELLED"
  /\ IF receipt[g].status = "POSTED"
     THEN Load(s, "cancel", g, receipt[g], NoLines, "reverse")
     ELSE Load(s, "cancel", g, [receipt[g] EXCEPT !.status = "CANCELLED"], NoLines, "select")

\* Mutant: a posted receipt is edited like any other.
UpdateAlways(s, g, quantities) ==
  \/ Load(s, "update", g, receipt[g], quantities, "select")
  \/ Load(s, "header", g, receipt[g], NoLines, "select")

\* update(), with or without lines, in every status.
Update(s, g, quantities) ==
  \/ /\ receipt[g].status # "POSTED"
     /\ \/ Load(s, "update", g, receipt[g], quantities, "select")
        \/ Load(s, "header", g, receipt[g], NoLines, "select")
  \/ /\ receipt[g].status = "POSTED"
     /\ Load(s, "update", g, receipt[g], quantities, "edit")

\* The transaction of an edit of a posted receipt reads `lines', which update()
\* declares only after it (line 467): it throws and rolls back.
EditPosted(s) ==
  /\ pc[s] = "edit"
  /\ lock[doc[s]] = NoSession
  /\ End(s)
  /\ UNCHANGED <<document, effects, lock, stale>>

SaveSelect(s) ==
  /\ pc[s] = "select"
  /\ Present(doc[s]) => ~stale[s]
  /\ dirty' = [dirty EXCEPT ![s] =
       {c \in Columns : ~Present(doc[s]) \/ copy[s][c] # receipt[doc[s]][c]}]
  /\ Goto(s, "write")
  /\ UNCHANGED <<document, effects, lock, op, doc, copy, stale, todo, tx, mixed>>

\* Waits for the row lock.  A row gone at the select is inserted again, one
\* that goes after it is not written.
SaveWrite(s) ==
  LET g == doc[s]
  IN /\ pc[s] = "write"
     /\ lock[g] = NoSession
     /\ receipt' = [receipt EXCEPT ![g] =
          IF ~Present(g) /\ dirty[s] # Columns THEN @
          ELSE [c \in Columns |-> IF c \in dirty[s] THEN copy[s][c] ELSE @[c]]]
     /\ \/ op[s] = "update" /\ Goto(s, "clear")
           /\ UNCHANGED <<op, doc, copy, dirty, todo, tx, mixed>>
        \/ op[s] # "update" /\ End(s)
     /\ UNCHANGED <<lines, effects, lock, stale>>

\* update() deletes the lines and inserts those of the request.
ClearLines(s) ==
  /\ pc[s] = "clear"
  /\ lines' = [lines EXCEPT ![doc[s]] = NoLines]
  /\ InsertNext(s, todo[s])
  /\ UNCHANGED <<receipt, effects, lock, stale>>

(***************************************************************************)
(* remove(): lines and header, each committed on its own.                  *)
(***************************************************************************)
Remove(s, g) ==
  /\ receipt[g].status # "POSTED"
  /\ Load(s, "remove", g, receipt[g], NoLines, "unline")

RemoveLines(s) ==
  /\ pc[s] = "unline"
  /\ lines' = [lines EXCEPT ![doc[s]] = NoLines]
  /\ Goto(s, "remove")
  /\ UNCHANGED <<receipt, effects, lock, local, stale, mixed>>

\* Refused by the lines' foreign key while the receipt has any.
RemoveRow(s) ==
  /\ pc[s] = "remove"
  /\ lock[doc[s]] = NoSession
  /\ lines[doc[s]] = NoLines
  /\ receipt' = [receipt EXCEPT ![doc[s]] = [NoRow EXCEPT !.status = "REMOVED"]]
  /\ End(s)
  /\ UNCHANGED <<lines, effects, lock, stale>>

(***************************************************************************)
(* post(): the status is checked before the transaction, the posted marks  *)
(* are checked again under the row lock.                                   *)
(***************************************************************************)
Post(s, g) ==
  /\ receipt[g].status = "ACCEPTED"
  /\ Load(s, "post", g, receipt[g], NoLines, "lock")

\* Mutant: the receipt is read again without a lock.
PostUnlocked(s) ==
  /\ pc[s] = "lock"
  /\ Present(doc[s])
  /\ ~receipt[doc[s]].posted
  /\ receipt[doc[s]].status # "POSTED"
  /\ Goto(s, "lines")
  /\ UNCHANGED <<document, effects, lock, local, stale, mixed>>

PostLock(s) ==
  LET g == doc[s]
  IN /\ pc[s] = "lock"
     /\ lock[g] = NoSession
     /\ Present(g)
     /\ ~receipt[g].posted
     /\ receipt[g].status # "POSTED"
     /\ lock' = [lock EXCEPT ![g] = s]
     /\ Goto(s, "lines")
     /\ UNCHANGED <<document, effects, local, stale, mixed>>

PostRefused(s) ==
  LET g == doc[s]
  IN /\ pc[s] = "lock"
     /\ lock[g] = NoSession
     /\ ~Present(g) \/ receipt[g].posted \/ receipt[g].status = "POSTED"
     /\ End(s)
     /\ UNCHANGED <<document, effects, lock, stale>>

PostLines(s) ==
  LET g == doc[s]
  IN /\ pc[s] = "lines"
     /\ \A l \in PoLines : ledger[g][l].in + lines[g][l] <= MaxPosted
     /\ todo' = [todo EXCEPT ![s] = lines[g]]
     /\ Goto(s, "polines")
     /\ UNCHANGED <<document, effects, lock, op, doc, copy, stale, dirty, tx, mixed>>

\* The received quantities of all order lines are read at once ...
PostOrderLines(s) ==
  /\ pc[s] = "polines"
  /\ tx' = [tx EXCEPT ![s].known = PoLines, ![s].counts = received]
  /\ Goto(s, IF Moving(s) = {} THEN "order" ELSE "line")
  /\ UNCHANGED <<document, effects, lock, op, doc, copy, stale, dirty, todo, mixed>>

(***************************************************************************)
(* cancel() of a posted receipt reads the receipt again, without a lock.   *)
(***************************************************************************)
ReverseLines(s) ==
  LET g == doc[s]
  IN /\ pc[s] = "reverse"
     /\ Present(g)
     /\ \A l \in PoLines : ledger[g][l].out + lines[g][l] <= MaxPosted
     /\ todo' = [todo EXCEPT ![s] = lines[g]]
     /\ Goto(s, IF lines[g] = NoLines THEN "order" ELSE "reread")
     /\ UNCHANGED <<document, effects, lock, op, doc, copy, stale, dirty, tx, mixed>>

\* ... and here one by one.
ReverseRead(s) ==
  /\ pc[s] = "reread"
  /\ \E l \in Moving(s) \ tx[s].known :
       tx' = [tx EXCEPT ![s].known = @ \cup {l}, ![s].counts[l] = received[l]]
  /\ Goto(s, "line")
  /\ UNCHANGED <<document, effects, lock, op, doc, copy, stale, dirty, todo, mixed>>

(***************************************************************************)
(* Both write the ledger row, the balance and the order line of each line, *)
(* then the order, then the header.                                        *)
(***************************************************************************)
\* Mutant: the reversal forgets the order's received quantity.
CountKept(s, l) ==
  IF op[s] = "post" THEN tx[s].counts[l] + todo[s][l] ELSE tx[s].counts[l]

Count(s, l) ==
  IF op[s] = "post" THEN tx[s].counts[l] + todo[s][l]
  ELSE Max({0, tx[s].counts[l] - todo[s][l]})

\* UPDATE of the order line waits for the transaction that wrote it before.
MoveLine(s) ==
  /\ pc[s] = "line"
  /\ \E l \in (Moving(s) \cap tx[s].known) \ tx[s].wrote :
       /\ \A t \in Sessions \ {s} : l \notin tx[t].wrote
       /\ tx' = [tx EXCEPT ![s].wrote = @ \cup {l}, ![s].counts[l] = Count(s, l)]
       /\ Goto(s, IF Moving(s) = tx[s].wrote \cup {l} THEN "order"
                  ELSE IF op[s] = "post" THEN "line" ELSE "reread")
  /\ UNCHANGED <<document, effects, lock, op, doc, copy, stale, dirty, todo, mixed>>

\* The order lines as the transaction sees them.
Seen(s, l) == IF l \in tx[s].wrote THEN tx[s].counts[l] ELSE received[l]

OrderStatus(s) ==
  IF \A l \in PoLines : Seen(s, l) >= Ordered[l] THEN "FULLY_RECEIVED"
  ELSE "PARTIALLY_RECEIVED"

\* A post leaves an order alone that is closed, cancelled or has received
\* nothing, a reversal none; `money' is the new received amount.
ReadOrder(s) ==
  LET any == \E l \in PoLines : Seen(s, l) > 0
  IN /\ pc[s] = "order"
     /\ tx' = [tx EXCEPT
          ![s].status = IF op[s] = "cancel" THEN (IF any THEN "PARTIALLY_RECEIVED" ELSE "APPROVED")
                        ELSE IF any /\ order.status \in Receivable THEN OrderStatus(s)
                        ELSE "KEEP",
          ![s].money = order.value + SumFunction(todo[s])]
     /\ Goto(s, "commit")
     /\ UNCHANGED <<document, effects, lock, op, doc, copy, stale, dirty, todo, mixed>>

CommitTx(s) ==
  LET g == doc[s]
      way == IF op[s] = "post" THEN "in" ELSE "out"
  IN /\ pc[s] = "commit"
     /\ lock[g] \in {NoSession, s}
     /\ ledger' = [ledger EXCEPT ![g] =
          [l \in PoLines |-> [ledger[g][l] EXCEPT ![way] = @ + todo[s][l]]]]
     /\ received' = [l \in PoLines |-> Seen(s, l)]
     /\ order' = IF tx[s].status = "KEEP" THEN order
                 ELSE [status |-> tx[s].status,
                       value |-> IF op[s] = "post" THEN tx[s].money ELSE order.value]
     /\ receipt' = [receipt EXCEPT ![g] =
          IF op[s] = "post" THEN [status |-> "POSTED", posted |-> TRUE]
          ELSE IF Present(g) THEN [@ EXCEPT !.status = "CANCELLED"] ELSE @]
     /\ lock' = [lock EXCEPT ![g] = NoSession]
     /\ End(s)
     /\ UNCHANGED <<lines, stale>>

\* The process or its connection dies, a check refuses, or the database picks
\* the transaction to end a deadlock: what was not committed is undone.
Fail(s) ==
  /\ pc[s] # "idle"
  /\ lock' = [g \in Receipts |-> IF lock[g] = s THEN NoSession ELSE lock[g]]
  /\ End(s)
  /\ UNCHANGED <<document, effects, stale>>

(***************************************************************************)
(* close() and cancel() of PurchaseOrderService, as one step each.         *)
(***************************************************************************)
EndOrder ==
  /\ \/ /\ order.status = "FULLY_RECEIVED"
        /\ order' = [order EXCEPT !.status = "CLOSED"]
     \/ /\ order.status \notin {"CANCELLED", "CLOSED"}
        /\ order' = [order EXCEPT !.status = "CANCELLED"]
  /\ UNCHANGED <<document, ledger, received, lock, pc, local, stale, mixed>>

Start(s) ==
  \E g \in Receipts :
    \/ \E quantities \in [PoLines -> Quantities] :
         Create(s, g, quantities) \/ Update(s, g, quantities)
    \/ Receive(s, g) \/ Inspect(s, g) \/ Accept(s, g) \/ Reject(s, g)
    \/ Cancel(s, g) \/ Remove(s, g) \/ Post(s, g)

Continue(s) ==
  \/ InsertLine(s) \/ SaveSelect(s) \/ SaveWrite(s) \/ ClearLines(s)
  \/ RemoveLines(s) \/ RemoveRow(s) \/ EditPosted(s)
  \/ PostLock(s) \/ PostRefused(s) \/ PostLines(s) \/ PostOrderLines(s)
  \/ ReverseLines(s) \/ ReverseRead(s) \/ MoveLine(s) \/ ReadOrder(s) \/ CommitTx(s)

Next == EndOrder \/ \E s \in Sessions : Start(s) \/ Continue(s) \/ Fail(s)
Spec == Init /\ [][Next]_vars

(***************************************************************************)
(* Properties.                                                             *)
(***************************************************************************)
TypeOK ==
  /\ receipt \in [Receipts -> [status: Statuses \cup Absent, posted: BOOLEAN]]
  /\ lines \in [Receipts -> [PoLines -> Nat]]
  /\ ledger \in [Receipts -> [PoLines -> [in: 0..MaxPosted, out: Nat]]]
  /\ received \in [PoLines -> Nat]
  /\ order \in [status: OrderStatuses, value: Nat]
  /\ lock \in [Receipts -> Sessions \cup {NoSession}]
  /\ pc \in [Sessions -> {"idle", "insert", "select", "write", "clear", "unline", "remove",
                          "edit", "lock", "lines", "polines", "reverse", "reread", "line",
                          "order", "commit"}]
  /\ op \in [Sessions -> (UNION {Operations[s] : s \in Sessions}) \cup {"none"}]
  /\ doc \in [Sessions -> Receipts]
  /\ copy \in [Sessions -> [status: Statuses \cup Absent, posted: BOOLEAN]]
  /\ stale \in [Sessions -> BOOLEAN]
  /\ dirty \in [Sessions -> SUBSET Columns]
  /\ todo \in [Sessions -> [PoLines -> Nat]]
  /\ tx \in [Sessions -> [known: SUBSET PoLines, wrote: SUBSET PoLines,
                          counts: [PoLines -> Nat],
                          status: OrderStatuses \cup {"KEEP"}, money: Nat]]
  /\ mixed \in BOOLEAN

Net(g, l) == ledger[g][l].in - ledger[g][l].out

\* "the states `Inventory = POSTED` with `GRN = NOT POSTED` (or the reverse) can
\* never occur" (lines 180-181): as long as requests come one at a time, whatever
\* fails in between, the ledger holds the lines of a receipt while it is posted
\* and nothing otherwise.
LedgerFollowsHeader ==
  ~mixed => \A g \in Receipts, l \in PoLines :
              Net(g, l) = IF receipt[g].status = "POSTED" THEN lines[g][l] ELSE 0

\* What a line of the order counts as received is what its receipts have on the
\* ledger, through posts and reversals of several receipts, one request at a time.
ReceivedMatchesLedger ==
  ~mixed => \A l \in PoLines : received[l] = SumFunction([g \in Receipts |-> Net(g, l)])

\* An order that reads FULLY_RECEIVED has every line received in full, also
\* after a reversal.
FullyReceivedMeansAll ==
  ~mixed /\ order.status = "FULLY_RECEIVED" => \A l \in PoLines : received[l] >= Ordered[l]

\* In any order of posts and reversals of several receipts, one request at a time
\* and with failures anywhere, the order counts as received what its receipts have
\* on the ledger and calls itself FULLY_RECEIVED only when that is everything.
OrderFollowsReceipts == ReceivedMatchesLedger /\ FullyReceivedMeansAll

\* "a GRN can never post inventory twice" (line 186), as far as post() keeps it:
\* however requests interleave, stock enters only with a receipt that is not
\* marked posted at that very step, and marks it.
PostsUnmarkedOnly ==
  [][\A g \in Receipts :
       (\E l \in PoLines : ledger'[g][l].in # ledger[g][l].in) =>
         /\ ~receipt[g].posted /\ receipt[g].status # "POSTED"
         /\ receipt'[g] = [status |-> "POSTED", posted |-> TRUE]]_vars

\* "keep the PO value in step" (line 309): the received amount of an order under
\* way is the value of its received quantities.
ReceivedValueInStep == order.status \in Receivable => order.value = SumFunction(received)
=============================================================================

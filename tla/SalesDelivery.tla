----------------------------- MODULE SalesDelivery -----------------------------
(***************************************************************************)
(* SalesDeliveryService: the deliveries of one sales order, the stock they *)
(* take and what the order counts as shipped.  Nothing runs in a           *)
(* transaction: confirm() commits each ledger row, each balance, the       *)
(* delivery's status, each order item and the order one after another, may *)
(* be refused between them and may be called again.                        *)
(*                                                                         *)
(* save() of a delivery works as in StockTransfer (SaveSelect, SaveWrite). *)
(* updateBalance(), save() of an order item and of the order are one step  *)
(* each: InventoryReservation shows what happens inside the first.         *)
(***************************************************************************)
EXTENDS Integers, FiniteSetsExt, Functions

CONSTANTS
  Sessions,    \* concurrent requests
  Operations,  \* what each may do, of those in Start
  Deliveries,  \* deliveries of the order
  Items,       \* items of the order, a line of a delivery for each at most
  Ordered,     \* quantity ordered of each item; every price is 1
  Opening,     \* opening stock of each item
  Quantities,  \* quantities of a delivery line, 0 for no line
  MaxMixed,    \* bound: deliveries there are once requests overlap
  MaxOpen,     \* bound: deliveries neither confirmed, cancelled nor deleted
  MaxFailures  \* bound: requests that die on the way

ASSUME ConstantsAssumption ==
  /\ IsFiniteSet(Sessions) /\ Sessions # {}
  /\ IsFiniteSet(Deliveries) /\ Deliveries # {}
  /\ IsFiniteSet(Items) /\ Items # {}
  /\ Ordered \in [Items -> Nat \ {0}]
  /\ Opening \in [Items -> Nat]
  /\ Quantities \subseteq Nat
  /\ {MaxMixed, MaxOpen, MaxFailures} \subseteq Nat

VARIABLES
  delivery,  \* sales_deliveries: status, deleted_at set, total_amount
  lines,     \* sales_delivery_lines: quantity per item
  ledger,    \* stock_ledger: quantity out per delivery and item
  onHand,    \* stock of each item
  shipped,   \* sales_order_items.shipped_quantity
  order,     \* sales_orders.status
  billed,    \* amounts of the order's invoices
  invoices,  \* history variable: invoices made of each delivery
  pc,        \* where each session is
  op,        \* the operation it runs
  doc,       \* the delivery it works on
  copy,      \* the row it loaded and changed
  stale,     \* a line was inserted since it loaded the delivery with its lines
  dirty,     \* columns its save() is about to write
  want,      \* the lines it inserts or confirms
  left,      \* the items of those it has not come to
  item,      \* the item it is at
  read,      \* the count or status it has read and computed
  trouble    \* history variable: whether requests overlapped, how many failed
             \* and whether one was refused half-way

document == <<delivery, lines>>
stock == <<ledger, onHand>>
sales == <<shipped, order, billed, invoices>>
local == <<op, doc, copy, dirty, want, left, item, read>>
vars == <<delivery, lines, ledger, onHand, shipped, order, billed, invoices, pc, op,
          doc, copy, stale, dirty, want, left, item, read, trouble>>

Statuses == {"DRAFT", "SHIPPED", "DELIVERED", "CONFIRMED", "CANCELLED"}
OrderStatuses == {"Processing", "Delivered", "Closed", "Cancelled"}
Columns == {"status", "deleted", "total"}
NoRow == [status |-> "NONE", deleted |-> FALSE, total |-> 0]
NoLines == [i \in Items |-> 0]
NoRead == [shipped |-> 0, order |-> "keep"]

Open(d) == delivery[d].status \notin {"NONE", "CONFIRMED", "CANCELLED"} /\ ~delivery[d].deleted
ItemsOf(quantities) == {i \in Items : quantities[i] > 0}
Found(d) == delivery[d].status # "NONE" /\ ~delivery[d].deleted

Init ==
  /\ delivery = [d \in Deliveries |-> NoRow]
  /\ lines = [d \in Deliveries |-> NoLines]
  /\ ledger = [d \in Deliveries |-> NoLines]
  /\ onHand = Opening
  /\ shipped = NoLines
  /\ order = "Processing"
  /\ billed = {}
  /\ invoices = [d \in Deliveries |-> 0]
  /\ pc = [s \in Sessions |-> "idle"]
  /\ op = [s \in Sessions |-> "none"]
  /\ doc = [s \in Sessions |-> CHOOSE d \in Deliveries : TRUE]
  /\ copy = [s \in Sessions |-> NoRow]
  /\ stale = [s \in Sessions |-> FALSE]
  /\ dirty = [s \in Sessions |-> {}]
  /\ want = [s \in Sessions |-> NoLines]
  /\ left = [s \in Sessions |-> {}]
  /\ item = [s \in Sessions |-> CHOOSE i \in Items : TRUE]
  /\ read = [s \in Sessions |-> NoRead]
  /\ trouble = [overlap |-> FALSE, failures |-> 0, refused |-> FALSE]

(***************************************************************************)
(* Helpers of the request steps.                                           *)
(***************************************************************************)
Goto(s, to) == pc' = [pc EXCEPT ![s] = to]

\* The request ends; t is the trouble there has been by then.
EndWith(s, t) ==
  /\ Goto(s, "idle")
  /\ op' = [op EXCEPT ![s] = "none"]
  /\ doc' = [doc EXCEPT ![s] = CHOOSE d \in Deliveries : TRUE]
  /\ copy' = [copy EXCEPT ![s] = NoRow]
  /\ dirty' = [dirty EXCEPT ![s] = {}]
  /\ want' = [want EXCEPT ![s] = NoLines]
  /\ left' = [left EXCEPT ![s] = {}]
  /\ item' = [item EXCEPT ![s] = CHOOSE i \in Items : TRUE]
  /\ read' = [read EXCEPT ![s] = NoRead]
  /\ trouble' = t
End(s) == EndWith(s, trouble)
Refuse(s) == EndWith(s, [trouble EXCEPT !.refused = TRUE])

Begin(s, o, d, row, quantities, to) ==
  /\ pc[s] = "idle"
  /\ o \in Operations[s]
  /\ Goto(s, to)
  /\ op' = [op EXCEPT ![s] = o]
  /\ doc' = [doc EXCEPT ![s] = d]
  /\ copy' = [copy EXCEPT ![s] = row]
  /\ want' = [want EXCEPT ![s] = quantities]
  /\ left' = [left EXCEPT ![s] = ItemsOf(quantities)]
  /\ stale' = [stale EXCEPT ![s] = FALSE]
  /\ trouble' = [trouble EXCEPT !.overlap = @ \/ \E t \in Sessions : pc[t] # "idle"]
  /\ trouble'.overlap =>
       Cardinality({d} \cup {e \in Deliveries : delivery[e].status # "NONE"}) <= MaxMixed
  /\ UNCHANGED <<stock, sales, dirty, item, read>>

\* A line was inserted: the copies loaded with the lines before miss it.
Outdate(s) ==
  stale' = [t \in Sessions |-> stale[t] \/ (t # s /\ pc[t] # "idle" /\ doc[t] = doc[s])]

(***************************************************************************)
(* create(): header, lines and totals, each committed on its own.  One     *)
(* without lines leaves what one that fails after the header leaves.       *)
(***************************************************************************)
Create(s, d, quantities) ==
  /\ delivery[d].status = "NONE"
  /\ quantities # NoLines
  /\ Cardinality({e \in Deliveries : Open(e)}) < MaxOpen
  /\ Begin(s, "create", d, [NoRow EXCEPT !.status = "DRAFT"], quantities, "line")
  /\ delivery' = [delivery EXCEPT ![d].status = "DRAFT"]
  /\ UNCHANGED lines

InsertLine(s) ==
  /\ pc[s] = "line"
  /\ \E i \in left[s] :
       /\ lines' = [lines EXCEPT ![doc[s]][i] = @ + want[s][i]]
       /\ left' = [left EXCEPT ![s] = @ \ {i}]
       /\ Goto(s, IF left[s] = {i} THEN "select" ELSE "line")
  /\ copy' = [copy EXCEPT ![s].total = SumFunction(want[s])]
  /\ Outdate(s)
  /\ UNCHANGED <<delivery, stock, sales, op, doc, dirty, want, item, read, trouble>>

(***************************************************************************)
(* Handlers that load, check and save the delivery.                        *)
(***************************************************************************)
Load(s, o, d, row, quantities, to) ==
  /\ Found(d)
  /\ Begin(s, o, d, row, quantities, to)
  /\ UNCHANGED document

Ship(s, d) ==
  /\ delivery[d].status = "DRAFT"
  /\ Load(s, "ship", d, [delivery[d] EXCEPT !.status = "SHIPPED"], NoLines, "select")

Deliver(s, d) ==
  /\ delivery[d].status \in {"SHIPPED", "DRAFT"}
  /\ Load(s, "deliver", d, [delivery[d] EXCEPT !.status = "DELIVERED"], NoLines, "select")

\* Mutant: a confirmed delivery can be cancelled.
CancelConfirmed(s, d) ==
  /\ delivery[d].status # "CANCELLED"
  /\ Load(s, "cancel", d, [delivery[d] EXCEPT !.status = "CANCELLED"], NoLines, "select")

Cancel(s, d) ==
  /\ delivery[d].status \notin {"CANCELLED", "CONFIRMED"}
  /\ Load(s, "cancel", d, [delivery[d] EXCEPT !.status = "CANCELLED"], NoLines, "select")

Remove(s, d) ==
  /\ delivery[d].status \in {"DRAFT", "CANCELLED"}
  /\ Load(s, "remove", d, [delivery[d] EXCEPT !.deleted = TRUE], NoLines, "select")

\* A copy without lines (create()) is saved whatever was inserted.
SaveSelect(s) ==
  /\ pc[s] = "select"
  /\ op[s] # "create" => ~stale[s]
  /\ dirty' = [dirty EXCEPT ![s] = {c \in Columns : copy[s][c] # delivery[doc[s]][c]}]
  /\ Goto(s, "write")
  /\ UNCHANGED <<document, stock, sales, op, doc, copy, stale, want, left, item, read, trouble>>

\* deliver() goes on to confirm().
SaveWrite(s) ==
  /\ pc[s] = "write"
  /\ delivery' = [delivery EXCEPT ![doc[s]] =
       [c \in Columns |-> IF c \in dirty[s] THEN copy[s][c] ELSE @[c]]]
  /\ \/ op[s] = "deliver" /\ Goto(s, "confirm") /\ UNCHANGED <<local, trouble>>
     \/ op[s] # "deliver" /\ End(s)
  /\ UNCHANGED <<lines, stock, sales, stale>>

(***************************************************************************)
(* update(): lines deleted, lines inserted, header written.                *)
(***************************************************************************)
Update(s, d, quantities) ==
  /\ delivery[d].status = "DRAFT"
  /\ quantities # NoLines
  /\ Load(s, "update", d, delivery[d], quantities, "clear")

ClearLines(s) ==
  /\ pc[s] = "clear"
  /\ lines' = [lines EXCEPT ![doc[s]] = NoLines]
  /\ Goto(s, "lines")
  /\ UNCHANGED <<delivery, stock, sales, local, stale, trouble>>

InsertLines(s) ==
  /\ pc[s] = "lines"
  /\ lines' = [lines EXCEPT ![doc[s]] = [i \in Items |-> @[i] + want[s][i]]]
  /\ Outdate(s)
  /\ Goto(s, "header")
  /\ UNCHANGED <<delivery, stock, sales, local, trouble>>

WriteHeader(s) ==
  /\ pc[s] = "header"
  /\ delivery' = [delivery EXCEPT ![doc[s]].total = SumFunction(want[s])]
  /\ End(s)
  /\ UNCHANGED <<lines, stock, sales, stale>>

(***************************************************************************)
(* confirm()                                                               *)
(***************************************************************************)
Confirmable(d) == Found(d) /\ delivery[d].status \in {"DELIVERED", "SHIPPED"}

\* confirm() of a confirmed delivery returns it.
Confirm(s, d) ==
  /\ Confirmable(d)
  /\ Load(s, "confirm", d, delivery[d], NoLines, "read")

\* Called by deliver(): the delivery is loaded and checked once more.
ConfirmDelivered(s) ==
  /\ pc[s] = "confirm"
  /\ \/ Confirmable(doc[s]) /\ Goto(s, "read") /\ UNCHANGED <<local, trouble>>
     \/ ~Confirmable(doc[s]) /\ Refuse(s)
  /\ UNCHANGED <<document, stock, sales, stale>>

ReadLines(s) ==
  /\ pc[s] = "read"
  /\ \/ /\ lines[doc[s]] # NoLines
        /\ want' = [want EXCEPT ![s] = lines[doc[s]]]
        /\ left' = [left EXCEPT ![s] = ItemsOf(lines[doc[s]])]
        /\ Goto(s, "check")
        /\ UNCHANGED <<op, doc, copy, dirty, item, read, trouble>>
     \/ lines[doc[s]] = NoLines /\ Refuse(s)
  /\ UNCHANGED <<document, stock, sales, stale>>

\* Mutant: the ledger is not looked at.
CheckNothing(s) ==
  /\ pc[s] = "check"
  /\ Goto(s, "ledger")
  /\ UNCHANGED <<document, stock, sales, local, stale, trouble>>

\* "Check if ledger entries already created for this delivery (to prevent
\* duplicate stock deduction)"
CheckLedger(s) ==
  /\ pc[s] = "check"
  /\ Goto(s, IF ledger[doc[s]] = NoLines THEN "ledger" ELSE "mark")
  /\ UNCHANGED <<document, stock, sales, local, stale, trouble>>

LedgerRow(s) ==
  /\ pc[s] = "ledger"
  /\ \E i \in left[s] :
       /\ ledger' = [ledger EXCEPT ![doc[s]][i] = @ + want[s][i]]
       /\ item' = [item EXCEPT ![s] = i]
  /\ Goto(s, "deduct")
  /\ UNCHANGED <<document, onHand, sales, op, doc, copy, stale, dirty, want, left, read, trouble>>

\* Mutant: the balance moves the wrong way.
DeductIn(s) ==
  LET i == item[s]
  IN /\ pc[s] = "deduct"
     /\ onHand' = [onHand EXCEPT ![i] = @ + want[s][i]]
     /\ left' = [left EXCEPT ![s] = @ \ {i}]
     /\ Goto(s, IF left[s] = {i} THEN "mark" ELSE "ledger")
     /\ UNCHANGED <<document, ledger, sales, op, doc, copy, stale, dirty, want, item, read, trouble>>

\* Mutant: the balance is not compared with the quantity.
DeductUnchecked(s) ==
  LET i == item[s]
  IN /\ pc[s] = "deduct"
     /\ onHand' = [onHand EXCEPT ![i] = @ - want[s][i]]
     /\ left' = [left EXCEPT ![s] = @ \ {i}]
     /\ Goto(s, IF left[s] = {i} THEN "mark" ELSE "ledger")
     /\ UNCHANGED <<document, ledger, sales, op, doc, copy, stale, dirty, want, item, read, trouble>>

\* updateBalance(..., 'OUT')
Deduct(s) ==
  LET i == item[s]
  IN /\ pc[s] = "deduct"
     /\ onHand[i] >= want[s][i]
     /\ onHand' = [onHand EXCEPT ![i] = @ - want[s][i]]
     /\ left' = [left EXCEPT ![s] = @ \ {i}]
     /\ Goto(s, IF left[s] = {i} THEN "mark" ELSE "ledger")
     /\ UNCHANGED <<document, ledger, sales, op, doc, copy, stale, dirty, want, item, read, trouble>>

\* It refuses to go below nothing; the ledger row has been committed.
DeductRefused(s) ==
  /\ pc[s] = "deduct"
  /\ onHand[item[s]] < want[s][item[s]]
  /\ Refuse(s)
  /\ UNCHANGED <<document, stock, sales, stale>>

\* Whatever status the delivery has by now.
Mark(s) ==
  /\ pc[s] = "mark"
  /\ delivery' = [delivery EXCEPT ![doc[s]].status = "CONFIRMED"]
  /\ left' = [left EXCEPT ![s] = ItemsOf(want[s])]
  /\ Goto(s, "ship")
  /\ UNCHANGED <<lines, stock, sales, op, doc, copy, stale, dirty, want, item, read, trouble>>

ReadShipped(s) ==
  /\ pc[s] = "ship"
  /\ \E i \in left[s] :
       /\ item' = [item EXCEPT ![s] = i]
       /\ read' = [read EXCEPT ![s].shipped = shipped[i]]
  /\ Goto(s, "shipped")
  /\ UNCHANGED <<document, stock, sales, op, doc, copy, stale, dirty, want, left, trouble>>

WriteShipped(s) ==
  LET i == item[s]
  IN /\ pc[s] = "shipped"
     /\ shipped' = [shipped EXCEPT ![i] = read[s].shipped + want[s][i]]
     /\ left' = [left EXCEPT ![s] = @ \ {i}]
     /\ Goto(s, IF left[s] = {i} THEN "items" ELSE "ship")
     /\ UNCHANGED <<document, stock, order, billed, invoices, op, doc, copy, stale, dirty,
                    want, item, read, trouble>>

\* Mutant: one delivered item is enough.
OrderStatusAny ==
  IF \E i \in Items : shipped[i] >= Ordered[i] THEN "Delivered" ELSE "Processing"

OrderStatus ==
  IF \A i \in Items : shipped[i] >= Ordered[i] THEN "Delivered" ELSE "Processing"

ReadItems(s) ==
  /\ pc[s] = "items"
  /\ read' = [read EXCEPT ![s].order = IF order = "Closed" THEN "keep" ELSE OrderStatus]
  /\ Goto(s, "order")
  /\ UNCHANGED <<document, stock, sales, op, doc, copy, stale, dirty, want, left, item, trouble>>

WriteOrder(s) ==
  /\ pc[s] = "order"
  /\ order' = IF read[s].order = "keep" THEN order ELSE read[s].order
  /\ End(s)
  /\ UNCHANGED <<document, stock, shipped, billed, invoices, stale>>

(***************************************************************************)
(* convertToInvoice(): an invoice of the same order and amount is returned *)
(* instead of a second one.                                                *)
(***************************************************************************)
Convert(s, d) ==
  /\ delivery[d].status \in {"CONFIRMED", "DELIVERED", "SHIPPED"}
  /\ delivery[d].total \notin billed
  /\ Load(s, "convert", d, delivery[d], NoLines, "invoice")

InsertInvoice(s) ==
  /\ pc[s] = "invoice"
  /\ billed' = billed \cup {copy[s].total}
  /\ invoices' = [invoices EXCEPT ![doc[s]] = @ + 1]
  /\ End(s)
  /\ UNCHANGED <<document, stock, shipped, order, stale>>

\* The process or its connection dies: what was written stays.
Fail(s) ==
  /\ pc[s] # "idle"
  /\ trouble.failures < MaxFailures
  /\ EndWith(s, [trouble EXCEPT !.failures = @ + 1])
  /\ UNCHANGED <<document, stock, sales, stale>>

(***************************************************************************)
(* close() and cancel() of SalesOrderService, as one step each.            *)
(***************************************************************************)
EndOrder ==
  /\ \/ order = "Delivered" /\ order' = "Closed"
     \/ order \notin {"Cancelled", "Closed"} /\ order' = "Cancelled"
  /\ UNCHANGED <<document, stock, shipped, billed, invoices, pc, local, stale, trouble>>

Start(s) ==
  \E d \in Deliveries :
    \/ \E quantities \in [Items -> Quantities] :
         Create(s, d, quantities) \/ Update(s, d, quantities)
    \/ Ship(s, d) \/ Deliver(s, d) \/ Confirm(s, d) \/ Cancel(s, d) \/ Remove(s, d)
    \/ Convert(s, d)

Continue(s) ==
  \/ InsertLine(s) \/ SaveSelect(s) \/ SaveWrite(s)
  \/ ClearLines(s) \/ InsertLines(s) \/ WriteHeader(s)
  \/ ConfirmDelivered(s) \/ ReadLines(s) \/ CheckLedger(s) \/ LedgerRow(s)
  \/ Deduct(s) \/ DeductRefused(s) \/ Mark(s)
  \/ ReadShipped(s) \/ WriteShipped(s) \/ ReadItems(s) \/ WriteOrder(s)
  \/ InsertInvoice(s)

Next == EndOrder \/ \E s \in Sessions : Start(s) \/ Continue(s) \/ Fail(s)
Spec == Init /\ [][Next]_vars

(***************************************************************************)
(* Properties.                                                             *)
(***************************************************************************)
TypeOK ==
  /\ delivery \in [Deliveries -> [status: Statuses \cup {"NONE"}, deleted: BOOLEAN, total: Nat]]
  /\ lines \in [Deliveries -> [Items -> Nat]]
  /\ ledger \in [Deliveries -> [Items -> Nat]]
  /\ onHand \in [Items -> Nat]
  /\ shipped \in [Items -> Nat]
  /\ order \in OrderStatuses
  /\ billed \subseteq Nat
  /\ invoices \in [Deliveries -> Nat]
  /\ pc \in [Sessions -> {"idle", "line", "select", "write", "clear", "lines", "header",
                          "confirm", "read", "check", "ledger", "deduct", "mark", "ship",
                          "shipped", "items", "order", "invoice"}]
  /\ op \in [Sessions -> (UNION {Operations[s] : s \in Sessions}) \cup {"none"}]
  /\ doc \in [Sessions -> Deliveries]
  /\ copy \in [Sessions -> [status: Statuses \cup {"NONE"}, deleted: BOOLEAN, total: Nat]]
  /\ stale \in [Sessions -> BOOLEAN]
  /\ dirty \in [Sessions -> SUBSET Columns]
  /\ want \in [Sessions -> [Items -> Nat]]
  /\ left \in [Sessions -> SUBSET Items]
  /\ item \in [Sessions -> Items]
  /\ read \in [Sessions -> [shipped: Nat, order: {"keep", "Processing", "Delivered"}]]
  /\ trouble \in [overlap: BOOLEAN, failures: 0..MaxFailures, refused: BOOLEAN]

\* All requests have ended, one after another, and none on the way.
AtRest == ~trouble.overlap /\ trouble.failures = 0 /\ \A s \in Sessions : pc[s] = "idle"
Out(i) == SumFunction([d \in Deliveries |-> ledger[d][i]])
ConfirmedOf(i) ==
  SumFunction([d \in Deliveries |-> IF delivery[d].status = "CONFIRMED" THEN lines[d][i] ELSE 0])

\* A delivery reads CONFIRMED only if something of it is on the stock ledger,
\* however requests interleave, fail and are tried again.
ConfirmedHasLedger ==
  \A d \in Deliveries : delivery[d].status = "CONFIRMED" => ledger[d] # NoLines

\* No stock is taken without a ledger row, and none is made: however confirm()s
\* interleave and wherever they fail, what an item has lost lies between
\* nothing and what its ledger says went out.
StockCoveredByLedger ==
  \A i \in Items : Opening[i] - onHand[i] \in 0..Out(i)

\* confirm() writes the ledger row of a line, then its balance, and the status
\* last: whatever overlaps, dies or is refused in between, each later write is
\* covered by an earlier one.
LedgerComesFirst == ConfirmedHasLedger /\ StockCoveredByLedger

\* "to prevent duplicate stock deduction" (line 481): confirm() repeated after a
\* failure or a refusal at any step never puts a line on the ledger twice.
DeductedOnce ==
  ~trouble.overlap =>
    \A d \in Deliveries, i \in Items : ledger[d][i] <= lines[d][i]

\* Requests that follow each other and run through leave each confirmed delivery
\* on the ledger in full, the stock lower by the ledger, and the order's shipped
\* quantities the sum over its confirmed deliveries.
ConfirmedIsComplete ==
  AtRest /\ ~trouble.refused =>
    /\ \A d \in Deliveries :
         ledger[d] = IF delivery[d].status = "CONFIRMED" THEN lines[d] ELSE NoLines
    /\ \A i \in Items : onHand[i] = Opening[i] - Out(i) /\ shipped[i] = ConfirmedOf(i)

\* An order that reads Delivered, or was closed from there, has every item
\* shipped in full, also when a confirm() failed between item and order.
DeliveredMeansShipped ==
  ~trouble.overlap /\ order \in {"Delivered", "Closed"} =>
    \A i \in Items : shipped[i] >= Ordered[i]

\* "Duplicate protection" (line 643): requests that follow each other, tried
\* again after any failure, never make two invoices of one delivery.
InvoicedOnce ==
  ~trouble.overlap => \A d \in Deliveries : invoices[d] <= 1

\* Requests that follow each other, repeated by the client after any failure, take
\* the goods of a delivery out once and bill them once.
OncePerDelivery == DeductedOnce /\ InvoicedOnce

\* "Auto-confirm so stock ledger entries and stock balances are deducted
\* immediately" (line 458): with requests one after another, none failing, and
\* confirm() tried again when it was refused, a confirmed delivery's lines have
\* left the stock.
ConfirmedIsDeducted ==
  AtRest =>
    \A i \in Items : ConfirmedOf(i) <= Opening[i] - onHand[i]
=============================================================================

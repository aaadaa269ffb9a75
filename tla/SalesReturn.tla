------------------------------- MODULE SalesReturn -------------------------------
(***************************************************************************)
(* SalesReturnService: the returns of one invoice of one item, the stock   *)
(* they bring back, their credit notes, and the invoice that credits and   *)
(* payments (SalesInvoiceService.recordPayment) settle.  create() and      *)
(* update() commit step by step; submit(), approve(), reject() and         *)
(* cancel() load a return, change the copy and save it without a lock;     *)
(* receiveStock() and generateCreditNote() lock the return in a            *)
(* transaction and check it once more.                                     *)
(*                                                                         *)
(* save() of a return works as in StockTransfer (SaveSelect, SaveWrite).   *)
(* What a transaction writes is written at its commit; until then it holds *)
(* its row lock and, from the number on, the credit-note lock.  Invoice    *)
(* statuses, journals and delivery notes are left out; every price is 1.   *)
(***************************************************************************)
EXTENDS Integers, FiniteSetsExt, Functions

CONSTANTS
  Sessions,     \* concurrent requests
  Operations,   \* what each may do, of those in Start
  Returns,      \* returns of the invoice
  Requested,    \* lines a request may ask for: quantity per condition, 0 for no line
  Delivered,    \* quantity the invoice's order delivered, and the invoice's total
  MaxReceipts,  \* bound: payments on the customer's ledger
  MaxMixed,     \* bound: returns there are once other requests than
                \* receiveStock() and generateCreditNote() overlap
  NoSession     \* holder of a lock nobody holds

Conditions == {"GOOD", "DAMAGED"}

ASSUME ConstantsAssumption ==
  /\ NoSession \notin Sessions
  /\ IsFiniteSet(Returns) /\ Returns # {}
  /\ {Delivered, MaxReceipts, MaxMixed} \subseteq Nat
  /\ Requested \subseteq [Conditions -> Nat]

VARIABLES
  return,    \* sales_returns: status, stock_posted, credit_posted, number, total
  lines,     \* sales_return_lines: quantity per condition
  ledger,    \* stock_ledger: quantity in per return and condition
  onHand,    \* sellable stock the returns brought
  credits,   \* customer ledger: amount credited for each return
  invoice,   \* sales_invoices: paid_amount and balance
  receipts,  \* customer ledger: sum of the payments
  rowLock,   \* who holds the row lock of a return
  noteLock,  \* who holds the advisory lock of the credit notes
  pc,        \* where each session is
  op,        \* the operation it runs
  doc,       \* the return it works on
  copy,      \* the row it loaded and changed
  stale,     \* a line was inserted since it loaded the return with its lines
  dirty,     \* columns its save() is about to write
  want,      \* the lines it inserts or receives
  bill,      \* the invoice it is about to write
  healed,    \* history variable: a page view has written the stock
  mixed      \* history variable: requests overlapped, other than receiving
             \* stock and crediting

document == <<return, lines>>
stock == <<ledger, onHand, healed>>
money == <<credits, invoice, receipts>>
locks == <<rowLock, noteLock>>
local == <<op, doc, copy, dirty, want, bill>>
vars == <<return, lines, ledger, onHand, healed, credits, invoice, receipts, rowLock, noteLock,
          pc, op, doc, copy, stale, dirty, want, bill, mixed>>

Statuses == {"DRAFT", "SUBMITTED", "APPROVED", "RECEIVED", "CREDITED", "COMPLETED",
             "REJECTED", "CANCELLED"}
Columns == {"status", "stock", "credit", "number", "total"}
Locking == {"receive", "credit"}  \* operations that lock the return
NoRow == [status |-> "NONE", stock |-> FALSE, credit |-> FALSE, number |-> 0, total |-> 0]
NoLines == [c \in Conditions |-> 0]
NoBill == [paid |-> 0, balance |-> 0, amount |-> 0]
AtLeastZero(n) == Max({0, n})

Init ==
  /\ return = [r \in Returns |-> NoRow]
  /\ lines = [r \in Returns |-> NoLines]
  /\ ledger = [r \in Returns |-> NoLines]
  /\ onHand = 0
  /\ healed = FALSE
  /\ credits = [r \in Returns |-> 0]
  /\ invoice = [paid |-> 0, balance |-> Delivered]
  /\ receipts = 0
  /\ rowLock = [r \in Returns |-> NoSession]
  /\ noteLock = NoSession
  /\ pc = [s \in Sessions |-> "idle"]
  /\ op = [s \in Sessions |-> "none"]
  /\ doc = [s \in Sessions |-> CHOOSE r \in Returns : TRUE]
  /\ copy = [s \in Sessions |-> NoRow]
  /\ stale = [s \in Sessions |-> FALSE]
  /\ dirty = [s \in Sessions |-> {}]
  /\ want = [s \in Sessions |-> NoLines]
  /\ bill = [s \in Sessions |-> NoBill]
  /\ mixed = FALSE

(***************************************************************************)
(* Helpers of the request steps.                                           *)
(***************************************************************************)
Goto(s, to) == pc' = [pc EXCEPT ![s] = to]

End(s) ==
  /\ Goto(s, "idle")
  /\ op' = [op EXCEPT ![s] = "none"]
  /\ doc' = [doc EXCEPT ![s] = CHOOSE r \in Returns : TRUE]
  /\ copy' = [copy EXCEPT ![s] = NoRow]
  /\ dirty' = [dirty EXCEPT ![s] = {}]
  /\ want' = [want EXCEPT ![s] = NoLines]
  /\ bill' = [bill EXCEPT ![s] = NoBill]
  /\ UNCHANGED mixed

\* A request for operation o on return r starts; return' is given before.
Begin(s, o, r, row, quantities, to) ==
  /\ pc[s] = "idle"
  /\ o \in Operations[s]
  /\ Goto(s, to)
  /\ op' = [op EXCEPT ![s] = o]
  /\ doc' = [doc EXCEPT ![s] = r]
  /\ copy' = [copy EXCEPT ![s] = row]
  /\ want' = [want EXCEPT ![s] = quantities]
  /\ stale' = [stale EXCEPT ![s] = FALSE]
  /\ mixed' = (mixed \/ \E t \in Sessions : pc[t] # "idle" /\ ~({o, op[t]} \subseteq Locking))
  /\ mixed' => Cardinality({q \in Returns : return'[q].status # "NONE"}) <= MaxMixed
  /\ UNCHANGED <<stock, money, locks, dirty>>

(***************************************************************************)
(* What may be returned.                                                   *)
(***************************************************************************)
Quantity(rows, r) == SumFunction(rows[r])
Active(r) == return[r].status \notin {"NONE", "CANCELLED", "REJECTED"}

Returned == SumFunction([r \in Returns |-> IF Active(r) THEN Quantity(lines, r) ELSE 0])

\* getReturnableItems()
Returnable == AtLeastZero(Delivered - Returned)

\* Mutant: the returns there are do not count.
ValidAnew(quantities, back) == \A c \in Conditions : quantities[c] <= Delivered + back

\* validateReturnQuantities(): line by line; `back' is the old line that an
\* update() gives back.
Valid(quantities, back) == \A c \in Conditions : quantities[c] <= Returnable + back

(***************************************************************************)
(* create(): header, lines and totals, each committed on its own.          *)
(***************************************************************************)
Create(s, r, quantities) ==
  /\ return[r].status = "NONE"
  /\ Valid(quantities, 0)
  /\ return' = [return EXCEPT ![r].status = "DRAFT"]
  /\ Begin(s, "create", r, [NoRow EXCEPT !.status = "DRAFT"], quantities, "line")
  /\ UNCHANGED <<lines, bill>>

\* After the last line the totals are saved.
InsertLine(s) ==
  /\ pc[s] = "line"
  /\ \E c \in Conditions :
       /\ want[s][c] > 0
       /\ lines' = [lines EXCEPT ![doc[s]][c] = @ + want[s][c]]
       /\ want' = [want EXCEPT ![s][c] = 0]
       /\ copy' = [copy EXCEPT ![s].total = @ + want[s][c]]
  /\ stale' = [t \in Sessions |->
                 stale[t] \/ (pc[t] # "idle" /\ doc[t] = doc[s] /\ op[t] # "create")]
  /\ Goto(s, IF want'[s] = NoLines THEN "select" ELSE "line")
  /\ UNCHANGED <<return, stock, money, locks, op, doc, dirty, bill, mixed>>

(***************************************************************************)
(* Handlers that load, check and save the return.                          *)
(***************************************************************************)
Load(s, o, r, row, quantities, to) ==
  /\ return[r].status # "NONE"
  /\ UNCHANGED <<document, bill>>
  /\ Begin(s, o, r, row, quantities, to)

Advance(s, o, r, from, to) ==
  /\ return[r].status \in from
  /\ Load(s, o, r, [return[r] EXCEPT !.status = to], NoLines, "select")

Posted(r) == return[r].stock \/ return[r].credit

Submit(s, r) == Advance(s, "submit", r, {"DRAFT"}, "SUBMITTED")
Approve(s, r) == Advance(s, "approve", r, {"SUBMITTED"}, "APPROVED")
Reject(s, r) == ~Posted(r) /\ Advance(s, "reject", r, {"DRAFT", "SUBMITTED"}, "REJECTED")

Cancel(s, r) ==
  ~Posted(r) /\ Advance(s, "cancel", r, Statuses \ {"CANCELLED", "REJECTED"}, "CANCELLED")

\* update() without lines.
UpdateHeader(s, r) == Advance(s, "update", r, {"DRAFT"}, "DRAFT")

\* update() with lines.
Update(s, r, quantities) ==
  /\ return[r].status = "DRAFT"
  /\ \E back \in {q \in Range(lines[r]) : q > 0 \/ lines[r] = NoLines} : Valid(quantities, back)
  /\ Load(s, "update", r, [return[r] EXCEPT !.total = 0], quantities, "clear")

ClearLines(s) ==
  /\ pc[s] = "clear"
  /\ lines' = [lines EXCEPT ![doc[s]] = NoLines]
  /\ Goto(s, "line")
  /\ UNCHANGED <<return, stock, money, locks, local, stale, mixed>>

SaveSelect(s) ==
  /\ pc[s] = "select"
  /\ ~stale[s]
  /\ dirty' = [dirty EXCEPT ![s] = {c \in Columns : copy[s][c] # return[doc[s]][c]}]
  /\ Goto(s, "write")
  /\ UNCHANGED <<document, stock, money, locks, op, doc, copy, stale, want, bill, mixed>>

\* save() would take a line that the loaded ones miss from its return, which
\* the database refuses.  Each update() with lines ends here.
SaveRefused(s) ==
  /\ pc[s] = "select"
  /\ stale[s]
  /\ End(s)
  /\ UNCHANGED <<document, stock, money, locks, stale>>

\* Waits for the row lock.
SaveWrite(s) ==
  /\ pc[s] = "write"
  /\ rowLock[doc[s]] = NoSession
  /\ return' = [return EXCEPT ![doc[s]] =
       [c \in Columns |-> IF c \in dirty[s] THEN copy[s][c] ELSE @[c]]]
  /\ End(s)
  /\ UNCHANGED <<lines, stock, money, locks, stale>>

(***************************************************************************)
(* receiveStock(): checked at the load and again under the row lock; the   *)
(* lines are those of the load.                                            *)
(***************************************************************************)
Open(r) == return[r].status \in {"APPROVED", "RECEIVED", "CREDITED"}
Receivable(r) == ~return[r].stock /\ Open(r)

Receive(s, r) ==
  /\ Receivable(r)
  /\ lines[r] # NoLines
  /\ Load(s, "receive", r, return[r], lines[r], "lock")

\* Mutant: no check under the lock.
LockStockUnchecked(s) ==
  /\ pc[s] = "lock" /\ op[s] = "receive"
  /\ rowLock[doc[s]] = NoSession
  /\ rowLock' = [rowLock EXCEPT ![doc[s]] = s]
  /\ Goto(s, "stock")
  /\ UNCHANGED <<document, stock, money, noteLock, local, stale, mixed>>

LockStock(s) ==
  /\ pc[s] = "lock" /\ op[s] = "receive"
  /\ rowLock[doc[s]] = NoSession
  /\ Receivable(doc[s])
  /\ rowLock' = [rowLock EXCEPT ![doc[s]] = s]
  /\ Goto(s, "stock")
  /\ UNCHANGED <<document, stock, money, noteLock, local, stale, mixed>>

AfterStock(s) == IF return[doc[s]].credit THEN "COMPLETED" ELSE "RECEIVED"

\* Mutant: damaged goods become sellable.
SellableAll(s) == SumFunction(want[s])

Sellable(s) == want[s]["GOOD"]

CommitStock(s) ==
  LET r == doc[s]
  IN /\ pc[s] = "stock"
     /\ ledger' = [ledger EXCEPT ![r] = [c \in Conditions |-> @[c] + want[s][c]]]
     /\ onHand' = onHand + Sellable(s)
     /\ return' = [return EXCEPT ![r].stock = TRUE, ![r].status = AfterStock(s)]
     /\ rowLock' = [rowLock EXCEPT ![r] = NoSession]
     /\ End(s)
     /\ UNCHANGED <<lines, money, noteLock, healed, stale>>

\* enrichDynamicReservations(): a page that shows the stock writes the net
\* quantity of the ledger to it, where it differs.
View ==
  LET net == SumFunction([r \in Returns |-> Quantity(ledger, r)])
  IN /\ onHand # net
     /\ onHand' = net
     /\ healed' = TRUE
     /\ UNCHANGED <<document, ledger, money, locks, pc, local, stale, mixed>>

(***************************************************************************)
(* generateCreditNote(): row lock, credit-note lock, number, customer      *)
(* ledger, return and invoice.                                             *)
(***************************************************************************)
Creditable(r) == ~return[r].credit /\ Open(r)

Credit(s, r) ==
  /\ Creditable(r)
  /\ Load(s, "credit", r, return[r], NoLines, "lock")

\* Mutant: no check under the lock.
LockCreditUnchecked(s) ==
  /\ pc[s] = "lock" /\ op[s] = "credit"
  /\ rowLock[doc[s]] = NoSession
  /\ rowLock' = [rowLock EXCEPT ![doc[s]] = s]
  /\ copy' = [copy EXCEPT ![s] = return[doc[s]]]
  /\ Goto(s, "number")
  /\ UNCHANGED <<document, stock, money, noteLock, op, doc, dirty, want, bill, stale, mixed>>

LockCredit(s) ==
  /\ pc[s] = "lock" /\ op[s] = "credit"
  /\ rowLock[doc[s]] = NoSession
  /\ Creditable(doc[s])
  /\ rowLock' = [rowLock EXCEPT ![doc[s]] = s]
  /\ copy' = [copy EXCEPT ![s] = return[doc[s]]]
  /\ Goto(s, "number")
  /\ UNCHANGED <<document, stock, money, noteLock, op, doc, dirty, want, bill, stale, mixed>>

\* The check under the lock of either.
LockRefused(s) ==
  /\ pc[s] = "lock"
  /\ rowLock[doc[s]] = NoSession
  /\ ~(IF op[s] = "receive" THEN Receivable(doc[s]) ELSE Creditable(doc[s]))
  /\ End(s)
  /\ UNCHANGED <<document, stock, money, locks, stale>>

NextNumber == 1 + Max({return[r].number : r \in Returns})

TakeNumber(s) ==
  /\ pc[s] = "number"
  /\ noteLock = NoSession
  /\ noteLock' = s
  /\ copy' = [copy EXCEPT ![s].number = IF @ # 0 THEN @ ELSE NextNumber]
  /\ Goto(s, "bill")
  /\ UNCHANGED <<document, stock, money, rowLock, op, doc, dirty, want, bill, stale, mixed>>

\* sumPostedCreditNotes()
Credited == SumFunction([r \in Returns |-> IF return[r].credit THEN return[r].total ELSE 0])

\* Mutant: only this return's credit comes off.
OutstandingOwn(s) == AtLeastZero(Delivered - invoice.paid - copy[s].total)

\* With this return's own credit, which the transaction has saved.
Outstanding(s) == AtLeastZero(Delivered - invoice.paid - (Credited + copy[s].total))

ReadInvoice(s) ==
  /\ pc[s] = "bill"
  /\ bill' = [bill EXCEPT ![s] = [NoBill EXCEPT !.balance = Outstanding(s)]]
  /\ Goto(s, "credit")
  /\ UNCHANGED <<document, stock, money, locks, op, doc, copy, dirty, want, stale, mixed>>

\* The invoice's paid_amount was read, not changed, and is not written.
CommitCredit(s) ==
  LET r == doc[s]
  IN /\ pc[s] = "credit"
     /\ credits' = [credits EXCEPT ![r] = @ + copy[s].total]
     /\ return' = [return EXCEPT ![r].credit = TRUE, ![r].number = copy[s].number,
                                 ![r].status = IF return[r].stock THEN "COMPLETED" ELSE "CREDITED"]
     /\ invoice' = [invoice EXCEPT !.balance = bill[s].balance]
     /\ rowLock' = [rowLock EXCEPT ![r] = NoSession]
     /\ noteLock' = NoSession
     /\ End(s)
     /\ UNCHANGED <<lines, stock, receipts, stale>>

(***************************************************************************)
(* recordPayment() of the invoice: read and checked, saved, entered in the *)
(* customer's ledger.                                                      *)
(***************************************************************************)
Pay(s, amount) ==
  /\ amount <= AtLeastZero(Delivered - invoice.paid - Credited)
  /\ receipts + amount <= MaxReceipts
  /\ UNCHANGED document
  /\ Begin(s, "pay", CHOOSE r \in Returns : TRUE, NoRow, NoLines, "pay")
  /\ bill' = [bill EXCEPT ![s] =
       [paid |-> invoice.paid + amount, amount |-> amount,
        balance |-> AtLeastZero(Delivered - (invoice.paid + amount) - Credited)]]

SavePayment(s) ==
  /\ pc[s] = "pay"
  /\ invoice' = [paid |-> bill[s].paid, balance |-> bill[s].balance]
  /\ Goto(s, "receipt")
  /\ UNCHANGED <<document, stock, credits, receipts, locks, local, stale, mixed>>

EnterReceipt(s) ==
  /\ pc[s] = "receipt"
  /\ receipts' = receipts + bill[s].amount
  /\ End(s)
  /\ UNCHANGED <<document, stock, credits, invoice, locks, stale>>

\* The process or its connection dies: a transaction is undone, what was
\* committed stays.
Fail(s) ==
  /\ pc[s] # "idle"
  /\ rowLock' = [r \in Returns |-> IF rowLock[r] = s THEN NoSession ELSE rowLock[r]]
  /\ noteLock' = IF noteLock = s THEN NoSession ELSE noteLock
  /\ End(s)
  /\ UNCHANGED <<document, stock, money, stale>>

Start(s) ==
  \/ \E r \in Returns :
       \/ \E quantities \in Requested : Create(s, r, quantities) \/ Update(s, r, quantities)
       \/ Submit(s, r) \/ Approve(s, r) \/ Reject(s, r) \/ Cancel(s, r) \/ UpdateHeader(s, r)
       \/ Receive(s, r) \/ Credit(s, r)
  \/ \E amount \in 1..Delivered : Pay(s, amount)

Continue(s) ==
  \/ InsertLine(s) \/ ClearLines(s) \/ SaveSelect(s) \/ SaveRefused(s) \/ SaveWrite(s)
  \/ LockStock(s) \/ LockCredit(s) \/ LockRefused(s) \/ CommitStock(s)
  \/ TakeNumber(s) \/ ReadInvoice(s) \/ CommitCredit(s)
  \/ SavePayment(s) \/ EnterReceipt(s)

Next == View \/ \E s \in Sessions : Start(s) \/ Continue(s) \/ Fail(s)
Spec == Init /\ [][Next]_vars

(***************************************************************************)
(* Properties.                                                             *)
(***************************************************************************)
TypeOK ==
  /\ return \in [Returns -> [status: Statuses \cup {"NONE"}, stock: BOOLEAN, credit: BOOLEAN,
                             number: Nat, total: Nat]]
  /\ lines \in [Returns -> [Conditions -> Nat]]
  /\ ledger \in [Returns -> [Conditions -> Nat]]
  /\ onHand \in Nat
  /\ healed \in BOOLEAN
  /\ credits \in [Returns -> Nat]
  /\ invoice \in [paid: Nat, balance: 0..Delivered]
  /\ receipts \in Nat
  /\ rowLock \in [Returns -> Sessions \cup {NoSession}]
  /\ noteLock \in Sessions \cup {NoSession}
  /\ pc \in [Sessions -> {"idle", "line", "clear", "select", "write", "lock", "stock",
                          "number", "bill", "credit", "pay", "receipt"}]
  /\ op \in [Sessions -> (UNION {Operations[s] : s \in Sessions}) \cup {"none"}]
  /\ doc \in [Sessions -> Returns]
  /\ copy \in [Sessions -> [status: Statuses \cup {"NONE"}, stock: BOOLEAN, credit: BOOLEAN,
                            number: Nat, total: Nat]]
  /\ stale \in [Sessions -> BOOLEAN]
  /\ dirty \in [Sessions -> SUBSET Columns]
  /\ want \in [Sessions -> [Conditions -> Nat]]
  /\ bill \in [Sessions -> [paid: Nat, balance: 0..Delivered, amount: Nat]]
  /\ mixed \in BOOLEAN

AllIdle == \A s \in Sessions : pc[s] = "idle"

\* "concurrent receive/credit-note requests on the same return cannot
\* double-post" (lines 459-460) and "Idempotent: stock balance increases only
\* once" (line 458), for the stock: through any interleaving and failure of
\* them, the ledger has the lines of a return once its stock is posted and
\* nothing before.
StockReturnsOnce ==
  ~mixed => \A r \in Returns : ledger[r] = IF return[r].stock THEN lines[r] ELSE NoLines

\* The same for the customer's ledger: a return is credited its total once.
CreditedOnce ==
  ~mixed => \A r \in Returns : credits[r] = IF return[r].credit THEN return[r].total ELSE 0

\* "DAMAGED, REJECTED, SCRAP, REWORK_REQUIRED must NOT enter normal sellable FG
\* stock" (line 545), whatever overlaps or fails, as long as no page view has
\* written the stock.
OnlyGoodIsSellable == ~healed => onHand = SumFunction([r \in Returns |-> ledger[r]["GOOD"]])

\* A return's status says which of its two postings happened, in whatever order
\* and overlap they came; one that was cancelled or rejected has none.
StatusTellsPostings ==
  ~mixed => \A r \in Returns :
    /\ return[r].stock /\ return[r].credit <=> return[r].status = "COMPLETED"
    /\ return[r].stock /\ ~return[r].credit <=> return[r].status = "RECEIVED"
    /\ ~return[r].stock /\ return[r].credit <=> return[r].status = "CREDITED"

\* "so CN-YYYY-NNNNN numbers are never duplicated" (line 584)
NumbersUnique ==
  ~mixed => \A q, r \in Returns :
    q # r /\ return[q].number # 0 => return[q].number # return[r].number

\* Receipts and credit notes of a customer's returns may overlap and fail anywhere:
\* each return's stock and credit are posted once, its status tells which were, and
\* its credit note has a number of its own.
EachPostedOnce ==
  StockReturnsOnce /\ CreditedOnce /\ StatusTellsPostings /\ NumbersUnique

\* "Balance = max(0, total - paid - all posted credit notes)" (line 657): after
\* payments and credit notes that do not overlap each other, however the credit
\* notes of several returns do and whatever failed.
BalanceSettles ==
  ~mixed /\ AllIdle => invoice.balance = AtLeastZero(Delivered - invoice.paid - Credited)

\* "Return Quantity Validation: Must never exceed Original Delivered - Previously
\* Returned" (line 116): requests one at a time, of which some fail half-way,
\* never bring the active returns of the invoice above what was delivered.
ReturnedWithinDelivered ==
  ~mixed => Returned <= Delivered

\* "must NOT enter normal sellable FG stock" (line 545), once and for all: neither
\* at the receipt nor by what the system does to the stock afterwards.
DamagedStaysOut == onHand = SumFunction([r \in Returns |-> ledger[r]["GOOD"]])

\* However requests interleave, stock comes back only with a return that is not
\* marked posted at that very step, is approved, received or credited, and is
\* marked by the step.
StockOnlyFromUnposted ==
  [][\A r \in Returns : ledger'[r] # ledger[r] => Receivable(r) /\ return'[r].stock]_vars
=============================================================================

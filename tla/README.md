# Formal models of the ERP/MRP inventory core

The repository is an ERP for a manufacturer: a NestJS/TypeORM backend over
PostgreSQL (`backend/src`, about 145 000 lines of TypeScript), a React frontend,
SQL migrations and scripts. What can go wrong in it without a test noticing is
stock: documents with an approval workflow move quantities between balances, a
ledger and reservations, from many HTTP requests at once, mostly with plain
`find` / `save` pairs. This directory models that core.

## 1. Inventory of the system

| Component | State | Operations | Interacts with | Hard behaviour |
|---|---|---|---|---|
| Stock transfers (`inventory/services/stock-transfer.service.ts`) | `stock_transfers`, lines, history | create, update, addLine, removeLine, submit, approve, return, reject, cancel, delete, post | ledger, balances, batches (calls in `post`) | handlers save what they read before an await; only `post` locks; batch updated outside the transaction |
| Inventory balances (`inventory-balance.service.ts`) | `inventory_balances`: on hand, reserved, available per item, warehouse, batch | updateBalance, reserveStock, releaseReservation, reconciliation on page views | called by 36 places | unlocked read-modify-write; spreading over rows; un-awaited repair |
| Stock ledger (`stock-ledger.service.ts`) | `stock_ledger` | create; update, remove | written with every movement | must equal the balances |
| Reservations (`inventory-reservation.service.ts`) | `inventory_reservations` | create, release, cancel | balances | two commits per call; the row is chosen twice |
| Stock adjustments (`stock-adjustment.service.ts`) | `stock_adjustments`, lines, history | as transfers | ledger, balances, batches | as transfers |
| Raw material receipts and returns (`raw-material-receiving.service.ts`) | receipts, returns | create, submit, post, cancel | ledger, balances | long handlers |
| Goods receipts (`procurement/services/goods-receipt.service.ts`) | receipts, lines | create, update, receive, inspect, accept, reject, post, cancel, delete | ledger, balances, purchase orders | check before lock; order lines updated unlocked; reversal without a lock |
| Sales deliveries (`sales/services/sales-delivery.service.ts`) | deliveries, lines | create, update, ship, deliver, confirm, cancel, delete, convert to invoice | ledger, balances, sales orders, invoices | no transaction in `confirm`; retries; numbers are MAX+1 |
| Sales returns (`sales/services/sales-return.service.ts`) | returns, lines, credit notes | create, update, submit, approve, reject, cancel, receive stock, credit | ledger, balances, invoices, customer ledger | two transactions that race; an advisory lock; validation before insertion |
| Production orders (`production/services/production-order.service.ts`) | orders, operations, operation log | create, update, delete, cancel, release, start and complete an operation, complete, issue materials | ledger, balances, routings, bills of material | ledger, balance and status committed apart |
| Production entries, units, routings, bills (`production`, `production-routing`, `bom`) | entries, units, master data | record, generate, edit | ledger, balances | serial numbers |
| Purchasing, sales orders, finance | documents with a status | approval chains | master data | mostly sequential |
| HR, visitors, maintenance, machines, tooling, targets, QC, master data, users, dashboards, AI, notifications, audit, recycle bin | records | create, read, update, delete, reports | - | little |
| Frontend, scripts, migrations | - | call the handlers; schema | backend | - |

What makes the modelled components correct:

- *documents*: the status follows the workflow; stock moves once, only from
  APPROVED and together with the status; nobody approves his own document; lines
  change only while the document is editable; the audit trail tells what happened;
- *balances*: they equal the ledger; never below zero without a policy; a
  movement is spread over the rows without losing or inventing stock;
- *reservations*: they change no stock; what is reserved on the rows is what
  the reservations say; every reservation ends with its row freed;
- *requests*: every one is answered, whatever locks cross;
- *receipts and deliveries*: document, ledger, balance and order agree; goods move
  and are billed once per document, also when a client repeats what failed;
- *returns*: goods and credit come once each, in either order; no more comes back than
  went out; only good pieces become sellable; the invoice settles;
- *production*: operations follow the routing, material follows the plan, goods
  arrive once, with the last operation's output, and results are not rewritten.

`PROJECT.json` lists the components with their files ("components") and the
hazards, each at its line ("hazards").

## 2. Modules

| Module | Models | Kind |
|---|---|---|
| `DocumentLifecycle` | what a document with an approval step promises | abstract specification |
| `StockTransfer` | the transfer workflow under concurrent requests | state machine |
| `StockTransfer_proofs` | theorems about it, the refinement included | proofs |
| `StockPosting` | postings and page views on balance rows in READ COMMITTED | state machine |
| `StockPosting_proofs` | theorems about it | proofs |
| `BalanceRows` | an item's rows in a warehouse and the arithmetic on them | state and operators |
| `InventoryBalance` | calls on those rows, one at a time, with the ledger | state machine |
| `InventoryReservation` | reservations beside movements, interleaved | state machine |
| `BalanceRows_proofs` | theorems about these two, and the lemmas on `BalanceRows` | proofs |
| `GoodsReceipt` | the receipts of a purchase order | state machine |
| `SalesDelivery` | the deliveries of a sales order, their stock and invoices | state machine |
| `SalesReturn` | the returns of an invoice, credit notes and payments | state machine |
| `ProductionOrder` | an order, its operations, materials and goods | state machine |
| `GoodsReceipt_proofs`, `SalesDelivery_proofs`, `SalesReturn_proofs`, `ProductionOrder_proofs` | theorems about these four | proofs |
| `SumTheorems` | sums over finite sets: what a changed value does to them | proofs |
| `MC...` | small instances for TLC | - |

### StockTransfer

One transfer of one item; any number of requests, users, warehouses and lines.

*A request is a process.* Between two awaits a handler is atomic: the Node event
loop runs it alone. `pc[r]` says at which await request `r` is, `ent[r]` is the
entity in its memory. `Submit`, `Approve`, `Return`, `Reject`, `Cancel`,
`EditNotes`, `EditRoute`, `EditLine`, `AddLine`, `RemoveLine` and `Delete` are
`findOne()` with the handler's checks and assignments; then follow `SaveLine`,
`InsertLine`, `DeleteLine`, `Remove`, `SaveSelect`, `SaveWrite`, `RecordHistory`
as the handler has them. `Create` is the insert of the header; its line and its
history row are commits of their own.

*`save()` is not one step.* TypeORM (0.3) selects the row again and updates the
columns in which the entity differs. Three consequences are modelled because
properties depend on them:

- a column somebody else changed after the entity was loaded differs too and is
  written back: the stale copy wins (`Plan`, `SaveWrite`);
- `submittedBy` and the like are mapped twice, as a column and as a relation.
  When the relation was joined it decides: an assignment to the column of a
  non-null joined relation is lost, and a relation joined as null writes null
  unless the column was assigned (`Copy`, `Plan`, `joined`). The repository knows:
  `organization/services/warehouse-location.service.ts:200` and
  `machine-target/services/machine-target.service.ts:408` work around it;
- `lines` and `history` were joined: a row added to either since makes `save()`
  detach it, which its NOT NULL foreign key refuses (`stale`). A row deleted in the
  meantime is inserted again by a save whose select came after the delete.

*`post()`* takes the row lock (`PostLock`), checks (`PostCheck`), moves line after
line in its transaction's view (`PostLine`, `work`), commits (`PostCommit`). Other
requests' updates of the row, and inserts that reference it, wait for `lock`.
`Refuse` is an exception of the code, `Fail` a lost connection or process.

*Abstracted*: one item; locations; dates and remarks; company; the number of
history rows (only what properties ask of them is kept in `trail`); the legacy
status SUBMITTED, which `findOne()` reads as PENDING_APPROVAL. Users are always
known. The movements of a line are one step because they are private to the
transaction; what other transactions can do to the same balances meanwhile is
StockPosting's subject.

### StockPosting

Postings (`Txns`) with their sequence of movements on the balances of one item;
`Read` is the ledger row with the read and check of `updateBalance()`, `Save` its
`save`, which waits for the row lock (`rowLock`) and holds it to the end. What a
transaction wrote is in `pending` and `moved` until `Commit`. `DeadlockVictim` is
PostgreSQL's deadlock detector. `ViewRead`, `ViewSum`, `ViewHeal` are the three
statements of a page view's reconciliation; `ViewLost` is its un-awaited update failing.

### BalanceRows, InventoryBalance, InventoryReservation

`BalanceRows` holds the rows and the operators: which row `findByItemWarehouse()` may return
(`Found`: any of the largest, SQL leaves ties open), the order of an unbatched issue
(`Candidates`), the loop (`Drain`, a fold of its turn `TakeFrom`), the debt (`Debtor`), the reserve and release
arithmetic. `Concat` is JavaScript's `+` on a number and a text: `quantity` of a
reservation is a DECIMAL column, which `pg` returns as text and the entity passes
on. `InventoryBalance` calls them one at a time, with an inventory policy that
allows negative stock or not (`policy`, chosen at the start), and mixes movements,
reservations, releases and page views in every order. `InventoryReservation` interleaves
`create`, `release`, `cancel` with movements; `todo[s]` are the rows session `s` has
to save, each with the columns the code assigned, which TypeORM always writes
(a number is compared with a text), beside those that differ. An issue without a batch
takes from the rows in their order until nothing remains, so the rows it saves are the
first of that order (`FirstCopies`); that these are exactly the rows it changed is proved
(`CopiesAreTouched`). The two state machines share `rows` and the lemmas about it;
`InventoryReservation` names its initial state, next state and specification
`ReservationInit`, `ReservationNext` and `ReservationSpec`, so that one module can extend both.

### GoodsReceipt, SalesDelivery, SalesReturn, ProductionOrder

The four document services share one form. `Sessions` are HTTP requests, `pc[s]` the
await a request is at, `op[s]` its handler, `doc[s]` its document, `copy[s]` the row it
loaded and changed. A handler's synchronous part is one step; `save()` is `SaveSelect`
and `SaveWrite` as in StockTransfer (`dirty` are the columns that differ, `stale` an
insertion into the joined lines), unless the module says it is one step. `Fail` is the
end of the process, its connection or its transaction at any await. History variables
say what a behaviour has been through: `mixed` and `trouble.overlap` whether
requests overlapped, `trouble.failures` and `trouble.refused` whether one stopped on
the way, `healed` whether a page view wrote the stock. A property with such
a premise says what holds *as long as* the premise does, and the run contains the
behaviours beyond it, for the properties without one.

*GoodsReceipt.* `Create`/`InsertLine` commit header and lines apart; `Receive`, `Inspect`,
`Accept`, `Reject`, `Cancel`, `Update`, `Remove` check the loaded row. `Post` checks
ACCEPTED before the transaction; `PostLock` takes the row lock and looks at the posted
marks only; `PostLines`, `PostOrderLines`, `MoveLine` (once per line), `ReadOrder` and
`CommitTx` are the transaction, `tx[s]` what it has read and written. A cancel of a
posted receipt goes through `ReverseLines` and `ReverseRead` to the same steps. `EditPosted` is
the edit of a posted receipt: it uses `lines` before the `const` that declares it
(`goods-receipt.service.ts:376`, `:467`), throws and rolls back. `EndOrder` is close() and
cancel() of the order.

*SalesDelivery.* `ReadLines`, `CheckLedger`, then `LedgerRow` and `Deduct` per line,
`Mark`, `ReadShipped`/`WriteShipped` per item and `ReadItems`/`WriteOrder` are the commits
of `confirm()`, which runs in no transaction; `DeductRefused` is `updateBalance()` throwing
between two of them. `ConfirmDelivered` is the call from `deliver()`. `Convert` and
`InsertInvoice` are the check of the invoices there are and the insert.

*SalesReturn.* `Returnable` and `Valid` are the validation of a request against the other
returns; `Create`, `InsertLine`, `Update`, `ClearLines` commit step by step (an update with
lines always ends in `SaveRefused`: the entity it saves still holds the lines it
deleted, `sales-return.service.ts:260`). `LockStock` to `CommitStock` is the transaction
of `receiveStock()`, `LockCredit`, `TakeNumber` (under the advisory lock), `ReadInvoice`,
`CommitCredit` that of `generateCreditNote()`. `Pay`, `SavePayment`, `EnterReceipt` are
`recordPayment()`. `View` is `enrichDynamicReservations()` writing the ledger's net to
the balance.

*ProductionOrder.* `MayRelease` ... `MayComplete` are the handlers' checks, made on the rows
read at that await; `InsertOp` inserts the operations one by one, `OpSelect`/`OpWrite` is
the save of an operation, `Log` its log entry; `CompleteOrder`, `CompleteChecked`,
`Receipt`, `PutGoods` and the order's save are `completeProductionOrder()`; `IssueLine`,
`IssueLedger`, `Take` repeat per line of `issueMaterials()`, with `IssueRefused` and
`TakeRefused` where a line throws after others have been issued.

*Abstracted in all four*: company, dates, texts, numbers of documents (but for
credit notes), prices (1 per unit), unit conversions, journals; queries. The balance is the
stock of an item in one row; what `updateBalance()` does inside is StockPosting's and
InventoryBalance's subject.

## 3. Runs

| Run | Instance | Shows |
|---|---|---|
| `StockTransfer_concurrent` | 2 requests, 2 users, 2 lines (one batched), scarce stock; create, submit, approve, delete, post, notes, lines; failures anywhere | stock = opening + ledger; stock moves only from APPROVED to POSTED; no stale save fakes POSTED; the creator never approves; the lock belongs to `post()` |
| `StockTransfer_serial` | 1 request at a time, all eleven operations, 2 posts allowed | audit trail current, lines frozen after submission, and the transfer **implements `DocumentLifecycle`**, which posts once |
| `StockTransfer_liveness` | 2 requests; create, submit, approve, post; fair | every request ends |
| `StockPosting_crossing` | 3 postings crossing over 2 balances, 1 page view, deadlocks, crashes; fair | ledger exact, no invented stock, an issue never overdraws; postings end, balances settle at the ledger |
| `InventoryBalance_issues` | an unbatched row and 2 batches, 2 receipts, every call, both policies | rows move with the ledger; batches and debt come last; issues leave sound rows |
| `InventoryReservation_interleaved` | 2 sessions, 2 rows of 1 each, quantities 1 and 2; reserve, release, cancel, receive, issue, also of both rows; failures anywhere | a row stays between zero and what was put on it |
| `GoodsReceipt_requests` | 2 receipts, an order of 2 lines; one session with every operation, one that accepts and posts meanwhile; failures anywhere | stock enters only with an unmarked receipt; ledger, header and order agree through posts and reversals |
| `SalesDelivery_requests` | 2 deliveries, an order of 2 items with stock 1 each; every operation beside a second `confirm()`; one failure | every later commit is covered by an earlier one; goods go out and are billed once; Delivered means shipped |
| `SalesReturn_requests` | 2 returns of 2 delivered pieces, good or damaged; every operation beside a second receipt, credit or approval; failures anywhere | stock and credit once each, numbers unique, the invoice settles, returns stay within the delivery |
| `ProductionOrder_requests` | 2 operations, 2 materials; every operation beside a second release, completion or issue; one failure | ledger before stock before order; material within the plan; work in sequence; results kept |

Two must fail, each on a property that states what a comment of the
repository says; `PROJECT.json` "findings" quotes the text:

| Run | Says | Code |
|---|---|---|
| `StockTransfer_double_post` | the lock prevents double posting | `approve()` saves without it and revives APPROVED |
| `SalesReturn_quarantine` | damaged goods never enter sellable stock | they enter the ledger, and the next page view writes the ledger to the balance |

The models contain more that a reader of the code should know and that no run is
devoted to. Definitions named first are in the modules and false of the code:

- `SegregationOfDuties`: the second submitter of a returned transfer is not
  recorded and may approve it (`Copy` of StockTransfer);
- `NoLostUpdate` (StockPosting): of two movements of a balance one may be lost;
- `RowsAddUpToLedger` (InventoryBalance): a page view writes the warehouse's net to
  each of an item's rows;
- `AvailableIsDifference` (InventoryBalance): the first release concatenates texts;
- `ReservingMovesNoStock` (InventoryReservation): a stale on hand is saved with the
  counters; besides, a reservation that the row refuses stays ACTIVE (`Refuse`), two releases
  of one reservation both lower the row, and a release may come from another row
  than the reservation (`Unreserve`);
- `ReceivedValueInStep` (GoodsReceipt): a reversal lowers the received quantities, not
  `received_amount`, and takes a closed order back to APPROVED or PARTIALLY_RECEIVED;
- `ConfirmedIsDeducted` (SalesDelivery): the retry of a confirmation that was refused
  half-way finds a ledger row, skips all the lines and marks the delivery CONFIRMED;
- `ReturnedWithinDelivered` with `Requested <- TwoLines` (MCSalesReturn), or without
  its premise: each line is validated alone and before anything is inserted;
- two overlapping requests change lines of a transfer that is no longer editable
  (`AddLine`, then `Submit` of the other, then `InsertLine`), and an edit of its warehouses
  never reaches the row (`Copy`); a post that fails on a later line leaves
  `batchQty` reduced (`PostLine`, `Abandon`);
- two issues may pass the same check and the ledger, then a page view, go below zero
  (the third posting of StockPosting's instance is there for it); issues take reserved
  stock (`Covered` compares with on hand);
- two cancels of one posted receipt reverse it twice (`ReverseLines` neither locks nor
  checks); receipts posted together overwrite the order's counts (`PostOrderLines`);
- two confirmations of a delivery both find no ledger row and deduct twice (`CheckLedger`);
- a completion of a production order that dies between ledger and status receives the
  goods again when repeated (`Receipt`); one whose start died between operation and
  order can never be completed; a release that dies leaves a DRAFT that cannot be
  released (`InsertRefused`); an order whose last operation has no output cannot be
  completed (`MayComplete`); `cancel()` and `startOperation()` may both pass.

*Bounds.* Two requests suffice for the races of unlocked check and save (one reads,
the other writes in between); a stale approval that survives a post takes both
requests in turn, several operations each, which the runs allow without limit but
for `MaxPosts`. Return, reject, cancel and the route edit are left to the serial run:
interleaved, they save a stale copy as `submit`, `approve` and `notes` do, with another
status. Two lines are needed for a post that fails half way; stock of 1 and 2
against lines of 2 covers "each fits, both do not". Three postings give a crossing pair
and a third party that competes with one of them; an unbatched row and two batches
give every place of the ranking; quantities 1 and 2 against two receipts give exact,
partial and excess issues. A policy run begins an issue at most at zero
(`MaxDebt`), so debt arises, is shown and is paid back but does not pile up. Releases are
bounded to an `available` of one digit (InventoryReservation), of 0 or 1 (InventoryBalance),
because a release multiplies it by ten. Two sessions suffice for a stale row saved over a
newer one, an issue of 2 against rows of 1 for two saves with another session's between.

In the document runs the second session has the operations whose overlap with
another is what the code tries to exclude (post, confirm, receive and credit, complete
and issue); any other two requests may still follow each other in every order, with
two documents of one order for the interplay of documents. `MaxMixed`: once requests
have overlapped, one document takes part, because the overlap of two of them
concerns the order's counts, which the premises exclude, and the balances, whose races are
StockPosting's. `MaxOpen` bounds deliveries that
are under way, `MaxFailures` deaths (refusals are not bounded), `MaxPosted` what a receipt
may put on the ledger (a second reversal of one receipt is cut off), `MaxReceived` and
`MaxEvents` what a repeated completion or operation may add; order and stock of 1, or 2 and 1,
against lines of 1 give a first document that fits and a second that does not. `Outputs`
contains 0, `Plans` 1 and 2. `TypeOK` of GoodsReceipt and SalesReturn and
`ReservationTypeOK` are not among the runs' properties; they are proved (`TypesAlways` of
each module, `CopiesStayWithin`).

Symmetry is used in safety runs only. No cfg checks deadlock: these systems rest
when no client sends a request, and being stuck is what `EveryRequestEnds` and
`PostingEnds` are about.

*Fairness.* `FairSpec` of StockTransfer gives every request strong fairness of its
continuation: the event loop runs what is ready, the database answers, and
PostgreSQL queues the waiters of a row lock. No client is made to send anything
and failures are never forced. StockPosting adds page views that keep coming,
which `BalancesSettle` states as its premise: without viewers nothing repairs.

## 4. Proofs

Every theorem is about all values of the constants that satisfy the module's
assumptions (`ConstantsAssumption`; `BatchAssumption`, `QuantityAssumption` and
`ReservationAssumption` for balance rows): any number of requests, documents, users,
warehouses, lines, batches and materials, any quantities and opening stock. What is
assumed is what a database guarantees - the documents, order lines, items, batches and
postings that are summed over are finitely many; quantities are natural numbers where the
DTOs demand it; a placeholder ("no user", "no batch") is none of the things it stands
beside - that the sets a `CHOOSE` takes its arbitrary value from are not empty, and
one bound of the model: the quantities of calls on balance rows are below 10, which
`Concat` needs to put a text of one digit behind a number.
The finiteness of `Sessions` in SalesDelivery and ProductionOrder is that of the requests
a server has open.

| Property | Theorem | Holds of |
|---|---|---|
| StockTransfer `TypeOK`, `LockHolderPosts`, `StockMatchesLedger`, `PostedMeansPosted`, `MovesOnlyWhenApproved`, `CreatorNeverApproves` | `Typed`, `Mutex`, `Conserved`, `PostedHasPosted`, `PostsOnlyApproved`, `CreatorIsNoApprover` | `Spec` |
| `AuditTrailCurrent`, `LinesChangeOnlyWhenEditable`, `FollowsLifecycle` | `TrailIsCurrent`, `LinesEditable`, `FollowsItsLifecycle` | `SerialSpec` with one request at a time (`OneRequest`) |
| StockPosting `TypeOK`, `PostingNeverOverdraws`, `LedgerIsCommittedPosts`, `NoInventedStock` | `Typed`, `NeverOverdraws`, `LedgerCounts`, `NothingInvented` | `Spec` |
| InventoryBalance `TypeOK`, `RowsMoveWithLedger`, `IssuesLeaveSoundRows`, `LooseIssuesInOrder` | `TypeCorrect`, `MovesWithLedger`, `SoundRows`, `LooseInOrder` | `Spec` |
| InventoryReservation `StockWithinReceipts` | `NeverMoreThanPut` | `ReservationSpec` |
| GoodsReceipt `PostsUnmarkedOnly`, `LedgerFollowsHeader`, `OrderFollowsReceipts` | `EntersUnmarked`, `HeaderTells`, `OrderCounts` | `Spec` |
| SalesDelivery `TypeOK`, `LedgerComesFirst`, `OncePerDelivery`, `DeliveredMeansShipped`, `ConfirmedIsComplete` | `TypesAlways`, `LedgerLeads`, `TakenAndBilledOnce`, `OrderReadsShipped`, `ConfirmedInFull` | `Spec` |
| SalesReturn `StockOnlyFromUnposted`, `OnlyGoodIsSellable`, `EachPostedOnce`, `BalanceSettles` | `ReturnsUnposted`, `GoodAlone`, `PostedOnce`, `InvoiceSettles` | `Spec` |
| `ReturnedWithinDelivered` | `ReturnsFit` | `Spec`, when a request asks for one condition (`OneLineRequests`) |
| ProductionOrder `TypeOK`, `StockFollowsLedger`, `IssuedWithinNeed`, `WorkInSequence`, `ResultsAreKept`, `WorkIsAccounted` | `TypesAlways`, `LedgerLeads`, `NeverOverIssued`, `RoutingIsFollowed`, `ResultsKept`, `WorkAccounted` | `Spec` |

The properties of the document services that speak of requests one at a time carry that
premise themselves (`~mixed`, `~trouble.overlap`, section 2): the theorems are about every
behaviour, and in SalesReturn `mixed` is not set by receipts and credit notes that
overlap.

*Inductive invariants.* The properties compare committed rows; what breaks them is a
value some request read earlier. Each invariant therefore says of every value on its
way into a row what it is worth, from the await at which it was read to its save.

- *StockTransfer*: `Inv` is `Types`; `Entities` (a transfer that exists, and every copy a
  request holds of one, has a status and a creator); `Locked` (the lock holder is in
  `post()`, its transfer stays APPROVED until it commits, its view of stock and ledger is
  balanced, and outside it stock equals the ledger); and `PostedCopies` (no copy says
  POSTED unless stock has moved). `Authors` says of the stored row, the handler's
  assignments and the joined users, from which `save()` puts its row together, that each
  has the stored creator and an approver who is nobody or somebody else; `SavedAuthors`
  shows that any mixture does too. For serial requests `Steps` says at every await what
  the one request has checked and what the trail and the saved status will be; with it
  each step maps to a step of `DocumentLifecycle` or a stutter (`FollowsItsLifecycle`).
- *StockPosting*: `Inv` follows the value a posting computed at its check (`Computed`)
  into the row it locked (`Written`) and to the commit. `Accounts` says of which
  postings a value is the sum: what is in the ledger of an open transaction
  (`Inserted`), in a locked row (`Locked`), in a value still to be saved (`ToSave`), in a
  balance (`Balances`) and in a page view's repair (`Repairs`). That `NeverOverdraws` speaks
  of postings that only issue from the warehouse is not caution: a receipt on a balance
  that a page view wrote below zero leaves it there.
- *InventoryBalance*: the rows are typed (`Inv`); the rest is about one step. `Turned`
  says what the first n turns of the issue's loop leave: what was taken in all, that a
  row either kept everything or gave some and is trimmed, that a row gave only after
  all before it were empty. `LooseIssue` adds the debt.
- *InventoryReservation*: that the rows are bounded is not inductive, since every save may
  put back an on hand that was read long ago. `ReservationInv` bounds each copy a
  session has still to save by what had been put on its row (`Within`); the bound only
  grows, so a stale copy stays within it whoever saves in between (`CopiesStayWithin`). A
  copy comes from a committed row by arithmetic that keeps the bound: for an issue
  without a batch because the loop takes from no row more than it has, which is what
  `Turned` says of its turns, and because it leaves no debt when the check has passed
  (`LoopTakesAll`).
- *GoodsReceipt*, *SalesReturn*: `Locked` (`Protected`): between the check under the row lock
  and the commit the document keeps what the check found, so every other writer of
  the row has to wait: stale saves, deletions, reversals, failures. `Serial` says of requests
  one at a time what the one under way knows (`Task`) and that documents, ledger, order
  or invoice agree (`Books`); `Sized`, `Kinds` and `Room` type what GoodsReceipt's
  transactions hold and bound what they put on the ledger. In SalesReturn `Task` includes the advisory lock: the number a credit note took belongs
  to no return until the commit. `Within` says that the lines a request has still to insert
  fit the delivery.
- *SalesDelivery*, *ProductionOrder*: `Covered` is the ledger against the stock: it accounts
  for what is gone, or in, and, summed over the sessions, for what each has on the ledger
  and not yet moved; it needs no premise. `SerialInv` says what a request alone has
  read and checked at each await (`Task`) and that the rows agree between requests
  (`Books`), also when the last one died or was refused half-way. `CalmInv` adds, where
  all ran through, the exact account (`Account`). `Flows` is what a confirmation has found
  or put on the ledger before it marks the delivery.

*Sums.* Ledger and balances are sums over documents, sessions or rows, written with
the fold `SumFunction`. `SumTheorems` shows by induction on the size of a finite set
that it is an integer, monotonic, that one changed value changes it by as much
(`SumChange`), that a new index adds its value (`SumExtend`). An induction theorem takes
a predicate as its parameter; the ones here take a set instead (`NatSet`,
`SubsetInduction`), and the fold's chosen function is shown to exist before it is
used (`IterDef`, `DrainIterDef`). With that the loop of an issue without a batch, a fold over
the sequence of rows, is proved for any number of rows.

*Only model-checked*: what is about liveness (`EveryRequestEnds`, `PostingEnds`,
`BalancesSettle`), which fairness and ENABLED put beyond the prover. The safety they rest on
is proved, for any number of requests, postings and page views:

- `NoStandstill` (StockPosting): while postings are open, one need not wait for a row, or
  they wait in a circle, which PostgreSQL breaks by failing one (`DeadlockVictim`). It
  rests on `LocksEndWithPostings`: a row is locked by an open posting or by nobody.
- `RepairsAreFinal` (StockPosting): once postings have ended and no page view is about to
  write an older sum, a balance changes only to the ledger's value, and one that has it
  keeps it; `BalancesSettle` adds that page views keep coming.
- `Mutex` (StockTransfer): the row lock everybody may wait for is held exactly by a
  request inside `post()`, which waits for no lock.
- `LocksMakeNoCircle` (SalesReturn), which no run states: credit notes take a second lock
  while they hold their return's row; the lock on credit notes is always the last one
  taken, so of the requests under way one has nothing to wait for.

The two runs that must fail are counterexamples and need no proof.

## 5. Not modelled, and the plan

Modelled are the parts marked so in "components". Left out:

- *stock adjustments*: the workflow of StockTransfer with a quantity difference
  instead of a movement; StockTransfer and StockPosting show its hazards;
- *raw material receipts and returns, production entries*: sequences of movements
  through `updateBalance()`, which BalanceRows and StockPosting model;
- *document numbers*: MAX+1 under a unique index, so a collision is an insert that
  fails; the one that takes a lock first, the credit notes', is in SalesReturn;
- *purchasing and sales orders*: what receipts, deliveries and returns do to them is
  modelled, with close() and cancel(); their approval chains are one request at a
  time and need no model checker;
- *units, routings, bills, QC, traceability, finance, HR, maintenance, machines,
  tooling, targets, master data, users, audit, dashboards*: records with one write per
  call, and reports.

Two thirds of the repository's lines are React pages, report layouts and
scripts: they hold no state that outlives a page and call the handlers modelled
here, each of which a client may call at any time. The models cover the services
that move stock; most of the other lines have no behaviour to check, which is why
the share of the repository's lines they stand for is small and will stay so.

Theorems to come: the premises of the serial properties made weaker where the code allows
it (for instance requests that overlap on different documents).

Left out on purpose: pure queries, report layouts, formatting, authorization
tables, external services, the browser.

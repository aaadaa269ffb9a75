---------------------------- MODULE StockTransfer ----------------------------
(***************************************************************************)
(* The stock transfer workflow of StockTransferService, for one transfer   *)
(* of one item between warehouses, used by several HTTP requests at once.  *)
(*                                                                         *)
(* Every handler but post() reads the document with findOne(), checks it   *)
(* in memory and then calls repo.save() on what it read, with no lock and  *)
(* no transaction around the two.  A request is therefore a little process *)
(* with its own copy of the row; an action is what it does between two     *)
(* awaits.  TypeORM's save() is two steps:                                 *)
(*   - it selects the row again and marks the columns in which the copy    *)
(*     differs (SaveSelect);                                               *)
(*   - it updates just those columns (SaveWrite).                          *)
(* The copy carries what findOne() joined.  A joined user or warehouse is  *)
(* what save() takes for its column, whatever the handler assigned to the  *)
(* column itself (organization/services/warehouse-location.service.ts:200  *)
(* and machine-target/services/machine-target.service.ts:408 work around   *)
(* it); one that was joined as null is written as null unless the column   *)
(* was assigned.  And the copy carries the `lines' and `history' arrays:   *)
(* when a row was added to either since, save() tries to clear its         *)
(* transfer_id, which is NOT NULL, and the request fails: stale[r].        *)
(*                                                                         *)
(* post() runs in a transaction that holds the row lock (`lock').          *)
(***************************************************************************)
EXTENDS Integers, FiniteSets

CONSTANTS
  Requests,      \* concurrent HTTP requests
  Operations,    \* the operations clients send, of those in Start
  Users,         \* authenticated users
  Warehouses,
  LineIds,       \* ids transfer lines can have
  BatchLines,    \* the line ids whose lines name the batch of the item
  Quantities,    \* quantities a line can ask for
  OpeningLoose,  \* on hand in each warehouse outside the batch, at the start
  OpeningBatch,  \* on hand of the batch in each warehouse, at the start
  OpeningBatchQty, \* batches.quantity at the start
  MaxPosts,      \* bound: committed posts
  NoUser, NoRequest

ASSUME ConstantsAssumption ==
  /\ Warehouses # {}
  /\ LineIds # {}
  /\ BatchLines \subseteq LineIds
  /\ Quantities \subseteq Nat \ {0}
  /\ OpeningLoose \in [Warehouses -> Nat]
  /\ OpeningBatch \in [Warehouses -> Nat]
  /\ OpeningBatchQty \in Nat
  /\ MaxPosts \in Nat
  /\ NoUser \notin Users
  /\ NoRequest \notin Requests

VARIABLES
  transfer,  \* the row of stock_transfers; status "ABSENT" when there is none
  lines,     \* quantity of each line of the transfer; 0 when there is none
  trail,     \* stock_transfer_history: to_status of its newest row and
             \* performed_by of its newest SUBMITTED one: [event, submitter]
  stock,     \* on hand per warehouse: the unbatched row and the batch's row
  ledger,    \* stock_ledger: net quantity of the transfer's rows per warehouse
  batchQty,  \* batches.quantity
  posts,     \* history variable: committed posts of the transfer
  lock,      \* the request whose transaction holds the row lock
  pc,        \* where each request is
  op,        \* the operation it runs
  ent,       \* the entity it loaded and changed
  joined,    \* the users and warehouses findOne() joined to it
  dirty,     \* what its save() is about to do with each column
  stale,     \* a line or history row was added since it loaded the entity
  edit,      \* the line it is about to write: [id, qty]
  todo,      \* lines its post() has still to move
  work       \* stock and ledger as its open transaction sees them

document == <<transfer, lines, trail>>
inventory == <<stock, ledger, batchQty, posts>>
local == <<op, ent, joined, dirty, edit, todo, work>>
vars == <<transfer, lines, trail, stock, ledger, batchQty, posts, lock,
          pc, op, ent, joined, dirty, stale, edit, todo, work>>

Statuses == {"DRAFT", "PENDING_APPROVAL", "APPROVED", "RETURNED", "REJECTED",
             "POSTED", "CANCELLED"}
Editable == {"DRAFT", "RETURNED"}
Columns == {"status", "from", "to", "createdBy", "submittedBy", "approvedBy"}
Relations == Columns \ {"status"}            \* columns of a joined user or warehouse
Nullable == {"submittedBy", "approvedBy"}    \* those that are null at first
Plans == {d \in [Columns -> {"keep", "copy", "null"}] :
            \A c \in Columns : d[c] = "null" => c \in Nullable}

Rows == [status: Statuses \cup {"ABSENT"}, from: Warehouses, to: Warehouses,
         createdBy: Users \cup {NoUser}, submittedBy: Users \cup {NoUser},
         approvedBy: Users \cup {NoUser}]

\* Where a request can be, and the operations it can be running.
Points == {"idle", "addline", "select", "write", "insert", "log", "readd",
           "saveline", "unline", "remove", "check", "post"}
Names == {"none", "create", "submit", "approve", "return", "reject", "cancel",
          "update", "addline", "removeline", "delete", "post"}

\* The values a request's own variables have while it does nothing.
NoEntity == [status |-> "ABSENT", from |-> CHOOSE w \in Warehouses : TRUE,
             to |-> CHOOSE w \in Warehouses : TRUE, createdBy |-> NoUser,
             submittedBy |-> NoUser, approvedBy |-> NoUser]
NoEdit == [id |-> CHOOSE l \in LineIds : TRUE, qty |-> 0]
NoLines == [l \in LineIds |-> 0]
NoPlan == [c \in Columns |-> "keep"]
NoTrail == [event |-> "NONE", submitter |-> NoUser]
NoWork == [stock |-> [w \in Warehouses |-> [loose |-> 0, batch |-> 0]],
           ledger |-> [w \in Warehouses |-> 0]]

CurrentLines == {l \in LineIds : lines[l] > 0}

(***************************************************************************)
(* Balances: InventoryBalanceService on the two rows the item has in a     *)
(* warehouse.  No inventory policy allows negative stock.                  *)
(***************************************************************************)
OnHand(rows) == rows.loose + rows.batch

\* The row findByItemWarehouse() returns: the batch's when the line names it,
\* else the row with the most stock.
CheckedOnHand(rows, l) ==
  IF l \in BatchLines \/ rows.batch > rows.loose THEN rows.batch ELSE rows.loose

\* Mutant: a movement that does not look at the stock.
CanTakeAnyway(rows, l, q) == TRUE

\* updateBalance(..., 'OUT'): refused when short; without a batch it empties
\* the unbatched row before the batch's.
CanTake(rows, l, q) == q <= IF l \in BatchLines THEN rows.batch ELSE OnHand(rows)
Take(rows, l, q) ==
  LET loose == IF l \in BatchLines THEN 0
               ELSE IF rows.loose < q THEN rows.loose ELSE q
  IN [loose |-> rows.loose - loose, batch |-> rows.batch - (q - loose)]

\* updateBalance(..., 'IN')
Put(rows, l, q) ==
  IF l \in BatchLines THEN [rows EXCEPT !.batch = @ + q]
                      ELSE [rows EXCEPT !.loose = @ + q]

(***************************************************************************)
(* Helpers of the request steps.                                           *)
(***************************************************************************)
Goto(r, to) == pc' = [pc EXCEPT ![r] = to]

\* The request ends and forgets what it held.
Forget(r) ==
  /\ Goto(r, "idle")
  /\ op' = [op EXCEPT ![r] = "none"]
  /\ ent' = [ent EXCEPT ![r] = NoEntity]
  /\ joined' = [joined EXCEPT ![r] = NoEntity]
  /\ dirty' = [dirty EXCEPT ![r] = NoPlan]
  /\ edit' = [edit EXCEPT ![r] = NoEdit]
  /\ todo' = [todo EXCEPT ![r] = NoLines]
  /\ work' = [work EXCEPT ![r] = NoWork]
Finish(r) == Forget(r) /\ stale' = [stale EXCEPT ![r] = FALSE]

\* A line or history row was inserted: the entities of the requests under way
\* miss it, but for that of `own', which is done with its entity.
Outdate(own) == stale' = [s \in Requests |-> s # own /\ pc[s] # "idle"]

\* findOne() of an operation o that then holds entity e and continues at `to'.
Load(r, o, e, to) ==
  /\ pc[r] = "idle"
  /\ transfer.status # "ABSENT"
  /\ Goto(r, to)
  /\ op' = [op EXCEPT ![r] = o]
  /\ ent' = [ent EXCEPT ![r] = e]
  /\ joined' = [joined EXCEPT ![r] = transfer]
  /\ stale' = [stale EXCEPT ![r] = FALSE]
  /\ UNCHANGED <<document, inventory, lock, dirty, todo, work>>

(***************************************************************************)
(* create(): header, line and history row, each committed on its own.      *)
(***************************************************************************)
Create(r, u, from, to, l, q) ==
  /\ pc[r] = "idle"
  /\ transfer.createdBy = NoUser       \* the one transfer of the model is new
  /\ from # to
  /\ l \notin BatchLines
  /\ transfer' = [NoEntity EXCEPT !.status = "DRAFT", !.from = from, !.to = to,
                                  !.createdBy = u]
  /\ Goto(r, "addline")
  /\ op' = [op EXCEPT ![r] = "create"]
  /\ ent' = [ent EXCEPT ![r] = transfer']
  /\ edit' = [edit EXCEPT ![r] = [id |-> l, qty |-> q]]
  /\ UNCHANGED <<lines, trail, inventory, lock, joined, dirty, stale, todo, work>>

(***************************************************************************)
(* Handlers that read, check and save the header.                          *)
(***************************************************************************)
Submit(r, u) ==
  /\ transfer.status \in Editable
  /\ CurrentLines # {}
  /\ transfer.from # transfer.to
  /\ Load(r, "submit",
          [transfer EXCEPT !.status = "PENDING_APPROVAL", !.submittedBy = u], "select")
  /\ UNCHANGED edit

\* Mutant: only the submitter is kept from approving.
ApproveUnlessSubmitter(r, u) ==
  /\ transfer.status = "PENDING_APPROVAL"
  /\ u # transfer.submittedBy
  /\ transfer.from # transfer.to
  /\ Load(r, "approve",
          [transfer EXCEPT !.status = "APPROVED", !.approvedBy = u], "select")
  /\ UNCHANGED edit

\* The segregation of duties is checked on the loaded entity.
Approve(r, u) ==
  /\ transfer.status = "PENDING_APPROVAL"
  /\ u \notin {transfer.createdBy, transfer.submittedBy}
  /\ transfer.from # transfer.to
  /\ Load(r, "approve",
          [transfer EXCEPT !.status = "APPROVED", !.approvedBy = u], "select")
  /\ UNCHANGED edit

Return(r) ==
  /\ transfer.status = "PENDING_APPROVAL"
  /\ Load(r, "return", [transfer EXCEPT !.status = "RETURNED"], "select")
  /\ UNCHANGED edit

\* Mutant: an approved transfer can be rejected too.
RejectApproved(r) ==
  /\ transfer.status \in {"PENDING_APPROVAL", "APPROVED"}
  /\ Load(r, "reject", [transfer EXCEPT !.status = "REJECTED"], "select")
  /\ UNCHANGED edit

Reject(r) ==
  /\ transfer.status = "PENDING_APPROVAL"
  /\ Load(r, "reject", [transfer EXCEPT !.status = "REJECTED"], "select")
  /\ UNCHANGED edit

Cancel(r) ==
  /\ transfer.status \in {"DRAFT", "PENDING_APPROVAL"}
  /\ Load(r, "cancel", [transfer EXCEPT !.status = "CANCELLED"], "select")
  /\ UNCHANGED edit

\* update() of the notes only: allowed in every status.
EditNotes(r) ==
  /\ Load(r, "update", transfer, "select")
  /\ UNCHANGED edit

EditRoute(r, from, to) ==
  /\ transfer.status \in Editable
  /\ from # to
  /\ Load(r, "update", [transfer EXCEPT !.from = from, !.to = to], "select")
  /\ UNCHANGED edit

\* update() of the quantity: the first line is saved before the header; without
\* a line the update adds one through addLine().
EditLine(r, l, q) ==
  /\ transfer.status \in Editable
  /\ CurrentLines # {} => l \in CurrentLines
  /\ CurrentLines = {} => l \notin BatchLines
  /\ Load(r, "update", transfer,
          IF CurrentLines = {} THEN "readd" ELSE "saveline")
  /\ edit' = [edit EXCEPT ![r] = [id |-> l, qty |-> q]]

\* What save() takes for a column of the copy.
Copy(r, c) ==
  IF c \in Relations /\ joined[r][c] # NoUser THEN joined[r][c] ELSE ent[r][c]

Plan(r, c) ==
  IF Copy(r, c) # transfer[c] THEN "copy"
  ELSE IF c \in Nullable /\ joined[r][c] = NoUser THEN "null" ELSE "keep"

SaveSelect(r) ==
  /\ pc[r] = "select"
  /\ transfer.status # "ABSENT" => ~stale[r]
  /\ dirty' = [dirty EXCEPT ![r] =
       [c \in Columns |-> IF transfer.status = "ABSENT" THEN "copy" ELSE Plan(r, c)]]
  /\ Goto(r, IF transfer.status = "ABSENT" THEN "insert" ELSE "write")
  /\ UNCHANGED <<document, inventory, lock, op, ent, joined, stale, edit, todo, work>>

Saved(r) ==
  [c \in Columns |-> IF dirty[r][c] = "keep" THEN transfer[c]
                     ELSE IF dirty[r][c] = "null" THEN NoUser ELSE Copy(r, c)]

\* UPDATE of the marked columns; of no row when it was deleted meanwhile.  A
\* copy whose row had gone at the select is inserted again.
SaveWrite(r) ==
  /\ pc[r] \in {"write", "insert"}
  /\ lock = NoRequest
  /\ pc[r] = "insert" => transfer.status = "ABSENT"
  /\ transfer' = IF pc[r] = "write" /\ transfer.status = "ABSENT" THEN transfer
                 ELSE Saved(r)
  /\ UNCHANGED <<lines, trail, inventory, lock>>
  /\ \/ op[r] = "update" /\ Finish(r)
     \/ op[r] # "update" /\ Goto(r, "log")
        /\ UNCHANGED <<op, ent, joined, dirty, stale, edit, todo, work>>

\* recordHistory(): its foreign key waits for the row lock and needs the row.
RecordHistory(r) ==
  /\ pc[r] = "log"
  /\ lock = NoRequest
  /\ transfer.status # "ABSENT"
  /\ trail' = [event |-> ent[r].status,
               submitter |-> IF op[r] = "submit" THEN ent[r].submittedBy
                             ELSE trail.submitter]
  /\ Forget(r)
  /\ Outdate(r)
  /\ UNCHANGED <<transfer, lines, inventory, lock>>

(***************************************************************************)
(* Lines.                                                                  *)
(***************************************************************************)
\* Mutant: lines can be added in every status.
AddLineAlways(r, l, q) ==
  /\ Load(r, "addline", transfer, "addline")
  /\ edit' = [edit EXCEPT ![r] = [id |-> l, qty |-> q]]

AddLine(r, l, q) ==
  /\ transfer.status \in Editable
  /\ Load(r, "addline", transfer, "addline")
  /\ edit' = [edit EXCEPT ![r] = [id |-> l, qty |-> q]]

\* addLine() called by update() reads and checks the transfer once more.
ReaddLine(r) ==
  /\ pc[r] = "readd"
  /\ transfer.status \in Editable
  /\ Goto(r, "addline")
  /\ UNCHANGED <<document, inventory, lock, local, stale>>

FreeIds(r) ==
  {l \in LineIds \ CurrentLines : l \in BatchLines <=> edit[r].id \in BatchLines}

\* INSERT of a line, under a fresh id: its foreign key needs the transfer and
\* waits for the row lock.
InsertLine(r) ==
  /\ pc[r] = "addline"
  /\ lock = NoRequest
  /\ transfer.status # "ABSENT"
  /\ \E l \in FreeIds(r) : lines' = [lines EXCEPT ![l] = edit[r].qty]
  /\ UNCHANGED <<transfer, trail, inventory, lock>>
  /\ \/ op[r] = "addline" /\ Forget(r) /\ Outdate(r)
     \/ /\ op[r] # "addline"
        /\ Goto(r, IF op[r] = "create" THEN "log" ELSE "select")
        /\ Outdate(NoRequest)
        /\ UNCHANGED local

\* update() saves the line it loaded: inserted again when removed meanwhile.
SaveLine(r) ==
  /\ pc[r] = "saveline"
  /\ lines[edit[r].id] = 0 => lock = NoRequest /\ transfer.status # "ABSENT"
  /\ lines' = [lines EXCEPT ![edit[r].id] = edit[r].qty]
  /\ IF lines[edit[r].id] = 0
     THEN stale' = [s \in Requests |-> IF s = r THEN stale[r] ELSE pc[s] # "idle"]
     ELSE UNCHANGED stale
  /\ Goto(r, "select")
  /\ UNCHANGED <<transfer, trail, inventory, lock, local>>

RemoveLine(r, l) ==
  /\ transfer.status \in Editable
  /\ Load(r, "removeline", transfer, "unline")
  /\ edit' = [edit EXCEPT ![r] = [id |-> l, qty |-> 0]]

DeleteLine(r) ==
  /\ pc[r] = "unline"
  /\ lines[edit[r].id] > 0
  /\ lines' = [lines EXCEPT ![edit[r].id] = 0]
  /\ Finish(r)
  /\ UNCHANGED <<transfer, trail, inventory, lock>>

(***************************************************************************)
(* delete(): lines and history go with the row (ON DELETE CASCADE).        *)
(***************************************************************************)
Delete(r) ==
  /\ transfer.status \in Editable
  /\ Load(r, "delete", transfer, "remove")
  /\ UNCHANGED edit

Remove(r) ==
  /\ pc[r] = "remove"
  /\ lock = NoRequest
  /\ transfer' = [transfer EXCEPT !.status = "ABSENT"]
  /\ lines' = NoLines
  /\ trail' = NoTrail
  /\ Finish(r)
  /\ UNCHANGED <<inventory, lock>>

(***************************************************************************)
(* post(): one transaction under the row lock.                             *)
(***************************************************************************)
\* Mutants: the transfer is marked POSTED before its stock moves, and the status
\* is not looked at.
PostLockMarksFirst(r) ==
  /\ pc[r] = "idle"
  /\ posts < MaxPosts
  /\ lock = NoRequest
  /\ transfer.status = "APPROVED"
  /\ transfer.from # transfer.to
  /\ lock' = r
  /\ transfer' = [transfer EXCEPT !.status = "POSTED"]
  /\ Goto(r, "check")
  /\ op' = [op EXCEPT ![r] = "post"]
  /\ ent' = [ent EXCEPT ![r] = transfer']
  /\ UNCHANGED <<lines, trail, inventory, joined, dirty, stale, edit, todo, work>>
PostLockAnyStatus(r) ==
  /\ pc[r] = "idle"
  /\ posts < MaxPosts
  /\ lock = NoRequest
  /\ transfer.from # transfer.to
  /\ lock' = r
  /\ Goto(r, "check")
  /\ op' = [op EXCEPT ![r] = "post"]
  /\ ent' = [ent EXCEPT ![r] = [transfer EXCEPT !.status = "POSTED"]]
  /\ UNCHANGED <<document, inventory, joined, dirty, stale, edit, todo, work>>

PostLock(r) ==
  /\ pc[r] = "idle"
  /\ posts < MaxPosts
  /\ lock = NoRequest
  /\ transfer.status = "APPROVED"
  /\ transfer.from # transfer.to
  /\ lock' = r
  /\ Goto(r, "check")
  /\ op' = [op EXCEPT ![r] = "post"]
  /\ ent' = [ent EXCEPT ![r] = [transfer EXCEPT !.status = "POSTED"]]
  /\ UNCHANGED <<document, inventory, joined, dirty, stale, edit, todo, work>>

EnoughStock(r) ==
  \A l \in CurrentLines : lines[l] <= CheckedOnHand(stock[ent[r].from], l)

PostCheck(r) ==
  /\ pc[r] = "check"
  /\ CurrentLines # {}
  /\ EnoughStock(r)
  /\ todo' = [todo EXCEPT ![r] = lines]
  /\ work' = [work EXCEPT ![r] = [stock |-> stock, ledger |-> ledger]]
  /\ Goto(r, "post")
  /\ UNCHANGED <<document, inventory, lock, op, ent, joined, dirty, stale, edit>>

\* Mutant: the receiving side writes no ledger row.
MovedWithoutIn(view, from, to, l, q) ==
  [stock |-> [view.stock EXCEPT ![from] = Take(@, l, q), ![to] = Put(@, l, q)],
   ledger |-> [view.ledger EXCEPT ![from] = @ - q]]

\* Stock and ledger after an OUT from one warehouse and an IN to the other.
Moved(view, from, to, l, q) ==
  [stock |-> [view.stock EXCEPT ![from] = Take(@, l, q), ![to] = Put(@, l, q)],
   ledger |-> [view.ledger EXCEPT ![from] = @ - q, ![to] = @ + q]]

\* One turn of the loop over the lines.  The batch is updated through
\* batchService, outside the transaction.
PostLine(r, l) ==
  LET q == todo[r][l]
      from == ent[r].from
      to == ent[r].to
  IN /\ pc[r] = "post"
     /\ q > 0
     /\ CanTake(work[r].stock[from], l, q)
     /\ work' = [work EXCEPT ![r] = Moved(@, from, to, l, q)]
     /\ batchQty' = IF l \notin BatchLines THEN batchQty
                    ELSE IF batchQty < q THEN 0 ELSE batchQty - q
     /\ todo' = [todo EXCEPT ![r][l] = 0]
     /\ UNCHANGED <<document, stock, ledger, posts, lock, pc, op, ent, joined, dirty,
                    stale, edit>>

\* Mutant: the post writes no history row.
PostCommitUnlogged(r) ==
  /\ pc[r] = "post"
  /\ todo[r] = NoLines
  /\ stock' = work[r].stock
  /\ ledger' = work[r].ledger
  /\ posts' = posts + 1
  /\ transfer' = ent[r]
  /\ lock' = NoRequest
  /\ Finish(r)
  /\ UNCHANGED <<lines, trail, batchQty>>

PostCommit(r) ==
  /\ pc[r] = "post"
  /\ todo[r] = NoLines
  /\ stock' = work[r].stock
  /\ ledger' = work[r].ledger
  /\ posts' = posts + 1
  /\ transfer' = ent[r]
  /\ trail' = [trail EXCEPT !.event = "POSTED"]
  /\ lock' = NoRequest
  /\ Forget(r)
  /\ Outdate(r)
  /\ UNCHANGED <<lines, batchQty>>

(***************************************************************************)
(* Requests that end early: an exception, or the process or the connection *)
(* dies.  An open transaction is rolled back and its lock released.        *)
(***************************************************************************)
\* Mutant: the failing path does not end the transaction.
AbandonKeepingLock(r) ==
  /\ pc[r] # "idle"
  /\ Finish(r)
  /\ UNCHANGED <<document, inventory, lock>>

Abandon(r) ==
  /\ pc[r] # "idle"
  /\ Finish(r)
  /\ lock' = IF lock = r THEN NoRequest ELSE lock
  /\ UNCHANGED <<document, inventory>>

\* What makes the next statement of a request fail.
Refused(r) ==
  \/ pc[r] = "select" /\ transfer.status # "ABSENT" /\ stale[r]
  \/ pc[r] = "insert" /\ transfer.status # "ABSENT"
  \/ pc[r] \in {"log", "addline"} /\ transfer.status = "ABSENT"
  \/ pc[r] = "readd" /\ transfer.status \notin Editable
  \/ pc[r] = "saveline" /\ lines[edit[r].id] = 0 /\ transfer.status = "ABSENT"
  \/ pc[r] = "unline" /\ lines[edit[r].id] = 0
  \/ pc[r] = "check" /\ (CurrentLines = {} \/ ~EnoughStock(r))
  \/ pc[r] = "post" /\ \E l \in LineIds : 
       todo[r][l] > 0 /\ ~CanTake(work[r].stock[ent[r].from], l, todo[r][l])
  \/ pc[r] = "addline" /\ FreeIds(r) = {}         \* the bound on line ids
Refuse(r) == Refused(r) /\ Abandon(r)
Fail(r) == Abandon(r)

Init ==
  /\ transfer = NoEntity
  /\ lines = NoLines
  /\ trail = NoTrail
  /\ stock = [w \in Warehouses |-> [loose |-> OpeningLoose[w], batch |-> OpeningBatch[w]]]
  /\ ledger = [w \in Warehouses |-> 0]
  /\ batchQty = OpeningBatchQty
  /\ posts = 0
  /\ lock = NoRequest
  /\ pc = [r \in Requests |-> "idle"]
  /\ op = [r \in Requests |-> "none"]
  /\ ent = [r \in Requests |-> NoEntity]
  /\ joined = [r \in Requests |-> NoEntity]
  /\ dirty = [r \in Requests |-> NoPlan]
  /\ stale = [r \in Requests |-> FALSE]
  /\ edit = [r \in Requests |-> NoEdit]
  /\ todo = [r \in Requests |-> NoLines]
  /\ work = [r \in Requests |-> NoWork]

\* A new request arrives and runs to its first await.
Start(r) ==
  \/ /\ "create" \in Operations
     /\ \E u \in Users, from, to \in Warehouses, l \in LineIds, q \in Quantities :
          Create(r, u, from, to, l, q)
  \/ "submit" \in Operations /\ \E u \in Users : Submit(r, u)
  \/ "approve" \in Operations /\ \E u \in Users : Approve(r, u)
  \/ "return" \in Operations /\ Return(r)
  \/ "reject" \in Operations /\ Reject(r)
  \/ "cancel" \in Operations /\ Cancel(r)
  \/ "delete" \in Operations /\ Delete(r)
  \/ "post" \in Operations /\ PostLock(r)
  \/ "notes" \in Operations /\ EditNotes(r)
  \/ "route" \in Operations /\ \E from, to \in Warehouses : EditRoute(r, from, to)
  \/ /\ "lines" \in Operations
     /\ \E l \in LineIds, q \in Quantities :
          EditLine(r, l, q) \/ AddLine(r, l, q) \/ RemoveLine(r, l)

\* A request under way goes on.
Continue(r) ==
  \/ SaveSelect(r) \/ SaveWrite(r) \/ RecordHistory(r)
  \/ ReaddLine(r) \/ InsertLine(r) \/ SaveLine(r) \/ DeleteLine(r) \/ Remove(r)
  \/ PostCheck(r) \/ PostCommit(r) \/ Refuse(r)
  \/ \E l \in LineIds : PostLine(r, l)

Next == \E r \in Requests : Start(r) \/ Continue(r) \/ Fail(r)

Spec == Init /\ [][Next]_vars

\* The database answers every statement, the event loop runs every continuation
\* and PostgreSQL hands a row lock to its waiters in turn (hence strong
\* fairness); nothing makes a client send a request.
FairSpec == Spec /\ \A r \in Requests : SF_vars(Continue(r))

\* No failure; with a single element in Requests one operation is finished before
\* the next begins: the executions a unit test walks.
Busy == {r \in Requests : pc[r] # "idle"}
SerialNext == \E r \in Requests : Start(r) \/ Continue(r)
SerialSpec == Init /\ [][SerialNext]_vars

(***************************************************************************)
(* Properties.                                                             *)
(***************************************************************************)
TypeOK ==
  /\ transfer \in Rows
  /\ lines \in [LineIds -> Quantities \cup {0}]
  /\ trail \in [event: Statuses \cup {"NONE"}, submitter: Users \cup {NoUser}]
  /\ stock \in [Warehouses -> [loose: Nat, batch: Nat]]
  /\ ledger \in [Warehouses -> Int]
  /\ batchQty \in Nat
  /\ posts \in 0..MaxPosts
  /\ lock \in Requests \cup {NoRequest}
  /\ pc \in [Requests -> Points]
  /\ op \in [Requests -> Names]
  /\ ent \in [Requests -> Rows]
  /\ joined \in [Requests -> Rows]
  /\ dirty \in [Requests -> Plans]
  /\ stale \in [Requests -> BOOLEAN]
  /\ edit \in [Requests -> [id: LineIds, qty: Quantities \cup {0}]]
  /\ todo \in [Requests -> [LineIds -> Quantities \cup {0}]]
  /\ work \in [Requests -> [stock: [Warehouses -> [loose: Nat, batch: Nat]],
                            ledger: [Warehouses -> Int]]]

\* However requests interleave and wherever they die, the stock of every
\* warehouse is its opening stock plus what the ledger says moved
\* (docs/BUSINESS_RULES.md, 2.1: no quantity changes without a transaction).
StockMatchesLedger ==
  \A w \in Warehouses :
    OnHand(stock[w]) = OpeningLoose[w] + OpeningBatch[w] + ledger[w]

\* Stock and ledger move only in the commit of a post that found the transfer
\* APPROVED under its row lock, and that commit marks it POSTED.
MovesOnlyWhenApproved ==
  [][<<stock, ledger>>' # <<stock, ledger>> =>
       /\ transfer.status = "APPROVED"
       /\ transfer'.status = "POSTED"
       /\ posts' = posts + 1]_vars

\* No stale save, not even one that inserts a deleted transfer again, marks a
\* transfer POSTED that never moved stock.
PostedMeansPosted == transfer.status = "POSTED" => posts > 0

\* The half of the segregation of duties that survives every interleaving and
\* every stale save: the creator of a transfer never approves it.
CreatorNeverApproves ==
  transfer.status \in {"APPROVED", "POSTED"} =>
    transfer.approvedBy # transfer.createdBy

\* The lock is held by a request inside post() and by no other, so that no two
\* posts ever overlap.
LockHolderPosts ==
  \A r \in Requests : lock = r <=> pc[r] \in {"check", "post"}

\* Every request is answered: nobody waits for ever on the row lock.
EveryRequestEnds == \A r \in Requests : pc[r] # "idle" ~> pc[r] = "idle"

\* post(): the lock is there "to prevent double posting" (stock-transfer
\* .service.ts:523): the stock moves once.
PostedOnce == posts <= 1

\* "Only DRAFT or RETURNED transfers can be edited" (update()).
LinesChangeOnlyWhenEditable ==
  [][lines' # lines => transfer.status \in Editable \cup {"ABSENT"}]_vars

\* "Strictly enforces Segregation of Duties (creator or submitter cannot
\* approve)" (approve()): the submitter is the user the audit trail names.
SegregationOfDuties ==
  transfer.status \in {"APPROVED", "POSTED"} =>
    transfer.approvedBy \notin {NoUser, transfer.createdBy, trail.submitter}

\* The audit trail's newest event is the status of the document whenever no
\* request is under way.
AuditTrailCurrent ==
  Busy = {} =>
    trail.event = IF transfer.status = "ABSENT" THEN "NONE" ELSE transfer.status

\* Handled one request at a time, the document goes through its lifecycle.
Lifecycle == INSTANCE DocumentLifecycle
               WITH Pending <- "PENDING_APPROVAL",
                    status <- transfer.status, effects <- posts
FollowsLifecycle == Lifecycle!Spec
=============================================================================

----------------------------- MODULE ProductionOrder -----------------------------
(***************************************************************************)
(* ProductionOrderService: one production order, the operations its        *)
(* release copies from the routing, their log, the material it takes from  *)
(* stock and the goods it puts there.  Nothing runs in a transaction and   *)
(* nothing is locked: a handler loads the order, reads the operations or   *)
(* the stock it checks, and commits row after row.                         *)
(*                                                                         *)
(* save() of the order and of an operation works as in StockTransfer: it   *)
(* selects the row again and writes the columns in which the copy differs. *)
(* updateBalance() is one step: StockPosting shows what happens inside.    *)
(* The scrap row of the ledger moves no stock and is left out, as are      *)
(* reservations of the material; quantities are in one unit.               *)
(***************************************************************************)
EXTENDS Integers, FiniteSets

CONSTANTS
  Sessions,    \* concurrent requests
  Operations,  \* what each may do, of those in Start
  Last,        \* operations of the routing
  Materials,   \* items of the bill of materials
  PerUnit,     \* quantity of each that one planned unit requires
  Opening,     \* opening stock of each
  Plans,       \* planned quantities
  Outputs,     \* quantities an operation may report as good
  Issues,      \* quantities of an issue line, 0 for no line
  MaxReceived, \* bound: quantity the order may put on the ledger
  MaxEvents,   \* bound: log entries of one kind for an operation
  MaxFailures  \* bound: requests that die on the way

Steps == 1..Last

ASSUME ConstantsAssumption ==
  /\ IsFiniteSet(Sessions) /\ Sessions # {}
  /\ Last \in Nat \ {0}
  /\ Materials # {}
  /\ PerUnit \in [Materials -> Nat]
  /\ Opening \in [Materials -> Nat]
  /\ Plans \subseteq Nat \ {0}
  /\ Outputs \subseteq Nat
  /\ Issues \subseteq Nat
  /\ {MaxReceived, MaxEvents, MaxFailures} \subseteq Nat

VARIABLES
  order,     \* production_orders: status, planned and completed quantity, deleted_at set
  ops,       \* production_order_operations: status and output quantity
  log,       \* production_order_operation_logs: events of each operation
  received,  \* stock_ledger: quantity received from the order
  goods,     \* stock of the product
  issued,    \* stock_ledger: quantity of each material issued to the order
  material,  \* stock of each material
  pc,        \* where each session is
  op,        \* the handler it runs
  step,      \* the operation it works on
  copy,      \* the order it loaded and changed
  opCopy,    \* the operation it loaded and changed
  dirty,     \* columns its save() is about to write
  want,      \* the issue lines it has not come to
  item,      \* the material it issues
  amount,    \* the quantity it reports or receives
  trouble    \* history variable: whether requests overlapped, how many failed

rows == <<order, ops, log>>
stock == <<received, goods, issued, material>>
local == <<op, step, copy, opCopy, dirty, want, item, amount>>
vars == <<order, ops, log, received, goods, issued, material, pc, op, step, copy, opCopy,
          dirty, want, item, amount, trouble>>

Statuses == {"NONE", "DRAFT", "RELEASED", "IN_PROGRESS", "COMPLETED", "CANCELLED"}
OpStatuses == {"NONE", "PENDING", "IN_PROGRESS", "COMPLETED"}
OrderColumns == {"status", "planned", "completed", "deleted"}
OpColumns == {"status", "output"}

NoOrder == [status |-> "NONE", planned |-> 0, completed |-> 0, deleted |-> FALSE]
NoOp == [status |-> "NONE", output |-> 0]
NoLines == [m \in Materials |-> 0]
NoLog == [started |-> 0, completed |-> 0]

Init ==
  /\ order = NoOrder
  /\ ops = [k \in Steps |-> NoOp]
  /\ log = [k \in Steps |-> NoLog]
  /\ received = 0
  /\ goods = 0
  /\ issued = NoLines
  /\ material = Opening
  /\ pc = [s \in Sessions |-> "idle"]
  /\ op = [s \in Sessions |-> "none"]
  /\ step = [s \in Sessions |-> 1]
  /\ copy = [s \in Sessions |-> NoOrder]
  /\ opCopy = [s \in Sessions |-> NoOp]
  /\ dirty = [s \in Sessions |-> {}]
  /\ want = [s \in Sessions |-> NoLines]
  /\ item = [s \in Sessions |-> CHOOSE m \in Materials : TRUE]
  /\ amount = [s \in Sessions |-> 0]
  /\ trouble = [overlap |-> FALSE, failures |-> 0]

(***************************************************************************)
(* Helpers of the request steps.                                           *)
(***************************************************************************)
Goto(s, to) == pc' = [pc EXCEPT ![s] = to]

\* The request ends; t is the trouble there has been by then.
EndWith(s, t) ==
  /\ Goto(s, "idle")
  /\ op' = [op EXCEPT ![s] = "none"]
  /\ step' = [step EXCEPT ![s] = 1]
  /\ copy' = [copy EXCEPT ![s] = NoOrder]
  /\ opCopy' = [opCopy EXCEPT ![s] = NoOp]
  /\ dirty' = [dirty EXCEPT ![s] = {}]
  /\ want' = [want EXCEPT ![s] = NoLines]
  /\ item' = [item EXCEPT ![s] = CHOOSE m \in Materials : TRUE]
  /\ amount' = [amount EXCEPT ![s] = 0]
  /\ trouble' = t
End(s) == EndWith(s, trouble)

\* getRawOrder() and the check of its status: `row' is what the handler will save.
Load(s, o, from, row, to) ==
  /\ pc[s] = "idle"
  /\ o \in Operations[s]
  /\ order.status \in from /\ ~order.deleted
  /\ Goto(s, to)
  /\ op' = [op EXCEPT ![s] = o]
  /\ copy' = [copy EXCEPT ![s] = row]
  /\ trouble' = [trouble EXCEPT !.overlap = @ \/ \E t \in Sessions : pc[t] # "idle"]
  /\ UNCHANGED <<rows, stock, opCopy, dirty, item>>

Plain == UNCHANGED <<step, want, amount>>

(***************************************************************************)
(* What the handlers require of the operations, read after the order.      *)
(***************************************************************************)
MayRelease == \A k \in Steps : ops[k].status = "NONE"

MayCancel == \A k \in Steps : ops[k].status \in {"NONE", "PENDING"}

\* Mutant: the operations before it are not looked at.
MayStartAny(k) == ops[k].status = "PENDING"

MayStart(k) ==
  /\ ops[k].status = "PENDING"
  /\ \A j \in Steps : j < k => ops[j].status \in {"NONE", "COMPLETED"}

\* Mutant: an operation can be completed again.
MayFinishAgain(k) == ops[k].status \in {"IN_PROGRESS", "COMPLETED"}

MayFinish(k) == ops[k].status = "IN_PROGRESS"

\* Nothing is received from a final operation without output.
MayComplete == (\A k \in Steps : ops[k].status = "COMPLETED") /\ ops[Last].output > 0

Allowed(s) ==
  \/ op[s] = "release" /\ MayRelease
  \/ op[s] = "cancel" /\ MayCancel
  \/ op[s] = "start" /\ MayStart(step[s])
  \/ op[s] = "finish" /\ MayFinish(step[s])
  \/ op[s] = "complete" /\ MayComplete

Passes(s, o) == pc[s] = "check" /\ op[s] = o /\ Allowed(s)

Refuse(s) ==
  /\ pc[s] = "check"
  /\ ~Allowed(s)
  /\ End(s)
  /\ UNCHANGED <<rows, stock>>

(***************************************************************************)
(* create(), update(), remove(), cancel()                                  *)
(***************************************************************************)
Create(s, plan) ==
  /\ pc[s] = "idle"
  /\ "create" \in Operations[s]
  /\ order.status = "NONE"
  /\ order' = [NoOrder EXCEPT !.status = "DRAFT", !.planned = plan]
  /\ UNCHANGED <<ops, log, stock, pc, local, trouble>>

Update(s, plan) ==
  Plain /\ Load(s, "update", {"DRAFT"}, [order EXCEPT !.planned = plan], "select")

Remove(s) ==
  Plain /\ Load(s, "remove", {"DRAFT"}, [order EXCEPT !.deleted = TRUE], "select")

Cancel(s) ==
  Plain /\ Load(s, "cancel", {"DRAFT", "RELEASED"}, [order EXCEPT !.status = "CANCELLED"], "check")

CancelChecked(s) ==
  /\ Passes(s, "cancel")
  /\ Goto(s, "select")
  /\ UNCHANGED <<rows, stock, local, trouble>>

\* save() of the order.
SaveSelect(s) ==
  /\ pc[s] = "select"
  /\ dirty' = [dirty EXCEPT ![s] = {c \in OrderColumns : copy[s][c] # order[c]}]
  /\ Goto(s, "write")
  /\ UNCHANGED <<rows, stock, op, step, copy, opCopy, want, item, amount, trouble>>

SaveWrite(s) ==
  /\ pc[s] = "write"
  /\ order' = [c \in OrderColumns |-> IF c \in dirty[s] THEN copy[s][c] ELSE order[c]]
  /\ End(s)
  /\ UNCHANGED <<ops, log, stock>>

(***************************************************************************)
(* release(): the operations are inserted one by one, then the order is    *)
(* saved.                                                                  *)
(***************************************************************************)
Release(s) ==
  Plain /\ Load(s, "release", {"DRAFT"}, [order EXCEPT !.status = "RELEASED"], "check")

ReleaseChecked(s) ==
  /\ Passes(s, "release")
  /\ Goto(s, "insert")
  /\ UNCHANGED <<rows, stock, local, trouble>>

InsertOp(s) ==
  LET k == step[s]
  IN /\ pc[s] = "insert"
     /\ ops[k].status = "NONE"
     /\ ops' = [ops EXCEPT ![k].status = "PENDING"]
     /\ \/ k < Last /\ step' = [step EXCEPT ![s] = k + 1] /\ UNCHANGED pc
        \/ k = Last /\ Goto(s, "select") /\ UNCHANGED step
     /\ UNCHANGED <<order, log, stock, op, copy, opCopy, dirty, want, item, amount, trouble>>

\* The unique index refuses an operation that another release() has inserted.
InsertRefused(s) ==
  /\ pc[s] = "insert"
  /\ ops[step[s]].status # "NONE"
  /\ End(s)
  /\ UNCHANGED <<rows, stock>>

(***************************************************************************)
(* startOperation() and completeOperation(): the operation is saved, then  *)
(* the event logged, then the order put in progress by a start that had    *)
(* found it released.                                                      *)
(***************************************************************************)
StartOperation(s, k) ==
  /\ Load(s, "start", {"RELEASED", "IN_PROGRESS"}, order, "check")
  /\ step' = [step EXCEPT ![s] = k]
  /\ UNCHANGED <<want, amount>>

CompleteOperation(s, k, quantity) ==
  /\ Load(s, "finish", {"IN_PROGRESS"}, order, "check")
  /\ step' = [step EXCEPT ![s] = k]
  /\ amount' = [amount EXCEPT ![s] = quantity]
  /\ UNCHANGED want

OperationChecked(s) ==
  LET k == step[s]
  IN /\ \/ /\ Passes(s, "start")
           /\ opCopy' = [opCopy EXCEPT ![s] = [ops[k] EXCEPT !.status = "IN_PROGRESS"]]
        \/ /\ Passes(s, "finish")
           /\ opCopy' = [opCopy EXCEPT ![s] = [status |-> "COMPLETED", output |-> amount[s]]]
     /\ Goto(s, "opselect")
     /\ UNCHANGED <<rows, stock, op, step, copy, dirty, want, item, amount, trouble>>

OpSelect(s) ==
  /\ pc[s] = "opselect"
  /\ dirty' = [dirty EXCEPT ![s] = {c \in OpColumns : opCopy[s][c] # ops[step[s]][c]}]
  /\ Goto(s, "opwrite")
  /\ UNCHANGED <<rows, stock, op, step, copy, opCopy, want, item, amount, trouble>>

OpWrite(s) ==
  /\ pc[s] = "opwrite"
  /\ ops' = [ops EXCEPT ![step[s]] =
       [c \in OpColumns |-> IF c \in dirty[s] THEN opCopy[s][c] ELSE @[c]]]
  /\ Goto(s, "log")
  /\ UNCHANGED <<order, log, stock, local, trouble>>

Log(s) ==
  LET event == IF op[s] = "start" THEN "started" ELSE "completed"
      first == op[s] = "start" /\ copy[s].status = "RELEASED"
  IN /\ pc[s] = "log"
     /\ log[step[s]][event] < MaxEvents
     /\ log' = [log EXCEPT ![step[s]][event] = @ + 1]
     /\ \/ /\ first
           /\ copy' = [copy EXCEPT ![s].status = "IN_PROGRESS"]
           /\ Goto(s, "select")
           /\ UNCHANGED <<op, step, opCopy, dirty, want, item, amount, trouble>>
        \/ ~first /\ End(s)
     /\ UNCHANGED <<order, ops, stock>>

(***************************************************************************)
(* completeProductionOrder(): ledger, balance and order, one after another.*)
(***************************************************************************)
\* Mutant: a completed order can be completed again.
CompleteOrderAgain(s) ==
  Plain /\ Load(s, "complete", {"IN_PROGRESS", "COMPLETED"}, order, "check")

CompleteOrder(s) == Plain /\ Load(s, "complete", {"IN_PROGRESS"}, order, "check")

CompleteChecked(s) ==
  /\ Passes(s, "complete")
  /\ amount' = [amount EXCEPT ![s] = ops[Last].output]
  /\ copy' = [copy EXCEPT ![s].status = "COMPLETED", ![s].completed = ops[Last].output]
  /\ Goto(s, "receipt")
  /\ UNCHANGED <<rows, stock, op, step, opCopy, dirty, want, item, trouble>>

\* Mutant: the goods are put into stock without a ledger row.
ReceiptSkipped(s) ==
  /\ pc[s] = "receipt"
  /\ received + amount[s] <= MaxReceived
  /\ Goto(s, "goods")
  /\ UNCHANGED <<rows, stock, local, trouble>>

Receipt(s) ==
  /\ pc[s] = "receipt"
  /\ received + amount[s] <= MaxReceived
  /\ received' = received + amount[s]
  /\ Goto(s, "goods")
  /\ UNCHANGED <<rows, goods, issued, material, local, trouble>>

PutGoods(s) ==
  /\ pc[s] = "goods"
  /\ goods' = goods + amount[s]
  /\ Goto(s, "select")
  /\ UNCHANGED <<rows, received, issued, material, local, trouble>>

(***************************************************************************)
(* issueMaterials(): line by line; the lines before one that is refused    *)
(* stay issued.                                                            *)
(***************************************************************************)
IssueMaterials(s, lines) ==
  /\ lines # NoLines
  /\ Load(s, "issue", {"RELEASED", "IN_PROGRESS"}, order, "line")
  /\ want' = [want EXCEPT ![s] = lines]
  /\ UNCHANGED <<step, amount>>

\* Mutant: what was issued before does not count.
WithinNeedAlone(s, m) == want[s][m] <= PerUnit[m] * copy[s].planned

\* "Over-issue rejected"
WithinNeed(s, m) == issued[m] + want[s][m] <= PerUnit[m] * copy[s].planned

IssueLine(s) ==
  /\ pc[s] = "line"
  /\ \E m \in Materials :
       /\ want[s][m] > 0
       /\ WithinNeed(s, m)
       /\ material[m] >= want[s][m]
       /\ item' = [item EXCEPT ![s] = m]
  /\ Goto(s, "issue")
  /\ UNCHANGED <<rows, stock, op, step, copy, opCopy, dirty, want, amount, trouble>>

IssueRefused(s) ==
  /\ pc[s] = "line"
  /\ \E m \in Materials :
       want[s][m] > 0 /\ (~WithinNeed(s, m) \/ material[m] < want[s][m])
  /\ End(s)
  /\ UNCHANGED <<rows, stock>>

IssueLedger(s) ==
  LET m == item[s]
  IN /\ pc[s] = "issue"
     /\ issued' = [issued EXCEPT ![m] = @ + want[s][m]]
     /\ Goto(s, "take")
     /\ UNCHANGED <<rows, received, goods, material, local, trouble>>

\* Mutant: updateBalance() does not look at the stock.
TakeUnchecked(s) ==
  LET m == item[s]
  IN /\ pc[s] = "take"
     /\ material' = [material EXCEPT ![m] = @ - want[s][m]]
     /\ End(s)
     /\ UNCHANGED <<rows, received, goods, issued>>

\* updateBalance() looks at the stock once more.
Take(s) ==
  LET m == item[s]
      left == [want[s] EXCEPT ![m] = 0]
  IN /\ pc[s] = "take"
     /\ material[m] >= want[s][m]
     /\ material' = [material EXCEPT ![m] = @ - want[s][m]]
     /\ \/ left = NoLines /\ End(s)
        \/ /\ left # NoLines
           /\ want' = [want EXCEPT ![s] = left]
           /\ Goto(s, "line")
           /\ UNCHANGED <<op, step, copy, opCopy, dirty, item, amount, trouble>>
     /\ UNCHANGED <<rows, received, goods, issued>>

\* The ledger row has been committed.
TakeRefused(s) ==
  /\ pc[s] = "take"
  /\ material[item[s]] < want[s][item[s]]
  /\ End(s)
  /\ UNCHANGED <<rows, stock>>

\* The process or its connection dies: what was written stays.
Fail(s) ==
  /\ pc[s] # "idle"
  /\ trouble.failures < MaxFailures
  /\ EndWith(s, [trouble EXCEPT !.failures = @ + 1])
  /\ UNCHANGED <<rows, stock>>

Start(s) ==
  \/ \E plan \in Plans : Create(s, plan) \/ Update(s, plan)
  \/ Remove(s) \/ Cancel(s) \/ Release(s) \/ CompleteOrder(s)
  \/ \E k \in Steps :
       StartOperation(s, k) \/ \E quantity \in Outputs : CompleteOperation(s, k, quantity)
  \/ \E lines \in [Materials -> Issues] : IssueMaterials(s, lines)

Continue(s) ==
  \/ Refuse(s) \/ CancelChecked(s) \/ SaveSelect(s) \/ SaveWrite(s)
  \/ ReleaseChecked(s) \/ InsertOp(s) \/ InsertRefused(s)
  \/ OperationChecked(s) \/ OpSelect(s) \/ OpWrite(s) \/ Log(s)
  \/ CompleteChecked(s) \/ Receipt(s) \/ PutGoods(s)
  \/ IssueLine(s) \/ IssueRefused(s) \/ IssueLedger(s) \/ Take(s) \/ TakeRefused(s)

Next == \E s \in Sessions : Start(s) \/ Continue(s) \/ Fail(s)
Spec == Init /\ [][Next]_vars

(***************************************************************************)
(* Properties.                                                             *)
(***************************************************************************)
TypeOK ==
  /\ order \in [status: Statuses, planned: Nat, completed: Nat, deleted: BOOLEAN]
  /\ ops \in [Steps -> [status: OpStatuses, output: Nat]]
  /\ log \in [Steps -> [started: 0..MaxEvents, completed: 0..MaxEvents]]
  /\ received \in 0..MaxReceived
  /\ goods \in Nat
  /\ issued \in [Materials -> Nat]
  /\ material \in [Materials -> Nat]
  /\ pc \in [Sessions -> {"idle", "select", "write", "check", "insert", "opselect", "opwrite",
                          "log", "receipt", "goods", "line", "issue", "take"}]
  /\ op \in [Sessions -> {"none", "update", "remove", "cancel", "release", "start", "finish",
                          "complete", "issue"}]
  /\ step \in [Sessions -> Steps]
  /\ copy \in [Sessions -> [status: Statuses, planned: Nat, completed: Nat, deleted: BOOLEAN]]
  /\ opCopy \in [Sessions -> [status: OpStatuses, output: Nat]]
  /\ dirty \in [Sessions -> SUBSET (OrderColumns \cup OpColumns)]
  /\ want \in [Sessions -> [Materials -> Nat]]
  /\ item \in [Sessions -> Materials]
  /\ amount \in [Sessions -> Nat]
  /\ trouble \in [overlap: BOOLEAN, failures: 0..MaxFailures]

AllIdle == \A s \in Sessions : pc[s] = "idle"
AtRest == ~trouble.overlap /\ trouble.failures = 0 /\ AllIdle

\* However requests interleave and fail, what an order reads as completed is on
\* the ledger, and no goods are in stock that the ledger has not received: the
\* ledger row comes before the balance and the balance before the order.
CompletedIsReceived == order.completed <= received /\ goods <= received

\* However issues interleave, fail or are refused half-way, the stock of a
\* material has lost no more than its ledger says was issued, and gained none.
IssuesAreOnLedger ==
  \A m \in Materials : Opening[m] - material[m] \in 0..issued[m]

\* Goods in and materials out alike: the ledger row is written first, and no overlap
\* or failure leaves stock, or the order, ahead of it.
StockFollowsLedger == CompletedIsReceived /\ IssuesAreOnLedger

\* "Over-issue rejected" (production-order.service.ts:606): issues one at a time,
\* of which some are refused or fail between two lines, and edits of the plan before
\* the release never issue more of a material than the plan requires.
IssuedWithinNeed ==
  ~trouble.overlap => \A m \in Materials : issued[m] <= PerUnit[m] * order.planned

\* Requests one at a time work on the operations in the order of the routing, one
\* operation after another, and on none of an order that is cancelled, also when a
\* request dies between the save of an operation and that of its order.
WorkInSequence ==
  ~trouble.overlap =>
    /\ \A j, k \in Steps :
         j < k /\ ops[k].status \in {"IN_PROGRESS", "COMPLETED"} => ops[j].status = "COMPLETED"
    /\ order.status = "CANCELLED" =>
         \A k \in Steps : ops[k].status \in {"NONE", "PENDING"}

\* "Stock moves once, when the Production Order is completed"
\* (docs/ERP-00013-IMPLEMENTATION.md:29-30): requests that follow each other and
\* run through leave goods of exactly the completed quantity, the output of the
\* last operation, in stock and on the ledger.
StockMovesOnce ==
  AtRest =>
    /\ received = order.completed /\ goods = order.completed
    /\ order.status = "COMPLETED" => order.completed = ops[Last].output
    /\ order.status # "COMPLETED" => received = 0

\* Requests one at a time that run through log each start and each completion of
\* an operation exactly once, so that the log alone tells the operations' states.
LogTellsWork ==
  AtRest => \A k \in Steps :
    /\ log[k].started = (IF ops[k].status \in {"IN_PROGRESS", "COMPLETED"} THEN 1 ELSE 0)
    /\ log[k].completed = (IF ops[k].status = "COMPLETED" THEN 1 ELSE 0)

\* What follows each other and runs through leaves stock, ledger, log and order in
\* agreement.
WorkIsAccounted == StockMovesOnce /\ LogTellsWork

\* "Previous operation results are never overwritten" (the comment over the log
\* table in 20260821200000_erp_00012_production_workflow.sql): requests one at a
\* time change neither a completed operation nor a completed order again.
ResultsAreKept ==
  [][~trouble'.overlap =>
       /\ \A k \in Steps : ops[k].status = "COMPLETED" => ops'[k] = ops[k]
       /\ order.status = "COMPLETED" => order' = order]_vars
=============================================================================

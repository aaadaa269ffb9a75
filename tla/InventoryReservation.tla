------------------------- MODULE InventoryReservation --------------------------
(***************************************************************************)
(* InventoryReservationService beside stock movements, for one item in one *)
(* warehouse.  create(), release() and cancel() run without a transaction: *)
(* the reservation is saved first, then the balance row is read, changed   *)
(* in memory and saved.  The movements are those of callers that have no   *)
(* transaction either (SalesDeliveryService.confirm(),                     *)
(* ProductionOrderService.complete()): updateBalance() reads the rows and  *)
(* saves them one after another.                                           *)
(*                                                                         *)
(* As in StockTransfer, save() selects the row again (SaveSelect) and      *)
(* updates the columns in which the copy differs from it (SaveWrite): a    *)
(* stale copy of on_hand is a difference too, and so is every column the   *)
(* code assigned, a number where the driver returns a DECIMAL as text.     *)
(***************************************************************************)
EXTENDS BalanceRows

CONSTANTS
  Sessions,    \* concurrent requests
  Operations,  \* what they may do, of those in Start
  Ids,         \* reservations
  Opening,     \* opening stock of every row
  MaxReceived, \* bound: quantity received on a row
  MaxIssued    \* bound: quantity issued in all

ASSUME ReservationAssumption ==
  /\ Ids # {}
  /\ Opening \in [Keys -> Nat]
  /\ {MaxReceived, MaxIssued} \subseteq Nat

VARIABLES
  res,       \* inventory_reservations: [status, batch, qty]
  received,  \* history variable: quantity received per row
  issued,    \* history variable: quantity issued in all
  pc,        \* where each session is
  arg,       \* what it works on: [op, id, batch, qty]
  todo,      \* rows it has still to save: sequence of [key, row, set],
             \* `set' being the columns it assigned
  dirty      \* columns the save under way is about to write

reservationVars == <<rows, res, received, issued, pc, arg, todo, dirty>>

Columns == {"onHand", "reserved", "available"}
Counts == {"reserved", "available"}     \* what reserving and releasing assigns
Copy(k, row, set) == [key |-> k, row |-> row, set |-> set]
Copies == [key: Keys, row: Row, set: SUBSET Columns]
NoArg == [op |-> "none", id |-> CHOOSE i \in Ids : TRUE, batch |-> NoBatch, qty |-> 0]
NoReservation == [status |-> "NONE", batch |-> NoBatch, qty |-> 0]

ReservationInit ==
  /\ rows = [k \in Keys |->
       [onHand |-> Opening[k], reserved |-> 0, available |-> Opening[k]]]
  /\ res = [i \in Ids |-> NoReservation]
  /\ received = [k \in Keys |-> 0]
  /\ issued = 0
  /\ pc = [s \in Sessions |-> "idle"]
  /\ arg = [s \in Sessions |-> NoArg]
  /\ todo = [s \in Sessions |-> <<>>]
  /\ dirty = [s \in Sessions |-> {}]

Goto(s, to) == pc' = [pc EXCEPT ![s] = to]

Begin(s, a, to) ==
  /\ pc[s] = "idle"
  /\ arg' = [arg EXCEPT ![s] = a]
  /\ Goto(s, to)
  /\ UNCHANGED <<rows, res, received, issued, todo, dirty>>

\* The session has the rows in `copies' to save.
Hold(s, copies) ==
  /\ todo' = [todo EXCEPT ![s] = copies]
  /\ Goto(s, "select")
  /\ UNCHANGED <<rows, res, arg, dirty>>

End(s) ==
  /\ Goto(s, "idle")
  /\ arg' = [arg EXCEPT ![s] = NoArg]
  /\ todo' = [todo EXCEPT ![s] = <<>>]
  /\ dirty' = [dirty EXCEPT ![s] = {}]

(***************************************************************************)
(* create()                                                                *)
(***************************************************************************)
Create(s, i, k, q) ==
  /\ res[i] = NoReservation
  /\ \A t \in Sessions : pc[t] = "insert" => arg[t].id # i      \* a fresh id
  /\ q <= AvailableStock(rows, k)
  /\ Begin(s, [op |-> "create", id |-> i, batch |-> k, qty |-> q], "insert")

Insert(s) ==
  /\ pc[s] = "insert"
  /\ res' = [res EXCEPT ![arg[s].id] =
       [status |-> "ACTIVE", batch |-> arg[s].batch, qty |-> arg[s].qty]]
  /\ Goto(s, "reserve")
  /\ UNCHANGED <<rows, received, issued, arg, todo, dirty>>

\* reserveStock() reads a row and checks it.
ReserveRow(s) ==
  /\ pc[s] = "reserve"
  /\ \E k \in Found(rows, arg[s].batch) :
       /\ arg[s].qty <= rows[k].available
       /\ Hold(s, <<Copy(k, Reserved(rows[k], arg[s].qty), Counts)>>)
  /\ UNCHANGED <<received, issued>>

(***************************************************************************)
(* release() and cancel()                                                  *)
(***************************************************************************)
BeginRelease(s, i) ==
  /\ res[i].status = "ACTIVE"
  /\ \/ "release" \in Operations
        /\ Begin(s, [op |-> "release", id |-> i, batch |-> res[i].batch,
                     qty |-> res[i].qty], "end")
     \/ "cancel" \in Operations
        /\ Begin(s, [op |-> "cancel", id |-> i, batch |-> res[i].batch,
                     qty |-> res[i].qty], "end")

\* save() of the reservation; its status is the one column that changed.
EndReservation(s) ==
  /\ pc[s] = "end"
  /\ res' = [res EXCEPT ![arg[s].id].status =
       IF arg[s].op = "release" THEN "RELEASED" ELSE "CANCELLED"]
  /\ Goto(s, "unreserve")
  /\ UNCHANGED <<rows, received, issued, arg, todo, dirty>>

\* releaseReservation() reads a row, the largest one now if no batch is named.
Unreserve(s) ==
  /\ pc[s] = "unreserve"
  /\ \E k \in Found(rows, arg[s].batch) :
       /\ rows[k].available \in -9..9      \* bound: the release multiplies it by ten
       /\ Hold(s, <<Copy(k, Released(rows[k], arg[s].qty), Counts)>>)
  /\ UNCHANGED <<received, issued>>

(***************************************************************************)
(* updateBalance() of a movement.                                          *)
(***************************************************************************)
ReceiveStock(s, k, q) ==
  /\ received[k] + q <= MaxReceived
  /\ pc[s] = "idle"
  /\ received' = [received EXCEPT ![k] = @ + q]
  /\ Hold(s, <<Copy(k, Receive(rows[k], q), {"onHand", "available"})>>)
  /\ UNCHANGED issued

\* The rows that the first n in the order have become: the loop breaks when
\* nothing remains to take, so the rows it saves are the first.
FirstCopies(order, after, n) ==
  [i \in 1..n |-> Copy(order[i], after[order[i]], Columns)]

IssueStock(s, k, q) ==
  /\ issued + q <= MaxIssued
  /\ pc[s] = "idle"
  /\ issued' = issued + q
  /\ UNCHANGED received
  /\ \/ /\ k # NoBatch
        /\ Covered(rows[k].onHand, q, FALSE)
        /\ Hold(s, <<Copy(k, IssueBatch(rows, k, q)[k], Columns)>>)
     \/ /\ k = NoBatch
        /\ Covered(TotalOnHand(rows), q, FALSE)
        /\ \E order \in Candidates(rows) :
             LET after == IssueLoose(rows, order, q)
                 touched == {j \in Keys : after[j] # rows[j]}
             IN Hold(s, FirstCopies(order, after, Cardinality(touched)))

(***************************************************************************)
(* save() of a balance row.                                                *)
(***************************************************************************)
SaveSelect(s) ==
  LET copy == Head(todo[s])
  IN /\ pc[s] = "select"
     /\ dirty' = [dirty EXCEPT ![s] =
          copy.set \cup {c \in Columns : copy.row[c] # rows[copy.key][c]}]
     /\ Goto(s, "write")
     /\ UNCHANGED <<rows, res, received, issued, arg, todo>>

SaveWrite(s) ==
  LET copy == Head(todo[s])
  IN /\ pc[s] = "write"
     /\ rows' = [rows EXCEPT ![copy.key] =
          [c \in Columns |-> IF c \in dirty[s] THEN copy.row[c] ELSE @[c]]]
     /\ UNCHANGED <<res, received, issued>>
     /\ IF Len(todo[s]) = 1 THEN End(s)
        ELSE /\ todo' = [todo EXCEPT ![s] = Tail(@)]
             /\ Goto(s, "select")
             /\ UNCHANGED <<arg, dirty>>

\* reserveStock() throws "Insufficient available stock": the reservation stays.
Refuse(s) ==
  /\ pc[s] = "reserve"
  /\ \A k \in Found(rows, arg[s].batch) : rows[k].available < arg[s].qty
  /\ End(s)
  /\ UNCHANGED <<rows, res, received, issued>>

\* The process or its connection dies.
Fail(s) ==
  /\ pc[s] # "idle"
  /\ End(s)
  /\ UNCHANGED <<rows, res, received, issued>>

Start(s) ==
  \/ /\ "create" \in Operations
     /\ \E i \in Ids, k \in Keys, q \in Quantities : Create(s, i, k, q)
  \/ \E i \in Ids : BeginRelease(s, i)
  \/ /\ "in" \in Operations
     /\ \E k \in Keys, q \in Quantities : ReceiveStock(s, k, q)
  \/ /\ "out" \in Operations
     /\ \E k \in Keys, q \in Quantities : IssueStock(s, k, q)

Continue(s) ==
  \/ Insert(s) \/ ReserveRow(s) \/ Refuse(s) \/ EndReservation(s) \/ Unreserve(s)
  \/ SaveSelect(s) \/ SaveWrite(s)

ReservationNext == \E s \in Sessions : Start(s) \/ Continue(s) \/ Fail(s)
ReservationSpec == ReservationInit /\ [][ReservationNext]_reservationVars

(***************************************************************************)
(* Properties.                                                             *)
(***************************************************************************)
ReservationTypeOK ==
  /\ rows \in [Keys -> Row]
  /\ res \in [Ids -> [status: {"NONE", "ACTIVE", "RELEASED", "CANCELLED"},
                      batch: Keys, qty: Quantities \cup {0}]]
  /\ received \in [Keys -> 0..MaxReceived]
  /\ issued \in 0..MaxIssued
  /\ pc \in [Sessions -> {"idle", "insert", "reserve", "end", "unreserve", "select", "write"}]
  /\ arg \in [Sessions -> [op: {"none", "create", "release", "cancel"}, id: Ids,
                           batch: Keys, qty: Quantities \cup {0}]]
  /\ todo \in [Sessions -> Seq(Copies)]
  /\ dirty \in [Sessions -> SUBSET Columns]

\* Lost updates can bring issued stock back, but however reservations, receipts
\* and issues interleave, a row never holds more than was ever put on it, and
\* never less than nothing.
StockWithinReceipts ==
  \A k \in Keys : rows[k].onHand \in 0..(Opening[k] + received[k])

\* "No inventory quantity may change without a corresponding transaction"
\* (docs/BUSINESS_RULES.md, 2.1): what a request about a reservation saves
\* changes no quantity on hand.
ReservingMovesNoStock ==
  [][\A s \in Sessions :
       arg[s].op # "none" /\ pc[s] = "write" /\ pc'[s] # "write" =>
         \A k \in Keys : rows'[k].onHand = rows[k].onHand]_reservationVars
=============================================================================

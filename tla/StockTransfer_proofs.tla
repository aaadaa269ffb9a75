------------------------- MODULE StockTransfer_proofs --------------------------
(***************************************************************************)
(* What StockTransfer promises for any number of requests, users,          *)
(* warehouses, lines and quantities, however requests interleave and       *)
(* wherever they die:                                                      *)
(*   - the typing of its state (Typed);                                    *)
(*   - post() excludes itself by the row lock (Mutex);                     *)
(*   - stock and ledger agree (Conserved);                                 *)
(*   - they move only in the commit of a post that finds the transfer      *)
(*     APPROVED (PostsOnlyApproved), and a POSTED transfer has moved them  *)
(*     (PostedHasPosted);                                                  *)
(*   - its creator never approves it (CreatorIsNoApprover).                *)
(* And what it promises when requests do not overlap and none fails: the   *)
(* audit trail is current (TrailIsCurrent), lines change only while the    *)
(* transfer may be edited (LinesEditable), and the document goes through   *)
(* DocumentLifecycle (FollowsItsLifecycle).                                *)
(***************************************************************************)
EXTENDS StockTransfer, TLAPS

\* TypeOK but for the bound on posts, which needs the lock: what the database
\* and the row lock hold, and what the requests hold.
Edits == [id: LineIds, qty: Quantities \cup {0}]
LineTables == [LineIds -> Quantities \cup {0}]
StockTables == [Warehouses -> [loose: Nat, batch: Nat]]
Works == [stock: StockTables, ledger: [Warehouses -> Int]]

Trails == [event: Statuses \cup {"NONE"}, submitter: Users \cup {NoUser}]

SharedTypes ==
  /\ transfer \in Rows
  /\ lines \in LineTables
  /\ trail \in Trails
  /\ stock \in StockTables
  /\ ledger \in [Warehouses -> Int]
  /\ batchQty \in Nat
  /\ posts \in Nat
  /\ lock \in Requests \cup {NoRequest}
  /\ stale \in [Requests -> BOOLEAN]

RequestTypes ==
  /\ pc \in [Requests -> Points]
  /\ op \in [Requests -> Names]
  /\ ent \in [Requests -> Rows]
  /\ joined \in [Requests -> Rows]
  /\ dirty \in [Requests -> Plans]
  /\ edit \in [Requests -> Edits]
  /\ todo \in [Requests -> LineTables]
  /\ work \in [Requests -> Works]

Types == SharedTypes /\ RequestTypes

\* A transfer that exists has a creator, and so has every copy of one; what is
\* inserted again is inserted whole.
Exists(row) == row.status # "ABSENT" /\ row.createdBy # NoUser
Entities ==
  /\ transfer.status # "ABSENT" => transfer.createdBy # NoUser
  /\ \A r \in Requests : pc[r] # "idle" => Exists(ent[r])
  /\ \A r \in Requests : pc[r] = "insert" => \A c \in Columns : dirty[r][c] = "copy"

\* The row lock belongs to the one request inside post().
Posting(r) == pc[r] \in {"check", "post"}

USE DEF Editable

(***************************************************************************)
(* Typing.                                                                 *)
(***************************************************************************)
LEMMA Defaults ==
  /\ NoEntity \in Rows
  /\ NoEdit \in Edits
  /\ NoLines \in LineTables
  /\ NoWork \in Works
  /\ NoPlan \in Plans
  /\ NoTrail \in Trails
BY ConstantsAssumption
DEF NoEntity, Rows, NoPlan, Plans, Columns, NoTrail, Trails, NoEdit, Edits, NoLines, LineTables, NoWork, Works, StockTables

\* There is no transfer at first and no request.
LEMMA TypesInit == Init => Types
BY Defaults, ConstantsAssumption
DEF Init, Types, SharedTypes, RequestTypes, StockTables, Points, Names

\* What save() does with each column, and the row it leaves.
LEMMA PlanType ==
  ASSUME NEW r \in Requests
  PROVE  /\ [c \in Columns |-> Plan(r, c)] \in Plans
         /\ [c \in Columns |-> "copy"] \in Plans
BY DEF Plans, Plan

\* What save() leaves is a row: each column comes from a row or is null.
LEMMA SavedType == ASSUME Types, NEW r \in Requests PROVE Saved(r) \in Rows
<1>1. /\ transfer \in Rows /\ ent[r] \in Rows /\ joined[r] \in Rows
      /\ dirty[r] \in Plans
  BY DEF Types, SharedTypes, RequestTypes
<1>2. \A c \in Columns \ Nullable : Saved(r)[c] \in {transfer[c], ent[r][c], joined[r][c]}
  BY <1>1 DEF Saved, Copy, Plans, Columns
<1>3. \A c \in Nullable :
        Saved(r)[c] \in {transfer[c], ent[r][c], joined[r][c], NoUser}
  BY DEF Saved, Copy, Nullable, Columns
<1>4. Saved(r).status \in {transfer.status, ent[r].status}
  BY <1>1 DEF Saved, Copy, Plans, Columns, Nullable, Relations
<1>. QED BY <1>1, <1>2, <1>3, <1>4 DEF Saved, Rows, Columns, Nullable

\* A request that ends keeps the typing of what requests hold.
LEMMA ForgetTypes ==
  ASSUME RequestTypes, NEW r \in Requests, Forget(r) PROVE RequestTypes'
<1>1. pc' \in [Requests -> Points] /\ op' \in [Requests -> Names]
  BY DEF RequestTypes, Forget, Goto, Points, Names
<1>2. /\ ent' \in [Requests -> Rows] /\ joined' \in [Requests -> Rows]
      /\ dirty' \in [Requests -> Plans]
  BY Defaults DEF RequestTypes, Forget
<1>3. edit' \in [Requests -> Edits] /\ todo' \in [Requests -> LineTables]
  BY Defaults DEF RequestTypes, Forget
<1>4. work' \in [Requests -> Works]
  BY Defaults DEF RequestTypes, Forget
<1>. QED BY <1>1, <1>2, <1>3, <1>4 DEF RequestTypes

\* So does a request that begins with a well-typed copy of the transfer.
LEMMA LoadTypes ==
  ASSUME Types, NEW r \in Requests, NEW o \in Names, NEW e \in Rows,
         NEW to \in Points, Load(r, o, e, to), edit' \in [Requests -> Edits]
  PROVE  Types'
BY DEF Types, SharedTypes, RequestTypes, Load, Goto, document, inventory

\* Marking the other requests' copies as stale.
LEMMA OutdateTypes == ASSUME NEW own, Outdate(own) PROVE stale' \in [Requests -> BOOLEAN]
BY DEF Outdate

\* create() writes a new row and remembers the line to add.
LEMMA CreateTypes ==
  ASSUME Types, NEW r \in Requests, NEW u \in Users, NEW from \in Warehouses,
         NEW to \in Warehouses, NEW l \in LineIds, NEW q \in Quantities,
         Create(r, u, from, to, l, q)
  PROVE  Types'
<1>1. transfer' \in Rows
  BY Defaults DEF Create, Rows, Statuses
<1>2. [id |-> l, qty |-> q] \in Edits
  BY DEF Edits
<1>3. ent' \in [Requests -> Rows] /\ edit' \in [Requests -> Edits]
  BY <1>1, <1>2 DEF Create, Types, RequestTypes
<1>4. pc' \in [Requests -> Points] /\ op' \in [Requests -> Names]
  BY DEF Create, Goto, Types, RequestTypes, Points, Names
<1>. QED BY <1>1, <1>3, <1>4 DEF Create, Types, SharedTypes, RequestTypes, inventory

\* The handlers that load the header to save it, and delete().
LEMMA HeaderTypes ==
  ASSUME Types, NEW r \in Requests,
         \/ \E u \in Users : Submit(r, u) \/ Approve(r, u)
         \/ Return(r) \/ Reject(r) \/ Cancel(r) \/ Delete(r) \/ EditNotes(r)
         \/ \E from, to \in Warehouses : EditRoute(r, from, to)
  PROVE  Types'
<1>. /\ {"select", "remove"} \subseteq Points
     /\ {"submit", "approve", "return", "reject", "cancel", "delete", "update"} \subseteq Names
  BY DEF Points, Names
<1>0. /\ edit \in [Requests -> Edits]
      /\ transfer \in Rows
  BY DEF Types, SharedTypes, RequestTypes
<1>1. ASSUME NEW u \in Users, Submit(r, u) PROVE Types'
  <2>1. [transfer EXCEPT !.status = "PENDING_APPROVAL", !.submittedBy = u] \in Rows
    BY <1>0 DEF Rows, Statuses
  <2>. QED BY <1>0, <1>1, <2>1, LoadTypes DEF Submit
<1>2. ASSUME NEW u \in Users, Approve(r, u) PROVE Types'
  <2>1. [transfer EXCEPT !.status = "APPROVED", !.approvedBy = u] \in Rows
    BY <1>0 DEF Rows, Statuses
  <2>. QED BY <1>0, <1>2, <2>1, LoadTypes DEF Approve
<1>3. \A s \in Statuses : [transfer EXCEPT !.status = s] \in Rows
  BY <1>0 DEF Rows
<1>4. CASE Return(r)
  BY <1>0, <1>3, <1>4, LoadTypes DEF Return, Statuses
<1>5. CASE Reject(r)
  BY <1>0, <1>3, <1>5, LoadTypes DEF Reject, Statuses
<1>6. CASE Cancel(r)
  BY <1>0, <1>3, <1>6, LoadTypes DEF Cancel, Statuses
<1>7. CASE Delete(r)
  BY <1>0, <1>7, LoadTypes DEF Delete
<1>8. CASE EditNotes(r)
  BY <1>0, <1>8, LoadTypes DEF EditNotes
<1>9. ASSUME NEW from \in Warehouses, NEW to \in Warehouses, EditRoute(r, from, to)
      PROVE  Types'
  <2>1. [transfer EXCEPT !.from = from, !.to = to] \in Rows
    BY <1>0 DEF Rows
  <2>. QED BY <1>0, <1>9, <2>1, LoadTypes DEF EditRoute
<1>. QED BY <1>1, <1>2, <1>4, <1>5, <1>6, <1>7, <1>8, <1>9

\* save() of a header and the history row that follows it.
LEMMA SaveTypes ==
  ASSUME Types, Entities, NEW r \in Requests,
         SaveSelect(r) \/ SaveWrite(r) \/ RecordHistory(r)
  PROVE  Types'
<1>1. CASE SaveSelect(r)
  <2>1. dirty' \in [Requests -> Plans]
    BY <1>1, PlanType DEF SaveSelect, Types, RequestTypes
  <2>. QED BY <1>1, <2>1
           DEF SaveSelect, Types, SharedTypes, RequestTypes, Goto, Points, document, inventory
<1>2. CASE SaveWrite(r)
  <2>1. transfer' \in Rows
    BY <1>2, SavedType DEF SaveWrite, Types, SharedTypes
  <2>2. CASE Finish(r)
    <3>1. RequestTypes' /\ stale' \in [Requests -> BOOLEAN]
      BY <2>2, ForgetTypes DEF Finish, Types, SharedTypes
    <3>. QED BY <1>2, <2>1, <3>1 DEF SaveWrite, Types, SharedTypes, inventory
  <2>3. CASE Goto(r, "log") /\ UNCHANGED <<op, ent, joined, dirty, stale, edit, todo, work>>
    BY <1>2, <2>1, <2>3
    DEF SaveWrite, Types, SharedTypes, RequestTypes, Goto, Points, inventory
  <2>. QED BY <1>2, <2>2, <2>3 DEF SaveWrite
<1>3. CASE RecordHistory(r)
  <2>1. RequestTypes' /\ stale' \in [Requests -> BOOLEAN]
    BY <1>3, ForgetTypes, OutdateTypes DEF RecordHistory, Types
  <2>2. trail' \in Trails
    BY <1>3 DEF RecordHistory, Types, SharedTypes, RequestTypes, Rows, Entities, Exists, Trails
  <2>. QED BY <1>3, <2>1, <2>2 DEF RecordHistory, Types, SharedTypes, inventory
<1>. QED BY <1>1, <1>2, <1>3

\* Steps on the lines of the transfer.
LEMMA LineTypes ==
  ASSUME Types, NEW r \in Requests,
         \/ \E l \in LineIds, q \in Quantities :
              EditLine(r, l, q) \/ AddLine(r, l, q) \/ RemoveLine(r, l)
         \/ ReaddLine(r) \/ InsertLine(r) \/ SaveLine(r) \/ DeleteLine(r) \/ Remove(r)
  PROVE  Types'
<1>0. /\ transfer \in Rows
      /\ edit \in [Requests -> Edits]
      /\ lines \in LineTables
  BY DEF Types, SharedTypes, RequestTypes
<1>. /\ {"readd", "saveline", "addline", "unline"} \subseteq Points
     /\ {"update", "addline", "removeline"} \subseteq Names
  BY DEF Points, Names
<1>1. ASSUME NEW l \in LineIds, NEW q \in Quantities, EditLine(r, l, q) PROVE Types'
  <2>1. edit' \in [Requests -> Edits]
    BY <1>0, <1>1 DEF EditLine, Edits
  <2>2. PICK to \in {"readd", "saveline"} : Load(r, "update", transfer, to)
    BY <1>1 DEF EditLine
  <2>. QED BY <1>0, <2>1, <2>2, LoadTypes
<1>2. ASSUME NEW l \in LineIds, NEW q \in Quantities, AddLine(r, l, q) PROVE Types'
  <2>1. edit' \in [Requests -> Edits]
    BY <1>0, <1>2 DEF AddLine, Edits
  <2>. QED BY <1>0, <1>2, <2>1, LoadTypes DEF AddLine
<1>3. ASSUME NEW l \in LineIds, RemoveLine(r, l) PROVE Types'
  <2>1. edit' \in [Requests -> Edits]
    BY <1>0, <1>3 DEF RemoveLine, Edits
  <2>. QED BY <1>0, <1>3, <2>1, LoadTypes DEF RemoveLine
<1>4. CASE ReaddLine(r)
  BY <1>4 DEF ReaddLine, Types, SharedTypes, RequestTypes, Goto, Points,
              document, inventory, local
<1>5. CASE InsertLine(r)
  <2>1. lines' \in LineTables
    <3>1. PICK l \in LineIds : lines' = [lines EXCEPT ![l] = edit[r].qty]
      BY <1>5 DEF InsertLine, FreeIds
    <3>2. edit[r].qty \in Quantities \cup {0}
      BY <1>0 DEF Edits
    <3>. QED BY <1>0, <3>1, <3>2 DEF LineTables
  <2>2. CASE Forget(r) /\ Outdate(r)
    <3>1. RequestTypes' /\ stale' \in [Requests -> BOOLEAN]
      BY <2>2, ForgetTypes, OutdateTypes DEF Types
    <3>. QED BY <1>5, <2>1, <3>1 DEF InsertLine, Types, SharedTypes, inventory
  <2>3. CASE /\ Goto(r, IF op[r] = "create" THEN "log" ELSE "select")
             /\ Outdate(NoRequest)
             /\ UNCHANGED local
    <3>1. stale' \in [Requests -> BOOLEAN]
      BY <2>3, OutdateTypes
    <3>2. RequestTypes'
      BY <2>3 DEF Types, RequestTypes, Goto, Points, local
    <3>. QED BY <1>5, <2>1, <3>1, <3>2 DEF InsertLine, Types, SharedTypes, inventory
  <2>. QED BY <1>5, <2>2, <2>3 DEF InsertLine
<1>6. CASE SaveLine(r)
  <2>1. lines' \in LineTables
    BY <1>0, <1>6 DEF SaveLine, LineTables, Edits
  <2>2. stale' \in [Requests -> BOOLEAN]
    BY <1>6 DEF SaveLine, Types, SharedTypes
  <2>3. RequestTypes'
    BY <1>6 DEF SaveLine, Types, RequestTypes, Goto, Points, local
  <2>. QED BY <1>6, <2>1, <2>2, <2>3 DEF SaveLine, Types, SharedTypes, inventory
<1>7. CASE DeleteLine(r)
  <2>1. lines' \in LineTables
    BY <1>0, <1>7 DEF DeleteLine, LineTables
  <2>2. RequestTypes' /\ stale' \in [Requests -> BOOLEAN]
    BY <1>7, ForgetTypes DEF DeleteLine, Finish, Types, SharedTypes
  <2>. QED BY <1>7, <2>1, <2>2 DEF DeleteLine, Types, SharedTypes, inventory
<1>8. CASE Remove(r)
  <2>1. transfer' \in Rows
    BY <1>0, <1>8 DEF Remove, Rows
  <2>2. RequestTypes' /\ stale' \in [Requests -> BOOLEAN]
    BY <1>8, ForgetTypes DEF Remove, Finish, Types, SharedTypes
  <2>. QED BY <1>8, <2>1, <2>2, Defaults DEF Remove, Types, SharedTypes, inventory
<1>. QED BY <1>1, <1>2, <1>3, <1>4, <1>5, <1>6, <1>7, <1>8

(***************************************************************************)
(* The arithmetic of a movement.                                           *)
(***************************************************************************)
RowPairs == [loose: Nat, batch: Nat]

\* A covered OUT takes its quantity from the two rows together, and leaves neither
\* below nothing.
LEMMA TakeRow ==
  ASSUME NEW rows \in RowPairs, NEW l, NEW q \in Nat, CanTake(rows, l, q)
  PROVE  /\ Take(rows, l, q) \in RowPairs
         /\ OnHand(Take(rows, l, q)) = OnHand(rows) - q
BY DEF RowPairs, CanTake, Take, OnHand

\* An IN adds its quantity to one of them.
LEMMA PutRow ==
  ASSUME NEW rows \in RowPairs, NEW l, NEW q \in Nat
  PROVE  /\ Put(rows, l, q) \in RowPairs
         /\ OnHand(Put(rows, l, q)) = OnHand(rows) + q
BY DEF RowPairs, Put, OnHand

\* Stock and ledger of a warehouse agree.
Agrees(view, w) ==
  OnHand(view.stock[w]) = OpeningLoose[w] + OpeningBatch[w] + view.ledger[w]

\* One line moved between two warehouses keeps types and agreement.
LEMMA MovedView ==
  ASSUME NEW view \in Works, NEW from \in Warehouses, NEW to \in Warehouses,
         from # to, NEW l, NEW q \in Nat, CanTake(view.stock[from], l, q)
  PROVE  /\ Moved(view, from, to, l, q) \in Works
         /\ \A w \in Warehouses :
              Agrees(view, w) => Agrees(Moved(view, from, to, l, q), w)
<1> DEFINE after == Moved(view, from, to, l, q)
<1>1. /\ view.stock \in [Warehouses -> RowPairs]
      /\ view.ledger \in [Warehouses -> Int]
  BY DEF Works, StockTables, RowPairs
<1>2. /\ Take(view.stock[from], l, q) \in RowPairs
      /\ OnHand(Take(view.stock[from], l, q)) = OnHand(view.stock[from]) - q
      /\ Put(view.stock[to], l, q) \in RowPairs
      /\ OnHand(Put(view.stock[to], l, q)) = OnHand(view.stock[to]) + q
  BY <1>1, TakeRow, PutRow
<1>3. /\ after.stock = [w \in Warehouses |->
           IF w = to THEN Put(view.stock[to], l, q)
           ELSE IF w = from THEN Take(view.stock[from], l, q) ELSE view.stock[w]]
      /\ after.ledger = [w \in Warehouses |->
           IF w = to THEN view.ledger[to] + q
           ELSE IF w = from THEN view.ledger[from] - q ELSE view.ledger[w]]
  BY <1>1 DEF Moved
<1>4. after \in Works
  <2>1. after.stock \in [Warehouses -> RowPairs] /\ after.ledger \in [Warehouses -> Int]
    BY <1>1, <1>2, <1>3
  <2>. QED BY <2>1 DEF Moved, Works, StockTables, RowPairs
<1>5. ASSUME NEW w \in Warehouses, Agrees(view, w) PROVE Agrees(after, w)
  <2>1. OpeningLoose[w] \in Nat /\ OpeningBatch[w] \in Nat /\ view.ledger[w] \in Int
    BY <1>1, ConstantsAssumption
  <2>2. OnHand(view.stock[w]) \in Int
    BY <1>1 DEF OnHand, RowPairs
  <2>. QED BY <1>2, <1>3, <1>5, <2>1, <2>2 DEF Agrees
<1>. QED BY <1>4, <1>5

(***************************************************************************)
(* Steps of post() and requests that end early.                            *)
(***************************************************************************)
\* What a request inside post() knows under its lock.
Approved ==
  \A r \in Requests : Posting(r) =>
    /\ posts < MaxPosts
    /\ transfer.status = "APPROVED"
    /\ transfer.from # transfer.to
    /\ ent[r] = [transfer EXCEPT !.status = "POSTED"]

\* The steps of post().
LEMMA PostTypes ==
  ASSUME Types, Approved, NEW r \in Requests,
         PostLock(r) \/ PostCheck(r) \/ (\E l \in LineIds : PostLine(r, l)) \/ PostCommit(r)
  PROVE  Types'
<1>. {"check", "post"} \subseteq Points /\ {"post"} \subseteq Names
  BY DEF Points, Names
<1>1. CASE PostLock(r)
  <2>1. [transfer EXCEPT !.status = "POSTED"] \in Rows
    BY DEF Types, SharedTypes, Rows, Statuses
  <2>. QED BY <1>1, <2>1
           DEF PostLock, Types, SharedTypes, RequestTypes, Goto, document, inventory
<1>2. CASE PostCheck(r)
  <2>1. [stock |-> stock, ledger |-> ledger] \in Works
    BY DEF Types, SharedTypes, Works
  <2>. QED BY <1>2, <2>1
           DEF PostCheck, Types, SharedTypes, RequestTypes, Goto, document, inventory
<1>3. ASSUME NEW l \in LineIds, PostLine(r, l) PROVE Types'
  <2>1. /\ ent[r].from \in Warehouses /\ ent[r].to \in Warehouses
        /\ work[r] \in Works
        /\ todo[r][l] \in Nat
    <3>1. ent[r] \in Rows /\ work[r] \in Works /\ todo[r] \in LineTables
      BY DEF Types, RequestTypes
    <3>2. todo[r][l] \in Quantities \cup {0}
      BY <3>1 DEF LineTables
    <3>3. todo[r][l] \in Nat
      <4>1. \A q \in Quantities : q \in Nat
        BY ConstantsAssumption
      <4>. QED BY <3>2, <4>1
    <3>. QED BY <3>1, <3>3 DEF Rows
  <2>2. ent[r].from # ent[r].to
    BY <1>3 DEF PostLine, Approved, Posting, Types, SharedTypes, Rows
  <2>3. work' \in [Requests -> Works]
    BY <1>3, <2>1, <2>2, MovedView DEF PostLine, Types, RequestTypes
  <2>4. todo' \in [Requests -> LineTables]
    BY <1>3 DEF PostLine, Types, RequestTypes, LineTables
  <2>5. batchQty' \in Nat
    BY <1>3, <2>1 DEF PostLine, Types, SharedTypes
  <2>. QED BY <1>3, <2>3, <2>4, <2>5
           DEF PostLine, Types, SharedTypes, RequestTypes, document
<1>4. CASE PostCommit(r)
  <2>1. RequestTypes' /\ stale' \in [Requests -> BOOLEAN]
    BY <1>4, ForgetTypes, OutdateTypes DEF PostCommit, Types
  <2>2. stock' \in StockTables /\ ledger' \in [Warehouses -> Int] /\ transfer' \in Rows
    BY <1>4 DEF PostCommit, Types, RequestTypes, Works
  <2>3. trail' \in Trails
    BY <1>4 DEF PostCommit, Types, SharedTypes, Trails, Statuses
  <2>. QED BY <1>4, <2>1, <2>2, <2>3 DEF PostCommit, Types, SharedTypes
<1>. QED BY <1>1, <1>2, <1>3, <1>4

\* A request that dies.
LEMMA AbandonTypes ==
  ASSUME Types, NEW r \in Requests, Abandon(r) PROVE Types'
<1>1. RequestTypes' /\ stale' \in [Requests -> BOOLEAN]
  BY ForgetTypes DEF Abandon, Finish, Types, SharedTypes
<1>. QED BY <1>1 DEF Abandon, Types, SharedTypes, document, inventory

(***************************************************************************)
(* Entities: a transfer, and every copy of one, has a creator.             *)
(***************************************************************************)
\* A row that is updated or inserted again has a creator.
LEMMA SavedExists ==
  ASSUME Types, Entities, NEW r \in Requests, pc[r] \in {"write", "insert"},
         pc[r] = "insert" \/ transfer.status # "ABSENT"
  PROVE  Exists(Saved(r))
<1>1. /\ dirty[r] \in Plans /\ Exists(ent[r])
      /\ pc[r] = "insert" => dirty[r].status = "copy" /\ dirty[r].createdBy = "copy"
  BY DEF Types, RequestTypes, Entities, Columns
<1>2. Saved(r).status # "ABSENT"
  BY <1>1 DEF Saved, Copy, Plans, Columns, Nullable, Relations, Exists
<1>3. Saved(r).createdBy # NoUser
  BY <1>1 DEF Saved, Copy, Plans, Columns, Nullable, Relations, Entities, Exists
<1>. QED BY <1>2, <1>3 DEF Exists

\* findOne() copies a transfer that exists.
LEMMA LoadEntities ==
  ASSUME Types, Entities, NEW r \in Requests, NEW o, NEW e, NEW to \in Points \ {"insert"},
         Load(r, o, e, to), transfer.status # "ABSENT" => Exists(e)
  PROVE  Entities'
BY DEF Types, RequestTypes, Entities, Load, Goto, document, Exists

\* A request that ends has no copy any more.
LEMMA ForgetEntities ==
  ASSUME Types, Entities, NEW r \in Requests, Forget(r),
         transfer'.status # "ABSENT" => transfer'.createdBy # NoUser
  PROVE  Entities'
BY DEF Types, RequestTypes, Entities, Forget, Goto, Exists

\* The request goes on with the copy it has.
LEMMA GotoEntities ==
  ASSUME Types, Entities, NEW r \in Requests, NEW to \in Points \ {"insert"},
         pc[r] # "idle", Goto(r, to), UNCHANGED <<ent, dirty>>,
         transfer'.status # "ABSENT" => transfer'.createdBy # NoUser
  PROVE  Entities'
BY DEF Types, RequestTypes, Entities, Goto, Exists

\* The first step of every request.
LEMMA StartEntities ==
  ASSUME Types, Entities, NEW r \in Requests, Start(r) PROVE Entities'
<1>. {"select", "remove", "addline", "readd", "saveline", "unline"} \subseteq Points \ {"insert"}
  BY DEF Points
<1>0. transfer \in Rows /\ (transfer.status # "ABSENT" => Exists(transfer))
  BY DEF Types, SharedTypes, Entities, Exists
<1>1. ASSUME NEW u \in Users, NEW from \in Warehouses, NEW to \in Warehouses,
             NEW l \in LineIds, NEW q \in Quantities, Create(r, u, from, to, l, q)
      PROVE  Entities'
  <2>1. Exists(transfer')
    BY <1>1, Defaults, ConstantsAssumption DEF Create, Exists, Rows
  <2>. QED BY <1>1, <2>1 DEF Create, Entities, Types, RequestTypes, Goto, Exists
<1>2. ASSUME NEW u \in Users, Submit(r, u) PROVE Entities'
  <2> DEFINE e == [transfer EXCEPT !.status = "PENDING_APPROVAL", !.submittedBy = u]
  <2>1. transfer.status # "ABSENT" => Exists(e)
    BY <1>0 DEF Exists, Rows
  <2>. QED BY <1>2, <2>1, LoadEntities DEF Submit
<1>3. ASSUME NEW u \in Users, Approve(r, u) PROVE Entities'
  <2> DEFINE e == [transfer EXCEPT !.status = "APPROVED", !.approvedBy = u]
  <2>1. transfer.status # "ABSENT" => Exists(e)
    BY <1>0 DEF Exists, Rows
  <2>. QED BY <1>3, <2>1, LoadEntities DEF Approve
<1>4. \A s \in Statuses : transfer.status # "ABSENT" => Exists([transfer EXCEPT !.status = s])
  BY <1>0 DEF Exists, Rows, Statuses
<1>5. CASE Return(r) \/ Reject(r) \/ Cancel(r)
  BY <1>4, <1>5, LoadEntities DEF Return, Reject, Cancel, Statuses
<1>6. CASE Delete(r) \/ EditNotes(r)
  BY <1>0, <1>6, LoadEntities DEF Delete, EditNotes
<1>7. ASSUME NEW from \in Warehouses, NEW to \in Warehouses, EditRoute(r, from, to)
      PROVE  Entities'
  <2>1. transfer.status # "ABSENT" => Exists([transfer EXCEPT !.from = from, !.to = to])
    BY <1>0 DEF Exists, Rows
  <2>. QED BY <1>7, <2>1, LoadEntities DEF EditRoute
<1>8. ASSUME NEW l \in LineIds, NEW q \in Quantities,
             EditLine(r, l, q) \/ AddLine(r, l, q) \/ RemoveLine(r, l)
      PROVE  Entities'
  <2>1. PICK o \in {"update", "addline", "removeline"},
             to \in {"addline", "readd", "saveline", "unline"} : Load(r, o, transfer, to)
    BY <1>8 DEF EditLine, AddLine, RemoveLine
  <2>. QED BY <1>0, <2>1, LoadEntities
<1>9. CASE PostLock(r)
  <2>1. Exists([transfer EXCEPT !.status = "POSTED"])
    BY <1>0, <1>9 DEF PostLock, Exists, Rows
  <2>. QED BY <1>9, <2>1 DEF PostLock, Entities, Types, RequestTypes, Goto, document, Exists
<1>. QED BY <1>1, <1>2, <1>3, <1>5, <1>6, <1>7, <1>8, <1>9 DEF Start

\* The later steps, and failures.
LEMMA ContinueEntities ==
  ASSUME Types, Entities, NEW r \in Requests, Continue(r) \/ Fail(r) PROVE Entities'
<1>. {"select", "log", "addline", "post"} \subseteq Points \ {"insert"}
  BY DEF Points
<1>0. transfer.status # "ABSENT" => transfer.createdBy # NoUser
  BY DEF Entities
<1>1. CASE SaveSelect(r)
  BY <1>1 DEF SaveSelect, Entities, Types, RequestTypes, Goto, document, Exists
<1>2. CASE SaveWrite(r)
  <2>1. transfer'.status # "ABSENT" => transfer'.createdBy # NoUser
    BY <1>2, SavedExists DEF SaveWrite, Exists
  <2>. QED BY <1>2, <2>1, ForgetEntities, GotoEntities DEF SaveWrite, Finish
<1>3. CASE RecordHistory(r)
  BY <1>0, <1>3, ForgetEntities DEF RecordHistory
<1>4. CASE ReaddLine(r) \/ SaveLine(r)
  BY <1>0, <1>4, GotoEntities DEF ReaddLine, SaveLine, document, local
<1>5. CASE InsertLine(r)
  BY <1>0, <1>5, ForgetEntities, GotoEntities DEF InsertLine, local
<1>6. CASE DeleteLine(r)
  BY <1>0, <1>6, ForgetEntities DEF DeleteLine, Finish
<1>7. CASE Remove(r)
  <2>1. transfer'.status = "ABSENT"
    BY <1>7 DEF Remove, Types, SharedTypes, Rows
  <2>. QED BY <1>7, <2>1, ForgetEntities DEF Remove, Finish
<1>8. CASE PostCheck(r)
  BY <1>0, <1>8, GotoEntities DEF PostCheck, document
<1>9. CASE PostCommit(r)
  <2>1. transfer'.createdBy # NoUser
    BY <1>9 DEF PostCommit, Entities, Exists
  <2>. QED BY <1>9, <2>1, ForgetEntities DEF PostCommit
<1>10. CASE \E l \in LineIds : PostLine(r, l)
  BY <1>10 DEF PostLine, Entities, document
<1>11. CASE Refuse(r) \/ Fail(r)
  BY <1>0, <1>11, ForgetEntities DEF Refuse, Fail, Abandon, Finish, document
<1>. QED BY <1>1, <1>2, <1>3, <1>4, <1>5, <1>6, <1>7, <1>8, <1>9, <1>10, <1>11 DEF Continue

(***************************************************************************)
(* The lock, and what happens under it.                                    *)
(***************************************************************************)
\* The transaction's view of stock and ledger agrees with itself.
Balanced ==
  \A r \in Requests : pc[r] = "post" => \A w \in Warehouses : Agrees(work[r], w)

\* A copy that says POSTED was taken of a transfer that had been posted.
PostedCopies ==
  /\ PostedMeansPosted
  /\ \A r \in Requests :
       pc[r] # "idle" /\ ~Posting(r) /\ ent[r].status = "POSTED" => posts > 0

WithinBound == posts <= MaxPosts

Locked ==
  LockHolderPosts /\ Approved /\ Balanced /\ StockMatchesLedger /\ WithinBound

\* A step of request r outside post(): it leaves the inventory, the lock and
\* the other requests alone, and changes the row only while nobody holds it.
Quiet(r) ==
  /\ ~Posting(r) /\ pc'[r] \notin {"check", "post"}
  /\ UNCHANGED <<stock, ledger, posts, lock>>
  /\ \A s \in Requests \ {r} :
       pc'[s] = pc[s] /\ ent'[s] = ent[s] /\ work'[s] = work[s]
  /\ \/ UNCHANGED transfer
     \/ lock = NoRequest
     \/ transfer.status = "ABSENT"

\* Such a step keeps the lock, what its holder found and the stock it works on.
LEMMA QuietLocked ==
  ASSUME Types, Locked, NEW r \in Requests, Quiet(r) PROVE Locked'
<1>1. LockHolderPosts'
  BY DEF Locked, LockHolderPosts, Quiet, Posting
<1>2. Approved'
  <2>1. SUFFICES ASSUME NEW s \in Requests, Posting(s)'
                 PROVE  Posting(s) /\ UNCHANGED <<posts, transfer, ent[s]>>
    BY DEF Locked, Approved
  <2>2. s # r /\ Posting(s)
    BY <2>1 DEF Quiet, Posting
  <2>3. lock = s /\ transfer.status = "APPROVED"
    BY <2>2 DEF Locked, LockHolderPosts, Approved, Posting
  <2>. QED BY <2>2, <2>3, ConstantsAssumption DEF Quiet
<1>3. Balanced'
  BY DEF Locked, Balanced, Quiet, Agrees
<1>4. StockMatchesLedger' /\ WithinBound'
  BY DEF Locked, StockMatchesLedger, WithinBound, Quiet
<1>. QED BY <1>1, <1>2, <1>3, <1>4 DEF Locked

\* findOne() and the checks after it are such a step.
LEMMA LoadQuiet ==
  ASSUME Types, NEW r \in Requests, NEW o, NEW e, NEW to \in Points \ {"check", "post"},
         Load(r, o, e, to)
  PROVE  Quiet(r)
BY DEF Types, RequestTypes, Load, Quiet, Posting, Goto, document, inventory

\* So is the first step of every request but post().
LEMMA StartQuiet ==
  ASSUME Types, Entities, NEW r \in Requests, Start(r) PROVE Quiet(r) \/ PostLock(r)
<1>. {"select", "remove", "addline", "readd", "saveline", "unline"}
       \subseteq Points \ {"check", "post"}
  BY DEF Points
<1>1. ASSUME NEW u \in Users, NEW from \in Warehouses, NEW to \in Warehouses,
             NEW l \in LineIds, NEW q \in Quantities, Create(r, u, from, to, l, q)
      PROVE  Quiet(r)
  BY <1>1 DEF Create, Quiet, Posting, Goto, Entities, Types, RequestTypes, inventory
<1>2. CASE \E u \in Users : Submit(r, u) \/ Approve(r, u)
  BY <1>2, LoadQuiet DEF Submit, Approve
<1>3. CASE Return(r) \/ Reject(r) \/ Cancel(r) \/ Delete(r) \/ EditNotes(r)
  BY <1>3, LoadQuiet DEF Return, Reject, Cancel, Delete, EditNotes
<1>4. CASE \E from, to \in Warehouses : EditRoute(r, from, to)
  BY <1>4, LoadQuiet DEF EditRoute
<1>5. CASE \E l \in LineIds, q \in Quantities :
             EditLine(r, l, q) \/ AddLine(r, l, q) \/ RemoveLine(r, l)
  BY <1>5, LoadQuiet DEF EditLine, AddLine, RemoveLine
<1>. QED BY <1>1, <1>2, <1>3, <1>4, <1>5 DEF Start

\* So is the end of a request outside post() ...
LEMMA ForgetQuiet ==
  ASSUME Types, NEW r \in Requests, Forget(r), ~Posting(r),
         UNCHANGED <<stock, ledger, posts, lock>>,
         UNCHANGED transfer \/ lock = NoRequest
  PROVE  Quiet(r)
BY DEF Types, RequestTypes, Forget, Goto, Quiet, Posting

\* ... and its going on.
LEMMA GotoQuiet ==
  ASSUME Types, NEW r \in Requests, NEW to \in Points \ {"check", "post"},
         Goto(r, to), ~Posting(r), UNCHANGED <<stock, ledger, posts, lock, ent, work>>,
         UNCHANGED transfer \/ lock = NoRequest
  PROVE  Quiet(r)
BY DEF Types, RequestTypes, Goto, Quiet, Posting

\* The steps of a request outside post().
LEMMA ContinueQuiet ==
  ASSUME Types, NEW r \in Requests,
         \/ SaveSelect(r) \/ SaveWrite(r) \/ RecordHistory(r) \/ ReaddLine(r)
         \/ InsertLine(r) \/ SaveLine(r) \/ DeleteLine(r) \/ Remove(r)
  PROVE  Quiet(r)
<1>. {"select", "log", "addline", "write", "insert"} \subseteq Points \ {"check", "post"}
  BY DEF Points
<1>1. CASE SaveSelect(r)
  BY <1>1, GotoQuiet DEF SaveSelect, Posting, document, inventory
<1>2. CASE SaveWrite(r)
  BY <1>2, ForgetQuiet, GotoQuiet DEF SaveWrite, Finish, Posting, inventory
<1>3. CASE RecordHistory(r)
  BY <1>3, ForgetQuiet DEF RecordHistory, Posting, inventory
<1>4. CASE ReaddLine(r) \/ SaveLine(r)
  BY <1>4, GotoQuiet DEF ReaddLine, SaveLine, Posting, document, inventory, local
<1>5. CASE InsertLine(r)
  BY <1>5, ForgetQuiet, GotoQuiet DEF InsertLine, Posting, inventory, local
<1>6. CASE DeleteLine(r)
  BY <1>6, ForgetQuiet DEF DeleteLine, Finish, Posting, inventory
<1>7. CASE Remove(r)
  BY <1>7, ForgetQuiet DEF Remove, Finish, Posting, inventory
<1>. QED BY <1>1, <1>2, <1>3, <1>4, <1>5, <1>6, <1>7

\* Inside post(): the lock is taken when it is free, and what the transaction moves
\* keeps its stock and ledger in agreement.
LEMMA PostLocked ==
  ASSUME Types, Locked, NEW r \in Requests,
         PostLock(r) \/ PostCheck(r) \/ (\E l \in LineIds : PostLine(r, l)) \/ PostCommit(r)
  PROVE  Locked'
<1>1. CASE PostLock(r)
  <2>1. \A s \in Requests : ~Posting(s)
    BY <1>1, ConstantsAssumption DEF PostLock, Locked, LockHolderPosts, Posting
  <2>2. LockHolderPosts'
    BY <1>1, <2>1, ConstantsAssumption
    DEF PostLock, Goto, LockHolderPosts, Posting, Types, RequestTypes
  <2>3. Approved'
    BY <1>1, <2>1
    DEF PostLock, Goto, Approved, Posting, Types, RequestTypes, document, inventory
  <2>4. Balanced'
    BY <1>1 DEF PostLock, Goto, Locked, Balanced, Agrees, Types, RequestTypes
  <2>5. StockMatchesLedger' /\ WithinBound'
    BY <1>1 DEF PostLock, Locked, StockMatchesLedger, WithinBound, inventory
  <2>. QED BY <2>2, <2>3, <2>4, <2>5 DEF Locked
<1>2. CASE PostCheck(r)
  <2>1. LockHolderPosts' /\ Approved'
    BY <1>2 DEF PostCheck, Goto, Locked, LockHolderPosts, Approved, Posting,
                Types, RequestTypes, document, inventory
  <2>2. Balanced'
    <3>1. work'[r] = [stock |-> stock, ledger |-> ledger] 
      BY <1>2 DEF PostCheck, Types, RequestTypes
    <3>2. \A w \in Warehouses : Agrees(work'[r], w)
      BY <3>1 DEF Locked, StockMatchesLedger, Agrees
    <3>3. \A s \in Requests \ {r} : pc'[s] = pc[s] /\ work'[s] = work[s]
      BY <1>2 DEF PostCheck, Goto, Types, RequestTypes
    <3>. QED BY <3>2, <3>3 DEF Locked, Balanced, Agrees
  <2>3. StockMatchesLedger' /\ WithinBound'
    BY <1>2 DEF PostCheck, Locked, StockMatchesLedger, WithinBound, inventory
  <2>. QED BY <2>1, <2>2, <2>3 DEF Locked
<1>3. ASSUME NEW l \in LineIds, PostLine(r, l) PROVE Locked'
  <2>1. LockHolderPosts' /\ Approved' /\ StockMatchesLedger' /\ WithinBound'
    BY <1>3 DEF PostLine, Locked, LockHolderPosts, Approved, StockMatchesLedger,
                WithinBound, Posting, document
  <2>2. Balanced'
    <3>1. /\ ent[r] \in Rows /\ work[r] \in Works /\ todo[r] \in LineTables
          /\ pc[r] = "post"
      BY <1>3 DEF PostLine, Types, RequestTypes
    <3>2. todo[r][l] \in Nat
      <4>1. todo[r][l] \in Quantities \cup {0}
        BY <3>1 DEF LineTables
      <4>2. \A q \in Quantities : q \in Nat
        BY ConstantsAssumption
      <4>. QED BY <4>1, <4>2
    <3>3. ent[r].from \in Warehouses /\ ent[r].to \in Warehouses
      BY <3>1 DEF Rows
    <3>4. ent[r].from # ent[r].to
      BY <3>1 DEF Locked, Approved, Posting, Types, SharedTypes, Rows
    <3>5. \A w \in Warehouses : Agrees(work[r], w) => Agrees(work'[r], w)
      BY <1>3, <3>1, <3>2, <3>3, <3>4, MovedView DEF PostLine, Types, RequestTypes
    <3>6. \A s \in Requests \ {r} : work'[s] = work[s]
      BY <1>3 DEF PostLine, Types, RequestTypes
    <3>. QED BY ZenonT(60), <1>3, <3>1, <3>5, <3>6 DEF PostLine, Locked, Balanced, Agrees
  <2>. QED BY <2>1, <2>2 DEF Locked
<1>4. CASE PostCommit(r)
  <2>1. pc[r] = "post" /\ lock = r
    BY <1>4 DEF PostCommit, Locked, LockHolderPosts
  <2>2. \A s \in Requests : pc'[s] \notin {"check", "post"}
    BY <1>4, <2>1
    DEF PostCommit, Forget, Goto, Locked, LockHolderPosts, Types, RequestTypes
  <2>3. LockHolderPosts' /\ Approved' /\ Balanced'
    BY <1>4, <2>2, ConstantsAssumption
    DEF PostCommit, LockHolderPosts, Approved, Balanced, Posting
  <2>4. StockMatchesLedger'
    BY <1>4, <2>1 DEF PostCommit, Locked, Balanced, Agrees, StockMatchesLedger
  <2>5. WithinBound'
    BY <1>4, <2>1, ConstantsAssumption
    DEF PostCommit, Locked, Approved, Posting, WithinBound, Types, SharedTypes
  <2>. QED BY <2>3, <2>4, <2>5 DEF Locked
<1>. QED BY <1>1, <1>2, <1>3, <1>4

\* A request that dies outside post() disturbs nothing; inside, its
\* transaction is rolled back and the lock released.
LEMMA AbandonLocked ==
  ASSUME Types, Locked, NEW r \in Requests, Abandon(r) PROVE Locked'
<1>1. CASE ~Posting(r)
  <2>1. lock # r
    BY <1>1 DEF Locked, LockHolderPosts, Posting
  <2>2. Quiet(r)
    BY <1>1, <2>1, ForgetQuiet DEF Abandon, Finish, document, inventory
  <2>. QED BY <2>2, QuietLocked
<1>2. CASE Posting(r)
  <2>1. lock = r /\ lock' = NoRequest
    BY <1>2 DEF Abandon, Locked, LockHolderPosts, Posting
  <2>2. \A s \in Requests : pc'[s] \notin {"check", "post"}
    BY <2>1 DEF Abandon, Finish, Forget, Goto, Locked, LockHolderPosts, Types, RequestTypes
  <2>3. LockHolderPosts' /\ Approved' /\ Balanced'
    BY <2>1, <2>2, ConstantsAssumption DEF LockHolderPosts, Approved, Balanced, Posting
  <2>4. StockMatchesLedger' /\ WithinBound'
    BY DEF Abandon, Locked, StockMatchesLedger, WithinBound, inventory
  <2>. QED BY <2>3, <2>4 DEF Locked
<1>. QED BY <1>1, <1>2

(***************************************************************************)
(* POSTED means posted.                                                    *)
(***************************************************************************)
\* A copy says POSTED only if the row did.
LEMMA LoadPosted ==
  ASSUME Types, PostedCopies, NEW r \in Requests, NEW o, NEW e, NEW to,
         Load(r, o, e, to), e.status = "POSTED" => transfer.status = "POSTED"
  PROVE  PostedCopies'
BY DEF Types, RequestTypes, PostedCopies, PostedMeansPosted, Posting, Load, Goto,
       document, inventory

\* No handler but post() assigns POSTED.
LEMMA StartPosted ==
  ASSUME Types, PostedCopies, NEW r \in Requests, Start(r) PROVE PostedCopies'
<1>0. transfer \in Rows
  BY DEF Types, SharedTypes
<1>1. ASSUME NEW u \in Users, NEW from \in Warehouses, NEW to \in Warehouses,
             NEW l \in LineIds, NEW q \in Quantities, Create(r, u, from, to, l, q)
      PROVE  PostedCopies'
  <2>1. transfer'.status = "DRAFT"
    BY <1>1, Defaults DEF Create, Rows
  <2>. QED BY <1>1, <2>1
           DEF Create, Goto, PostedCopies, PostedMeansPosted, Posting, Types,
               RequestTypes, inventory
<1>2. ASSUME NEW u \in Users, Submit(r, u) PROVE PostedCopies'
  <2> DEFINE e == [transfer EXCEPT !.status = "PENDING_APPROVAL", !.submittedBy = u]
  <2>1. e.status # "POSTED"
    BY <1>0 DEF Rows
  <2>. QED BY <1>2, <2>1, LoadPosted DEF Submit
<1>3. ASSUME NEW u \in Users, Approve(r, u) PROVE PostedCopies'
  <2> DEFINE e == [transfer EXCEPT !.status = "APPROVED", !.approvedBy = u]
  <2>1. e.status # "POSTED"
    BY <1>0 DEF Rows
  <2>. QED BY <1>3, <2>1, LoadPosted DEF Approve
<1>4. \A s \in Statuses : [transfer EXCEPT !.status = s].status = s
  BY <1>0 DEF Rows
<1>5. CASE Return(r) \/ Reject(r) \/ Cancel(r)
  BY <1>4, <1>5, LoadPosted DEF Return, Reject, Cancel, Statuses
<1>6. CASE Delete(r) \/ EditNotes(r)
  BY <1>6, LoadPosted DEF Delete, EditNotes
<1>7. ASSUME NEW from \in Warehouses, NEW to \in Warehouses, EditRoute(r, from, to)
      PROVE  PostedCopies'
  <2>1. [transfer EXCEPT !.from = from, !.to = to].status = transfer.status
    BY <1>0 DEF Rows
  <2>. QED BY <1>7, <2>1, LoadPosted DEF EditRoute
<1>8. CASE \E l \in LineIds, q \in Quantities :
             EditLine(r, l, q) \/ AddLine(r, l, q) \/ RemoveLine(r, l)
  BY <1>8, LoadPosted DEF EditLine, AddLine, RemoveLine
<1>9. CASE PostLock(r)
  BY <1>9 DEF PostLock, Goto, PostedCopies, PostedMeansPosted, Posting, Types,
              RequestTypes, document, inventory
<1>. QED BY <1>1, <1>2, <1>3, <1>5, <1>6, <1>7, <1>8, <1>9 DEF Start

\* Copies are kept or forgotten, and what is written came from a copy.
LEMMA KeepPosted ==
  ASSUME Types, PostedCopies, posts' = posts, transfer'.status = "POSTED" => posts > 0,
         \A s \in Requests :
           \/ pc'[s] = "idle"
           \/ /\ ent'[s] = ent[s]
              /\ pc[s] # "idle" \/ pc'[s] = pc[s]
              /\ Posting(s) => pc'[s] \in {"check", "post"}
  PROVE  PostedCopies'
BY DEF PostedCopies, PostedMeansPosted, Posting

\* A request that ends has no copy that could say POSTED.
LEMMA ForgetPosted ==
  ASSUME Types, PostedCopies, NEW r \in Requests, Forget(r), posts' = posts,
         transfer'.status = "POSTED" => posts > 0
  PROVE  PostedCopies'
<1>1. pc'[r] = "idle" /\ \A s \in Requests \ {r} : ent'[s] = ent[s] /\ pc'[s] = pc[s]
  BY DEF Types, RequestTypes, Forget, Goto
<1>. QED BY <1>1, KeepPosted DEF Posting

\* One that goes on has the copy it had.
LEMMA GotoPosted ==
  ASSUME Types, PostedCopies, NEW r \in Requests, NEW to, pc[r] # "idle", Goto(r, to),
         ent' = ent, Posting(r) => to \in {"check", "post"}, posts' = posts,
         transfer'.status = "POSTED" => posts > 0
  PROVE  PostedCopies'
<1>1. pc'[r] = to /\ \A s \in Requests \ {r} : pc'[s] = pc[s]
  BY DEF Types, RequestTypes, Goto
<1>. QED BY <1>1, KeepPosted DEF Posting

\* The later steps, save() of a stale copy included.
LEMMA ContinuePosted ==
  ASSUME Types, PostedCopies, NEW r \in Requests, Continue(r) \/ Fail(r)
  PROVE  PostedCopies'
<1>0. transfer.status = "POSTED" => posts > 0
  BY DEF PostedCopies, PostedMeansPosted
<1>1. CASE SaveSelect(r)
  BY <1>0, <1>1, GotoPosted DEF SaveSelect, Posting, document, inventory
<1>2. CASE SaveWrite(r)
  <2>1. Saved(r).status = "POSTED" => posts > 0
    <3>1. Saved(r).status \in {ent[r].status, transfer.status}
      BY DEF Saved, Copy, Columns, Nullable, Relations, Plans, Types, RequestTypes
    <3>2. ent[r].status = "POSTED" => posts > 0
      BY <1>2 DEF SaveWrite, PostedCopies, Posting
    <3>. QED BY <1>0, <3>1, <3>2
  <2>2. transfer'.status = "POSTED" => posts > 0
    BY <1>0, <1>2, <2>1 DEF SaveWrite
  <2>. QED BY <1>2, <2>2, ForgetPosted, GotoPosted DEF SaveWrite, Finish, Posting, inventory
<1>3. CASE RecordHistory(r)
  BY <1>0, <1>3, ForgetPosted DEF RecordHistory, inventory
<1>4. CASE ReaddLine(r) \/ SaveLine(r)
  BY <1>0, <1>4, GotoPosted DEF ReaddLine, SaveLine, Posting, document, inventory, local
<1>5. CASE InsertLine(r)
  BY <1>0, <1>5, ForgetPosted, GotoPosted DEF InsertLine, Posting, inventory, local
<1>6. CASE DeleteLine(r)
  BY <1>0, <1>6, ForgetPosted DEF DeleteLine, Finish, inventory
<1>7. CASE Remove(r)
  <2>1. transfer'.status = "ABSENT"
    BY <1>7 DEF Remove, Types, SharedTypes, Rows
  <2>. QED BY <1>7, <2>1, ForgetPosted DEF Remove, Finish, inventory
<1>8. CASE PostCheck(r)
  BY <1>0, <1>8, GotoPosted DEF PostCheck, Posting, document, inventory
<1>9. CASE PostCommit(r)
  <2>1. posts' > 0
    BY <1>9 DEF PostCommit, Types, SharedTypes
  <2>. QED BY <2>1 DEF PostedCopies, PostedMeansPosted
<1>10. CASE \E l \in LineIds : PostLine(r, l)
  BY <1>10 DEF PostLine, PostedCopies, PostedMeansPosted, Posting, document
<1>11. CASE Refuse(r) \/ Fail(r)
  BY <1>0, <1>11, ForgetPosted DEF Refuse, Fail, Abandon, Finish, document, inventory
<1>. QED BY <1>1, <1>2, <1>3, <1>4, <1>5, <1>6, <1>7, <1>8, <1>9, <1>10, <1>11 DEF Continue

(***************************************************************************)
(* The inductive invariant and what follows from it.                       *)
(***************************************************************************)
Inv == Types /\ Entities /\ Locked /\ PostedCopies

\* Every execution starts in a state that satisfies the invariant.
THEOREM InvInit == Init => Inv
<1>. SUFFICES ASSUME Init PROVE Inv
  OBVIOUS
<1>1. Types
  BY TypesInit
<1>2. Entities /\ PostedCopies
  BY Defaults DEF Init, Entities, PostedCopies, PostedMeansPosted, NoEntity
<1>3. LockHolderPosts /\ Approved /\ Balanced
  BY ConstantsAssumption DEF Init, LockHolderPosts, Approved, Balanced, Posting
<1>4. StockMatchesLedger /\ WithinBound
  BY ConstantsAssumption DEF Init, StockMatchesLedger, WithinBound, OnHand
<1>. QED BY <1>1, <1>2, <1>3, <1>4 DEF Inv, Locked

\* A step that changes nothing preserves it.
LEMMA InvStutter == Inv /\ UNCHANGED vars => Inv'
<1>. SUFFICES ASSUME Inv, UNCHANGED vars PROVE Inv'
  OBVIOUS
<1>1. Types' /\ Entities'
  BY DEF Inv, Types, SharedTypes, RequestTypes, Entities, vars
<1>2. Locked'
  BY DEF Inv, Locked, LockHolderPosts, Approved, Balanced, StockMatchesLedger, Agrees,
         WithinBound, Posting, vars
<1>3. PostedCopies'
  BY DEF Inv, PostedCopies, PostedMeansPosted, Posting, vars
<1>. QED BY <1>1, <1>2, <1>3 DEF Inv

\* Every step of every request preserves it.
THEOREM InvNext == Inv /\ [Next]_vars => Inv'
<1>. SUFFICES ASSUME Inv, Next PROVE Inv'
  BY InvStutter
<1>. PICK r \in Requests : Start(r) \/ Continue(r) \/ Fail(r)
  BY DEF Next
<1>. /\ Types /\ Entities /\ Locked /\ PostedCopies
     /\ Approved
  BY DEF Inv, Locked
<1>1. CASE Start(r)
  <2>1. Types'
    <3>1. CASE \E u \in Users, from, to \in Warehouses, l \in LineIds, q \in Quantities :
                 Create(r, u, from, to, l, q)
      BY <3>1, CreateTypes
    <3>2. CASE \E l \in LineIds, q \in Quantities :
                 EditLine(r, l, q) \/ AddLine(r, l, q) \/ RemoveLine(r, l)
      BY <3>2, LineTypes
    <3>. QED BY <1>1, <3>1, <3>2, HeaderTypes, PostTypes DEF Start
  <2>2. Locked'
    BY <1>1, StartQuiet, QuietLocked, PostLocked
  <2>. QED BY <1>1, <2>1, <2>2, StartEntities, StartPosted DEF Inv
<1>2. CASE Continue(r)
  <2>1. Types'
    BY <1>2, SaveTypes, LineTypes, PostTypes, AbandonTypes DEF Continue, Refuse
  <2>2. Locked'
    BY <1>2, ContinueQuiet, QuietLocked, PostLocked, AbandonLocked DEF Continue, Refuse
  <2>. QED BY <1>2, <2>1, <2>2, ContinueEntities, ContinuePosted DEF Inv
<1>3. CASE Fail(r)
  BY <1>3, AbandonTypes, AbandonLocked, ContinueEntities, ContinuePosted DEF Inv, Fail
<1>. QED BY <1>1, <1>2, <1>3

\* All of it in every behaviour.
THEOREM Invariant == Spec => []Inv
BY InvInit, InvNext, PTL DEF Spec

\* The state of the database and of every request keeps its type, and no more
\* posts commit than the bound lets begin.
THEOREM Typed == Spec => []TypeOK
<1>1. Inv => TypeOK
  <2>. SUFFICES ASSUME Inv PROVE TypeOK
    OBVIOUS
  <2>1. posts \in 0..MaxPosts
    BY ConstantsAssumption DEF Inv, Types, SharedTypes, Locked, WithinBound
  <2>. QED BY <2>1 DEF Inv, Types, SharedTypes, RequestTypes, TypeOK, Trails, Edits,
                       LineTables, StockTables, Works
<1>. QED BY <1>1, Invariant, PTL

\* Posts exclude each other: the row lock is held by the request inside post()
\* and by no other.
THEOREM Mutex == Spec => []LockHolderPosts
<1>1. Inv => LockHolderPosts
  BY DEF Inv, Locked
<1>. QED BY <1>1, Invariant, PTL

\* The on-hand stock of every warehouse is its opening stock plus the ledger's
\* net movement, for any number of requests, lines and warehouses.
THEOREM Conserved == Spec => []StockMatchesLedger
<1>1. Inv => StockMatchesLedger
  BY DEF Inv, Locked
<1>. QED BY <1>1, Invariant, PTL

\* A transfer that says POSTED has moved its stock, whatever stale copy wrote it.
THEOREM PostedHasPosted == Spec => []PostedMeansPosted
<1>1. Inv => PostedMeansPosted
  BY DEF Inv, PostedCopies
<1>. QED BY <1>1, Invariant, PTL

\* Stock and ledger move only in a commit that found the transfer APPROVED and
\* leaves it POSTED.
THEOREM PostsOnlyApproved == Spec => MovesOnlyWhenApproved
<1> DEFINE Moves == <<stock, ledger>>' # <<stock, ledger>> =>
                      /\ transfer.status = "APPROVED"
                      /\ transfer'.status = "POSTED"
                      /\ posts' = posts + 1
<1>1. Inv /\ [Next]_vars => [Moves]_vars
  <2>. SUFFICES ASSUME Inv, NEW r \in Requests, Start(r) \/ Continue(r) \/ Fail(r)
                PROVE  Moves
    BY DEF Next
  <2>. Types /\ Entities /\ Locked
    BY DEF Inv
  <2>1. ASSUME Quiet(r) PROVE Moves
    BY <2>1 DEF Quiet
  <2>2. CASE PostLock(r) \/ PostCheck(r) \/ (\E l \in LineIds : PostLine(r, l))
    BY <2>2 DEF PostLock, PostCheck, PostLine, inventory
  <2>3. CASE Abandon(r)
    BY <2>3 DEF Abandon, inventory
  <2>4. CASE PostCommit(r)
    BY <2>4 DEF PostCommit, Locked, Approved, Posting, Types, SharedTypes, Rows
  <2>. QED BY <2>1, <2>2, <2>3, <2>4, StartQuiet, ContinueQuiet
           DEF Continue, Refuse, Fail
<1>. QED BY <1>1, Invariant, PTL DEF Spec, MovesOnlyWhenApproved

(***************************************************************************)
(* Who approved.  approve() compares the user with the creator in its own  *)
(* copy, long before save() writes a row put together from what is stored, *)
(* what the handler assigned and what it joined.  Authors says of each of  *)
(* the three that it has the creator of the stored row and names somebody  *)
(* else as approver.                                                       *)
(***************************************************************************)
\* A copy of a transfer of this creator that somebody else approved, if anybody.
ApprovedByOther(row, creator) ==
  /\ row.createdBy = creator
  /\ row.approvedBy = NoUser \/ row.approvedBy # creator

\* What a request under way carries.
Carries(entity, relations, creator) ==
  /\ creator # NoUser
  /\ ApprovedByOther(entity, creator)
  /\ relations = NoEntity \/ ApprovedByOther(relations, creator)

Authors ==
  /\ transfer.approvedBy = NoUser \/ transfer.approvedBy # transfer.createdBy
  /\ \A r \in Requests :
       \/ pc[r] = "idle" /\ joined[r] = NoEntity
       \/ Carries(ent[r], joined[r], transfer.createdBy)

(***************************************************************************)
(* Steps that leave the creator of the row.                                *)
(***************************************************************************)
LEMMA KeepAuthors ==
  ASSUME Authors, NEW r \in Requests, ApprovedByOther(transfer', transfer.createdBy),
         \A s \in Requests \ {r} :
           pc'[s] = pc[s] /\ ent'[s] = ent[s] /\ joined'[s] = joined[s],
         \/ pc'[r] = "idle" /\ joined'[r] = NoEntity
         \/ Carries(ent'[r], joined'[r], transfer.createdBy)
  PROVE  Authors'
BY DEF Authors, ApprovedByOther

\* findOne() copies the row; what the handler assigns names no creator as approver.
LEMMA LoadAuthors ==
  ASSUME Types, Entities, Authors, NEW r \in Requests, NEW o, NEW e, NEW to,
         Load(r, o, e, to), ApprovedByOther(e, transfer.createdBy)
  PROVE  Authors'
<1>1. ApprovedByOther(transfer, transfer.createdBy) /\ transfer.createdBy # NoUser
  BY DEF Authors, ApprovedByOther, Load, Entities
<1>2. ent'[r] = e /\ joined'[r] = transfer /\ transfer' = transfer
  BY DEF Load, Types, RequestTypes, document
<1>3. \A s \in Requests \ {r} :
        pc'[s] = pc[s] /\ ent'[s] = ent[s] /\ joined'[s] = joined[s]
  BY DEF Load, Goto, Types, RequestTypes
<1>. QED BY <1>1, <1>2, <1>3, KeepAuthors DEF Carries

\* A request that ends.
LEMMA ForgetAuthors ==
  ASSUME Types, Authors, NEW r \in Requests, Forget(r),
         ApprovedByOther(transfer', transfer.createdBy)
  PROVE  Authors'
<1>1. pc'[r] = "idle" /\ joined'[r] = NoEntity
  BY DEF Forget, Goto, Types, RequestTypes
<1>2. \A s \in Requests \ {r} :
        pc'[s] = pc[s] /\ ent'[s] = ent[s] /\ joined'[s] = joined[s]
  BY DEF Forget, Goto, Types, RequestTypes
<1>. QED BY <1>1, <1>2, KeepAuthors

\* A request that goes on with what it has.
LEMMA GotoAuthors ==
  ASSUME Types, Authors, NEW r \in Requests, NEW to, pc[r] # "idle", Goto(r, to),
         UNCHANGED <<ent, joined>>, ApprovedByOther(transfer', transfer.createdBy)
  PROVE  Authors'
<1>1. Carries(ent[r], joined[r], transfer.createdBy)
  BY DEF Authors
<1>2. \A s \in Requests \ {r} :
        pc'[s] = pc[s] /\ ent'[s] = ent[s] /\ joined'[s] = joined[s]
  BY DEF Goto, Types, RequestTypes
<1>. QED BY <1>1, <1>2, KeepAuthors

\* The row save() leaves: each column is the stored one, the joined one, the
\* assigned one or null.
LEMMA SavedAuthors ==
  ASSUME Types, Authors, NEW r \in Requests, pc[r] # "idle"
  PROVE  ApprovedByOther(Saved(r), transfer.createdBy)
<1>1. /\ Carries(ent[r], joined[r], transfer.createdBy)
      /\ transfer.approvedBy = NoUser \/ transfer.approvedBy # transfer.createdBy
      /\ dirty[r] \in Plans
  BY DEF Authors, Types, RequestTypes
<1>2. Saved(r).createdBy = transfer.createdBy
  <2>1. Copy(r, "createdBy") = transfer.createdBy
    BY <1>1 DEF Copy, Carries, ApprovedByOther, Relations, Columns, NoEntity
  <2>2. dirty[r].createdBy # "null"
    BY <1>1 DEF Plans, Columns, Nullable
  <2>. QED BY <2>1, <2>2 DEF Saved, Columns
<1>3. Saved(r).approvedBy = NoUser \/ Saved(r).approvedBy # transfer.createdBy
  <2>1. Copy(r, "approvedBy") = NoUser \/ Copy(r, "approvedBy") # transfer.createdBy
    BY <1>1 DEF Copy, Carries, ApprovedByOther, NoEntity
  <2>. QED BY <1>1, <2>1 DEF Saved, Columns
<1>. QED BY <1>2, <1>3 DEF ApprovedByOther

(***************************************************************************)
(* The steps of a request.                                                 *)
(***************************************************************************)
LEMMA StartAuthors ==
  ASSUME Types, Entities, Authors, NEW r \in Requests, Start(r) PROVE Authors'
<1>0. transfer \in Rows /\ ApprovedByOther(transfer, transfer.createdBy)
  BY DEF Types, SharedTypes, Authors, ApprovedByOther
<1>1. ASSUME NEW u \in Users, NEW from \in Warehouses, NEW to \in Warehouses,
             NEW l \in LineIds, NEW q \in Quantities, Create(r, u, from, to, l, q)
      PROVE  Authors'
  <2>1. \A s \in Requests : pc[s] = "idle" /\ joined[s] = NoEntity
    BY <1>1 DEF Create, Authors, Carries
  <2>2. transfer'.createdBy = u /\ transfer'.approvedBy = NoUser /\ u # NoUser
    BY <1>1, Defaults, ConstantsAssumption DEF Create, NoEntity
  <2>3. Carries(ent'[r], joined'[r], transfer'.createdBy)
    BY <1>1, <2>1, <2>2 DEF Create, Carries, ApprovedByOther, Types, RequestTypes
  <2>4. \A s \in Requests \ {r} : pc'[s] = pc[s] /\ joined'[s] = joined[s]
    BY <1>1 DEF Create, Goto, Types, RequestTypes
  <2>. QED BY <2>1, <2>2, <2>3, <2>4 DEF Authors
<1>2. ASSUME NEW u \in Users, Submit(r, u) PROVE Authors'
  <2> DEFINE e == [transfer EXCEPT !.status = "PENDING_APPROVAL", !.submittedBy = u]
  <2>1. ApprovedByOther(e, transfer.createdBy)
    BY <1>0 DEF ApprovedByOther, Rows
  <2>. QED BY <1>2, <2>1, LoadAuthors DEF Submit
<1>3. ASSUME NEW u \in Users, Approve(r, u) PROVE Authors'
  <2> DEFINE e == [transfer EXCEPT !.status = "APPROVED", !.approvedBy = u]
  <2>1. ApprovedByOther(e, transfer.createdBy)
    BY <1>0, <1>3 DEF Approve, ApprovedByOther, Rows
  <2>. QED BY <1>3, <2>1, LoadAuthors DEF Approve
<1>4. \A s \in Statuses : ApprovedByOther([transfer EXCEPT !.status = s], transfer.createdBy)
  BY <1>0 DEF ApprovedByOther, Rows
<1>5. CASE Return(r) \/ Reject(r) \/ Cancel(r)
  BY <1>4, <1>5, LoadAuthors DEF Return, Reject, Cancel, Statuses
<1>6. CASE Delete(r) \/ EditNotes(r)
  BY <1>0, <1>6, LoadAuthors DEF Delete, EditNotes
<1>7. ASSUME NEW from \in Warehouses, NEW to \in Warehouses, EditRoute(r, from, to)
      PROVE  Authors'
  <2>1. ApprovedByOther([transfer EXCEPT !.from = from, !.to = to], transfer.createdBy)
    BY <1>0 DEF ApprovedByOther, Rows
  <2>. QED BY <1>7, <2>1, LoadAuthors DEF EditRoute
<1>8. CASE \E l \in LineIds, q \in Quantities :
             EditLine(r, l, q) \/ AddLine(r, l, q) \/ RemoveLine(r, l)
  BY <1>0, <1>8, LoadAuthors DEF EditLine, AddLine, RemoveLine
<1>9. CASE PostLock(r)
  <2>1. /\ ent'[r] = [transfer EXCEPT !.status = "POSTED"]
        /\ joined'[r] = joined[r] /\ transfer' = transfer
    BY <1>9 DEF PostLock, document, Types, RequestTypes
  <2>2. transfer.createdBy # NoUser
    BY <1>9 DEF PostLock, Entities
  <2>3. joined[r] = NoEntity \/ ApprovedByOther(joined[r], transfer.createdBy)
    BY DEF Authors, Carries
  <2>4. Carries(ent'[r], joined'[r], transfer.createdBy)
    BY <1>4, <2>1, <2>2, <2>3 DEF Carries, Statuses
  <2>5. \A s \in Requests \ {r} :
          pc'[s] = pc[s] /\ ent'[s] = ent[s] /\ joined'[s] = joined[s]
    BY <1>9 DEF PostLock, Goto, Types, RequestTypes
  <2>. QED BY <1>0, <2>1, <2>4, <2>5, KeepAuthors
<1>. QED BY <1>1, <1>2, <1>3, <1>5, <1>6, <1>7, <1>8, <1>9 DEF Start

\* Every step of a request under way.
LEMMA ContinueAuthors ==
  ASSUME Types, Authors, NEW r \in Requests, Continue(r) \/ Fail(r) PROVE Authors'
<1>0. ApprovedByOther(transfer, transfer.createdBy)
  BY DEF Authors, ApprovedByOther
<1>1. CASE SaveSelect(r)
  BY <1>0, <1>1, GotoAuthors DEF SaveSelect, document
<1>2. CASE SaveWrite(r)
  <2>1. ApprovedByOther(transfer', transfer.createdBy)
    BY <1>0, <1>2, SavedAuthors DEF SaveWrite
  <2>. QED BY <1>2, <2>1, ForgetAuthors, GotoAuthors DEF SaveWrite, Finish
<1>3. CASE RecordHistory(r)
  BY <1>0, <1>3, ForgetAuthors DEF RecordHistory
<1>4. CASE ReaddLine(r) \/ SaveLine(r)
  BY <1>0, <1>4, GotoAuthors DEF ReaddLine, SaveLine, document, local
<1>5. CASE InsertLine(r)
  BY <1>0, <1>5, ForgetAuthors, GotoAuthors DEF InsertLine, local
<1>6. CASE DeleteLine(r)
  BY <1>0, <1>6, ForgetAuthors DEF DeleteLine, Finish
<1>7. CASE Remove(r)
  <2>1. ApprovedByOther(transfer', transfer.createdBy)
    BY <1>0, <1>7 DEF Remove, ApprovedByOther, Types, SharedTypes, Rows
  <2>. QED BY <1>7, <2>1, ForgetAuthors DEF Remove, Finish
<1>8. CASE PostCheck(r)
  BY <1>0, <1>8, GotoAuthors DEF PostCheck, document
<1>9. CASE PostCommit(r)
  <2>1. ApprovedByOther(transfer', transfer.createdBy)
    BY <1>9 DEF PostCommit, Authors, Carries
  <2>. QED BY <1>9, <2>1, ForgetAuthors DEF PostCommit
<1>10. CASE \E l \in LineIds : PostLine(r, l)
  BY <1>10 DEF PostLine, Authors, document
<1>11. CASE Refuse(r) \/ Fail(r)
  BY <1>0, <1>11, ForgetAuthors DEF Refuse, Fail, Abandon, Finish, document
<1>. QED BY <1>1, <1>2, <1>3, <1>4, <1>5, <1>6, <1>7, <1>8, <1>9, <1>10, <1>11 DEF Continue

(***************************************************************************)
(* The property.                                                           *)
(***************************************************************************)
\* Whoever approved a transfer that is APPROVED or POSTED is not the user who
\* created it, for any users and requests.
THEOREM CreatorIsNoApprover == Spec => []CreatorNeverApproves
<1>1. Init => Authors
  BY DEF Init, Authors, NoEntity
<1>2. Inv /\ Authors /\ [Next]_vars => Authors'
  <2>. SUFFICES ASSUME Inv, Authors, [Next]_vars PROVE Authors'
    OBVIOUS
  <2>. Types /\ Entities
    BY DEF Inv
  <2>1. CASE UNCHANGED vars
    BY <2>1 DEF Authors, vars
  <2>2. CASE Next
    BY <2>2, StartAuthors, ContinueAuthors DEF Next
  <2>. QED BY <2>1, <2>2
<1>3. Inv /\ Authors => CreatorNeverApproves
  BY ConstantsAssumption DEF Inv, Types, SharedTypes, Rows, Authors, Entities, CreatorNeverApproves
<1>. QED BY <1>1, <1>2, <1>3, Invariant, PTL DEF Spec

(***************************************************************************)
(* One request at a time and no failures.  Steps says of every point a     *)
(* handler can be at what it still knows of the document: the status it    *)
(* checked when it read it, and whether the newest history row is about    *)
(* that status.                                                            *)
(***************************************************************************)
OneRequest == \E r : Requests = {r}

\* The newest history row is about the status of the document.
Documented ==
  trail.event = IF transfer.status = "ABSENT" THEN "NONE" ELSE transfer.status

\* The changes of status that save() makes.
Leads(from, to) ==
  \/ from = to
  \/ from \in Editable /\ to = "PENDING_APPROVAL"
  \/ from = "PENDING_APPROVAL" /\ to \in {"APPROVED", "RETURNED", "REJECTED"}
  \/ from \in {"DRAFT", "PENDING_APPROVAL"} /\ to = "CANCELLED"

\* A create() that has still to insert its line.
Creating(r) == pc[r] = "addline" /\ op[r] = "create"

\* What the handler found when it read the transfer still holds at each of its
\* later steps.
InStep(r) ==
  /\ pc[r] # "insert"
  /\ pc[r] # "idle" => transfer.status # "ABSENT"
  /\ pc[r] # "log" /\ ~Creating(r) => Documented
  /\ Creating(r) => transfer.status = "DRAFT" /\ lines = NoLines
  /\ pc[r] \in {"addline", "readd", "saveline", "unline", "remove"} => transfer.status \in Editable
  /\ pc[r] = "addline" => op[r] \in {"create", "addline", "update"}
  /\ pc[r] \in {"readd", "saveline"} => op[r] = "update"
  /\ op[r] \in {"create", "update"} \/ pc[r] = "log" => ent[r].status = transfer.status
  /\ pc[r] \in {"select", "write"} => op[r] # "create" /\ Leads(transfer.status, ent[r].status)
  /\ pc[r] = "write" => dirty[r].status = IF ent[r].status = transfer.status THEN "keep" ELSE "copy"
  /\ pc[r] \in {"check", "post"} => transfer.status = "APPROVED" /\ ent[r].status = "POSTED"
  /\ pc[r] = "idle" <=> op[r] = "none"

Steps ==
  /\ transfer.createdBy = NoUser => lines = NoLines
  /\ \A r \in Requests : InStep(r)

(***************************************************************************)
(* Shapes of steps.                                                        *)
(***************************************************************************)
\* findOne(): what the handler checked is what it will rely on.
LEMMA LoadSteps ==
  ASSUME Types, NEW r, Requests = {r}, Steps, NEW o, NEW e, NEW to, Load(r, o, e, to),
         o \notin {"create", "none"},
         to \in {"select", "addline", "readd", "saveline", "unline", "remove"},
         to # "select" => transfer.status \in Editable,
         to = "addline" => o = "addline",
         to \in {"readd", "saveline"} => o = "update",
         o = "update" => e.status = transfer.status,
         to = "select" => Leads(transfer.status, e.status)
  PROVE  Steps'
<1>1. /\ pc[r] = "idle" /\ transfer.status # "ABSENT"
      /\ pc'[r] = to /\ op'[r] = o /\ ent'[r] = e
      /\ UNCHANGED <<transfer, lines, trail>>
  BY DEF Load, Goto, document, Types, RequestTypes
<1>2. Documented
  BY <1>1 DEF Steps, InStep, Creating
<1>3. InStep(r)'
  BY <1>1, <1>2 DEF InStep, Creating, Documented
<1>. QED BY <1>1, <1>3 DEF Steps

\* A request that ends with the history up to date.
LEMMA ForgetSteps ==
  ASSUME Types, NEW r, Requests = {r}, Forget(r), Documented',
         transfer'.createdBy = NoUser => lines' = NoLines
  PROVE  Steps'
<1>1. pc'[r] = "idle" /\ op'[r] = "none"
  BY DEF Forget, Goto, Types, RequestTypes
<1>2. InStep(r)'
  BY <1>1 DEF InStep, Creating
<1>. QED BY <1>2 DEF Steps

(***************************************************************************)
(* The steps of the request.                                               *)
(***************************************************************************)
LEMMA StartSteps ==
  ASSUME Types, Entities, NEW r, Requests = {r}, Steps, Start(r) PROVE Steps'
<1>. r \in Requests
  OBVIOUS
<1>0. transfer \in Rows
  BY DEF Types, SharedTypes
<1>1. ASSUME NEW u \in Users, NEW from \in Warehouses, NEW to \in Warehouses,
             NEW l \in LineIds, NEW q \in Quantities, Create(r, u, from, to, l, q)
      PROVE  Steps'
  <2> DEFINE row == [NoEntity EXCEPT !.status = "DRAFT", !.from = from, !.to = to, !.createdBy = u]
  <2>1. /\ transfer' = row /\ ent' = [ent EXCEPT ![r] = transfer'] /\ lines' = lines /\ lines = NoLines
        /\ pc' = [pc EXCEPT ![r] = "addline"] /\ op' = [op EXCEPT ![r] = "create"]
    BY <1>1 DEF Create, Goto, Steps
  <2>2. row.status = "DRAFT" /\ row.createdBy = u /\ u # NoUser
    BY ConstantsAssumption DEF NoEntity
  <2>. HIDE DEF row
  <2>3. ent'[r] = row /\ pc'[r] = "addline" /\ op'[r] = "create"
    BY <2>1 DEF Types, RequestTypes
  <2>4. InStep(r)'
    BY <2>1, <2>2, <2>3 DEF InStep, Creating
  <2>. QED BY <2>1, <2>2, <2>4 DEF Steps
<1>2. ASSUME NEW u \in Users, Submit(r, u) PROVE Steps'
  <2> DEFINE e == [transfer EXCEPT !.status = "PENDING_APPROVAL", !.submittedBy = u]
  <2>1. Leads(transfer.status, e.status)
    BY <1>0, <1>2 DEF Submit, Leads, Rows
  <2>2. Load(r, "submit", e, "select")
    BY <1>2 DEF Submit
  <2>. HIDE DEF e
  <2>. QED BY <2>1, <2>2, LoadSteps
<1>3. ASSUME NEW u \in Users, Approve(r, u) PROVE Steps'
  <2> DEFINE e == [transfer EXCEPT !.status = "APPROVED", !.approvedBy = u]
  <2>1. Leads(transfer.status, e.status)
    BY <1>0, <1>3 DEF Approve, Leads, Rows
  <2>2. Load(r, "approve", e, "select")
    BY <1>3 DEF Approve
  <2>. HIDE DEF e
  <2>. QED BY <2>1, <2>2, LoadSteps
<1>4. \A x : [transfer EXCEPT !.status = x].status = x
  BY <1>0 DEF Rows
<1>5. CASE Return(r)
  BY <1>4, <1>5, LoadSteps DEF Return, Leads
<1>6. CASE Reject(r)
  BY <1>4, <1>6, LoadSteps DEF Reject, Leads
<1>7. CASE Cancel(r)
  BY <1>4, <1>7, LoadSteps DEF Cancel, Leads
<1>8. CASE Delete(r)
  BY <1>8, LoadSteps DEF Delete
<1>9. CASE EditNotes(r)
  BY <1>9, LoadSteps DEF EditNotes, Leads
<1>10. ASSUME NEW from \in Warehouses, NEW to \in Warehouses, EditRoute(r, from, to)
       PROVE  Steps'
  <2> DEFINE e == [transfer EXCEPT !.from = from, !.to = to]
  <2>1. e.status = transfer.status
    BY <1>0 DEF Rows
  <2>2. Load(r, "update", e, "select")
    BY <1>10 DEF EditRoute
  <2>. HIDE DEF e
  <2>. QED BY <2>1, <2>2, LoadSteps DEF Leads
<1>11. CASE \E l \in LineIds, q \in Quantities :
              EditLine(r, l, q) \/ AddLine(r, l, q) \/ RemoveLine(r, l)
  BY <1>11, LoadSteps DEF EditLine, AddLine, RemoveLine
<1>12. CASE PostLock(r)
  <2>1. /\ pc[r] = "idle" /\ transfer.status = "APPROVED" /\ ent'[r].status = "POSTED"
        /\ pc'[r] = "check" /\ op'[r] = "post"
        /\ UNCHANGED <<transfer, lines, trail>>
    BY <1>4, <1>12 DEF PostLock, Goto, document, Types, RequestTypes
  <2>2. InStep(r)'
    BY <2>1 DEF Steps, InStep, Creating, Documented
  <2>. QED BY <2>1, <2>2 DEF Steps
<1>. QED BY <1>1, <1>2, <1>3, <1>5, <1>6, <1>7, <1>8, <1>9, <1>10, <1>11, <1>12 DEF Start

\* What save() does with the status: written when it changes, left alone otherwise.
LEMMA SavedStatus ==
  ASSUME Types, NEW r \in Requests, Steps, pc[r] = "write"
  PROVE  /\ Saved(r).status = ent[r].status
         /\ transfer.status # "ABSENT"
         /\ Saved(r).createdBy = NoUser => transfer.createdBy = NoUser \/ ent[r].createdBy = NoUser
<1>1. Copy(r, "status") = ent[r].status /\ "status" \in Columns /\ "createdBy" \in Columns
  BY DEF Copy, Relations, Columns
<1>2. /\ transfer.status # "ABSENT"
      /\ dirty[r].status = IF ent[r].status = transfer.status THEN "keep" ELSE "copy"
  BY DEF Steps, InStep
<1>3. Saved(r).status = ent[r].status
  BY <1>1, <1>2 DEF Saved
<1>4. dirty[r].createdBy # "null"
  BY DEF Types, RequestTypes, Plans, Columns, Nullable
<1>5. Copy(r, "createdBy") = NoUser => ent[r].createdBy = NoUser
  BY DEF Copy
<1>. QED BY <1>1, <1>2, <1>3, <1>4, <1>5 DEF Saved

\* save() writes the status the handler assigned, and the history row says so.
LEMMA SaveSteps ==
  ASSUME Types, Entities, NEW r, Requests = {r}, Steps,
         SaveSelect(r) \/ SaveWrite(r) \/ RecordHistory(r)
  PROVE  Steps'
<1>. r \in Requests /\ InStep(r)
  BY DEF Steps
<1>1. CASE SaveSelect(r)
  <2>1. /\ pc[r] = "select" /\ transfer.status # "ABSENT"
        /\ pc'[r] = "write" /\ dirty'[r].status = Plan(r, "status")
        /\ UNCHANGED <<transfer, lines, trail, op, ent>>
    BY <1>1 DEF SaveSelect, Goto, document, InStep, Columns, Types, RequestTypes
  <2>2. Plan(r, "status") = IF ent[r].status = transfer.status THEN "keep" ELSE "copy"
    BY DEF Plan, Copy, Relations, Nullable, Columns
  <2>3. InStep(r)'
    BY <2>1, <2>2 DEF InStep, Creating, Documented
  <2>. QED BY <2>1, <2>3 DEF Steps
<1>2. CASE SaveWrite(r)
  <2>1. pc[r] = "write" /\ transfer' = Saved(r) /\ lines' = lines /\ trail' = trail
    BY <1>2, SavedStatus DEF SaveWrite, InStep
  <2>2. transfer'.status = ent[r].status /\ Exists(ent[r])
    BY <2>1, SavedStatus DEF Entities
  <2>3. transfer'.createdBy = NoUser => lines' = NoLines
    BY <2>1, <2>2, SavedStatus DEF Exists, Steps
  <2>4. CASE op[r] = "update" /\ Finish(r)
    <3>1. transfer'.status = transfer.status
      BY <2>2, <2>4 DEF InStep
    <3>2. Documented'
      BY <2>1, <3>1 DEF InStep, Creating, Documented
    <3>. QED BY <2>3, <2>4, <3>2, ForgetSteps DEF Finish
  <2>5. CASE op[r] # "update" /\ Goto(r, "log") /\ UNCHANGED <<op, ent>>
    <3>1. pc'[r] = "log"
      BY <2>5 DEF Goto, Types, RequestTypes
    <3>2. InStep(r)'
      BY <2>1, <2>2, <2>5, <3>1 DEF InStep, Creating, Exists
    <3>. QED BY <2>3, <3>2 DEF Steps
  <2>. QED BY <1>2, <2>4, <2>5 DEF SaveWrite
<1>3. CASE RecordHistory(r)
  <2>1. /\ pc[r] = "log" /\ transfer' = transfer /\ lines' = lines
        /\ trail'.event = ent[r].status /\ transfer.status # "ABSENT"
    BY <1>3 DEF RecordHistory
  <2>2. Documented'
    BY <2>1 DEF InStep, Documented
  <2>. QED BY <1>3, <2>1, <2>2, ForgetSteps DEF RecordHistory, Steps
<1>. QED BY <1>1, <1>2, <1>3

\* Steps on the lines: the transfer stays as it is.
LEMMA LineSteps ==
  ASSUME Types, Entities, NEW r, Requests = {r}, Steps,
         ReaddLine(r) \/ InsertLine(r) \/ SaveLine(r) \/ DeleteLine(r) \/ Remove(r)
  PROVE  Steps'
<1>. r \in Requests /\ InStep(r)
  BY DEF Steps
<1>0. transfer.status # "ABSENT" /\ transfer.createdBy # NoUser
  BY DEF ReaddLine, InsertLine, SaveLine, DeleteLine, Remove, InStep, Entities
<1>1. CASE ReaddLine(r)
  <2>1. /\ pc[r] = "readd" /\ pc'[r] = "addline"
        /\ UNCHANGED <<transfer, lines, trail, op, ent>>
    BY <1>1 DEF ReaddLine, Goto, document, local, Types, RequestTypes
  <2>2. InStep(r)'
    BY <2>1 DEF InStep, Creating, Documented
  <2>. QED BY <2>1, <2>2 DEF Steps
<1>2. CASE InsertLine(r)
  <2>1. pc[r] = "addline" /\ transfer' = transfer /\ trail' = trail
    BY <1>2 DEF InsertLine
  <2>2. CASE op[r] = "addline" /\ Forget(r)
    <3>1. Documented'
      BY <2>1, <2>2 DEF InStep, Creating, Documented
    <3>. QED BY <1>0, <2>1, <2>2, <3>1, ForgetSteps
  <2>3. CASE /\ op[r] # "addline"
             /\ Goto(r, IF op[r] = "create" THEN "log" ELSE "select") /\ UNCHANGED local
    <3>1. pc'[r] = (IF op[r] = "create" THEN "log" ELSE "select") /\ op' = op /\ ent' = ent
      BY <2>3 DEF Goto, local, Types, RequestTypes
    <3>2. InStep(r)'
      BY <2>1, <2>3, <3>1 DEF InStep, Creating, Documented, Leads
    <3>. QED BY <1>0, <2>1, <3>2 DEF Steps
  <2>. QED BY <1>2, <2>2, <2>3 DEF InsertLine
<1>3. CASE SaveLine(r)
  <2>1. /\ pc[r] = "saveline" /\ pc'[r] = "select"
        /\ UNCHANGED <<transfer, trail, op, ent>>
    BY <1>3 DEF SaveLine, Goto, local, Types, RequestTypes
  <2>2. InStep(r)'
    BY <2>1 DEF InStep, Creating, Documented, Leads
  <2>. QED BY <1>0, <2>1, <2>2 DEF Steps
<1>4. CASE DeleteLine(r)
  <2>1. pc[r] = "unline" /\ transfer' = transfer /\ trail' = trail
    BY <1>4 DEF DeleteLine
  <2>2. Documented'
    BY <2>1 DEF InStep, Creating, Documented
  <2>. QED BY <1>0, <1>4, <2>1, <2>2, ForgetSteps DEF DeleteLine, Finish
<1>5. CASE Remove(r)
  <2>1. transfer'.status = "ABSENT" /\ trail'.event = "NONE" /\ lines' = NoLines
    BY <1>5 DEF Remove, NoTrail, Types, SharedTypes, Rows
  <2>2. Documented'
    BY <2>1 DEF Documented
  <2>. QED BY <1>5, <2>1, <2>2, ForgetSteps DEF Remove, Finish
<1>. QED BY <1>1, <1>2, <1>3, <1>4, <1>5

\* post() marks the transfer and records it in one commit.
LEMMA PostSteps ==
  ASSUME Types, Entities, NEW r, Requests = {r}, Steps,
         PostCheck(r) \/ PostCommit(r) \/ \E l \in LineIds : PostLine(r, l)
  PROVE  Steps'
<1>. r \in Requests /\ InStep(r)
  BY DEF Steps
<1>1. CASE PostCheck(r)
  <2>1. /\ pc[r] = "check" /\ pc'[r] = "post"
        /\ UNCHANGED <<transfer, lines, trail, op, ent>>
    BY <1>1 DEF PostCheck, Goto, document, Types, RequestTypes
  <2>2. InStep(r)'
    BY <2>1 DEF InStep, Creating, Documented
  <2>. QED BY <2>1, <2>2 DEF Steps
<1>2. CASE PostCommit(r)
  <2>1. /\ pc[r] = "post" /\ transfer' = ent[r] /\ lines' = lines /\ trail'.event = "POSTED"
        /\ Exists(ent[r])
    BY <1>2 DEF PostCommit, Types, SharedTypes, Trails, Entities
  <2>2. Documented'
    BY <2>1 DEF InStep, Documented
  <2>. QED BY <1>2, <2>1, <2>2, ForgetSteps DEF PostCommit, Exists
<1>3. CASE \E l \in LineIds : PostLine(r, l)
  <2>1. UNCHANGED <<transfer, lines, trail, pc, op, ent, dirty>>
    BY <1>3 DEF PostLine, document
  <2>. QED BY <2>1 DEF Steps, InStep, Creating, Documented
<1>. QED BY <1>1, <1>2, <1>3

\* A refused request leaves no status without its history: neither create() nor
\* recordHistory() can be refused.
LEMMA RefuseSteps ==
  ASSUME Types, Entities, NEW r, Requests = {r}, Steps, Refuse(r) PROVE Steps'
<1>. r \in Requests /\ InStep(r)
  BY DEF Steps
<1>1. pc[r] # "idle" /\ Forget(r) /\ UNCHANGED <<transfer, lines, trail>>
  BY DEF Refuse, Abandon, Finish, document
<1>2. pc[r] # "log"
  BY DEF Refuse, Refused, InStep
<1>3. ~Creating(r)
  <2>. SUFFICES ASSUME Creating(r) PROVE FALSE
    OBVIOUS
  <2>1. lines = NoLines /\ transfer.status # "ABSENT"
    BY DEF InStep, Creating
  <2>2. CurrentLines = {}
    BY <2>1 DEF CurrentLines, NoLines
  <2>3. edit[r].id \in FreeIds(r)
    BY <2>2 DEF FreeIds, Types, RequestTypes, Edits
  <2>. QED BY <2>1, <2>3 DEF Refuse, Refused, Creating
<1>4. Documented'
  BY <1>1, <1>2, <1>3 DEF InStep, Documented
<1>. QED BY <1>1, <1>4, ForgetSteps DEF Steps

\* All of it in every behaviour without failures.
THEOREM SerialInvariant ==
  ASSUME OneRequest PROVE SerialSpec => [](Inv /\ Steps)
<1>1. Init => Steps
  BY DEF Init, Steps, InStep, Creating, Documented, NoEntity, NoTrail
<1>2. Inv /\ Steps /\ [SerialNext]_vars => Steps'
  <2>. SUFFICES ASSUME Inv, Steps, [SerialNext]_vars PROVE Steps'
    OBVIOUS
  <2>. Types /\ Entities
    BY DEF Inv
  <2>. PICK r : Requests = {r}
    BY DEF OneRequest
  <2>1. CASE UNCHANGED vars
    <3>1. UNCHANGED <<transfer, lines, trail, pc, op, ent, dirty>>
      BY <2>1 DEF vars
    <3>. QED BY <3>1 DEF Steps, InStep, Creating, Documented
  <2>2. CASE Start(r) \/ Continue(r)
    BY <2>2, StartSteps, SaveSteps, LineSteps, PostSteps, RefuseSteps DEF Continue
  <2>. QED BY <2>1, <2>2 DEF SerialNext
<1>3. [SerialNext]_vars => [Next]_vars
  BY DEF SerialNext, Next
<1>. QED BY <1>1, <1>2, <1>3, InvInit, InvNext, PTL DEF SerialSpec

\* Requests that do not overlap leave the audit trail up to date: the newest event
\* is the status of the document whenever none is under way.
THEOREM TrailIsCurrent ==
  ASSUME OneRequest PROVE SerialSpec => []AuditTrailCurrent
<1>1. Inv /\ Steps => AuditTrailCurrent
  BY DEF OneRequest, Steps, InStep, Creating, Documented, AuditTrailCurrent, Busy
<1>. QED BY <1>1, SerialInvariant, PTL

\* And they change lines only while the transfer is DRAFT or RETURNED.
THEOREM LinesEditable ==
  ASSUME OneRequest PROVE SerialSpec => LinesChangeOnlyWhenEditable
<1> DEFINE Guarded == lines' # lines => transfer.status \in Editable \cup {"ABSENT"}
<1>1. Steps /\ [SerialNext]_vars => [Guarded]_vars
  <2>. SUFFICES ASSUME Steps, SerialNext, lines' # lines
                PROVE  transfer.status \in Editable \cup {"ABSENT"}
    OBVIOUS
  <2>1. PICK r \in Requests : Start(r) \/ Continue(r)
    BY DEF SerialNext
  <2>2. pc[r] \in {"addline", "saveline", "unline", "remove"}
    BY <2>1
    DEF Start, Create, Submit, Approve, Return, Reject, Cancel, Delete, PostLock, EditNotes,
        EditRoute, EditLine, AddLine, RemoveLine, Load, Continue, SaveSelect, SaveWrite,
        RecordHistory, ReaddLine, InsertLine, SaveLine, DeleteLine, Remove, PostCheck,
        PostCommit, Refuse, Abandon, PostLine, document
  <2>. QED BY <2>2 DEF Steps, InStep
<1>. QED BY <1>1, SerialInvariant, PTL DEF SerialSpec, LinesChangeOnlyWhenEditable

(***************************************************************************)
(* The lifecycle.                                                          *)
(***************************************************************************)
\* Each step of a request is a step of the lifecycle or none.
LEMMA LifecycleStep ==
  ASSUME Inv, Steps, NEW r \in Requests, Start(r) \/ Continue(r)
  PROVE  [Lifecycle!Next]_(Lifecycle!vars)
<1>. Types /\ Entities /\ InStep(r)
  BY DEF Inv, Steps
<1>. USE DEF Lifecycle!Next, Lifecycle!vars, Lifecycle!Move
<1>1. ASSUME NEW u \in Users, NEW from \in Warehouses, NEW to \in Warehouses,
             NEW l \in LineIds, NEW q \in Quantities, Create(r, u, from, to, l, q)
      PROVE  Lifecycle!Create
  <2>1. transfer'.status = "DRAFT" /\ posts' = posts
    BY <1>1 DEF Create, NoEntity, inventory
  <2>2. transfer.status = "ABSENT"
    BY <1>1 DEF Create, Entities
  <2>. QED BY <2>1, <2>2 DEF Lifecycle!Create
<1>2. CASE SaveWrite(r)
  <2>1. pc[r] = "write" /\ transfer' = Saved(r) /\ posts' = posts
    BY <1>2, SavedStatus DEF SaveWrite, InStep, inventory
  <2>2. transfer'.status = ent[r].status /\ Leads(transfer.status, ent[r].status)
    BY <2>1, SavedStatus DEF InStep
  <2>. QED BY <2>1, <2>2 
       DEF Leads, Lifecycle!Submit, Lifecycle!Approve, Lifecycle!Return, Lifecycle!Reject,
           Lifecycle!Cancel
<1>3. CASE Remove(r)
  <2>1. transfer'.status = "ABSENT" /\ posts' = posts /\ transfer.status \in Editable
    BY <1>3 DEF Remove, Types, SharedTypes, Rows, InStep, inventory
  <2>. QED BY <2>1 DEF Lifecycle!Delete
<1>4. CASE PostCommit(r)
  <2>1. transfer.status = "APPROVED" /\ transfer'.status = "POSTED" /\ posts' = posts + 1
    BY <1>4 DEF PostCommit, InStep
  <2>. QED BY <2>1 DEF Lifecycle!Post
<1>5. CASE ~ \/ \E u \in Users, from, to \in Warehouses, l \in LineIds, q \in Quantities :
                  Create(r, u, from, to, l, q)
             \/ SaveWrite(r) \/ Remove(r) \/ PostCommit(r)
  <2>1. transfer' = transfer /\ posts' = posts
    BY <1>5
    DEF Start, Submit, Approve, Return, Reject, Cancel, Delete, PostLock, EditNotes, EditRoute,
        EditLine, AddLine, RemoveLine, Load, Continue, SaveSelect, RecordHistory, ReaddLine,
        InsertLine, SaveLine, DeleteLine, PostCheck, Refuse, Abandon, PostLine, document, inventory
  <2>. QED BY <2>1
<1>. QED BY <1>1, <1>2, <1>3, <1>4, <1>5

\* Handled one at a time, requests drive the transfer through its lifecycle: it is
\* posted from APPROVED only and moves stock once, with the change to POSTED.
THEOREM FollowsItsLifecycle ==
  ASSUME OneRequest PROVE SerialSpec => FollowsLifecycle
<1>1. Init => Lifecycle!Init
  BY DEF Init, NoEntity, Lifecycle!Init
<1>2. Inv /\ Steps /\ [SerialNext]_vars => [Lifecycle!Next]_(Lifecycle!vars)
  <2>. SUFFICES ASSUME Inv, Steps, [SerialNext]_vars PROVE [Lifecycle!Next]_(Lifecycle!vars)
    OBVIOUS
  <2>1. CASE UNCHANGED vars
    BY <2>1 DEF vars, Lifecycle!vars
  <2>. QED BY <2>1, LifecycleStep DEF SerialNext
<1>. QED BY <1>1, <1>2, SerialInvariant, PTL DEF SerialSpec, FollowsLifecycle, Lifecycle!Spec
================================================================================

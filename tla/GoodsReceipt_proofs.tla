-------------------------- MODULE GoodsReceipt_proofs ---------------------------
(***************************************************************************)
(* What GoodsReceipt promises for any number of requests, receipts, lines  *)
(* and quantities. However requests interleave and wherever they die, the  *)
(* lock post() takes protects the receipt it found unmarked until the      *)
(* commit (Protected), so stock enters only with a receipt that is not     *)
(* marked posted (EntersUnmarked). Requests that come one at a time, also  *)
(* those that die half-way, keep receipts, ledger and order in agreement   *)
(* (HeaderTells, OrderCounts): Serial says what the request under way      *)
(* knows of its receipt and of the order's lines at each point (Task), and *)
(* that the books agree (Books); Sized gives the order and the             *)
(* transactions their types, and Kinds and Room, which says that a post    *)
(* puts no more on the ledger than it saw fit, the rest (TypesAlways).     *)
(***************************************************************************)
EXTENDS GoodsReceipt, SumTheorems

Rows == [status: Statuses \cup Absent, posted: BOOLEAN]
Counts == [PoLines -> Nat]
Tables == [Receipts -> [PoLines -> [in: Nat, out: Nat]]]

Points == {"idle", "insert", "select", "write", "clear", "unline", "remove", "edit", "lock",
           "lines", "polines", "reverse", "reread", "line", "order", "commit"}
Names == {"none", "create", "receive", "inspect", "accept", "reject", "cancel", "update",
          "header", "remove", "post"}

\* The transaction of post(), once it has the lock.
Inside == {"lines", "polines", "reread", "line", "order", "commit"}

\* What a session that runs no request has for its receipt.
Nobody == CHOOSE g \in Receipts : TRUE

Types ==
  /\ receipt \in [Receipts -> Rows]
  /\ lines \in [Receipts -> Counts]
  /\ ledger \in Tables
  /\ lock \in [Receipts -> Sessions \cup {NoSession}]
  /\ pc \in [Sessions -> Points]
  /\ op \in [Sessions -> Names]
  /\ doc \in [Sessions -> Receipts \cup {Nobody}]
  /\ copy \in [Sessions -> Rows]
  /\ todo \in [Sessions -> Counts]

\* A request works on a receipt; only cancel() comes to a reversal.
Requests ==
  \A s \in Sessions : /\ pc[s] # "idle" => doc[s] \in Receipts
                      /\ pc[s] = "reverse" => op[s] = "cancel"

\* Nobody marks the receipt that is being posted.
Posting(s) == op[s] = "post" /\ pc[s] \in Inside

Unmarked(row) == ~row.posted /\ row.status # "POSTED"

Locked ==
  \A s \in Sessions : Posting(s) => lock[doc[s]] = s /\ Unmarked(receipt[doc[s]])

Inv == Types /\ Requests /\ Locked

(***************************************************************************)
(* The request steps.                                                      *)
(***************************************************************************)
LEMMA NoLinesType == NoLines \in Counts /\ NoRow \in Rows
BY DEF NoLines, Counts, NoRow, Rows, Absent

\* The quantities of a request are counts.
LEMMA QuantitiesType == \A quantities \in [PoLines -> Quantities] : quantities \in Counts
<1>. TAKE quantities \in [PoLines -> Quantities]
<1>1. \A l \in PoLines : quantities[l] \in Nat
  BY Zenon, ConstantsAssumption
<1>. QED BY <1>1 DEF Counts

\* What a save() leaves is a row.
LEMMA SavedType ==
  ASSUME NEW row \in Rows, NEW mine \in Rows, NEW d
  PROVE  [c \in Columns |-> IF c \in d THEN mine[c] ELSE row[c]] \in Rows
BY DEF Rows, Columns

\* The end of a request resets what it holds.
LEMMA EndTypes ==
  ASSUME Types, NEW s \in Sessions, End(s)
  PROVE  /\ pc' \in [Sessions -> Points] /\ op' \in [Sessions -> Names]
         /\ doc' \in [Sessions -> Receipts \cup {Nobody}]
         /\ copy' \in [Sessions -> Rows] /\ todo' \in [Sessions -> Counts]
<1>1. pc' \in [Sessions -> Points] /\ op' \in [Sessions -> Names]
  BY DEF Types, End, Goto, Points, Names
<1>2. doc' \in [Sessions -> Receipts \cup {Nobody}]
  <2>1. doc' = [doc EXCEPT ![s] = Nobody]
    BY DEF End, Nobody
  <2>. QED BY <2>1 DEF Types
<1>3. copy' \in [Sessions -> Rows] /\ todo' \in [Sessions -> Counts]
  BY NoLinesType DEF Types, End
<1>. QED BY <1>1, <1>2, <1>3

\* It leaves no request.
LEMMA EndRequests ==
  ASSUME Types, Requests, NEW s \in Sessions, End(s) PROVE Requests'
BY DEF Types, Requests, End, Goto

\* A session that begins is not inside post(), nor is one that ends.
LEMMA EndLocked ==
  ASSUME Types, Locked, NEW s \in Sessions, End(s),
         \A t \in Sessions \ {s} : Posting(t) =>
           lock'[doc[t]] = t /\ Unmarked(receipt'[doc[t]])
  PROVE  Locked'
BY DEF Types, Locked, Posting, End, Goto

\* A request starts outside every transaction and marks no receipt.
LEMMA BeginInv ==
  ASSUME Inv, NEW s \in Sessions, NEW o \in Names, NEW g \in Receipts, NEW row \in Rows,
         NEW quantities \in Counts,
         NEW to \in Points \ Inside,
         to = "reverse" => o = "cancel", Begin(s, o, g, row, quantities, to),
         lines' = lines, receipt' \in [Receipts -> Rows],
         \A h \in Receipts : Unmarked(receipt[h]) => Unmarked(receipt'[h])
  PROVE  Inv'
<1>1. Types'
  BY DEF Inv, Types, Begin, Goto, effects
<1>2. Requests'
  BY DEF Inv, Types, Requests, Begin, Goto
<1>3. Locked'
  BY DEF Inv, Types, Requests, Locked, Posting, Inside, Begin, Goto, effects
<1>. QED BY <1>1, <1>2, <1>3 DEF Inv

\* Every handler starts so.
LEMMA StartInv == ASSUME Inv, NEW s \in Sessions, Start(s) PROVE Inv'
<1>1. PICK g \in Receipts :
        \/ \E quantities \in [PoLines -> Quantities] :
             Create(s, g, quantities) \/ Update(s, g, quantities)
        \/ Receive(s, g) \/ Inspect(s, g) \/ Accept(s, g) \/ Reject(s, g)
        \/ Cancel(s, g) \/ Remove(s, g) \/ Post(s, g)
  BY DEF Start
<1>2. receipt \in [Receipts -> Rows]
  BY DEF Inv, Types
<1>3. ASSUME NEW o \in Names, NEW row \in Rows, NEW quantities \in Counts,
             NEW to \in Points \ Inside,
             to = "reverse" => o = "cancel", Load(s, o, g, row, quantities, to)
      PROVE  Inv'
  <2>1. Begin(s, o, g, row, quantities, to) /\ receipt' = receipt /\ lines' = lines
    BY <1>3 DEF Load, document
  <2>. QED BY <1>2, <1>3, <2>1, BeginInv
<1>4. ASSUME NEW quantities \in [PoLines -> Quantities], Create(s, g, quantities) PROVE Inv'
  <2>1. quantities \in Counts
    BY QuantitiesType
  <2>2. /\ receipt' \in [Receipts -> Rows]
        /\ \A h \in Receipts : Unmarked(receipt[h]) => Unmarked(receipt'[h])
    BY <1>2, <1>4 DEF Create, Rows, Statuses, Unmarked
  <2>. QED BY <1>4, <2>1, <2>2, NoLinesType, BeginInv DEF Create, Names, Points, Inside
<1>5. ASSUME NEW quantities \in [PoLines -> Quantities], Update(s, g, quantities) PROVE Inv'
  <2>1. quantities \in Counts
    BY QuantitiesType
  <2>. QED BY <1>2, <1>3, <1>5, <2>1, NoLinesType DEF Update, Names, Points, Inside
<1>6. ASSUME NEW to \in Statuses PROVE [receipt[g] EXCEPT !.status = to] \in Rows
  BY <1>2 DEF Rows
<1>7. ASSUME NEW o \in Names, NEW from, NEW to \in Statuses, Advance(s, o, g, from, to)
      PROVE  Inv'
  BY <1>3, <1>6, <1>7, NoLinesType DEF Advance, Points, Inside
<1>8. CASE Receive(s, g) \/ Inspect(s, g) \/ Accept(s, g) \/ Reject(s, g)
  BY <1>7, <1>8 DEF Receive, Inspect, Accept, Reject, Statuses, Names
<1>9. CASE Cancel(s, g)
  <2>1. "CANCELLED" \in Statuses
    BY DEF Statuses
  <2>. QED BY <1>2, <1>3, <1>6, <1>9, <2>1, NoLinesType DEF Cancel, Names, Points, Inside
<1>10. CASE Remove(s, g) \/ Post(s, g)
  BY <1>2, <1>3, <1>10, NoLinesType DEF Remove, Post, Names, Points, Inside
<1>. QED BY <1>1, <1>4, <1>5, <1>8, <1>9, <1>10
(***************************************************************************)
(* The steps of a request under way.                                       *)
(***************************************************************************)
\* A step that takes the session on, without touching the database or taking it
\* into the transaction of post().
LEMMA GoInv ==
  ASSUME Inv, NEW s \in Sessions, NEW to \in Points \ {"idle", "reverse"}, Goto(s, to),
         pc[s] # "idle", to \in Inside => pc[s] \in Inside \/ op[s] # "post",
         UNCHANGED <<document, ledger, lock, op, doc, copy>>, todo' \in [Sessions -> Counts]
  PROVE  Inv'
<1>1. Types'
  BY DEF Inv, Types, Goto, document
<1>2. Requests'
  BY DEF Inv, Types, Requests, Goto
<1>3. Locked'
  BY DEF Inv, Types, Locked, Posting, Unmarked, Goto, document
<1>. QED BY <1>1, <1>2, <1>3 DEF Inv

\* A step that ends the request, having written no receipt but perhaps lines.
LEMMA EndInv ==
  ASSUME Inv, NEW s \in Sessions, End(s), receipt' = receipt, ledger' = ledger, lock' = lock,
         lines' \in [Receipts -> Counts]
  PROVE  Inv'
<1>1. Types'
  BY EndTypes DEF Inv, Types
<1>2. Locked'
  BY EndLocked DEF Inv, Locked
<1>. QED BY <1>1, <1>2, EndRequests DEF Inv

\* A step that writes lines and goes on or ends.
LEMMA InsertNextInv ==
  ASSUME Inv, NEW s \in Sessions, NEW left \in Counts, InsertNext(s, left), pc[s] # "idle",
         receipt' = receipt, ledger' = ledger, lock' = lock, lines' \in [Receipts -> Counts]
  PROVE  Inv'
<1>1. CASE End(s)
  BY <1>1, EndInv
<1>2. CASE /\ Goto(s, "insert")
           /\ todo' = [todo EXCEPT ![s] = left]
           /\ UNCHANGED <<op, doc, copy>>
  <2>1. Types'
    BY <1>2 DEF Inv, Types, Goto, Points
  <2>2. Requests'
    BY <1>2 DEF Inv, Types, Requests, Goto
  <2>3. Locked'
    BY <1>2 DEF Inv, Types, Locked, Posting, Inside, Unmarked, Goto
  <2>. QED BY <2>1, <2>2, <2>3 DEF Inv
<1>. QED BY <1>1, <1>2 DEF InsertNext

\* A step that ends the request and writes its receipt, which nobody has locked.
LEMMA WriteInv ==
  ASSUME Inv, NEW s \in Sessions, End(s) \/ (Goto(s, "clear") /\ UNCHANGED <<op, doc, copy, todo>>),
         pc[s] # "idle", lock[doc[s]] = NoSession, NEW row \in Rows,
         receipt' = [receipt EXCEPT ![doc[s]] = row], UNCHANGED <<lines, ledger, lock>>
  PROVE  Inv'
<1>1. receipt' \in [Receipts -> Rows]
  BY DEF Inv, Types
<1>2. ASSUME NEW t \in Sessions, Posting(t)
      PROVE  lock'[doc[t]] = t /\ Unmarked(receipt'[doc[t]])
  BY <1>2, ConstantsAssumption DEF Inv, Types, Requests, Locked, Unmarked
<1>3. CASE End(s)
  BY <1>1, <1>2, <1>3, EndTypes, EndRequests, EndLocked DEF Inv, Types
<1>4. CASE Goto(s, "clear") /\ UNCHANGED <<op, doc, copy, todo>>
  <2>1. Types'
    BY <1>1, <1>4 DEF Inv, Types, Goto, Points
  <2>2. Requests'
    BY <1>4 DEF Inv, Types, Requests, Goto
  <2>3. Locked'
    BY <1>2, <1>4 DEF Inv, Types, Locked, Posting, Inside, Goto
  <2>. QED BY <2>1, <2>2, <2>3 DEF Inv
<1>. QED BY <1>3, <1>4

\* The steps of a save(), and of the lines of create() and update().
LEMMA SaveInv ==
  ASSUME Inv, NEW s \in Sessions,
         SaveSelect(s) \/ SaveWrite(s) \/ ClearLines(s) \/ InsertLine(s) \/ EditPosted(s)
  PROVE  Inv'
<1>1. CASE SaveSelect(s)
  BY <1>1, GoInv DEF SaveSelect, Points, Inside, Inv, Types, effects
<1>2. CASE SaveWrite(s)
  <2> DEFINE row == [c \in Columns |->
                       IF c \in dirty[s] THEN copy[s][c] ELSE receipt[doc[s]][c]]
  <2>1. pc[s] = "write" /\ doc[s] \in Receipts
    BY <1>2 DEF SaveWrite, Inv, Requests
  <2>2. receipt[doc[s]] \in Rows /\ copy[s] \in Rows
    BY <2>1 DEF Inv, Types
  <2>3. row \in Rows
    BY <2>2, SavedType
  <2>4. PICK saved \in {row, receipt[doc[s]]} : receipt' = [receipt EXCEPT ![doc[s]] = saved]
    BY <1>2 DEF SaveWrite
  <2>5. saved \in Rows
    BY <2>2, <2>3
  <2>. QED BY <1>2, <2>1, <2>4, <2>5, WriteInv DEF SaveWrite, effects
<1>3. CASE ClearLines(s)
  <2>1. lines' \in [Receipts -> Counts] /\ todo[s] \in Counts
    BY <1>3, NoLinesType DEF ClearLines, Inv, Types
  <2>. QED BY <1>3, <2>1, InsertNextInv DEF ClearLines, effects
<1>4. CASE InsertLine(s)
  <2>1. PICK l \in Moving(s) :
          /\ lines' = [lines EXCEPT ![doc[s]][l] = @ + todo[s][l]]
          /\ InsertNext(s, [todo[s] EXCEPT ![l] = 0])
    BY <1>4 DEF InsertLine
  <2>2. l \in PoLines /\ pc[s] = "insert" /\ doc[s] \in Receipts
    BY <1>4 DEF InsertLine, Moving, Inv, Requests
  <2>3. todo[s] \in Counts /\ lines[doc[s]] \in Counts
    BY <2>2 DEF Inv, Types
  <2>4. lines' \in [Receipts -> Counts] /\ [todo[s] EXCEPT ![l] = 0] \in Counts
    BY <2>1, <2>2, <2>3 DEF Counts, Inv, Types
  <2>. QED BY <1>4, <2>1, <2>2, <2>4, InsertNextInv DEF InsertLine, effects
<1>5. CASE EditPosted(s)
  BY <1>5, EndInv DEF EditPosted, document, effects, Inv, Types
<1>. QED BY <1>1, <1>2, <1>3, <1>4, <1>5

\* The steps of remove().
LEMMA RemoveInv ==
  ASSUME Inv, NEW s \in Sessions, RemoveLines(s) \/ RemoveRow(s) PROVE Inv'
<1>1. CASE RemoveLines(s)
  <2>1. lines' \in [Receipts -> Counts]
    BY <1>1, NoLinesType DEF RemoveLines, Inv, Types
  <2>2. Types'
    BY <1>1, <2>1 DEF RemoveLines, Inv, Types, Goto, Points, effects, local
  <2>3. Requests'
    BY <1>1 DEF RemoveLines, Inv, Types, Requests, Goto, local
  <2>4. Locked'
    BY <1>1 DEF RemoveLines, Inv, Types, Locked, Posting, Inside, Goto, local
  <2>. QED BY <2>2, <2>3, <2>4 DEF Inv
<1>2. CASE RemoveRow(s)
  <2>1. [NoRow EXCEPT !.status = "REMOVED"] \in Rows
    BY DEF NoRow, Rows, Absent
  <2>. QED BY <1>2, <2>1, WriteInv DEF RemoveRow, effects
<1>. QED BY <1>1, <1>2

\* The steps of post() and of a reversal up to the commit.
LEMMA PostInv ==
  ASSUME Inv, NEW s \in Sessions,
         \/ PostLock(s) \/ PostRefused(s) \/ PostLines(s) \/ PostOrderLines(s)
         \/ ReverseLines(s) \/ ReverseRead(s) \/ MoveLine(s) \/ ReadOrder(s)
  PROVE  Inv'
<1>0. todo \in [Sessions -> Counts]
  BY DEF Inv, Types
<1>1. CASE PostLock(s)
  <2>1. pc[s] = "lock" /\ doc[s] \in Receipts
    BY <1>1 DEF PostLock, Inv, Requests
  <2>2. Types'
    BY <1>1, <2>1 DEF PostLock, Inv, Types, Goto, Points, document, effects, local
  <2>3. Requests'
    BY <1>1 DEF PostLock, Inv, Types, Requests, Goto, local
  <2>4. Locked'
    <3>1. SUFFICES ASSUME NEW t \in Sessions, Posting(t)'
                   PROVE  lock'[doc[t]] = t /\ Unmarked(receipt[doc[t]])
      BY <1>1 DEF Locked, Unmarked, PostLock, document, local
    <3>2. CASE t = s
      BY <1>1, <2>1, <3>2 DEF PostLock, Inv, Types, Unmarked
    <3>3. CASE t # s
      BY <1>1, <2>1, <3>1, <3>3, ConstantsAssumption
      DEF PostLock, Inv, Types, Locked, Posting, Goto, local
    <3>. QED BY <3>2, <3>3
  <2>. QED BY <2>2, <2>3, <2>4 DEF Inv
<1>2. CASE PostRefused(s)
  BY <1>2, EndInv DEF PostRefused, document, effects, Inv, Types
<1>3. CASE PostLines(s)
  <2>1. pc[s] = "lines" /\ doc[s] \in Receipts
    BY <1>3 DEF PostLines, Inv, Requests
  <2>2. todo' \in [Sessions -> Counts]
    BY <1>0, <1>3, <2>1 DEF PostLines, Inv, Types
  <2>. QED BY <1>3, <2>1, <2>2, GoInv DEF PostLines, Points, Inside, effects
<1>4. CASE PostOrderLines(s)
  BY <1>0, <1>4, GoInv DEF PostOrderLines, Points, Inside, effects
<1>5. CASE ReverseLines(s)
  <2>1. pc[s] = "reverse" /\ doc[s] \in Receipts /\ op[s] # "post"
    BY <1>5 DEF ReverseLines, Inv, Requests
  <2>2. todo' \in [Sessions -> Counts]
    BY <1>0, <1>5, <2>1 DEF ReverseLines, Inv, Types
  <2>. QED BY <1>5, <2>1, <2>2, GoInv DEF ReverseLines, Points, Inside, effects
<1>6. CASE ReverseRead(s)
  BY <1>0, <1>6, GoInv DEF ReverseRead, Points, Inside, effects
<1>7. CASE MoveLine(s)
  BY <1>0, <1>7, GoInv DEF MoveLine, Points, Inside, effects
<1>8. CASE ReadOrder(s)
  BY <1>0, <1>8, GoInv DEF ReadOrder, Points, Inside, effects
<1>. QED BY <1>1, <1>2, <1>3, <1>4, <1>5, <1>6, <1>7, <1>8

\* The commit of a post or a reversal.
LEMMA CommitInv == ASSUME Inv, NEW s \in Sessions, CommitTx(s) PROVE Inv'
<1> DEFINE g == doc[s]
           way == IF op[s] = "post" THEN "in" ELSE "out"
<1>1. g \in Receipts /\ receipt[g] \in Rows /\ lines[g] \in Counts /\ todo[s] \in Counts
  BY DEF CommitTx, Inv, Requests, Types
<1>2. receipt' \in [Receipts -> Rows]
  <2>1. /\ [status |-> "POSTED", posted |-> TRUE] \in Rows
        /\ [receipt[g] EXCEPT !.status = "CANCELLED"] \in Rows
    BY <1>1 DEF Rows, Statuses
  <2>. QED BY <1>1, <2>1 DEF CommitTx, Inv, Types
<1>3. ledger' \in Tables
  <2>1. ledger[g] \in [PoLines -> [in: Nat, out: Nat]]
    BY <1>1 DEF Inv, Types, Tables
  <2>2. ASSUME NEW l \in PoLines
        PROVE  [ledger[g][l] EXCEPT ![way] = ledger[g][l][way] + todo[s][l]]
                 \in [in: Nat, out: Nat]
    BY <1>1, <2>1 DEF Counts
  <2>3. [l \in PoLines |-> [ledger[g][l] EXCEPT ![way] = ledger[g][l][way] + todo[s][l]]]
          \in [PoLines -> [in: Nat, out: Nat]]
    BY <2>2
  <2>4. ledger' = [ledger EXCEPT ![g] =
          [l \in PoLines |-> [ledger[g][l] EXCEPT ![way] = ledger[g][l][way] + todo[s][l]]]]
    BY Zenon DEF CommitTx
  <2>. QED BY <2>3, <2>4 DEF Inv, Types, Tables
<1>4. Types'
  BY <1>2, <1>3, EndTypes DEF CommitTx, Inv, Types
<1>5. Locked'
  <2>1. ASSUME NEW t \in Sessions \ {s}, Posting(t) PROVE doc[t] # g
    BY <2>1, ConstantsAssumption DEF CommitTx, Inv, Locked
  <2>2. ASSUME NEW t \in Sessions \ {s}, Posting(t)
        PROVE  lock'[doc[t]] = t /\ Unmarked(receipt'[doc[t]])
    <3>1. lock[doc[t]] = t /\ Unmarked(receipt[doc[t]]) /\ doc[t] # g /\ doc[t] \in Receipts
      BY <2>1, <2>2 DEF Inv, Locked, Requests, Posting, Inside
    <3>. QED BY <3>1 DEF CommitTx, Inv, Types, Unmarked
  <2>. QED BY <2>2, EndLocked DEF CommitTx, Inv
<1>. QED BY <1>4, <1>5, EndRequests DEF CommitTx, Inv

\* What dies gives its lock back and writes nothing.
LEMMA FailInv == ASSUME Inv, NEW s \in Sessions, Fail(s) PROVE Inv'
<1>1. Types'
  <2>1. lock' \in [Receipts -> Sessions \cup {NoSession}]
    BY DEF Fail, Inv, Types
  <2>. QED BY <2>1, EndTypes DEF Fail, Inv, Types, document, effects
<1>2. ASSUME NEW t \in Sessions \ {s}, Posting(t)
      PROVE  lock'[doc[t]] = t /\ Unmarked(receipt'[doc[t]])
  <2>1. lock[doc[t]] = t /\ Unmarked(receipt[doc[t]]) /\ doc[t] \in Receipts
    BY <1>2 DEF Inv, Locked, Requests, Posting, Inside
  <2>. QED BY <2>1 DEF Fail, Unmarked, document
<1>3. Locked'
  BY <1>2, EndLocked DEF Fail, Inv
<1>. QED BY <1>1, <1>3, EndRequests DEF Fail, Inv

\* No receipt is locked at first.
LEMMA InvInit == Init => Inv
<1>. SUFFICES ASSUME Init PROVE Inv
  OBVIOUS
<1>1. Types
  <2>1. doc \in [Sessions -> Receipts \cup {Nobody}]
    BY DEF Init, Nobody
  <2>2. [l \in PoLines |-> [in |-> 0, out |-> 0]] \in [PoLines -> [in: Nat, out: Nat]]
    OBVIOUS
  <2>. QED BY <2>1, <2>2, NoLinesType DEF Init, Types, Tables, Points, Names
<1>2. Requests /\ Locked
  BY DEF Init, Requests, Locked, Posting, Inside
<1>. QED BY <1>1, <1>2 DEF Inv

\* The protection is inductive.
LEMMA InvNext == Inv /\ [Next]_vars => Inv'
<1>. SUFFICES ASSUME Inv, [Next]_vars PROVE Inv'
  OBVIOUS
<1>1. CASE UNCHANGED vars \/ EndOrder
  <2>. UNCHANGED <<receipt, lines, ledger, lock, pc, op, doc, copy, todo>>
    BY <1>1 DEF vars, EndOrder, document, local
  <2>. QED BY DEF Inv, Types, Requests, Locked, Posting, Unmarked
<1>2. ASSUME NEW s \in Sessions, Start(s) \/ Continue(s) \/ Fail(s) PROVE Inv'
  BY <1>2, StartInv, SaveInv, RemoveInv, PostInv, CommitInv, FailInv DEF Continue
<1>. QED BY <1>1, <1>2 DEF Next

(***************************************************************************)
(* Theorems.                                                               *)
(***************************************************************************)
\* The receipt a post has locked stays unmarked until the post's own commit, however
\* many requests save copies they loaded before, and whichever die.
THEOREM Protected == Spec => []Inv
<1>. QED BY InvInit, InvNext, PTL DEF Spec

\* The stock ledger gains only by the commit of a post.
LEMMA LedgerGains ==
  ASSUME Inv, [Next]_vars, NEW g \in Receipts, NEW l \in PoLines,
         ledger'[g][l].in # ledger[g][l].in
  PROVE  \E s \in Sessions : CommitTx(s) /\ op[s] = "post" /\ doc[s] = g
<1>1. ledger' # ledger
  OBVIOUS
<1>2. PICK s \in Sessions : CommitTx(s)
  <2>1. ASSUME NEW s \in Sessions, Start(s) PROVE ledger' = ledger
    BY <2>1 DEF Start, Create, Update, Receive, Inspect, Accept, Reject, Advance, Cancel,
       Remove, Post, Load, Begin, effects
  <2>2. ASSUME NEW s \in Sessions, Continue(s), ~CommitTx(s) PROVE ledger' = ledger
    BY <2>2 DEF Continue, InsertLine, SaveSelect, SaveWrite, ClearLines, RemoveLines,
       RemoveRow, EditPosted, PostLock, PostRefused, PostLines, PostOrderLines,
       ReverseLines, ReverseRead, MoveLine, ReadOrder, effects
  <2>3. ASSUME NEW s \in Sessions, Fail(s) PROVE ledger' = ledger
    BY <2>3 DEF Fail, effects
  <2>4. EndOrder \/ UNCHANGED vars => ledger' = ledger
    BY DEF EndOrder, vars
  <2>. QED BY <1>1, <2>1, <2>2, <2>3, <2>4 DEF Next
<1>3. doc[s] \in Receipts /\ ledger \in Tables
  BY <1>2 DEF CommitTx, Inv, Requests, Types
<1>4. doc[s] = g
  BY <1>2, <1>3 DEF CommitTx, Tables
<1>5. op[s] = "post"
  <2>1. SUFFICES ASSUME op[s] # "post" PROVE ledger'[g][l].in = ledger[g][l].in
    OBVIOUS
  <2>2. ledger'[g][l] = [ledger[g][l] EXCEPT !["out"] = @ + todo[s][l]]
    BY <1>2, <1>3, <1>4, <2>1 DEF CommitTx, Tables
  <2>3. ledger[g][l] \in [in: Nat, out: Nat]
    BY <1>3 DEF Tables
  <2>. QED BY <2>2, <2>3
<1>. QED BY <1>2, <1>4, <1>5

\* Stock enters only with a receipt that is not marked posted at that very step, and
\* marks it: post() may check ACCEPTED before its transaction because it looks at
\* the marks again under a lock that every other writer of the row waits for.
THEOREM EntersUnmarked == Spec => PostsUnmarkedOnly
<1> DEFINE Step == \A g \in Receipts :
             (\E l \in PoLines : ledger'[g][l].in # ledger[g][l].in) =>
               /\ ~receipt[g].posted /\ receipt[g].status # "POSTED"
               /\ receipt'[g] = [status |-> "POSTED", posted |-> TRUE]
<1>1. ASSUME Inv, [Next]_vars PROVE [Step]_vars
  <2>1. SUFFICES ASSUME NEW g \in Receipts, NEW l \in PoLines,
                        ledger'[g][l].in # ledger[g][l].in
                 PROVE  /\ ~receipt[g].posted /\ receipt[g].status # "POSTED"
                        /\ receipt'[g] = [status |-> "POSTED", posted |-> TRUE]
    OBVIOUS
  <2>2. PICK s \in Sessions : CommitTx(s) /\ op[s] = "post" /\ doc[s] = g
    BY <1>1, <2>1, LedgerGains
  <2>3. Unmarked(receipt[g])
    BY <1>1, <2>2 DEF Inv, Locked, Posting, Inside, CommitTx
  <2>4. receipt'[g] = [status |-> "POSTED", posted |-> TRUE]
    BY <1>1, <2>2 DEF CommitTx, Inv, Types
  <2>. QED BY <2>3, <2>4 DEF Unmarked
<1>. QED BY <1>1, Protected, PTL DEF Spec, PostsUnmarkedOnly


(***************************************************************************)
(* What the order counts, and what the transactions hold.                  *)
(***************************************************************************)
Txs == [known: SUBSET PoLines, wrote: SUBSET PoLines, counts: Counts,
        status: OrderStatuses \cup {"KEEP"}, money: Nat]

Sized ==
  /\ received \in Counts
  /\ order \in [status: OrderStatuses, value: Nat]
  /\ tx \in [Sessions -> Txs]

\* A transaction starts from nothing.
LEMMA NoTxType == NoTx \in Txs
<1>1. NoLines \in Counts
  BY NoLinesType
<1>2. "KEEP" \in OrderStatuses \cup {"KEEP"} /\ 0 \in Nat
  OBVIOUS
<1>. QED BY <1>1, <1>2 DEF NoTx, Txs

\* The end of a request leaves no transaction.
LEMMA EndTx ==
  ASSUME Sized, NEW s \in Sessions, End(s)
  PROVE  /\ tx' \in [Sessions -> Txs] /\ tx'[s] = NoTx
         /\ \A t \in Sessions \ {s} : tx'[t] = tx[t]
BY NoTxType DEF Sized, End

\* A count moves by the line's quantity.
LEMMA CountType ==
  ASSUME Inv, Sized, NEW s \in Sessions, NEW l \in PoLines
  PROVE  /\ tx[s].counts[l] \in Nat /\ todo[s][l] \in Nat /\ received[l] \in Nat
         /\ Count(s, l) \in Nat
         /\ op[s] # "post" /\ todo[s][l] <= tx[s].counts[l] =>
              Count(s, l) = tx[s].counts[l] - todo[s][l]
<1>. DEFINE a == tx[s].counts[l]  b == todo[s][l]
<1>1. a \in Nat /\ b \in Nat /\ received[l] \in Nat
  BY DEF Inv, Types, Sized, Txs, Counts
<1>. HIDE DEF a, b
<1>2. Max({0, a - b}) = IF a - b >= 0 THEN a - b ELSE 0
  <2>. DEFINE top == IF a - b >= 0 THEN a - b ELSE 0
  <2>1. top \in {0, a - b} /\ \A y \in {0, a - b} : top >= y
    BY <1>1
  <2>2. ASSUME NEW x \in {0, a - b}, \A y \in {0, a - b} : x >= y PROVE x = top
    BY <1>1, <2>2
  <2>. QED BY <2>1, <2>2 DEF Max
<1>3. Count(s, l) = IF op[s] = "post" THEN a + b ELSE Max({0, a - b})
  BY DEF Count, a, b
<1>4. Count(s, l) \in Nat /\ (op[s] # "post" /\ b <= a => Count(s, l) = a - b)
  BY <1>1, <1>2, <1>3
<1>. QED BY <1>1, <1>4 DEF a, b

\* The steps of the transactions.
LEMMA TxSteps ==
  ASSUME Inv, Sized, NEW s \in Sessions,
         PostOrderLines(s) \/ ReverseRead(s) \/ MoveLine(s) \/ ReadOrder(s)
  PROVE  Sized'
<1>1. tx[s] \in Txs /\ received \in Counts /\ tx \in [Sessions -> Txs]
  BY DEF Sized
<1>2. UNCHANGED <<received, order>>
  BY DEF PostOrderLines, ReverseRead, MoveLine, ReadOrder, effects
<1>3. CASE PostOrderLines(s)
  <2>1. [tx[s] EXCEPT !.known = PoLines, !.counts = received] \in Txs
    BY <1>1 DEF Txs
  <2>. QED BY <1>2, <1>3, <2>1 DEF PostOrderLines, Sized
<1>4. CASE ReverseRead(s)
  <2>1. PICK l \in Moving(s) :
          tx' = [tx EXCEPT ![s] = [tx[s] EXCEPT !.known = tx[s].known \cup {l},
                                                !.counts[l] = received[l]]]
    BY <1>4 DEF ReverseRead
  <2>2. l \in PoLines /\ received[l] \in Nat
    BY <1>1 DEF Moving, Counts
  <2>3. [tx[s] EXCEPT !.known = tx[s].known \cup {l}, !.counts[l] = received[l]] \in Txs
    BY <1>1, <2>2 DEF Txs, Counts
  <2>. QED BY <1>2, <2>1, <2>3 DEF Sized
<1>5. CASE MoveLine(s)
  <2>1. PICK l \in Moving(s) :
          tx' = [tx EXCEPT ![s] = [tx[s] EXCEPT !.wrote = tx[s].wrote \cup {l},
                                                !.counts[l] = Count(s, l)]]
    BY <1>5 DEF MoveLine
  <2>2. l \in PoLines /\ Count(s, l) \in Nat
    BY CountType DEF Moving
  <2>3. [tx[s] EXCEPT !.wrote = tx[s].wrote \cup {l}, !.counts[l] = Count(s, l)] \in Txs
    BY <1>1, <2>2 DEF Txs, Counts
  <2>. QED BY <1>2, <2>1, <2>3 DEF Sized
<1>6. CASE ReadOrder(s)
  <2>1. order.value \in Nat /\ SumFunction(todo[s]) \in Nat
    <3>1. todo[s] \in [PoLines -> Nat]
      BY DEF Inv, Types, Counts
    <3>. QED BY <3>1, ConstantsAssumption, SumNat DEF Sized
  <2>2. PICK status \in OrderStatuses \cup {"KEEP"} :
          tx' = [tx EXCEPT ![s] = [tx[s] EXCEPT !.status = status,
                                                !.money = order.value + SumFunction(todo[s])]]
    BY ZenonT(60), <1>6 DEF ReadOrder, OrderStatus, OrderStatuses
  <2>3. \A money \in Nat : [tx[s] EXCEPT !.status = status, !.money = money] \in Txs
    BY <1>1 DEF Txs
  <2>4. order.value + SumFunction(todo[s]) \in Nat
    BY <2>1
  <2>. QED BY <1>2, <2>2, <2>3, <2>4 DEF Sized
<1>. QED BY <1>3, <1>4, <1>5, <1>6

\* The commit of a transaction.
LEMMA TxCommit == ASSUME Inv, Sized, NEW s \in Sessions, CommitTx(s) PROVE Sized'
<1>1. received' \in Counts
  <2>1. \A l \in PoLines : Seen(s, l) \in Nat
    BY CountType DEF Seen
  <2>. QED BY <2>1 DEF CommitTx, Counts
<1>2. order' \in [status: OrderStatuses, value: Nat]
  <2>1. tx[s].status \in OrderStatuses \cup {"KEEP"} /\ tx[s].money \in Nat /\ order.value \in Nat
    BY DEF Sized, Txs
  <2>. QED BY <2>1 DEF CommitTx, Sized
<1>3. tx' \in [Sessions -> Txs]
  BY EndTx DEF CommitTx
<1>. QED BY <1>1, <1>2, <1>3 DEF Sized

\* The sizes are inductive.
LEMMA SizedInit == Init => Sized
BY NoLinesType, NoTxType DEF Init, Sized, OrderStatuses

\* Every step keeps the sizes.
LEMMA SizedNext == ASSUME Inv, Sized, [Next]_vars PROVE Sized'
<1>1. CASE UNCHANGED vars
  BY <1>1 DEF vars, Sized
<1>2. CASE EndOrder
  BY <1>2 DEF EndOrder, local, Sized, OrderStatuses
<1>3. ASSUME NEW s \in Sessions, Start(s) PROVE UNCHANGED <<received, order, tx>>
  BY ZenonT(60), <1>3 DEF Start, Create, Update, Receive, Inspect, Accept, Reject, Advance, Cancel,
     Remove, Post, Load, Begin, effects
<1>4. ASSUME NEW s \in Sessions, Continue(s), ~CommitTx(s),
             ~(PostOrderLines(s) \/ ReverseRead(s) \/ MoveLine(s) \/ ReadOrder(s))
      PROVE  UNCHANGED <<received, order>> /\ (UNCHANGED tx \/ End(s))
  BY <1>4 DEF Continue, InsertLine, SaveSelect, SaveWrite, ClearLines, RemoveLines, InsertNext,
     RemoveRow, EditPosted, PostLock, PostRefused, PostLines, ReverseLines, effects, local
<1>5. ASSUME NEW s \in Sessions, Fail(s) PROVE UNCHANGED <<received, order>> /\ End(s)
  BY <1>5 DEF Fail, effects
<1>6. ASSUME NEW s \in Sessions, UNCHANGED <<received, order>>, UNCHANGED tx \/ End(s)
      PROVE  Sized'
  BY <1>6, EndTx DEF Sized
<1>7. ASSUME NEW s \in Sessions, Start(s) \/ Continue(s) \/ Fail(s) PROVE Sized'
  BY <1>3, <1>4, <1>5, <1>6, <1>7, TxSteps, TxCommit
<1>. QED BY <1>1, <1>2, <1>7 DEF Next


(***************************************************************************)
(* Requests one at a time.                                                 *)
(***************************************************************************)
Alone == \A s, t \in Sessions : s # t => pc[s] = "idle" \/ pc[t] = "idle"

\* The received quantity as the transaction is to leave it.
Moved(s, l) ==
  IF op[s] = "post" THEN received[l] + todo[s][l] ELSE received[l] - todo[s][l]

\* What a transaction knows of the order's lines.
TxSound(s) ==
  /\ tx[s].wrote \subseteq Moving(s) \cap tx[s].known
  /\ \A l \in tx[s].known \ tx[s].wrote : tx[s].counts[l] = received[l]
  /\ \A l \in tx[s].wrote : tx[s].counts[l] = Moved(s, l)

\* What it knows at its end.
TxDone(s) ==
  /\ tx[s].wrote = Moving(s)
  /\ pc[s] = "commit" =>
       /\ op[s] = "cancel" => tx[s].status \in {"PARTIALLY_RECEIVED", "APPROVED"}
       /\ tx[s].status = "FULLY_RECEIVED" => \A l \in PoLines : Seen(s, l) >= Ordered[l]

\* What a request knows of its receipt at each point.
Task(s) ==
  /\ pc[s] \in {"insert", "clear", "unline", "remove", "select", "write"} =>
       receipt[doc[s]].status # "POSTED"
  /\ pc[s] \in {"select", "write"} => copy[s].status # "POSTED"
  /\ pc[s] \in {"lock", "lines", "polines"} => op[s] = "post"
  /\ pc[s] \in {"idle", "lock", "lines", "polines", "reverse"} => tx[s] = NoTx
  /\ pc[s] = "reverse" => receipt[doc[s]].status = "POSTED"
  /\ pc[s] \in {"polines", "reread", "line", "order", "commit"} => todo[s] = lines[doc[s]]
  /\ pc[s] \in {"reread", "line", "order", "commit"} =>
       /\ op[s] \in {"post", "cancel"}
       /\ op[s] = "cancel" => receipt[doc[s]].status = "POSTED"
       /\ TxSound(s)
  /\ pc[s] \in {"order", "commit"} => TxDone(s)

Book(g) ==
  \A l \in PoLines : Net(g, l) = IF receipt[g].status = "POSTED" THEN lines[g][l] ELSE 0

OrderBook ==
  /\ \A l \in PoLines : received[l] = SumFunction([g \in Receipts |-> Net(g, l)])
  /\ order.status = "FULLY_RECEIVED" => \A l \in PoLines : received[l] >= Ordered[l]

Books == (\A g \in Receipts : Book(g)) /\ OrderBook

Calm == Alone /\ (\A s \in Sessions : Task(s)) /\ Books
Serial == ~mixed => Calm

\* What a session holds stays as it is.
Kept(t) == UNCHANGED <<pc[t], tx[t]>>

\* A request that ends knows nothing any more.
LEMMA EndIs ==
  ASSUME Inv, Sized, NEW s \in Sessions, End(s)
  PROVE  pc'[s] = "idle" /\ Task(s)' /\ mixed' = mixed /\ \A t \in Sessions \ {s} : Kept(t)
<1>1. pc'[s] = "idle" /\ tx'[s] = NoTx
  BY DEF End, Goto, Inv, Types, Sized
<1>2. Task(s)'
  BY <1>1 DEF Task
<1>3. mixed' = mixed /\ \A t \in Sessions \ {s} : Kept(t)
  BY DEF End, Goto, Inv, Types, Sized, Kept
<1>. QED BY <1>1, <1>2, <1>3

\* The others are idle and stay so.
LEMMA StepCalm ==
  ASSUME Calm, NEW s \in Sessions, pc[s] # "idle", \A t \in Sessions \ {s} : Kept(t),
         Task(s)', Books'
  PROVE  Calm'
<1>1. \A t \in Sessions \ {s} : pc[t] = "idle" /\ tx[t] = NoTx
  BY DEF Calm, Alone, Task
<1>2. \A t \in Sessions \ {s} : pc'[t] = "idle" /\ tx'[t] = NoTx
  BY <1>1 DEF Kept
<1>3. \A t \in Sessions \ {s} : Task(t)'
  BY <1>2 DEF Task
<1>4. Alone'
  BY <1>2 DEF Alone
<1>. QED BY <1>3, <1>4 DEF Calm

\* The books are about the ledger, the order and the posted receipts.
LEMMA QuietBooks ==
  ASSUME Books, UNCHANGED <<ledger, received, order>>,
         \A g \in Receipts :
           /\ (receipt'[g].status = "POSTED") <=> (receipt[g].status = "POSTED")
           /\ receipt[g].status = "POSTED" => lines'[g] = lines[g]
  PROVE  Books'
<1>1. \A g \in Receipts : Book(g)'
  BY DEF Books, Book, Net
<1>2. \A l \in PoLines : [g \in Receipts |-> Net(g, l)]' = [g \in Receipts |-> Net(g, l)]
  BY DEF Net
<1>3. OrderBook'
  BY <1>2 DEF Books, OrderBook
<1>. QED BY <1>1, <1>3 DEF Books

\* A step that writes the receipt or its lines while it is not posted.
LEMMA DocBooks ==
  ASSUME Books, NEW d, UNCHANGED <<ledger, received, order>>,
         \A g \in Receipts \ {d} : receipt'[g] = receipt[g] /\ lines'[g] = lines[g],
         receipt[d].status # "POSTED", receipt'[d].status # "POSTED"
  PROVE  Books'
<1>1. ASSUME NEW g \in Receipts
      PROVE  /\ (receipt'[g].status = "POSTED") <=> (receipt[g].status = "POSTED")
             /\ receipt[g].status = "POSTED" => lines'[g] = lines[g]
  <2>1. CASE g = d
    BY <2>1
  <2>2. CASE g # d
    BY <2>2
  <2>. QED BY <2>1, <2>2
<1>. QED BY <1>1, QuietBooks

\* On to the next line, or the end.
LEMMA InsertNextTask ==
  ASSUME Inv, Sized, NEW s \in Sessions, NEW left, InsertNext(s, left),
         receipt[doc[s]].status # "POSTED", receipt' = receipt
  PROVE  Task(s)' /\ mixed' = mixed /\ \A t \in Sessions \ {s} : Kept(t)
<1>1. CASE End(s)
  BY <1>1, EndIs
<1>2. CASE Goto(s, "insert") /\ UNCHANGED <<op, doc, copy, dirty, tx, mixed>>
  <2>1. pc'[s] = "insert"
    BY <1>2 DEF Goto, Inv, Types
  <2>2. Task(s)'
    BY <1>2, <2>1 DEF Task
  <2>3. \A t \in Sessions \ {s} : Kept(t)
    BY <1>2 DEF Kept, Goto, Inv, Types
  <2>. QED BY <1>2, <2>2, <2>3
<1>. QED BY <1>1, <1>2 DEF InsertNext

\* The steps of create(), update(), remove() and of a save().
LEMMA DocSerial ==
  ASSUME Inv, Sized, Serial, NEW s \in Sessions,
         \/ InsertLine(s) \/ SaveSelect(s) \/ SaveWrite(s) \/ ClearLines(s)
         \/ RemoveLines(s) \/ RemoveRow(s) \/ EditPosted(s)
  PROVE  Serial'
<1>0. /\ pc[s] \in {"insert", "select", "write", "clear", "unline", "remove", "edit"}
      /\ UNCHANGED <<ledger, received, order>>
  BY DEF InsertLine, SaveSelect, SaveWrite, ClearLines, RemoveLines, RemoveRow, EditPosted, effects
<1>. PICK d \in Receipts : d = doc[s]
  BY <1>0 DEF Inv, Requests
<1>1. ASSUME Calm, pc[s] # "edit"
      PROVE  receipt[d].status # "POSTED" /\ Task(s) /\ Books
  BY <1>0, <1>1 DEF Calm, Task
<1>2. ASSUME mixed' = mixed, \A t \in Sessions \ {s} : Kept(t), Calm => Task(s)' /\ Books'
      PROVE  Serial'
  BY <1>0, <1>2, StepCalm DEF Serial
<1>3. CASE InsertLine(s) \/ ClearLines(s)
  <2>1. PICK left : InsertNext(s, left)
    BY <1>3 DEF InsertLine, ClearLines
  <2>2. /\ receipt' = receipt /\ pc[s] # "edit"
        /\ \A g \in Receipts \ {d} : lines'[g] = lines[g]
    BY <1>3 DEF InsertLine, ClearLines, Inv, Types
  <2>3. mixed' = mixed /\ \A t \in Sessions \ {s} : Kept(t)
    <3>1. CASE End(s)
      BY <3>1, EndIs
    <3>2. CASE Goto(s, "insert") /\ UNCHANGED <<tx, mixed>>
      BY <3>2 DEF Goto, Kept, Inv, Types
    <3>. QED BY <2>1, <3>1, <3>2 DEF InsertNext
  <2>4. Calm => Task(s)' /\ Books'
    BY <1>0, <1>1, <2>1, <2>2, InsertNextTask, DocBooks
  <2>. QED BY <1>2, <2>3, <2>4
<1>4. CASE SaveSelect(s)
  <2>1. /\ pc[s] = "select" /\ pc'[s] = "write"
        /\ UNCHANGED <<receipt, lines, copy, doc, mixed>>
        /\ \A t \in Sessions \ {s} : Kept(t)
    BY <1>4 DEF SaveSelect, Goto, document, Kept, Inv, Types
  <2>2. Calm => Task(s)' /\ Books'
    <3>1. Calm => Task(s)'
      BY <1>1, <2>1 DEF Task
    <3>2. Calm => Books'
      BY <1>0, <1>1, <2>1, QuietBooks
    <3>. QED BY <3>1, <3>2
  <2>. QED BY <1>2, <2>1, <2>2
<1>5. CASE SaveWrite(s)
  <2>. DEFINE row == [c \in Columns |-> IF c \in dirty[s] THEN copy[s][c] ELSE receipt[d][c]]
  <2>1. pc[s] = "write" /\ lines' = lines
    BY <1>5 DEF SaveWrite
  <2>2. PICK saved \in {row, receipt[d]} : receipt' = [receipt EXCEPT ![d] = saved]
    BY <1>5 DEF SaveWrite
  <2>3. receipt'[d] = saved /\ \A g \in Receipts \ {d} : receipt'[g] = receipt[g]
    BY <2>2 DEF Inv, Types
  <2>4. row["status"] \in {copy[s]["status"], receipt[d]["status"]}
    BY DEF Columns
  <2>. HIDE DEF row
  <2>5. saved["status"] \in {copy[s]["status"], receipt[d]["status"]}
    BY <2>2, <2>4
  <2>6. Calm => saved.status # "POSTED"
    <3>1. Calm => copy[s]["status"] # "POSTED" /\ receipt[d]["status"] # "POSTED"
      BY <2>1 DEF Calm, Task
    <3>. QED BY <2>5, <3>1
  <2>7. Calm => Books'
    BY <1>0, <1>1, <2>1, <2>3, <2>6, DocBooks
  <2>8. CASE End(s)
    BY <1>2, <2>7, <2>8, EndIs
  <2>9. CASE Goto(s, "clear") /\ UNCHANGED <<op, doc, tx, mixed>>
    <3>1. pc'[s] = "clear" /\ \A t \in Sessions \ {s} : Kept(t)
      BY <2>9 DEF Goto, Kept, Inv, Types
    <3>2. Calm => Task(s)'
      BY <2>3, <2>6, <2>9, <3>1 DEF Task
    <3>. QED BY <1>2, <2>7, <2>9, <3>1, <3>2
  <2>. QED BY <1>5, <2>8, <2>9 DEF SaveWrite
<1>6. CASE RemoveLines(s)
  <2>1. /\ pc[s] = "unline" /\ pc'[s] = "remove" /\ UNCHANGED <<receipt, doc, mixed>>
        /\ (\A t \in Sessions \ {s} : Kept(t)) /\ \A g \in Receipts \ {d} : lines'[g] = lines[g]
    BY <1>6 DEF RemoveLines, Goto, local, Kept, Inv, Types
  <2>2. Calm => Task(s)'
    BY <1>1, <2>1 DEF Task
  <2>3. Calm => Books'
    BY <1>0, <1>1, <2>1, DocBooks
  <2>. QED BY <1>2, <2>1, <2>2, <2>3
<1>7. CASE RemoveRow(s)
  <2>1. [NoRow EXCEPT !.status = "REMOVED"].status = "REMOVED"
    BY DEF NoRow
  <2>2. /\ pc[s] = "remove" /\ lines' = lines /\ End(s) /\ receipt'[d].status = "REMOVED"
        /\ \A g \in Receipts \ {d} : receipt'[g] = receipt[g]
    BY <1>7, <2>1 DEF RemoveRow, Inv, Types
  <2>3. Calm => Books'
    BY <1>0, <1>1, <2>2, DocBooks
  <2>. QED BY <1>2, <2>2, <2>3, EndIs
<1>8. CASE EditPosted(s)
  <2>1. End(s) /\ UNCHANGED <<receipt, lines>>
    BY <1>8 DEF EditPosted, document
  <2>2. Calm => Books'
    BY <1>0, <2>1, QuietBooks DEF Calm
  <2>. QED BY <1>2, <2>1, <2>2, EndIs
<1>. QED BY <1>3, <1>4, <1>5, <1>6, <1>7, <1>8

(***************************************************************************)
(* Posts and reversals, one request at a time.                             *)
(***************************************************************************)
\* A receipt has no more of a line on the ledger than the order counts.
LEMMA NetIs ==
  ASSUME Inv, Books, NEW g \in Receipts, NEW l \in PoLines
  PROVE  Net(g, l) \in Nat /\ Net(g, l) <= received[l]
<1>. DEFINE f == [h \in Receipts |-> Net(h, l)]
<1>1. \A h \in Receipts : lines[h][l] \in Nat
  BY DEF Inv, Types, Counts
<1>2. \A h \in Receipts : Net(h, l) \in Nat
  BY <1>1 DEF Books, Book
<1>3. f \in [Receipts -> Nat] /\ f[g] = Net(g, l)
  BY <1>2
<1>4. received[l] = SumFunction(f)
  BY DEF Books, OrderBook
<1>. HIDE DEF f
<1>5. f[g] <= SumFunction(f)
  BY <1>3, ConstantsAssumption, SumNat
<1>. QED BY <1>2, <1>3, <1>4, <1>5

\* A step of a transaction that writes nothing others see.
LEMMA TxQuiet ==
  ASSUME Inv, Sized, Serial, NEW s \in Sessions, pc[s] # "idle",
         UNCHANGED <<document, effects, mixed>>, \A t \in Sessions \ {s} : Kept(t),
         Calm => Task(s)'
  PROVE  Serial'
<1>1. Books => Books'
  BY QuietBooks DEF document, effects
<1>. QED BY <1>1, StepCalm DEF Serial, Calm

\* The transaction has read what is there, and written what it is to leave.
LEMMA SeenIs ==
  ASSUME Inv, Sized, Calm, NEW s \in Sessions, pc[s] \in {"order", "commit"}, NEW l \in PoLines
  PROVE  Seen(s, l) = Moved(s, l)
<1>1. tx[s].wrote = Moving(s) /\ TxSound(s) /\ op[s] \in {"post", "cancel"}
  BY DEF Calm, Task, TxDone
<1>2. todo[s][l] \in Nat /\ received[l] \in Nat
  BY CountType
<1>3. CASE l \in Moving(s)
  BY <1>1, <1>3 DEF TxSound, Seen
<1>4. CASE l \notin Moving(s)
  <2>1. todo[s][l] = 0
    BY <1>2, <1>4 DEF Moving
  <2>. QED BY <1>1, <1>2, <1>4, <2>1 DEF Seen, Moved
<1>. QED BY <1>3, <1>4

\* What a reversal takes off a line has been counted.
LEMMA TodoWithin ==
  ASSUME Inv, Sized, Calm, NEW s \in Sessions,
         pc[s] \in {"reread", "line", "order", "commit"}, op[s] = "cancel", NEW l \in PoLines
  PROVE  todo[s][l] <= received[l]
<1>1. /\ doc[s] \in Receipts /\ todo[s] = lines[doc[s]] /\ receipt[doc[s]].status = "POSTED"
      /\ Books
  BY DEF Calm, Task, Inv, Requests
<1>2. Net(doc[s], l) = todo[s][l]
  BY <1>1 DEF Books, Book
<1>. QED BY <1>1, <1>2, NetIs

\* The steps of post() and of a reversal up to the commit.
LEMMA PostSerial ==
  ASSUME Inv, Sized, Serial, NEW s \in Sessions,
         PostLock(s) \/ PostRefused(s) \/ PostLines(s) \/ PostOrderLines(s) \/ ReverseLines(s)
  PROVE  Serial'
<1>0. tx[s] \in Txs /\ pc \in [Sessions -> Points] /\ todo \in [Sessions -> Counts]
  BY DEF Inv, Types, Sized
<1>1. CASE PostLock(s)
  <2>1. /\ pc[s] = "lock" /\ pc'[s] = "lines" /\ UNCHANGED <<document, effects, local, mixed>>
        /\ \A t \in Sessions \ {s} : Kept(t)
    BY <1>0, <1>1 DEF PostLock, Goto, local, Kept
  <2>2. Calm => Task(s)'
    BY <2>1 DEF Calm, Task, local
  <2>. QED BY <2>1, <2>2, TxQuiet
<1>2. CASE PostRefused(s)
  <2>1. pc[s] # "idle" /\ End(s) /\ UNCHANGED <<document, effects>>
    BY <1>2 DEF PostRefused
  <2>. QED BY <2>1, EndIs, TxQuiet
<1>3. CASE PostLines(s)
  <2>1. /\ pc[s] = "lines" /\ pc'[s] = "polines" /\ todo'[s] = lines[doc[s]]
        /\ UNCHANGED <<document, effects, op, doc, copy, tx, mixed>>
        /\ \A t \in Sessions \ {s} : Kept(t)
    BY <1>0, <1>3 DEF PostLines, Goto, Kept
  <2>2. Calm => Task(s)'
    BY <2>1 DEF Calm, Task, document
  <2>. QED BY <2>1, <2>2, TxQuiet
<1>4. CASE PostOrderLines(s)
  <2>1. /\ pc[s] = "polines" /\ pc'[s] = IF Moving(s) = {} THEN "order" ELSE "line"
        /\ UNCHANGED <<document, effects, op, doc, copy, todo, mixed>>
        /\ \A t \in Sessions \ {s} : Kept(t)
    BY <1>0, <1>4 DEF PostOrderLines, Goto, Kept, Sized
  <2>2. tx' = [tx EXCEPT ![s] = [tx[s] EXCEPT !.known = PoLines, !.counts = received]]
    BY <1>4 DEF PostOrderLines
  <2>3. /\ tx'[s].known = PoLines /\ tx'[s].counts = received
        /\ tx'[s].wrote = tx[s].wrote
    BY <1>0, <2>2 DEF Sized, Txs
  <2>4. ASSUME Calm PROVE Task(s)'
    <3>1. op[s] = "post" /\ tx[s].wrote = {} /\ todo[s] = lines[doc[s]]
      BY <2>1, <2>4 DEF Calm, Task, NoTx
    <3>2. Moving(s)' = Moving(s)
      BY <2>1 DEF Moving
    <3>3. TxSound(s)'
      BY <2>1, <2>3, <3>1 DEF TxSound, effects
    <3>4. pc'[s] = "order" => TxDone(s)'
      BY <2>1, <2>3, <3>1, <3>2 DEF TxDone
    <3>. QED BY <2>1, <3>1, <3>3, <3>4 DEF Task, document
  <2>. QED BY <2>1, <2>4, TxQuiet
<1>5. CASE ReverseLines(s)
  <2>1. /\ pc[s] = "reverse" /\ todo'[s] = lines[doc[s]] /\ op[s] = "cancel"
        /\ pc'[s] = IF lines[doc[s]] = NoLines THEN "order" ELSE "reread"
        /\ UNCHANGED <<document, effects, op, doc, copy, tx, mixed>>
        /\ \A t \in Sessions \ {s} : Kept(t)
    BY <1>0, <1>5 DEF ReverseLines, Goto, Kept, Inv, Requests
  <2>2. ASSUME Calm PROVE Task(s)'
    <3>1. receipt[doc[s]].status = "POSTED" /\ tx[s].wrote = {} /\ tx[s].known = {}
      BY <2>1, <2>2 DEF Calm, Task, NoTx
    <3>2. lines[doc[s]] = NoLines => Moving(s)' = {}
      BY <2>1 DEF Moving, NoLines
    <3>3. TxSound(s)'
      BY <2>1, <3>1 DEF TxSound
    <3>4. pc'[s] = "order" => TxDone(s)'
      BY <2>1, <3>1, <3>2 DEF TxDone
    <3>. QED BY <2>1, <3>1, <3>3, <3>4 DEF Task, document
  <2>. QED BY <2>1, <2>2, TxQuiet
<1>. QED BY <1>1, <1>2, <1>3, <1>4, <1>5

\* A reversal reads a line of the order.
LEMMA RereadSerial ==
  ASSUME Inv, Sized, Serial, NEW s \in Sessions, ReverseRead(s) PROVE Serial'
<1>1. PICK l \in Moving(s) \ tx[s].known :
        tx' = [tx EXCEPT ![s] = [tx[s] EXCEPT !.known = tx[s].known \cup {l},
                                              !.counts[l] = received[l]]]
  BY DEF ReverseRead
<1>2. /\ pc[s] = "reread" /\ pc'[s] = "line"
      /\ UNCHANGED <<document, effects, op, doc, copy, todo, mixed>>
      /\ \A t \in Sessions \ {s} : Kept(t)
  BY DEF ReverseRead, Goto, Kept, Sized, Inv, Types
<1>3. tx[s] \in Txs /\ tx \in [Sessions -> Txs] /\ l \in PoLines
  BY DEF Sized, Moving
<1>4. /\ tx'[s].known = tx[s].known \cup {l} /\ tx'[s].wrote = tx[s].wrote
      /\ tx'[s].counts[l] = received[l]
      /\ \A k \in PoLines \ {l} : tx'[s].counts[k] = tx[s].counts[k]
  BY <1>1, <1>3 DEF Txs, Counts
<1>5. ASSUME Calm PROVE Task(s)'
  <2>1. /\ op[s] \in {"post", "cancel"} /\ TxSound(s) /\ todo[s] = lines[doc[s]]
        /\ op[s] = "cancel" => receipt[doc[s]].status = "POSTED"
    BY <1>2, <1>5 DEF Calm, Task
  <2>2. Moving(s)' = Moving(s) /\ \A k \in PoLines : Moved(s, k)' = Moved(s, k)
    BY <1>2 DEF Moving, Moved, effects
  <2>3. tx[s].wrote \subseteq Moving(s) \cap tx[s].known /\ tx[s].known \subseteq PoLines
    BY <1>3, <2>1 DEF TxSound, Txs
  <2>4. \A k \in tx'[s].known \ tx'[s].wrote : tx'[s].counts[k] = received'[k]
    BY <1>2, <1>4, <2>1, <2>3 DEF TxSound, effects
  <2>5. \A k \in tx'[s].wrote : tx'[s].counts[k] = Moved(s, k)'
    <3>1. \A k \in tx[s].wrote : k # l /\ k \in PoLines /\ tx[s].counts[k] = Moved(s, k)
      BY <1>1, <2>1, <2>3 DEF TxSound
    <3>. QED BY <1>4, <2>2, <3>1
  <2>6. TxSound(s)'
    BY <1>4, <2>2, <2>3, <2>4, <2>5 DEF TxSound
  <2>. QED BY <1>2, <2>1, <2>6 DEF Task, document
<1>. QED BY <1>2, <1>5, TxQuiet

\* A line moves.
LEMMA MoveSerial ==
  ASSUME Inv, Sized, Serial, NEW s \in Sessions, MoveLine(s) PROVE Serial'
<1>1. PICK l \in (Moving(s) \cap tx[s].known) \ tx[s].wrote :
        /\ tx' = [tx EXCEPT ![s] = [tx[s] EXCEPT !.wrote = tx[s].wrote \cup {l},
                                                 !.counts[l] = Count(s, l)]]
        /\ Goto(s, IF Moving(s) = tx[s].wrote \cup {l} THEN "order"
                   ELSE IF op[s] = "post" THEN "line" ELSE "reread")
  BY ZenonT(60) DEF MoveLine
<1>2. /\ pc[s] = "line" /\ UNCHANGED <<document, effects, op, doc, copy, todo, mixed>>
      /\ pc'[s] = IF Moving(s) = tx[s].wrote \cup {l} THEN "order"
                  ELSE IF op[s] = "post" THEN "line" ELSE "reread"
      /\ \A t \in Sessions \ {s} : Kept(t)
  BY <1>1 DEF MoveLine, Goto, Kept, Sized, Inv, Types
<1>3. tx[s] \in Txs /\ tx \in [Sessions -> Txs] /\ l \in PoLines
  BY DEF Sized, Moving
<1>4. /\ tx'[s].wrote = tx[s].wrote \cup {l} /\ tx'[s].known = tx[s].known
      /\ tx'[s].counts[l] = Count(s, l)
      /\ \A k \in PoLines \ {l} : tx'[s].counts[k] = tx[s].counts[k]
  BY <1>1, <1>3 DEF Txs, Counts
<1>5. ASSUME Calm PROVE Task(s)'
  <2>1. /\ op[s] \in {"post", "cancel"} /\ TxSound(s) /\ todo[s] = lines[doc[s]]
        /\ op[s] = "cancel" => receipt[doc[s]].status = "POSTED"
    BY <1>2, <1>5 DEF Calm, Task
  <2>2. Moving(s)' = Moving(s) /\ \A k \in PoLines : Moved(s, k)' = Moved(s, k)
    BY <1>2 DEF Moving, Moved, effects
  <2>3. tx[s].wrote \subseteq Moving(s) \cap tx[s].known /\ tx[s].known \subseteq PoLines
    BY <1>3, <2>1 DEF TxSound, Txs
  <2>4. \A k \in tx'[s].known \ tx'[s].wrote : tx'[s].counts[k] = received'[k]
    BY <1>2, <1>4, <2>1, <2>3 DEF TxSound, effects
  <2>5. Count(s, l) = Moved(s, l)
    <3>1. tx[s].counts[l] = received[l]
      BY <2>1 DEF TxSound
    <3>2. op[s] = "cancel" => todo[s][l] <= received[l]
      BY <1>2, <1>3, <1>5, TodoWithin
    <3>. QED BY <1>3, <2>1, <3>1, <3>2, CountType DEF Count, Moved
  <2>6. \A k \in tx'[s].wrote : tx'[s].counts[k] = Moved(s, k)'
    <3>1. \A k \in tx[s].wrote : k # l /\ k \in PoLines /\ tx[s].counts[k] = Moved(s, k)
      BY <2>1, <2>3 DEF TxSound
    <3>. QED BY <1>3, <1>4, <2>2, <2>5, <3>1
  <2>7. TxSound(s)'
    BY <1>4, <2>2, <2>3, <2>4, <2>6 DEF TxSound
  <2>8. pc'[s] = "order" => TxDone(s)'
    BY <1>2, <1>4, <2>2 DEF TxDone
  <2>. QED BY <1>2, <2>1, <2>7, <2>8 DEF Task, document
<1>. QED BY <1>2, <1>5, TxQuiet

\* The order's new status is read off the lines as the transaction sees them.
LEMMA OrderSerial ==
  ASSUME Inv, Sized, Serial, NEW s \in Sessions, ReadOrder(s) PROVE Serial'
<1>1. PICK status, money :
        /\ tx' = [tx EXCEPT ![s] = [tx[s] EXCEPT !.status = status, !.money = money]]
        /\ op[s] = "cancel" => status \in {"PARTIALLY_RECEIVED", "APPROVED"}
        /\ op[s] # "cancel" => status \in {OrderStatus(s), "KEEP"}
  BY DEF ReadOrder
<1>2. /\ pc[s] = "order" /\ pc'[s] = "commit"
      /\ UNCHANGED <<document, effects, op, doc, copy, todo, mixed>>
      /\ \A t \in Sessions \ {s} : Kept(t)
  BY DEF ReadOrder, Goto, Kept, Sized, Inv, Types
<1>3. /\ tx'[s].status = status /\ tx'[s].known = tx[s].known /\ tx'[s].wrote = tx[s].wrote
      /\ tx'[s].counts = tx[s].counts
  BY <1>1 DEF Sized, Txs
<1>4. ASSUME Calm PROVE Task(s)'
  <2>1. /\ op[s] \in {"post", "cancel"} /\ TxSound(s) /\ todo[s] = lines[doc[s]]
        /\ op[s] = "cancel" => receipt[doc[s]].status = "POSTED"
        /\ tx[s].wrote = Moving(s)
    BY <1>2, <1>4 DEF Calm, Task, TxDone
  <2>2. Moving(s)' = Moving(s) /\ \A k \in PoLines : Moved(s, k)' = Moved(s, k)
    BY <1>2 DEF Moving, Moved, effects
  <2>3. TxSound(s)'
    <3>1. tx[s].wrote \subseteq PoLines
      BY <2>1 DEF Moving
    <3>2. \A k \in tx[s].known \ tx[s].wrote : tx[s].counts[k] = received[k]
      BY <2>1 DEF TxSound
    <3>3. \A k \in tx[s].wrote : tx[s].counts[k] = Moved(s, k)
      BY <2>1 DEF TxSound
    <3>4. \A k \in tx'[s].known \ tx'[s].wrote : tx'[s].counts[k] = received'[k]
      BY <1>2, <1>3, <3>2 DEF effects
    <3>5. \A k \in tx'[s].wrote : tx'[s].counts[k] = Moved(s, k)'
      BY <1>3, <2>2, <3>1, <3>3
    <3>6. tx'[s].wrote \subseteq Moving(s)' \cap tx'[s].known
      BY <1>3, <2>1, <2>2 DEF TxSound
    <3>. QED BY <3>4, <3>5, <3>6 DEF TxSound
  <2>4. \A k \in PoLines : Seen(s, k)' = Seen(s, k)
    BY <1>2, <1>3 DEF Seen, effects
  <2>5. status = "FULLY_RECEIVED" => \A k \in PoLines : Seen(s, k) >= Ordered[k]
    BY <1>1, <2>1 DEF OrderStatus
  <2>6. TxDone(s)'
    BY <1>1, <1>2, <1>3, <2>1, <2>2, <2>4, <2>5 DEF TxDone
  <2>. QED BY <1>2, <2>1, <2>3, <2>6 DEF Task, document
<1>. QED BY <1>2, <1>4, TxQuiet

\* What the commit puts on the ledger.
LEMMA LedgerMoves ==
  ASSUME Inv, NEW s \in Sessions, CommitTx(s)
  PROVE  /\ \A h \in Receipts \ {doc[s]} : ledger'[h] = ledger[h]
         /\ \A l \in PoLines :
              /\ ledger'[doc[s]][l].in =
                   IF op[s] = "post" THEN ledger[doc[s]][l].in + todo[s][l]
                   ELSE ledger[doc[s]][l].in
              /\ ledger'[doc[s]][l].out =
                   IF op[s] = "post" THEN ledger[doc[s]][l].out
                   ELSE ledger[doc[s]][l].out + todo[s][l]
<1>. PICK g \in Receipts : g = doc[s]
  BY DEF CommitTx, Inv, Requests
<1>1. ledger \in Tables /\ ledger[g] \in [PoLines -> [in: Nat, out: Nat]]
  BY DEF Inv, Types, Tables
<1>2. CASE op[s] = "post"
  <2>1. ledger' = [ledger EXCEPT ![g] =
          [l \in PoLines |-> [ledger[g][l] EXCEPT !.in = ledger[g][l].in + todo[s][l]]]]
    BY <1>2 DEF CommitTx
  <2>. QED BY <1>1, <1>2, <2>1 DEF Tables
<1>3. CASE op[s] # "post"
  <2>1. ledger' = [ledger EXCEPT ![g] =
          [l \in PoLines |-> [ledger[g][l] EXCEPT !.out = ledger[g][l].out + todo[s][l]]]]
    BY <1>3 DEF CommitTx
  <2>. QED BY <1>1, <1>3, <2>1 DEF Tables
<1>. QED BY <1>2, <1>3

\* A commit keeps the books: it moves the ledger of one receipt, the header of that
\* receipt and the lines of the order by the same quantities.
LEMMA CommitBooks ==
  ASSUME Inv, Sized, Calm, NEW s \in Sessions, CommitTx(s) PROVE Books'
<1>. PICK g \in Receipts : g = doc[s]
  BY DEF CommitTx, Inv, Requests
<1>1. /\ pc[s] = "commit" /\ op[s] \in {"post", "cancel"} /\ todo[s] = lines[g]
      /\ op[s] = "cancel" => receipt[g].status = "POSTED"
      /\ TxDone(s) /\ Books /\ lines' = lines
  BY DEF CommitTx, Calm, Task
<1>2. op[s] = "post" => Unmarked(receipt[g])
  BY <1>1 DEF Inv, Locked, Posting, Inside
<1>3. /\ \A h \in Receipts \ {g} : receipt'[h] = receipt[h]
      /\ receipt'[g].status = IF op[s] = "post" THEN "POSTED" ELSE "CANCELLED"
  <2>1. \A h \in Receipts \ {g} : receipt'[h] = receipt[h]
    BY DEF CommitTx, Inv, Types
  <2>2. CASE op[s] = "post"
    BY <2>2 DEF CommitTx, Inv, Types
  <2>3. CASE op[s] # "post"
    <3>1. receipt[g].status = "POSTED" /\ receipt[g] \in Rows
      BY <1>1, <2>3 DEF Inv, Types
    <3>2. Present(g)
      BY <3>1 DEF Present, Absent
    <3>. QED BY <2>3, <3>1, <3>2 DEF CommitTx, Inv, Types, Rows
  <2>. QED BY <2>1, <2>2, <2>3
<1>4. \A l \in PoLines : Net(g, l) = IF op[s] = "post" THEN 0 ELSE lines[g][l]
  BY <1>1, <1>2 DEF Books, Book, Unmarked
<1>5. \A l \in PoLines : lines[g][l] \in Nat /\ Net(g, l) \in Nat
                         /\ ledger[g][l].in \in Nat /\ ledger[g][l].out \in Nat
  BY <1>1, NetIs DEF Inv, Types, Counts, Tables
<1>6. /\ \A h \in Receipts \ {g}, l \in PoLines : Net(h, l)' = Net(h, l)
      /\ \A l \in PoLines : Net(g, l)' = IF op[s] = "post" THEN lines[g][l] ELSE 0
  <2>1. \A h \in Receipts \ {g}, l \in PoLines : Net(h, l)' = Net(h, l)
    BY LedgerMoves DEF Net
  <2>2. ASSUME NEW l \in PoLines
        PROVE  Net(g, l)' = IF op[s] = "post" THEN lines[g][l] ELSE 0
    <3>1. /\ ledger'[g][l].in = IF op[s] = "post" THEN ledger[g][l].in + todo[s][l]
                                ELSE ledger[g][l].in
          /\ ledger'[g][l].out = IF op[s] = "post" THEN ledger[g][l].out
                                 ELSE ledger[g][l].out + todo[s][l]
      BY LedgerMoves
    <3>2. todo[s][l] = lines[g][l] /\ lines[g][l] \in Nat
      BY <1>1, <1>5
    <3>3. /\ ledger[g][l].in \in Nat /\ ledger[g][l].out \in Nat
          /\ ledger[g][l].in - ledger[g][l].out = IF op[s] = "post" THEN 0 ELSE lines[g][l]
      BY <1>4, <1>5 DEF Net
    <3>. QED BY <3>1, <3>2, <3>3 DEF Net
  <2>. QED BY <2>1, <2>2
<1>7. \A h \in Receipts : Book(h)'
  <2>1. Book(g)'
    BY <1>1, <1>3, <1>6 DEF Book
  <2>2. \A h \in Receipts \ {g} : Book(h)'
    BY <1>1, <1>3, <1>6 DEF Books, Book
  <2>. QED BY <2>1, <2>2
<1>8. \A l \in PoLines : received'[l] = Seen(s, l) /\ received'[l] = Moved(s, l)
  BY <1>1, SeenIs DEF CommitTx
<1>9. ASSUME NEW l \in PoLines
      PROVE  received'[l] = SumFunction([h \in Receipts |-> Net(h, l)'])
  <2>. DEFINE e == [h \in Receipts |-> Net(h, l)]  f == [h \in Receipts |-> Net(h, l)']
  <2>1. \A h \in Receipts : Net(h, l) \in Nat
    BY <1>1, NetIs
  <2>2. \A h \in Receipts : Net(h, l)' \in Nat
    BY <1>5, <1>6, <2>1
  <2>3. /\ e \in [Receipts -> Int] /\ f \in [Receipts -> Int]
        /\ e[g] = Net(g, l) /\ f[g] = Net(g, l)' /\ \A h \in Receipts \ {g} : f[h] = e[h]
    BY <1>6, <2>1, <2>2
  <2>4. received[l] = SumFunction(e) /\ received[l] \in Nat
    BY <1>1 DEF Books, OrderBook, Sized, Counts
  <2>. HIDE DEF e, f
  <2>5. SumFunction(f) = SumFunction(e) - e[g] + f[g]
    BY <2>3, ConstantsAssumption, SumChange
  <2>6. received'[l] = IF op[s] = "post" THEN received[l] + lines[g][l]
                       ELSE received[l] - lines[g][l]
    BY <1>1, <1>8 DEF Moved
  <2>7. received'[l] = SumFunction(f)
    BY <1>4, <1>5, <1>6, <2>3, <2>4, <2>5, <2>6
  <2>. QED BY <2>7 DEF f
<1>10. ASSUME order'.status = "FULLY_RECEIVED", NEW l \in PoLines PROVE received'[l] >= Ordered[l]
  <2>1. CASE tx[s].status = "KEEP"
    <3>1. op[s] = "post" /\ order.status = "FULLY_RECEIVED"
      BY <1>1, <1>10, <2>1 DEF CommitTx, TxDone
    <3>2. received[l] >= Ordered[l] /\ received[l] \in Nat /\ Ordered[l] \in Nat
      BY <1>1, <3>1, ConstantsAssumption DEF Books, OrderBook, Sized, Counts
    <3>3. received'[l] = received[l] + lines[g][l]
      BY <1>1, <1>8, <3>1 DEF Moved
    <3>. QED BY <1>5, <3>2, <3>3
  <2>2. CASE tx[s].status # "KEEP"
    <3>1. tx[s].status = "FULLY_RECEIVED"
      BY <1>10, <2>2 DEF CommitTx
    <3>. QED BY <1>1, <1>8, <3>1 DEF TxDone
  <2>. QED BY <2>1, <2>2
<1>11. OrderBook'
  BY <1>9, <1>10 DEF OrderBook
<1>. QED BY <1>7, <1>11 DEF Books

\* The commit ends the request with the books in order.
LEMMA CommitSerial ==
  ASSUME Inv, Sized, Serial, NEW s \in Sessions, CommitTx(s) PROVE Serial'
<1>1. pc[s] # "idle" /\ End(s)
  BY DEF CommitTx
<1>. QED BY <1>1, EndIs, StepCalm, CommitBooks DEF Serial

\* A request that starts while another is under way ends the calm; one that starts
\* alone finds every transaction over and the books in order.
LEMMA BeginSerial ==
  ASSUME Inv, Sized, Serial, NEW s \in Sessions, NEW o, NEW g \in Receipts, NEW row,
         NEW quantities, NEW to \in {"insert", "select", "unline", "edit", "lock", "reverse"},
         Begin(s, o, g, row, quantities, to),
         to \in {"insert", "select", "unline"} => receipt'[g].status # "POSTED",
         to = "select" => row.status # "POSTED",
         to = "lock" => o = "post",
         to = "reverse" => receipt'[g].status = "POSTED",
         lines' = lines,
         \A h \in Receipts : (receipt'[h].status = "POSTED") <=> (receipt[h].status = "POSTED")
  PROVE  Serial'
<1>. SUFFICES ASSUME ~mixed' PROVE Calm'
  BY DEF Serial
<1>1. Calm /\ \A t \in Sessions : pc[t] = "idle" /\ tx[t] = NoTx
  <2>1. ~mixed /\ \A t \in Sessions : pc[t] = "idle"
    BY DEF Begin
  <2>. QED BY <2>1 DEF Serial, Calm, Task
<1>2. /\ pc'[s] = to /\ op'[s] = o /\ doc'[s] = g /\ copy'[s] = row /\ tx' = tx
      /\ UNCHANGED <<ledger, received, order>>
      /\ \A t \in Sessions \ {s} : pc'[t] = pc[t]
  BY DEF Begin, Goto, effects, Inv, Types
<1>3. Alone'
  BY <1>1, <1>2 DEF Alone
<1>4. Task(s)'
  BY <1>1, <1>2 DEF Task
<1>5. \A t \in Sessions \ {s} : Task(t)'
  BY <1>1, <1>2 DEF Task
<1>6. Books'
  BY <1>1, <1>2, QuietBooks DEF Calm
<1>. QED BY <1>3, <1>4, <1>5, <1>6 DEF Calm

\* Every handler that starts alone reads the receipt as it is.
LEMMA StartSerial ==
  ASSUME Inv, Sized, Serial, NEW s \in Sessions, Start(s) PROVE Serial'
<1>1. PICK g \in Receipts :
        \/ \E quantities \in [PoLines -> Quantities] :
             Create(s, g, quantities) \/ Update(s, g, quantities)
        \/ Receive(s, g) \/ Inspect(s, g) \/ Accept(s, g) \/ Reject(s, g)
        \/ Cancel(s, g) \/ Remove(s, g) \/ Post(s, g)
  BY DEF Start
<1>2. receipt \in [Receipts -> Rows] /\ receipt[g] \in Rows
  BY DEF Inv, Types
<1>3. ASSUME NEW o, NEW row, NEW quantities,
             NEW to \in {"insert", "select", "unline", "edit", "lock", "reverse"},
             Load(s, o, g, row, quantities, to),
             to \in {"insert", "select", "unline"} => receipt[g].status # "POSTED",
             to = "select" => row.status # "POSTED",
             to = "lock" => o = "post",
             to = "reverse" => receipt[g].status = "POSTED"
      PROVE  Serial'
  <2>1. Begin(s, o, g, row, quantities, to) /\ receipt' = receipt /\ lines' = lines
    BY <1>3 DEF Load, document
  <2>. QED BY <1>3, <2>1, BeginSerial
<1>4. ASSUME NEW quantities, Create(s, g, quantities) PROVE Serial'
  <2>1. /\ Begin(s, "create", g, NoRow, quantities, "insert") /\ lines' = lines
        /\ receipt'[g].status = "DRAFT" /\ receipt[g].status = "NONE"
        /\ \A h \in Receipts \ {g} : receipt'[h] = receipt[h]
    BY <1>2, <1>4 DEF Create, Rows
  <2>2. \A h \in Receipts : (receipt'[h].status = "POSTED") <=> (receipt[h].status = "POSTED")
    BY <2>1
  <2>. QED BY <2>1, <2>2, BeginSerial
<1>5. ASSUME NEW quantities, Update(s, g, quantities) PROVE Serial'
  BY <1>3, <1>5 DEF Update
<1>6. ASSUME NEW o, NEW from, NEW to, from # "POSTED", to # "POSTED", Advance(s, o, g, from, to)
      PROVE  Serial'
  <2>1. [receipt[g] EXCEPT !.status = to].status = to
    BY <1>2 DEF Rows
  <2>. QED BY <1>3, <1>6, <2>1 DEF Advance
<1>7. CASE Receive(s, g) \/ Inspect(s, g) \/ Accept(s, g) \/ Reject(s, g)
  BY <1>6, <1>7 DEF Receive, Inspect, Accept, Reject
<1>8. CASE Cancel(s, g)
  <2>1. [receipt[g] EXCEPT !.status = "CANCELLED"].status = "CANCELLED"
    BY <1>2 DEF Rows
  <2>. QED BY <1>3, <1>8, <2>1 DEF Cancel
<1>9. CASE Remove(s, g)
  BY <1>3, <1>9 DEF Remove
<1>10. CASE Post(s, g)
  BY <1>3, <1>10 DEF Post
<1>. QED BY <1>1, <1>4, <1>5, <1>7, <1>8, <1>9, <1>10

\* What dies leaves the books as they are: all it wrote is undone.
LEMMA FailSerial ==
  ASSUME Inv, Sized, Serial, NEW s \in Sessions, Fail(s) PROVE Serial'
<1>1. pc[s] # "idle" /\ End(s) /\ UNCHANGED <<document, effects>>
  BY DEF Fail
<1>. QED BY <1>1, EndIs, TxQuiet

\* An order that is closed or cancelled does not read FULLY_RECEIVED.
LEMMA EndOrderSerial == ASSUME Inv, Sized, Serial, EndOrder PROVE Serial'
<1>1. /\ UNCHANGED <<receipt, lines, ledger, received, pc, op, doc, copy, todo, tx, mixed>>
      /\ order'.status # "FULLY_RECEIVED"
  BY DEF EndOrder, document, local, Sized
<1>. SUFFICES ASSUME Calm PROVE Calm'
  BY <1>1 DEF Serial
<1>2. Alone'
  BY <1>1 DEF Calm, Alone
<1>3. \A s \in Sessions : Task(s)'
  BY <1>1 DEF Calm, Task, TxSound, TxDone, Moving, Moved, Seen
<1>4. \A g \in Receipts : Book(g)'
  BY <1>1 DEF Calm, Books, Book, Net
<1>5. \A l \in PoLines : [g \in Receipts |-> Net(g, l)]' = [g \in Receipts |-> Net(g, l)]
  BY <1>1 DEF Net
<1>6. OrderBook'
  BY <1>1, <1>5 DEF Calm, Books, OrderBook
<1>. QED BY <1>2, <1>3, <1>4, <1>6 DEF Calm, Books

\* At first there is nothing to count.
LEMMA SerialInit == ASSUME Init PROVE Serial
<1>1. \A g \in Receipts, l \in PoLines : Net(g, l) = 0
  BY DEF Init, Net
<1>2. \A l \in PoLines : received[l] = SumFunction([g \in Receipts |-> Net(g, l)])
  <2>1. TAKE l \in PoLines
  <2>2. [g \in Receipts |-> Net(g, l)] = [g \in Receipts |-> 0]
    BY <1>1
  <2>. QED BY <2>2, ConstantsAssumption, SumZero DEF Init, NoLines
<1>3. Books
  BY <1>1, <1>2 DEF Init, NoRow, Books, Book, OrderBook
<1>4. Alone /\ \A s \in Sessions : Task(s)
  BY DEF Init, Alone, Task
<1>. QED BY <1>3, <1>4 DEF Serial, Calm

\* The agreement of requests one at a time is inductive.
LEMMA SerialNext == ASSUME Inv, Sized, Serial, [Next]_vars PROVE Serial'
<1>1. CASE UNCHANGED vars
  BY <1>1 DEF vars, Serial, Calm, Alone, Task, TxSound, TxDone, Moving, Moved, Seen, Books,
     Book, OrderBook, Net
<1>2. ASSUME NEW s \in Sessions, Continue(s) PROVE Serial'
  BY <1>2, DocSerial, PostSerial, RereadSerial, MoveSerial, OrderSerial, CommitSerial
  DEF Continue
<1>. QED BY <1>1, <1>2, StartSerial, FailSerial, EndOrderSerial DEF Next

\* One request at a time, whatever dies, the receipts, the ledger and the order agree.
THEOREM SerialAlways == Spec => [](Inv /\ Sized /\ Serial)
<1>1. Init => Inv /\ Sized /\ Serial
  BY InvInit, SizedInit, SerialInit
<1>2. (Inv /\ Sized /\ Serial) /\ [Next]_vars => (Inv /\ Sized /\ Serial)'
  BY InvNext, SizedNext, SerialNext
<1>. QED BY <1>1, <1>2, PTL DEF Spec

\* "the states `Inventory = POSTED` with `GRN = NOT POSTED` (or the reverse) can never
\* occur", as long as requests come one at a time: through creations, edits, posts
\* and reversals of any number of receipts, and failures at any of their steps, the
\* ledger holds the lines of a receipt while it is posted and nothing otherwise.
THEOREM HeaderTells == Spec => []LedgerFollowsHeader
<1>1. Serial => LedgerFollowsHeader
  BY DEF Serial, Calm, Books, Book, LedgerFollowsHeader
<1>. QED BY <1>1, SerialAlways, PTL

\* One request at a time, a line of the order counts as received what the receipts
\* have on the ledger, however many posts and reversals moved it, and the order reads
\* FULLY_RECEIVED only when that covers every line.
THEOREM OrderCounts == Spec => []OrderFollowsReceipts
<1>1. Serial => OrderFollowsReceipts
  BY DEF Serial, Calm, Books, OrderBook, OrderFollowsReceipts, ReceivedMatchesLedger,
     FullyReceivedMeansAll
<1>. QED BY <1>1, SerialAlways, PTL


(***************************************************************************)
(* The type of the whole state.                                            *)
(***************************************************************************)
Kinds ==
  /\ op \in [Sessions -> (UNION {Operations[s] : s \in Sessions}) \cup {"none"}]
  /\ stale \in [Sessions -> BOOLEAN]
  /\ dirty \in [Sessions -> SUBSET Columns]
  /\ mixed \in BOOLEAN

\* A post has seen that its lines fit under the bound of the ledger.
Fits(s) == \A l \in PoLines : ledger[doc[s]][l].in + todo[s][l] <= MaxPosted
Counted(s) == op[s] = "post" /\ pc[s] \in Inside \ {"lines"}
Room ==
  /\ \A g \in Receipts, l \in PoLines : ledger[g][l].in <= MaxPosted
  /\ \A s \in Sessions : Counted(s) => Fits(s)

\* Steps keep the kinds.
LEMMA KindsNext == ASSUME Kinds, [Next]_vars PROVE Kinds'
<1>1. CASE UNCHANGED vars \/ EndOrder
  BY <1>1 DEF vars, EndOrder, local, Kinds
<1>2. ASSUME NEW s \in Sessions, Start(s) PROVE Kinds'
  <2>1. PICK o \in Operations[s] :
          /\ op' = [op EXCEPT ![s] = o] /\ stale' = [stale EXCEPT ![s] = FALSE]
          /\ mixed' = (mixed \/ \E t \in Sessions : pc[t] # "idle") /\ dirty' = dirty
    BY ZenonT(60), <1>2 DEF Start, Create, Update, Receive, Inspect, Accept, Reject, Advance, Cancel,
       Remove, Post, Load, Begin
  <2>2. mixed' \in BOOLEAN /\ stale' \in [Sessions -> BOOLEAN]
    BY <2>1 DEF Kinds
  <2>. QED BY <2>1, <2>2 DEF Kinds
<1>3. ASSUME NEW s \in Sessions, End(s), stale' \in [Sessions -> BOOLEAN] PROVE Kinds'
  BY <1>3 DEF End, Kinds
<1>4. ASSUME UNCHANGED <<op, dirty, mixed>>, stale' \in [Sessions -> BOOLEAN] PROVE Kinds'
  BY <1>4 DEF Kinds
<1>5. ASSUME NEW s \in Sessions, InsertLine(s) PROVE Kinds'
  <2>1. stale' \in [Sessions -> BOOLEAN]
    BY <1>5 DEF InsertLine
  <2>. QED BY <1>3, <1>4, <1>5, <2>1 DEF InsertLine, InsertNext
<1>6. ASSUME NEW s \in Sessions, SaveSelect(s) PROVE Kinds'
  BY <1>6 DEF SaveSelect, Kinds
<1>7. ASSUME NEW s \in Sessions, SaveWrite(s) \/ ClearLines(s) PROVE Kinds'
  BY <1>3, <1>4, <1>7 DEF SaveWrite, ClearLines, InsertNext, Kinds
<1>8. ASSUME NEW s \in Sessions,
             RemoveLines(s) \/ PostLock(s) \/ PostLines(s) \/ PostOrderLines(s) \/ ReverseLines(s)
               \/ ReverseRead(s) \/ MoveLine(s) \/ ReadOrder(s)
      PROVE  Kinds'
  BY <1>4, <1>8 DEF RemoveLines, PostLock, PostLines, PostOrderLines, ReverseLines, ReverseRead,
     MoveLine, ReadOrder, local, Kinds
<1>9. ASSUME NEW s \in Sessions,
             RemoveRow(s) \/ EditPosted(s) \/ PostRefused(s) \/ CommitTx(s) \/ Fail(s)
      PROVE  Kinds'
  BY <1>3, <1>9 DEF RemoveRow, EditPosted, PostRefused, CommitTx, Fail, Kinds
<1>. QED BY <1>1, <1>2, <1>5, <1>6, <1>7, <1>8, <1>9 DEF Next, Continue

\* A step of a session that leaves the ledger alone.
LEMMA StepRoom ==
  ASSUME Inv, Room, NEW s \in Sessions, ledger' = ledger,
         \A t \in Sessions \ {s} : UNCHANGED <<pc[t], op[t], doc[t], todo[t]>>,
         Counted(s)' => Fits(s)'
  PROVE  Room'
BY DEF Room, Counted, Fits

\* A session that has ended or is about to read counts nothing.
LEMMA EndRoom ==
  ASSUME Inv, Room, NEW s \in Sessions, ledger' = ledger, End(s) PROVE Room'
<1>1. pc'[s] = "idle" /\ \A t \in Sessions \ {s} : UNCHANGED <<pc[t], op[t], doc[t], todo[t]>>
  BY DEF End, Goto, Inv, Types
<1>. QED BY <1>1, StepRoom DEF Counted, Inside

\* A commit puts on the ledger what fits, and other posts hold other receipts.
LEMMA CommitRoom == ASSUME Inv, Room, NEW s \in Sessions, CommitTx(s) PROVE Room'
<1> DEFINE g == doc[s]
           way == IF op[s] = "post" THEN "in" ELSE "out"
<1>1. g \in Receipts /\ ledger \in Tables /\ todo[s] \in Counts
  BY DEF CommitTx, Inv, Requests, Types
<1>2. /\ pc'[s] = "idle"
      /\ \A t \in Sessions \ {s} : UNCHANGED <<pc[t], op[t], doc[t], todo[t]>>
  BY DEF CommitTx, End, Goto, Inv, Types
<1>3. ledger' = [ledger EXCEPT ![g] =
        [l \in PoLines |-> [ledger[g][l] EXCEPT ![way] = ledger[g][l][way] + todo[s][l]]]]
  BY Zenon DEF CommitTx
<1>4. \A h \in Receipts \ {g} : ledger'[h] = ledger[h]
  BY <1>3 DEF Tables
<1>5. ASSUME NEW l \in PoLines PROVE ledger'[g][l].in <= MaxPosted
  <2>1. ledger'[g][l] = [ledger[g][l] EXCEPT ![way] = ledger[g][l][way] + todo[s][l]]
    BY <1>1, <1>3 DEF Tables
  <2>2. ledger[g][l] \in [in: Nat, out: Nat]
    BY <1>1 DEF Tables
  <2>3. CASE op[s] = "post"
    <3>1. Counted(s)
      BY <2>3 DEF CommitTx, Counted, Inside
    <3>2. ledger[g][l].in + todo[s][l] <= MaxPosted
      BY <3>1 DEF Room, Fits
    <3>. QED BY <2>1, <2>2, <2>3, <3>2
  <2>4. CASE op[s] # "post"
    <3>1. ledger'[g][l].in = ledger[g][l].in
      BY <2>1, <2>2, <2>4
    <3>. QED BY <1>1, <3>1 DEF Room
  <2>. QED BY <2>3, <2>4
<1>6. ASSUME NEW t \in Sessions, Counted(t)' PROVE Fits(t)'
  <2>1. t # s /\ Counted(t)
    BY <1>2, <1>6 DEF Counted, Inside
  <2>2. doc[t] \in Receipts \ {g}
    BY <1>1, <2>1, ConstantsAssumption DEF Counted, CommitTx, Inv, Requests, Locked, Posting, Inside
  <2>. QED BY <1>2, <1>4, <2>1, <2>2 DEF Room, Fits
<1>. QED BY <1>4, <1>5, <1>6 DEF Room

\* The other steps.
LEMMA RoomNext == ASSUME Inv, Room, [Next]_vars PROVE Room'
<1>1. CASE UNCHANGED vars \/ EndOrder
  <2>1. UNCHANGED <<ledger, pc, op, doc, todo>>
    BY <1>1 DEF vars, EndOrder, local
  <2>. QED BY <2>1 DEF Room, Counted, Fits
<1>2. ASSUME NEW s \in Sessions, NEW to \in Points, Goto(s, to), UNCHANGED <<ledger, op, doc>>,
             \A t \in Sessions \ {s} : todo'[t] = todo[t],
             Counted(s)' => Fits(s)'
      PROVE  Room'
  <2>1. \A t \in Sessions \ {s} : UNCHANGED <<pc[t], op[t], doc[t], todo[t]>>
    BY <1>2 DEF Goto, Inv, Types
  <2>. QED BY <1>2, <2>1, StepRoom
<1>3. ASSUME NEW s \in Sessions, NEW to \in Points, Goto(s, to),
             to \notin Inside \ {"lines"} \/ op[s] # "post" \/ (Counted(s) /\ todo' = todo),
             UNCHANGED <<ledger, op, doc>>, \A t \in Sessions \ {s} : todo'[t] = todo[t]
      PROVE  Room'
  <2>1. pc'[s] = to
    BY <1>3 DEF Goto, Inv, Types
  <2>2. Counted(s)' => Fits(s)'
    BY <1>3, <2>1 DEF Counted, Fits, Room
  <2>. QED BY <1>2, <1>3, <2>2
<1>4. ASSUME NEW s \in Sessions, Start(s) PROVE Room'
  <2>1. ASSUME NEW o, NEW g, NEW row, NEW quantities,
               NEW to \in {"insert", "select", "reverse", "edit", "unline", "lock"},
               Begin(s, o, g, row, quantities, to)
        PROVE  Room'
    <3>1. /\ pc'[s] = to /\ ledger' = ledger
          /\ \A t \in Sessions \ {s} : UNCHANGED <<pc[t], op[t], doc[t], todo[t]>>
      BY <2>1 DEF Begin, Goto, effects, Inv, Types
    <3>2. to \notin Inside
      BY DEF Inside
    <3>. QED BY <3>1, <3>2, StepRoom DEF Counted
  <2>. QED BY <1>4, <2>1 DEF Start, Create, Update, Receive, Inspect, Accept, Reject, Advance,
                             Cancel, Remove, Post, Load
<1>5. ASSUME NEW s \in Sessions, NEW left, InsertNext(s, left), ledger' = ledger PROVE Room'
  <2>1. CASE /\ Goto(s, "insert") /\ todo' = [todo EXCEPT ![s] = left] /\ UNCHANGED <<op, doc>>
    BY <1>3, <1>5, <2>1 DEF Inv, Types, Points, Inside
  <2>. QED BY <1>5, <2>1, EndRoom DEF InsertNext
<1>6. ASSUME NEW s \in Sessions, InsertLine(s) \/ ClearLines(s) PROVE Room'
  BY <1>5, <1>6 DEF InsertLine, ClearLines, effects
<1>7. ASSUME NEW s \in Sessions,
             SaveSelect(s) \/ SaveWrite(s) \/ RemoveLines(s) \/ PostLock(s)
      PROVE  Room'
  BY <1>3, <1>7, EndRoom DEF SaveSelect, SaveWrite, RemoveLines, PostLock, local, effects,
     Points, Inside
<1>8. ASSUME NEW s \in Sessions,
             \/ RemoveRow(s) \/ EditPosted(s) \/ PostRefused(s) \/ Fail(s)
      PROVE  Room'
  BY <1>8, EndRoom DEF RemoveRow, EditPosted, PostRefused, Fail, effects
<1>9. ASSUME NEW s \in Sessions, PostLines(s) PROVE Room'
  <2>1. /\ Goto(s, "polines") /\ UNCHANGED <<ledger, op, doc>>
        /\ todo' = [todo EXCEPT ![s] = lines[doc[s]]]
        /\ \A l \in PoLines : ledger[doc[s]][l].in + lines[doc[s]][l] <= MaxPosted
    BY <1>9 DEF PostLines, effects
  <2>2. todo'[s] = lines[doc[s]] /\ \A t \in Sessions \ {s} : todo'[t] = todo[t]
    BY <2>1 DEF Inv, Types
  <2>3. Fits(s)'
    BY <2>1, <2>2 DEF Fits
  <2>. QED BY <1>2, <2>1, <2>2, <2>3 DEF Points
<1>10. ASSUME NEW s \in Sessions, ReverseLines(s) PROVE Room'
  <2>1. /\ \E to \in {"order", "reread"} : Goto(s, to) /\ UNCHANGED <<ledger, op, doc>>
        /\ todo' = [todo EXCEPT ![s] = lines[doc[s]]] /\ op[s] = "cancel"
    BY <1>10 DEF ReverseLines, effects, Inv, Requests
  <2>. QED BY <1>3, <2>1 DEF Points, Inv, Types
<1>11. ASSUME NEW s \in Sessions,
              PostOrderLines(s) \/ ReverseRead(s) \/ MoveLine(s) \/ ReadOrder(s)
       PROVE  Room'
  <2>1. /\ pc[s] \in Inside \ {"lines"} /\ UNCHANGED <<ledger, op, doc, todo>>
        /\ \E to \in {"order", "line", "reread", "commit"} : Goto(s, to)
    BY <1>11 DEF PostOrderLines, ReverseRead, MoveLine, ReadOrder, effects, Inside
  <2>. QED BY <1>3, <2>1 DEF Points, Counted
<1>. QED BY <1>1, <1>4, <1>6, <1>7, <1>8, <1>9, <1>10, <1>11, CommitRoom DEF Next, Continue

\* Rows, ledger, order and what requests hold keep their types, for any number of
\* requests, receipts and order lines; a post's transaction ends with what it saw fit.
THEOREM TypesAlways == Spec => []TypeOK
<1>1. Init => Inv /\ Sized /\ Kinds /\ Room
  <2>1. Init => Kinds
    BY DEF Init, Kinds
  <2>2. Init => Room
    BY ConstantsAssumption DEF Init, Room, Counted
  <2>. QED BY <2>1, <2>2, InvInit, SizedInit
<1>2. Inv /\ Sized /\ Kinds /\ Room /\ [Next]_vars => (Inv /\ Sized /\ Kinds /\ Room)'
  BY InvNext, SizedNext, KindsNext, RoomNext
<1>3. ASSUME Inv, Sized, Kinds, Room PROVE TypeOK
  <2>1. ledger \in [Receipts -> [PoLines -> [in: 0..MaxPosted, out: Nat]]]
    <3>1. ASSUME NEW g \in Receipts, NEW l \in PoLines
          PROVE  ledger[g][l] \in [in: 0..MaxPosted, out: Nat]
      <4>1. ledger[g][l] \in [in: Nat, out: Nat] /\ ledger[g][l].in <= MaxPosted
        BY <1>3 DEF Inv, Types, Tables, Room
      <4>. QED BY <4>1, ConstantsAssumption
    <3>2. ledger \in [Receipts -> [PoLines -> [in: Nat, out: Nat]]]
      BY <1>3 DEF Inv, Types, Tables
    <3>. QED BY <3>1, <3>2
  <2>2. doc \in [Sessions -> Receipts]
    <3>1. Nobody \in Receipts
      BY ConstantsAssumption DEF Nobody
    <3>. QED BY <1>3, <3>1 DEF Inv, Types
  <2>. QED BY <1>3, <2>1, <2>2 DEF TypeOK, Inv, Types, Sized, Kinds, Rows, Counts, Txs, Points
<1>. QED BY <1>1, <1>2, <1>3, PTL DEF Spec
=================================================================================

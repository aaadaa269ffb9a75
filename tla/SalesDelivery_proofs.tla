--------------------------- MODULE SalesDelivery_proofs --------------------------
(***************************************************************************)
(* What SalesDelivery promises for any number of requests, deliveries,     *)
(* items and quantities. However requests interleave and wherever they     *)
(* die, a delivery reads CONFIRMED only with something on the ledger       *)
(* (Flow), and the ledger covers what is gone from stock and what each     *)
(* request has on the ledger but not yet taken (Covered, a sum over the    *)
(* requests). Requests one at a time, also those that are refused or die   *)
(* half-way, deduct and bill a delivery once: whoever runs knows the       *)
(* delivery it has read (Task), and between requests the books agree       *)
(* (Book, OrderBook). Those that all run through also leave ledger, stock  *)
(* and shipped quantities in agreement with the deliveries (Account).      *)
(***************************************************************************)
EXTENDS SalesDelivery, SumTheorems

Points == {"idle", "line", "select", "write", "clear", "lines", "header", "confirm", "read",
           "check", "ledger", "deduct", "mark", "ship", "shipped", "items", "order", "invoice"}
Names == (UNION {Operations[s] : s \in Sessions}) \cup {"none"}
Rows == [status: Statuses \cup {"NONE"}, deleted: BOOLEAN, total: Nat]
Amounts == [Items -> Nat]
Reads == [shipped: Nat, order: {"keep", "Processing", "Delivered"}]
Troubles == [overlap: BOOLEAN, failures: 0..MaxFailures, refused: BOOLEAN]

SharedTypes ==
  /\ delivery \in [Deliveries -> Rows]
  /\ lines \in [Deliveries -> Amounts]
  /\ ledger \in [Deliveries -> Amounts]
  /\ onHand \in Amounts
  /\ shipped \in Amounts
  /\ order \in OrderStatuses
  /\ billed \subseteq Nat
  /\ invoices \in [Deliveries -> Nat]
  /\ trouble \in Troubles

RequestTypes ==
  /\ pc \in [Sessions -> Points]
  /\ op \in [Sessions -> Names]
  /\ doc \in [Sessions -> Deliveries]
  /\ copy \in [Sessions -> Rows]
  /\ dirty \in [Sessions -> SUBSET Columns]
  /\ want \in [Sessions -> Amounts]
  /\ left \in [Sessions -> SUBSET Items]
  /\ item \in [Sessions -> Items]
  /\ read \in [Sessions -> Reads]

Types == SharedTypes /\ RequestTypes /\ stale \in [Sessions -> BOOLEAN]

\* The invariant in parts: what requests share, what each holds, and stale.
LEMMA TypesAreTypeOK == Types <=> TypeOK
BY DEF Types, SharedTypes, RequestTypes, TypeOK, Points, Names, Rows, Amounts, Reads, Troubles

(***************************************************************************)
(* Typing.                                                                 *)
(***************************************************************************)
\* The values a request starts from and ends with.
LEMMA Defaults ==
  /\ NoRow \in Rows /\ NoLines \in Amounts /\ NoRead \in Reads /\ "none" \in Names
  /\ (CHOOSE d \in Deliveries : TRUE) \in Deliveries
  /\ (CHOOSE i \in Items : TRUE) \in Items
<1>1. NoRow \in Rows /\ NoRead \in Reads
  BY DEF NoRow, Rows, NoRead, Reads
<1>3. NoLines \in Amounts
  BY DEF NoLines, Amounts
<1>2. "none" \in Names
  BY DEF Names
<1>. QED BY <1>1, <1>2, <1>3, ConstantsAssumption

\* The types hold at first.
LEMMA TypesInit == Init => Types
<1>. SUFFICES ASSUME Init PROVE Types
  OBVIOUS
<1>1. SharedTypes
  <2>1. trouble \in Troubles /\ Opening \in Amounts
    BY ConstantsAssumption DEF Init, Troubles, Amounts
  <2>. QED BY <2>1, Defaults DEF Init, SharedTypes, OrderStatuses
<1>2. RequestTypes /\ stale \in [Sessions -> BOOLEAN]
  BY Defaults DEF Init, RequestTypes, Points
<1>. QED BY <1>1, <1>2 DEF Types

\* A request that ends leaves its variables at the values they started from.
LEMMA EndTypes ==
  ASSUME Types, NEW s \in Sessions, NEW t \in Troubles, EndWith(s, t)
  PROVE  RequestTypes' /\ trouble' \in Troubles
<1>1. pc' \in [Sessions -> Points]
  BY DEF Types, RequestTypes, EndWith, Goto, Points
<1>2. op' \in [Sessions -> Names]
  BY Defaults DEF Types, RequestTypes, EndWith
<1>3. /\ doc' \in [Sessions -> Deliveries] /\ copy' \in [Sessions -> Rows]
      /\ dirty' \in [Sessions -> SUBSET Columns] /\ want' \in [Sessions -> Amounts]
  BY Defaults DEF Types, RequestTypes, EndWith
<1>4. /\ left' \in [Sessions -> SUBSET Items] /\ item' \in [Sessions -> Items]
      /\ read' \in [Sessions -> Reads]
  BY Defaults DEF Types, RequestTypes, EndWith
<1>. QED BY <1>1, <1>2, <1>3, <1>4 DEF EndWith, RequestTypes

\* What a step may do to the history of trouble.
LEMMA TroubleTypes ==
  ASSUME Types
  PROVE  /\ trouble \in Troubles
         /\ \A b \in BOOLEAN : [trouble EXCEPT !.overlap = b] \in Troubles
         /\ [trouble EXCEPT !.refused = TRUE] \in Troubles
         /\ trouble.failures < MaxFailures => [trouble EXCEPT !.failures = @ + 1] \in Troubles
<1>1. trouble \in Troubles /\ MaxFailures \in Nat
  BY ConstantsAssumption DEF Types, SharedTypes
<1>2. /\ \A b \in BOOLEAN : [trouble EXCEPT !.overlap = b] \in Troubles
      /\ [trouble EXCEPT !.refused = TRUE] \in Troubles
  BY <1>1 DEF Troubles
<1>3. trouble.failures < MaxFailures => trouble.failures + 1 \in 0..MaxFailures
  BY <1>1 DEF Troubles
<1>4. trouble.failures < MaxFailures => [trouble EXCEPT !.failures = @ + 1] \in Troubles
  BY <1>1, <1>3 DEF Troubles
<1>. QED BY <1>1, <1>2, <1>4

\* The start of a handler.
LEMMA BeginTypes ==
  ASSUME Types, NEW s \in Sessions, NEW o, NEW d \in Deliveries, NEW row \in Rows,
         NEW quantities \in Amounts, NEW to \in Points, Begin(s, o, d, row, quantities, to),
         delivery' \in [Deliveries -> Rows], lines' \in [Deliveries -> Amounts]
  PROVE  Types'
<1>1. trouble' \in Troubles
  <2>1. trouble' = [trouble EXCEPT !.overlap = trouble.overlap \/ \E t \in Sessions : pc[t] # "idle"]
    BY DEF Begin
  <2>2. (trouble.overlap \/ \E t \in Sessions : pc[t] # "idle") \in BOOLEAN
    OBVIOUS
  <2>. QED BY <2>1, <2>2, TroubleTypes
<1>2. pc' \in [Sessions -> Points] /\ doc' \in [Sessions -> Deliveries]
  BY DEF Begin, Goto, Types, RequestTypes
<1>3. op' \in [Sessions -> Names]
  <2>1. o \in Names
    BY DEF Begin, Names
  <2>. QED BY <2>1 DEF Begin, Types, RequestTypes
<1>4. copy' \in [Sessions -> Rows] /\ want' \in [Sessions -> Amounts]
  BY DEF Begin, Types, RequestTypes
<1>5. left' \in [Sessions -> SUBSET Items] /\ stale' \in [Sessions -> BOOLEAN]
  BY DEF Begin, ItemsOf, Types, RequestTypes
<1>. QED BY <1>1, <1>2, <1>3, <1>4, <1>5 DEF Begin, stock, sales, Types, SharedTypes, RequestTypes

\* Every handler starts from rows and quantities.
LEMMA StartTypes == ASSUME Types, NEW s \in Sessions, Start(s) PROVE Types'
<1>1. PICK d \in Deliveries :
        \/ \E quantities \in [Items -> Quantities] :
             Create(s, d, quantities) \/ Update(s, d, quantities)
        \/ Ship(s, d) \/ Deliver(s, d) \/ Confirm(s, d) \/ Cancel(s, d) \/ Remove(s, d)
        \/ Convert(s, d)
  BY DEF Start
<1>2. /\ delivery \in [Deliveries -> Rows] /\ lines \in [Deliveries -> Amounts]
      /\ delivery[d] \in Rows /\ Quantities \subseteq Nat
  BY ConstantsAssumption DEF Types, SharedTypes
<1>3. /\ \A status \in Statuses : [delivery[d] EXCEPT !.status = status] \in Rows
      /\ [delivery[d] EXCEPT !.deleted = TRUE] \in Rows
      /\ [NoRow EXCEPT !.status = "DRAFT"] \in Rows
  BY <1>2 DEF Rows, NoRow, Statuses
<1>4. ASSUME NEW o, NEW row \in Rows, NEW quantities \in Amounts, NEW to \in Points,
             Load(s, o, d, row, quantities, to)
      PROVE  Types'
  BY <1>2, <1>4, BeginTypes DEF Load, document
<1>5. ASSUME NEW quantities \in [Items -> Quantities], Create(s, d, quantities) PROVE Types'
  <2>1. delivery' \in [Deliveries -> Rows]
    BY <1>2, <1>3, <1>5 DEF Create, Rows
  <2>2. quantities \in Amounts
    BY <1>2 DEF Amounts
  <2>3. Begin(s, "create", d, [NoRow EXCEPT !.status = "DRAFT"], quantities, "line") /\ lines' = lines
    BY <1>5 DEF Create
  <2>. QED BY <1>2, <1>3, <2>1, <2>2, <2>3, BeginTypes DEF Points
<1>6. ASSUME NEW quantities \in [Items -> Quantities], Update(s, d, quantities) PROVE Types'
  <2>1. quantities \in Amounts
    BY <1>2 DEF Amounts
  <2>. QED BY <1>2, <1>4, <1>6, <2>1 DEF Update, Points
<1>7. CASE Ship(s, d) \/ Deliver(s, d) \/ Cancel(s, d) \/ Remove(s, d)
  BY <1>3, <1>4, <1>7, Defaults DEF Ship, Deliver, Cancel, Remove, Points, Statuses
<1>8. CASE Confirm(s, d) \/ Convert(s, d)
  BY <1>2, <1>4, <1>8, Defaults DEF Confirm, Convert, Points
<1>. QED BY <1>1, <1>5, <1>6, <1>7, <1>8

\* A request ends with the last thing it writes.
LEMMA StopTypes ==
  ASSUME Types, NEW s \in Sessions, UNCHANGED stale, NEW t \in Troubles, EndWith(s, t),
         delivery' \in [Deliveries -> Rows], order' \in OrderStatuses, billed' \subseteq Nat,
         invoices' \in [Deliveries -> Nat], UNCHANGED <<lines, ledger, onHand, shipped>>
  PROVE  Types'
<1>1. RequestTypes' /\ trouble' \in Troubles
  BY EndTypes
<1>. QED BY <1>1 DEF Types, SharedTypes

\* A total adds the quantities of the lines.
LEMMA TotalNat == ASSUME NEW quantities \in Amounts PROVE SumFunction(quantities) \in Nat
BY ConstantsAssumption, SumNat DEF Amounts

\* The steps that write the delivery and its lines.
LEMMA DocumentTypes ==
  ASSUME Types, NEW s \in Sessions,
         \/ InsertLine(s) \/ SaveSelect(s) \/ SaveWrite(s)
         \/ ClearLines(s) \/ InsertLines(s) \/ WriteHeader(s)
  PROVE  Types'
<1>. DEFINE d == doc[s]
<1>0. /\ d \in Deliveries /\ copy[s] \in Rows /\ delivery[d] \in Rows /\ want[s] \in Amounts
      /\ lines[d] \in Amounts /\ delivery \in [Deliveries -> Rows] /\ left[s] \subseteq Items
      /\ trouble \in Troubles
  BY DEF Types, SharedTypes, RequestTypes
<1>. USE DEF Goto
<1>1. Outdate(s) => stale' \in [Sessions -> BOOLEAN]
  BY DEF Outdate, Types
<1>2. CASE InsertLine(s)
  <2>1. PICK i \in left[s] :
          /\ lines' = [lines EXCEPT ![d][i] = @ + want[s][i]]
          /\ left' = [left EXCEPT ![s] = @ \ {i}]
          /\ Goto(s, IF left[s] = {i} THEN "select" ELSE "line")
    BY <1>2 DEF InsertLine
  <2>2. lines' \in [Deliveries -> Amounts]
    <3>1. lines[d][i] \in Nat /\ want[s][i] \in Nat /\ i \in Items
      BY <1>0 DEF Amounts
    <3>. QED BY <1>0, <2>1, <3>1 DEF Types, SharedTypes, Amounts
  <2>3. copy' \in [Sessions -> Rows]
    <3>1. [copy[s] EXCEPT !.total = SumFunction(want[s])] \in Rows
      BY <1>0, TotalNat DEF Rows
    <3>. QED BY <1>2, <3>1 DEF InsertLine, Types, RequestTypes
  <2>4. left' \in [Sessions -> SUBSET Items] /\ pc' \in [Sessions -> Points]
    BY <2>1 DEF Types, RequestTypes, Points
  <2>. QED BY <1>1, <1>2, <2>2, <2>3, <2>4
           DEF InsertLine, stock, sales, Types, SharedTypes, RequestTypes
<1>3. CASE SaveSelect(s)
  BY <1>3 DEF SaveSelect, document, stock, sales, Types, SharedTypes, RequestTypes, Points
<1>4. CASE SaveWrite(s)
  <2>1. [c \in Columns |-> IF c \in dirty[s] THEN copy[s][c] ELSE delivery[d][c]] \in Rows
    BY <1>0 DEF Rows, Columns
  <2>2. delivery' \in [Deliveries -> Rows]
    BY <1>0, <1>4, <2>1 DEF SaveWrite
  <2>3. CASE End(s)
    BY <1>0, <1>4, <2>2, <2>3, StopTypes DEF SaveWrite, End, stock, sales, Types, SharedTypes
  <2>4. CASE ~End(s)
    BY <1>4, <2>2, <2>4
    DEF SaveWrite, local, stock, sales, Types, SharedTypes, RequestTypes, Points
  <2>. QED BY <2>3, <2>4
<1>5. CASE ClearLines(s)
  <2>1. lines' \in [Deliveries -> Amounts]
    BY <1>5, Defaults DEF ClearLines, Types, SharedTypes
  <2>. QED BY <1>5, <2>1
           DEF ClearLines, local, stock, sales, Types, SharedTypes, RequestTypes, Points
<1>6. CASE InsertLines(s)
  <2>1. [i \in Items |-> lines[d][i] + want[s][i]] \in Amounts
    BY <1>0 DEF Amounts
  <2>2. lines' \in [Deliveries -> Amounts]
    BY <1>6, <2>1 DEF InsertLines, Types, SharedTypes
  <2>. QED BY <1>1, <1>6, <2>2
           DEF InsertLines, local, stock, sales, Types, SharedTypes, RequestTypes, Points
<1>7. CASE WriteHeader(s)
  <2>1. [delivery[d] EXCEPT !.total = SumFunction(want[s])] \in Rows
    BY <1>0, TotalNat DEF Rows
  <2>2. delivery' \in [Deliveries -> Rows]
    BY <1>0, <1>7, <2>1 DEF WriteHeader
  <2>. QED BY <1>0, <1>7, <2>2, StopTypes DEF WriteHeader, End, stock, sales, Types, SharedTypes
<1>. QED BY <1>2, <1>3, <1>4, <1>5, <1>6, <1>7

\* confirm(), from the load of the lines to the status.
LEMMA StockTypes ==
  ASSUME Types, NEW s \in Sessions,
         \/ ConfirmDelivered(s) \/ ReadLines(s) \/ CheckLedger(s) \/ LedgerRow(s)
         \/ Deduct(s) \/ DeductRefused(s) \/ Mark(s)
  PROVE  Types'
<1>. DEFINE d == doc[s]
<1>0. /\ d \in Deliveries /\ delivery[d] \in Rows /\ want[s] \in Amounts
      /\ lines[d] \in Amounts /\ delivery \in [Deliveries -> Rows] /\ left[s] \subseteq Items
      /\ item[s] \in Items /\ onHand \in Amounts /\ order \in OrderStatuses /\ billed \subseteq Nat
      /\ invoices \in [Deliveries -> Nat]
  BY DEF Types, SharedTypes, RequestTypes
<1>. USE DEF Goto
<1>1. ASSUME Refuse(s), UNCHANGED <<document, stock, sales, stale>> PROVE Types'
  BY <1>0, <1>1, TroubleTypes, StopTypes DEF Refuse, document, stock, sales
<1>2. CASE ConfirmDelivered(s) \/ CheckLedger(s)
  BY <1>1, <1>2
  DEF ConfirmDelivered, CheckLedger, local, document, stock, sales, Types, SharedTypes,
      RequestTypes, Points
<1>3. CASE ReadLines(s)
  <2>1. CASE Refuse(s)
    BY <1>1, <1>3, <2>1 DEF ReadLines
  <2>2. CASE ~Refuse(s)
    <3>1. /\ want' = [want EXCEPT ![s] = lines[d]]
          /\ left' = [left EXCEPT ![s] = ItemsOf(lines[d])]
          /\ ItemsOf(lines[d]) \subseteq Items
      BY <1>3, <2>2 DEF ReadLines, ItemsOf
    <3>2. want' \in [Sessions -> Amounts] /\ left' \in [Sessions -> SUBSET Items]
      BY <1>0, <3>1 DEF Types, RequestTypes
    <3>. QED BY <1>3, <2>2, <3>2
             DEF ReadLines, document, stock, sales, Types, SharedTypes, RequestTypes, Points
  <2>. QED BY <2>1, <2>2
<1>4. CASE LedgerRow(s)
  <2>1. PICK i \in left[s] :
          /\ ledger' = [ledger EXCEPT ![d][i] = @ + want[s][i]]
          /\ item' = [item EXCEPT ![s] = i]
    BY <1>4 DEF LedgerRow
  <2>2. ledger' \in [Deliveries -> Amounts]
    <3>1. ledger[d][i] \in Nat /\ want[s][i] \in Nat /\ i \in Items
      BY <1>0 DEF Amounts, Types, SharedTypes
    <3>. QED BY <1>0, <2>1, <3>1 DEF Types, SharedTypes, Amounts
  <2>3. item' \in [Sessions -> Items]
    BY <1>0, <2>1 DEF Types, RequestTypes
  <2>. QED BY <1>4, <2>2, <2>3
           DEF LedgerRow, document, sales, Types, SharedTypes, RequestTypes, Points
<1>5. CASE Deduct(s)
  <2>1. onHand' \in Amounts
    BY <1>0, <1>5 DEF Deduct, Amounts
  <2>. QED BY <1>5, <2>1 DEF Deduct, document, sales, Types, SharedTypes, RequestTypes, Points
<1>6. CASE DeductRefused(s)
  BY <1>1, <1>6 DEF DeductRefused
<1>7. CASE Mark(s)
  <2>1. [delivery[d] EXCEPT !.status = "CONFIRMED"] \in Rows
    BY <1>0 DEF Rows, Statuses
  <2>2. delivery' \in [Deliveries -> Rows]
    BY <1>0, <1>7, <2>1 DEF Mark
  <2>3. left' \in [Sessions -> SUBSET Items]
    BY <1>7 DEF Mark, ItemsOf, Types, RequestTypes
  <2>. QED BY <1>7, <2>2, <2>3 DEF Mark, stock, sales, Types, SharedTypes, RequestTypes, Points
<1>. QED BY <1>2, <1>3, <1>4, <1>5, <1>6, <1>7

\* The order's part of confirm(), and the invoice.
LEMMA OrderTypes ==
  ASSUME Types, NEW s \in Sessions,
         ReadShipped(s) \/ WriteShipped(s) \/ ReadItems(s) \/ WriteOrder(s) \/ InsertInvoice(s)
  PROVE  Types'
<1>0. /\ doc[s] \in Deliveries /\ want[s] \in Amounts /\ item[s] \in Items /\ read[s] \in Reads
      /\ copy[s] \in Rows /\ left[s] \subseteq Items /\ shipped \in Amounts
      /\ delivery \in [Deliveries -> Rows] /\ order \in OrderStatuses /\ billed \subseteq Nat
      /\ invoices \in [Deliveries -> Nat] /\ trouble \in Troubles
  BY DEF Types, SharedTypes, RequestTypes
<1>. USE DEF Goto
<1>1. CASE ReadShipped(s)
  <2>1. PICK i \in left[s] :
          /\ item' = [item EXCEPT ![s] = i]
          /\ read' = [read EXCEPT ![s].shipped = shipped[i]]
    BY <1>1 DEF ReadShipped
  <2>2. [read[s] EXCEPT !.shipped = shipped[i]] \in Reads
    BY <1>0 DEF Reads, Amounts
  <2>3. item' \in [Sessions -> Items] /\ read' \in [Sessions -> Reads]
    BY <1>0, <2>1, <2>2 DEF Types, RequestTypes
  <2>. QED BY <1>1, <2>3
           DEF ReadShipped, document, stock, sales, Types, SharedTypes, RequestTypes, Points
<1>2. CASE WriteShipped(s)
  <2>1. read[s].shipped + want[s][item[s]] \in Nat
    BY <1>0 DEF Reads, Amounts
  <2>2. shipped' \in Amounts
    BY <1>0, <1>2, <2>1 DEF WriteShipped, Amounts
  <2>. QED BY <1>2, <2>2
           DEF WriteShipped, document, stock, Types, SharedTypes, RequestTypes, Points
<1>3. CASE ReadItems(s)
  <2>1. [read[s] EXCEPT !.order = IF order = "Closed" THEN "keep" ELSE OrderStatus] \in Reads
    BY <1>0 DEF Reads, OrderStatus
  <2>2. read' \in [Sessions -> Reads]
    BY <1>3, <2>1 DEF ReadItems, Types, RequestTypes
  <2>. QED BY <1>3, <2>2
           DEF ReadItems, document, stock, sales, Types, SharedTypes, RequestTypes, Points
<1>4. CASE WriteOrder(s)
  <2>1. order' \in OrderStatuses
    BY <1>0, <1>4 DEF WriteOrder, Reads, OrderStatuses
  <2>. QED BY <1>0, <1>4, <2>1, StopTypes DEF WriteOrder, End, document, stock
<1>5. CASE InsertInvoice(s)
  <2>1. billed' \subseteq Nat
    BY <1>0, <1>5 DEF InsertInvoice, Rows
  <2>2. invoices' \in [Deliveries -> Nat]
    BY <1>0, <1>5 DEF InsertInvoice
  <2>. QED BY <1>0, <1>5, <2>1, <2>2, StopTypes DEF InsertInvoice, End, document, stock
<1>. QED BY <1>1, <1>2, <1>3, <1>4, <1>5

\* The types are inductive.
LEMMA TypesNext == Types /\ [Next]_vars => Types'
<1>. SUFFICES ASSUME Types, [Next]_vars PROVE Types'
  OBVIOUS
<1>1. CASE UNCHANGED vars
  BY <1>1 DEF vars, Types, SharedTypes, RequestTypes
<1>2. CASE EndOrder
  BY <1>2 DEF EndOrder, OrderStatuses, document, stock, local, Types, SharedTypes, RequestTypes
<1>3. ASSUME NEW s \in Sessions, Continue(s) PROVE Types'
  BY <1>3, DocumentTypes, StockTypes, OrderTypes DEF Continue
<1>4. ASSUME NEW s \in Sessions, Fail(s) PROVE Types'
  <2>1. /\ delivery \in [Deliveries -> Rows] /\ order \in OrderStatuses /\ billed \subseteq Nat
        /\ invoices \in [Deliveries -> Nat]
    BY DEF Types, SharedTypes
  <2>. QED BY <1>4, <2>1, TroubleTypes, StopTypes DEF Fail, document, stock, sales
<1>. QED BY <1>1, <1>2, <1>3, <1>4, StartTypes DEF Next

\* Whatever requests do, and wherever they die, the rows and what the requests hold of
\* them have their types: no quantity, stock or total goes below nothing.
THEOREM TypesAlways == Spec => []TypeOK
<1>1. Spec => []Types
  BY TypesInit, TypesNext, PTL DEF Spec
<1>. QED BY <1>1, TypesAreTypeOK, PTL

(***************************************************************************)
(* Stock and ledger.                                                       *)
(***************************************************************************)
\* The lines a request still has to put on the ledger or to count have a quantity; one
\* that takes stock or marks the delivery has put a line on the ledger; and no copy that
\* is saved reads CONFIRMED.
Flow(s) ==
  /\ left[s] \subseteq ItemsOf(want[s])
  /\ pc[s] \in {"deduct", "mark"} => ledger[doc[s]] # NoLines
  /\ pc[s] \in {"line", "select", "write"} => copy[s].status # "CONFIRMED"

Flows == ConfirmedHasLedger /\ \A s \in Sessions : Flow(s)

\* What a request has on the ledger and not yet taken from stock.
Taking(s, i) == IF pc[s] = "deduct" /\ item[s] = i THEN want[s][i] ELSE 0

\* The ledger covers what is gone from stock and what is about to go.
Covered ==
  \A i \in Items :
    /\ onHand[i] <= Opening[i]
    /\ Opening[i] - onHand[i] + SumFunction([s \in Sessions |-> Taking(s, i)]) <= Out(i)

\* A step of a session changes what that session holds.
Own(s) ==
  \A t \in Sessions \ {s} :
    /\ pc'[t] = pc[t] /\ op'[t] = op[t] /\ doc'[t] = doc[t] /\ copy'[t] = copy[t]
    /\ dirty'[t] = dirty[t] /\ want'[t] = want[t] /\ left'[t] = left[t]
    /\ item'[t] = item[t] /\ read'[t] = read[t]

\* Every step but the end of the order is a step of one session.
LEMMA OwnStep ==
  ASSUME Types, NEW s \in Sessions, Start(s) \/ Continue(s) \/ Fail(s) PROVE Own(s)
<1>1. ASSUME NEW t, EndWith(s, t) PROVE Own(s)
  BY <1>1 DEF EndWith, Goto, Own, Types, RequestTypes
<1>2. CASE Start(s)
  <2>1. ASSUME NEW o, NEW d, NEW row, NEW quantities, NEW to, Begin(s, o, d, row, quantities, to)
        PROVE  Own(s)
    BY <2>1 DEF Begin, Goto, Own, Types, RequestTypes
  <2>. QED BY <1>2, <2>1
           DEF Start, Create, Update, Ship, Deliver, Confirm, Cancel, Remove, Convert, Load
<1>3. CASE Continue(s)
  <2>1. CASE InsertLine(s) \/ SaveSelect(s) \/ ClearLines(s) \/ InsertLines(s)
    BY <2>1 DEF InsertLine, SaveSelect, ClearLines, InsertLines, Goto, local, Own, Types,
                RequestTypes
  <2>2. CASE SaveWrite(s) \/ ConfirmDelivered(s) \/ ReadLines(s)
    BY <1>1, <2>2 DEF SaveWrite, ConfirmDelivered, ReadLines, End, Refuse, Goto, local, Own,
                      Types, RequestTypes
  <2>3. CASE CheckLedger(s) \/ LedgerRow(s) \/ Deduct(s) \/ Mark(s)
    BY <2>3 DEF CheckLedger, LedgerRow, Deduct, Mark, Goto, local, Own, Types, RequestTypes
  <2>4. CASE ReadShipped(s) \/ WriteShipped(s) \/ ReadItems(s)
    BY <2>4 DEF ReadShipped, WriteShipped, ReadItems, Goto, Own, Types, RequestTypes
  <2>5. CASE WriteHeader(s) \/ DeductRefused(s) \/ WriteOrder(s) \/ InsertInvoice(s)
    BY <1>1, <2>5 DEF WriteHeader, DeductRefused, WriteOrder, InsertInvoice, End, Refuse
  <2>. QED BY <1>3, <2>1, <2>2, <2>3, <2>4, <2>5 DEF Continue
<1>4. CASE Fail(s)
  BY <1>1, <1>4 DEF Fail
<1>. QED BY <1>2, <1>3, <1>4

\* Only the ledger row of a line and its balance move stock, and the ledger only grows.
LEMMA StockStep ==
  ASSUME Types, NEW s \in Sessions, Start(s) \/ Continue(s) \/ Fail(s)
  PROVE  LedgerRow(s) \/ Deduct(s) \/ UNCHANGED stock
BY ZenonT(60) DEF Start, Create, Update, Ship, Deliver, Confirm, Cancel, Remove, Convert, Load, Begin,
       Continue, InsertLine, SaveSelect, SaveWrite, ClearLines, InsertLines, WriteHeader,
       ConfirmDelivered, ReadLines, CheckLedger, DeductRefused, Mark, ReadShipped, WriteShipped,
       ReadItems, WriteOrder, InsertInvoice, Fail

\* LedgerRow adds a quantity above nothing to one line of the delivery.
LEMMA LedgerGrows ==
  ASSUME Types, Flows, NEW s \in Sessions, LedgerRow(s)
  PROVE  \E i \in Items :
           /\ i \in left[s] /\ want[s][i] \in Nat \ {0} /\ item'[s] = i
           /\ \A d \in Deliveries, j \in Items :
                ledger'[d][j] = ledger[d][j] + (IF d = doc[s] /\ j = i THEN want[s][i] ELSE 0)
<1>1. PICK i \in left[s] :
        /\ ledger' = [ledger EXCEPT ![doc[s]][i] = @ + want[s][i]]
        /\ item' = [item EXCEPT ![s] = i]
  BY DEF LedgerRow
<1>2. i \in Items /\ want[s][i] \in Nat \ {0} /\ doc[s] \in Deliveries
  BY DEF Flows, Flow, ItemsOf, Types, RequestTypes, Amounts
<1>3. \A d \in Deliveries, j \in Items :
        ledger'[d][j] = ledger[d][j] + (IF d = doc[s] /\ j = i THEN want[s][i] ELSE 0)
  BY <1>1, <1>2 DEF Types, SharedTypes, Amounts
<1>4. item'[s] = i
  BY <1>1 DEF Types, RequestTypes
<1>. QED BY <1>1, <1>2, <1>3, <1>4, Zenon

\* Once something of a delivery is on the ledger, something stays there.
LEMMA HasLedger ==
  ASSUME Types, Flows, NEW s \in Sessions, Start(s) \/ Continue(s) \/ Fail(s)
  PROVE  /\ \A d \in Deliveries : ledger[d] # NoLines => ledger'[d] # NoLines
         /\ LedgerRow(s) => ledger'[doc[s]] # NoLines
<1>1. CASE LedgerRow(s)
  <2>1. PICK i \in Items :
          /\ want[s][i] \in Nat \ {0}
          /\ \A d \in Deliveries, j \in Items :
               ledger'[d][j] = ledger[d][j] + (IF d = doc[s] /\ j = i THEN want[s][i] ELSE 0)
    BY <1>1, LedgerGrows
  <2>2. /\ \A d \in Deliveries, j \in Items : ledger[d][j] \in Nat
        /\ \A d \in Deliveries : ledger[d] \in Amounts
        /\ doc[s] \in Deliveries
    BY DEF Types, SharedTypes, RequestTypes, Amounts
  <2>3. ASSUME NEW d \in Deliveries, ledger[d] # NoLines PROVE ledger'[d] # NoLines
    <3>1. PICK j \in Items : ledger[d][j] # 0
      BY <2>2, <2>3 DEF NoLines, Amounts
    <3>2. ledger'[d][j] # 0
      BY <2>1, <2>2, <3>1
    <3>. QED BY <3>2 DEF NoLines
  <2>4. ledger'[doc[s]][i] # 0
    BY <2>1, <2>2
  <2>. QED BY <2>3, <2>4 DEF NoLines
<1>2. CASE ~LedgerRow(s)
  BY <1>2, StockStep DEF stock, Deduct
<1>. QED BY <1>1, <1>2

\* A request that starts or ends has no line half done.
LEMMA StartFlow ==
  ASSUME Types, Flows, NEW s \in Sessions, Start(s)
  PROVE  /\ Flow(s)'
         /\ \A d \in Deliveries : delivery'[d].status = "CONFIRMED" => delivery[d].status = "CONFIRMED"
<1>1. ASSUME NEW o, NEW d, NEW row, NEW quantities, NEW to, Begin(s, o, d, row, quantities, to),
             to \notin {"deduct", "mark"}, to \in {"line", "select", "write"} => row.status # "CONFIRMED"
      PROVE  Flow(s)'
  <2>1. pc'[s] = to /\ copy'[s] = row /\ want'[s] = quantities /\ left'[s] = ItemsOf(quantities)
    BY <1>1 DEF Begin, Goto, Types, RequestTypes
  <2>. QED BY <1>1, <2>1 DEF Flow
<1>2. PICK d \in Deliveries :
        \/ \E quantities \in [Items -> Quantities] :
             Create(s, d, quantities) \/ Update(s, d, quantities)
        \/ Ship(s, d) \/ Deliver(s, d) \/ Confirm(s, d) \/ Cancel(s, d) \/ Remove(s, d)
        \/ Convert(s, d)
  BY DEF Start
<1>3. delivery[d] \in Rows /\ delivery \in [Deliveries -> Rows]
  BY DEF Types, SharedTypes
<1>4. /\ [NoRow EXCEPT !.status = "DRAFT"].status = "DRAFT"
      /\ [delivery[d] EXCEPT !.deleted = TRUE].status = delivery[d].status
      /\ \A status : [delivery[d] EXCEPT !.status = status].status = status
  BY <1>3 DEF Rows, NoRow
<1>5. ASSUME NEW quantities, Create(s, d, quantities) PROVE Flow(s)'
  <2>. DEFINE row == [NoRow EXCEPT !.status = "DRAFT"]
  <2>1. Begin(s, "create", d, row, quantities, "line")
    BY <1>5 DEF Create
  <2>2. row.status # "CONFIRMED"
    BY <1>4
  <2>. HIDE DEF row
  <2>. QED BY <1>1, <2>1, <2>2
<1>6. ASSUME NEW quantities, Update(s, d, quantities) PROVE Flow(s)'
  BY <1>1, <1>6 DEF Update, Load
<1>7. ASSUME Ship(s, d) \/ Deliver(s, d) \/ Cancel(s, d) PROVE Flow(s)'
  <2>. DEFINE row(status) == [delivery[d] EXCEPT !.status = status]
  <2>1. \A status : row(status).status = status
    BY <1>4
  <2>2. \/ Begin(s, "ship", d, row("SHIPPED"), NoLines, "select")
        \/ Begin(s, "deliver", d, row("DELIVERED"), NoLines, "select")
        \/ Begin(s, "cancel", d, row("CANCELLED"), NoLines, "select")
    BY <1>7 DEF Ship, Deliver, Cancel, Load
  <2>. HIDE DEF row
  <2>3. /\ row("SHIPPED").status # "CONFIRMED" /\ row("DELIVERED").status # "CONFIRMED"
        /\ row("CANCELLED").status # "CONFIRMED"
    BY <2>1
  <2>. QED BY <1>1, <2>2, <2>3
<1>8. ASSUME Confirm(s, d) \/ Convert(s, d) PROVE Flow(s)'
  BY <1>1, <1>8 DEF Confirm, Convert, Load
<1>9. ASSUME Remove(s, d) PROVE Flow(s)'
  <2>. DEFINE row == [delivery[d] EXCEPT !.deleted = TRUE]
  <2>1. row.status # "CONFIRMED"
    BY <1>4, <1>9 DEF Remove
  <2>2. Begin(s, "remove", d, row, NoLines, "select")
    BY <1>9 DEF Remove, Load
  <2>. HIDE DEF row
  <2>. QED BY <1>1, <2>1, <2>2
<1>10. \/ \E quantities : Create(s, d, quantities)
       \/ UNCHANGED delivery
  BY <1>2 DEF Update, Ship, Deliver, Confirm, Cancel, Remove, Convert, Load, document
<1>11. ASSUME NEW quantities, Create(s, d, quantities), NEW e \in Deliveries,
              delivery'[e].status = "CONFIRMED"
       PROVE  delivery[e].status = "CONFIRMED"
  BY <1>3, <1>11 DEF Create, Rows
<1>12. Flow(s)'
  BY <1>2, <1>5, <1>6, <1>7, <1>8, <1>9
<1>. QED BY <1>10, <1>11, <1>12

\* A request that ends has no line to do.
LEMMA EndFlow == ASSUME Types, NEW s \in Sessions, NEW t, EndWith(s, t) PROVE Flow(s)'
<1>1. pc'[s] = "idle" /\ left'[s] = {}
  BY DEF EndWith, Goto, Types, RequestTypes
<1>. QED BY <1>1 DEF Flow

\* A step of a request keeps what it is about to rely on, and only one that has put a
\* line on the ledger makes a delivery CONFIRMED.
LEMMA ContinueFlow ==
  ASSUME Types, Flows, NEW s \in Sessions, Continue(s)
  PROVE  /\ Flow(s)'
         /\ \A d \in Deliveries :
              delivery'[d].status = "CONFIRMED" =>
                \/ delivery[d].status = "CONFIRMED"
                \/ ledger[d] # NoLines
<1>. DEFINE Kept == \A d \in Deliveries :
                      delivery'[d].status = "CONFIRMED" =>
                        delivery[d].status = "CONFIRMED" \/ ledger[d] # NoLines
<1>0. /\ doc[s] \in Deliveries /\ delivery \in [Deliveries -> Rows] /\ copy[s] \in Rows
      /\ left[s] \subseteq ItemsOf(want[s])
      /\ pc[s] \in {"deduct", "mark"} => ledger[doc[s]] # NoLines
      /\ pc[s] \in {"line", "select", "write"} => copy[s].status # "CONFIRMED"
  BY DEF Types, SharedTypes, RequestTypes, Flows, Flow
<1>. USE DEF Goto
<1>1. ASSUME End(s) \/ Refuse(s) PROVE Flow(s)'
  BY <1>1, EndFlow DEF End, Refuse
<1>2. CASE InsertLine(s)
  <2>1. /\ pc[s] = "line" /\ pc'[s] \in {"line", "select"} /\ left'[s] \subseteq left[s]
        /\ want' = want /\ delivery' = delivery
        /\ copy' = [copy EXCEPT ![s].total = SumFunction(want[s])]
    BY <1>2 DEF InsertLine, Types, RequestTypes
  <2>2. copy'[s].status = copy[s].status
    BY <1>0, <2>1 DEF Types, RequestTypes, Rows
  <2>. QED BY <1>0, <2>1, <2>2 DEF Flow
<1>3. CASE SaveSelect(s) \/ ClearLines(s) \/ InsertLines(s)
  BY <1>0, <1>3 DEF SaveSelect, ClearLines, InsertLines, document, stock, local, Flow, Types,
                    RequestTypes
<1>4. CASE SaveWrite(s)
  <2>1. Flow(s)'
    <3>1. CASE End(s)
      BY <1>1, <3>1
    <3>2. CASE ~End(s)
      BY <1>0, <1>4, <3>2 DEF SaveWrite, local, Flow, Types, RequestTypes
    <3>. QED BY <3>1, <3>2
  <2>2. ASSUME NEW d \in Deliveries, delivery'[d].status = "CONFIRMED"
        PROVE  delivery[d].status = "CONFIRMED"
    <3>1. d # doc[s] => delivery'[d] = delivery[d]
      BY <1>0, <1>4 DEF SaveWrite
    <3>2. delivery'[doc[s]] =
            [c \in Columns |-> IF c \in dirty[s] THEN copy[s][c] ELSE delivery[doc[s]][c]]
      BY <1>0, <1>4 DEF SaveWrite
    <3>3. delivery'[doc[s]].status \in {copy[s].status, delivery[doc[s]].status}
      BY <3>2 DEF Columns
    <3>. QED BY <1>0, <1>4, <2>2, <3>1, <3>3 DEF SaveWrite
  <2>. QED BY <2>1, <2>2
<1>5. CASE WriteHeader(s)
  BY <1>0, <1>1, <1>5 DEF WriteHeader, Rows
<1>6. CASE ConfirmDelivered(s) \/ CheckLedger(s)
  BY <1>0, <1>1, <1>6
  DEF ConfirmDelivered, CheckLedger, local, document, stock, Flow, Types, RequestTypes
<1>7. CASE ReadLines(s)
  <2>1. CASE Refuse(s)
    BY <1>1, <1>7, <2>1 DEF ReadLines, document
  <2>2. CASE ~Refuse(s)
    BY <1>7, <2>2 DEF ReadLines, document, Flow, Types, RequestTypes
  <2>. QED BY <2>1, <2>2
<1>8. CASE LedgerRow(s)
  <2>1. /\ pc'[s] = "deduct" /\ UNCHANGED <<delivery, want, left, doc>>
    BY <1>8 DEF LedgerRow, document, Types, RequestTypes
  <2>2. ledger'[doc[s]] # NoLines
    BY <1>8, HasLedger
  <2>. QED BY <1>0, <2>1, <2>2 DEF Flow
<1>9. CASE Deduct(s)
  BY <1>0, <1>9 DEF Deduct, document, Flow, Types, RequestTypes
<1>10. CASE DeductRefused(s)
  BY <1>1, <1>10 DEF DeductRefused, document
<1>11. CASE Mark(s)
  BY <1>0, <1>11 DEF Mark, stock, Flow, Types, RequestTypes
<1>12. CASE ReadShipped(s) \/ WriteShipped(s) \/ ReadItems(s)
  BY <1>0, <1>12 DEF ReadShipped, WriteShipped, ReadItems, document, Flow, Types, RequestTypes
<1>13. CASE WriteOrder(s) \/ InsertInvoice(s)
  BY <1>1, <1>13 DEF WriteOrder, InsertInvoice, document
<1>. QED BY <1>2, <1>3, <1>4, <1>5, <1>6, <1>7, <1>8, <1>9, <1>10, <1>11, <1>12, <1>13 DEF Continue

\* Nothing is confirmed at first.
LEMMA FlowsInit == Init => Flows
BY DEF Init, Flows, Flow, ConfirmedHasLedger, NoRow

\* Flow is inductive.
LEMMA FlowsNext == Types /\ Flows /\ [Next]_vars => Flows'
<1>. SUFFICES ASSUME Types, Flows, [Next]_vars PROVE Flows'
  OBVIOUS
<1>1. CASE UNCHANGED vars
  BY <1>1 DEF vars, Flows, Flow, ConfirmedHasLedger
<1>2. CASE EndOrder
  BY <1>2 DEF EndOrder, document, stock, local, Flows, Flow, ConfirmedHasLedger
<1>3. ASSUME NEW s \in Sessions, Start(s) \/ Continue(s) \/ Fail(s) PROVE Flows'
  <2>1. Own(s) /\ \A d \in Deliveries : ledger[d] # NoLines => ledger'[d] # NoLines
    BY <1>3, OwnStep, HasLedger
  <2>2. /\ Flow(s)'
        /\ \A d \in Deliveries :
             delivery'[d].status = "CONFIRMED" =>
               delivery[d].status = "CONFIRMED" \/ ledger[d] # NoLines
    BY <1>3, StartFlow, ContinueFlow, EndFlow DEF Fail, document
  <2>3. ASSUME NEW t \in Sessions \ {s} PROVE Flow(t)'
    BY <2>1 DEF Own, Flows, Flow, Types, RequestTypes
  <2>. QED BY <2>1, <2>2, <2>3 DEF Flows, ConfirmedHasLedger
<1>. QED BY <1>1, <1>2, <1>3 DEF Next

\* What went out is a natural number.
LEMMA OutType == ASSUME Types, NEW i \in Items PROVE Out(i) \in Nat
<1>. DEFINE f == [d \in Deliveries |-> ledger[d][i]]
<1>1. f \in [Deliveries -> Nat]
  BY DEF Types, SharedTypes, Amounts
<1>. HIDE DEF f
<1>2. SumFunction(f) \in Nat
  BY <1>1, ConstantsAssumption, SumNat
<1>. QED BY <1>2 DEF f, Out

\* A ledger row adds its quantity to what has gone out of its item.
LEMMA OutGrows ==
  ASSUME Types, NEW s \in Sessions, NEW k \in Items, NEW n \in Nat, NEW i \in Items,
         Types', \A d \in Deliveries, j \in Items :
           ledger'[d][j] = ledger[d][j] + (IF d = doc[s] /\ j = k THEN n ELSE 0)
  PROVE  Out(i)' = Out(i) + (IF i = k THEN n ELSE 0)
<1>. DEFINE f == [d \in Deliveries |-> ledger[d][i]]
            g == [d \in Deliveries |-> ledger'[d][i]]
            e == doc[s]
<1>a. ledger \in [Deliveries -> [Items -> Nat]] /\ ledger' \in [Deliveries -> [Items -> Nat]]
  BY DEF Types, SharedTypes, Amounts
<1>b. e \in Deliveries
  BY DEF Types, RequestTypes
<1>c. f \in [Deliveries -> Int] /\ g \in [Deliveries -> Int]
  BY <1>a
<1>d. \A d \in Deliveries \ {e} : g[d] = f[d]
  BY <1>a
<1>e. g[e] = f[e] + (IF i = k THEN n ELSE 0)
  BY <1>a, <1>b
<1>f. f[e] \in Int
  BY <1>b, <1>c
<1>1. /\ f \in [Deliveries -> Int] /\ g \in [Deliveries -> Int] /\ e \in Deliveries
      /\ \A d \in Deliveries \ {e} : g[d] = f[d]
      /\ g[e] = f[e] + (IF i = k THEN n ELSE 0)
      /\ f[e] \in Int
  BY <1>b, <1>c, <1>d, <1>e, <1>f
<1>. HIDE DEF f, g, e
<1>2. SumFunction(g) = SumFunction(f) - f[e] + g[e]
  BY <1>1, ConstantsAssumption, SumChange
<1>3. SumFunction(f) \in Int
  BY <1>1, ConstantsAssumption, SumType
<1>4. SumFunction(g) = SumFunction(f) + (IF i = k THEN n ELSE 0)
  BY <1>1, <1>2, <1>3
<1>. QED BY <1>4 DEF f, g, Out

\* What a step has to keep of an item, put in its own terms.
LEMMA CoveredStep ==
  ASSUME Types, Types', Covered, NEW s \in Sessions, Own(s), NEW i \in Items,
         onHand'[i] <= Opening[i],
         Out(i)' - Out(i) >= (onHand[i] - onHand'[i]) + (Taking(s, i)' - Taking(s, i))
  PROVE  Opening[i] - onHand'[i] + SumFunction([t \in Sessions |-> Taking(t, i)])' <= Out(i)'
<1> DEFINE B == [t \in Sessions |-> Taking(t, i)]
<1>0. /\ onHand[i] \in Int /\ onHand'[i] \in Int /\ Opening[i] \in Int /\ IsFiniteSet(Sessions)
  BY ConstantsAssumption DEF Types, SharedTypes, Amounts
<1>1. B \in [Sessions -> Int] /\ B' \in [Sessions -> Int]
  BY DEF Types, RequestTypes, Taking, Amounts
<1>2. /\ \A t \in Sessions \ {s} : B'[t] = B[t]
      /\ B[s] = Taking(s, i) /\ B'[s] = Taking(s, i)'
  BY DEF Own, Taking
<1>3. B[s] \in Int /\ B'[s] \in Int
  BY <1>1
<1>4. Opening[i] - onHand[i] + SumFunction(B) <= Out(i)
  BY DEF Covered
<1>5. Out(i) \in Int /\ Out(i)' \in Int
  <2>1. Out(i) \in Nat
    BY OutType
  <2>2. Out(i)' \in Nat
    <3>. DEFINE f == [d \in Deliveries |-> ledger'[d][i]]
    <3>1. f \in [Deliveries -> Nat]
      BY DEF Types, SharedTypes, Amounts
    <3>. HIDE DEF f
    <3>2. SumFunction(f) \in Nat
      BY <3>1, ConstantsAssumption, SumNat
    <3>. QED BY <3>2 DEF f, Out
  <2>. QED BY <2>1, <2>2
<1> HIDE DEF B
<1>6. SumFunction(B') = SumFunction(B) - B[s] + B'[s]
  BY <1>0, <1>1, <1>2, SumChange
<1>7. SumFunction(B) \in Int
  BY <1>0, <1>1, SumType
<1>8. Out(i)' - Out(i) >= (onHand[i] - onHand'[i]) + (B'[s] - B[s])
  BY <1>2
<1>9. Opening[i] - onHand'[i] + SumFunction(B') <= Out(i)'
  BY <1>0, <1>3, <1>4, <1>5, <1>6, <1>7, <1>8
<1>. QED BY <1>9 DEF B

\* What the sum says of one item.
LEMMA Bounds ==
  ASSUME Types, Covered, NEW i \in Items
  PROVE  onHand[i] <= Opening[i] /\ onHand[i] \in Nat /\ Opening[i] \in Nat
<1>1. onHand[i] <= Opening[i]
  BY Zenon DEF Covered
<1>. QED BY <1>1, ConstantsAssumption DEF Types, SharedTypes, Amounts

\* What a request is about to take is a natural number.
LEMMA TakingType == ASSUME Types, NEW s \in Sessions, NEW i \in Items PROVE Taking(s, i) \in Nat
BY DEF Types, RequestTypes, Taking, Amounts

\* At first the stock is the opening stock.
LEMMA CoveredInit == Init => Covered
<1>. SUFFICES ASSUME Init, NEW i \in Items
              PROVE  /\ onHand[i] <= Opening[i]
                     /\ Opening[i] - onHand[i] + SumFunction([s \in Sessions |-> Taking(s, i)])
                          <= Out(i)
  BY DEF Covered
<1>1. onHand[i] = Opening[i] /\ Opening[i] \in Nat
  BY ConstantsAssumption DEF Init
<1>2. [s \in Sessions |-> Taking(s, i)] = [s \in Sessions |-> 0]
  BY DEF Init, Taking
<1>3. SumFunction([s \in Sessions |-> Taking(s, i)]) = 0
  BY <1>2, ConstantsAssumption, SumZero
<1>4. Out(i) \in Nat
  BY TypesInit, OutType
<1>. QED BY <1>1, <1>3, <1>4

\* The cover is inductive.
LEMMA CoveredNext == Types /\ Types' /\ Flows /\ Covered /\ [Next]_vars => Covered'
<1>. SUFFICES ASSUME Types, Types', Flows, Covered, [Next]_vars, NEW i \in Items
              PROVE  /\ onHand'[i] <= Opening[i]
                     /\ Opening[i] - onHand'[i] + SumFunction([s \in Sessions |-> Taking(s, i)])'
                          <= Out(i)'
  BY DEF Covered
<1>1. CASE UNCHANGED <<ledger, onHand, pc, item, want>>
  BY <1>1 DEF Covered, Taking, Out
<1>2. ASSUME NEW s \in Sessions, Start(s) \/ Continue(s) \/ Fail(s)
      PROVE  /\ onHand'[i] <= Opening[i]
             /\ Opening[i] - onHand'[i] + SumFunction([t \in Sessions |-> Taking(t, i)])' <= Out(i)'
  <2>0. /\ Own(s) /\ onHand[i] <= Opening[i] /\ onHand[i] \in Nat /\ Opening[i] \in Nat
        /\ Taking(s, i) \in Nat /\ Out(i) \in Nat
    BY <1>2, OwnStep, Bounds, TakingType, OutType
  <2>1. CASE LedgerRow(s)
    <3>1. PICK k \in Items :
            /\ want[s][k] \in Nat /\ item'[s] = k
            /\ \A d \in Deliveries, j \in Items :
                 ledger'[d][j] = ledger[d][j] + (IF d = doc[s] /\ j = k THEN want[s][k] ELSE 0)
      BY <2>1, LedgerGrows
    <3>2. Out(i)' = Out(i) + (IF i = k THEN want[s][k] ELSE 0)
      BY <3>1, OutGrows
    <3>3. /\ Taking(s, i) = 0 /\ Taking(s, i)' = (IF i = k THEN want[s][k] ELSE 0)
          /\ onHand' = onHand
      BY <2>1, <3>1 DEF LedgerRow, Taking, Goto, Types, RequestTypes
    <3>. QED BY <2>0, <3>1, <3>2, <3>3, CoveredStep
  <2>2. CASE Deduct(s)
    <3>1. /\ Taking(s, i) = IF item[s] = i THEN want[s][i] ELSE 0
          /\ Taking(s, i)' = 0
          /\ ledger' = ledger
          /\ onHand'[i] = IF item[s] = i THEN onHand[i] - want[s][i] ELSE onHand[i]
      BY <2>2 DEF Deduct, Taking, Goto, Types, SharedTypes, RequestTypes, Amounts
    <3>2. Out(i)' = Out(i)
      BY <3>1 DEF Out
    <3>3. want[s][i] \in Nat
      BY DEF Types, RequestTypes, Amounts
    <3>4. onHand'[i] <= Opening[i]
      BY <2>0, <3>1, <3>3
    <3>5. Out(i)' - Out(i) >= (onHand[i] - onHand'[i]) + (Taking(s, i)' - Taking(s, i))
      BY <2>0, <3>1, <3>2, <3>3
    <3>. QED BY <2>0, <3>4, <3>5, CoveredStep
  <2>3. CASE ~LedgerRow(s) /\ ~Deduct(s)
    <3>1. UNCHANGED <<ledger, onHand>>
      BY <1>2, <2>3, StockStep DEF stock
    <3>2. Taking(s, i)' = 0
      <4>1. pc'[s] # "deduct"
        <5>1. ASSUME NEW t, EndWith(s, t) PROVE pc'[s] # "deduct"
          BY <5>1 DEF EndWith, Goto, Types, RequestTypes
        <5>2. CASE Start(s)
          BY ZenonT(60), <5>2 DEF Start, Create, Update, Ship, Deliver, Confirm, Cancel, Remove, Convert,
                      Load, Begin, Goto, Types, RequestTypes
        <5>3. CASE Continue(s)
          BY <2>3, <5>1, <5>3
          DEF Continue, InsertLine, SaveSelect, SaveWrite, ClearLines, InsertLines, WriteHeader,
              ConfirmDelivered, ReadLines, CheckLedger, DeductRefused, Mark, ReadShipped,
              WriteShipped, ReadItems, WriteOrder, InsertInvoice, End, Refuse, Goto, Types,
              RequestTypes
        <5>. QED BY <1>2, <5>1, <5>2, <5>3 DEF Fail
      <4>. QED BY <4>1 DEF Taking
    <3>3. Out(i)' = Out(i) /\ onHand'[i] = onHand[i]
      BY <3>1 DEF Out
    <3>4. Out(i)' - Out(i) >= (onHand[i] - onHand'[i]) + (Taking(s, i)' - Taking(s, i))
      BY <2>0, <3>2, <3>3
    <3>. QED BY <2>0, <3>3, <3>4, CoveredStep
  <2>. QED BY <2>1, <2>2, <2>3
<1>. QED BY <1>1, <1>2 DEF Next, vars, EndOrder, document, stock, local

\* However confirm()s and all other requests interleave and wherever they die, a delivery
\* reads CONFIRMED only with something on the ledger, and no stock is gone that the
\* ledger does not account for.
THEOREM LedgerLeads == Spec => []LedgerComesFirst
<1>1. Types /\ Flows /\ Covered => LedgerComesFirst
  <2>. SUFFICES ASSUME Types, Flows, Covered, NEW i \in Items
                PROVE  Opening[i] - onHand[i] \in 0..Out(i)
    BY DEF LedgerComesFirst, Flows, StockCoveredByLedger
  <2>1. [s \in Sessions |-> Taking(s, i)] \in [Sessions -> Nat]
    BY TakingType
  <2>2. SumFunction([s \in Sessions |-> Taking(s, i)]) \in Nat
    BY <2>1, ConstantsAssumption, SumNat
  <2>3. Opening[i] - onHand[i] + SumFunction([s \in Sessions |-> Taking(s, i)]) <= Out(i)
    BY Zenon DEF Covered
  <2>4. Out(i) \in Nat /\ onHand[i] <= Opening[i] /\ onHand[i] \in Nat /\ Opening[i] \in Nat
    BY OutType, Bounds
  <2>. HIDE DEF Taking
  <2>. QED BY <2>2, <2>3, <2>4
<1>2. Spec => [](Types /\ Flows /\ Covered)
  BY TypesInit, TypesNext, FlowsInit, FlowsNext, CoveredInit, CoveredNext, PTL DEF Spec
<1>. QED BY <1>1, <1>2, PTL


(***************************************************************************)
(* Requests one at a time.                                                 *)
(***************************************************************************)
Row(s) == delivery[doc[s]]

\* What a request that runs alone knows, by operation.
Creating(s) ==
  /\ op[s] = "create" /\ pc[s] \in {"line", "select", "write"}
  /\ Row(s).status = "DRAFT"
  /\ copy[s] = [Row(s) EXCEPT !.total = copy[s].total]

Updating(s) ==
  op[s] = "update" /\ pc[s] \in {"clear", "lines", "header"} /\ Row(s).status = "DRAFT"

Changing(s) ==
  /\ op[s] \in {"ship", "deliver", "cancel", "remove"} /\ pc[s] \in {"select", "write"}
  /\ copy[s] = [Row(s) EXCEPT !.status = copy[s].status, !.deleted = copy[s].deleted]
  /\ Row(s).status \notin {"NONE", "CONFIRMED"} /\ copy[s].status \notin {"NONE", "CONFIRMED"}
  /\ copy[s].status = "DRAFT" => Row(s).status = "DRAFT"

Before == {"read", "check", "ledger", "deduct", "mark"}
After == {"ship", "shipped", "items", "order"}

Confirming(s) ==
  /\ op[s] \in {"confirm", "deliver"} /\ pc[s] \in {"confirm"} \cup Before \cup After
  /\ pc[s] \in Before => Row(s).status \in {"SHIPPED", "DELIVERED"}
  /\ pc[s] \in After => Row(s).status = "CONFIRMED"
  /\ pc[s] \in (Before \cup After) \ {"read"} => want[s] = lines[doc[s]]
  /\ pc[s] = "check" => left[s] = ItemsOf(want[s])
  /\ pc[s] \in {"deduct", "shipped"} => item[s] \in left[s]
  /\ pc[s] \in {"ledger", "deduct"} =>
       \A i \in left[s] : (pc[s] = "deduct" /\ i = item[s]) \/ ledger[doc[s]][i] = 0
  /\ pc[s] = "shipped" => read[s].shipped = shipped[item[s]]
  /\ pc[s] = "order" /\ read[s].order = "Delivered" => \A i \in Items : shipped[i] >= Ordered[i]

Converting(s) ==
  /\ op[s] = "convert" /\ pc[s] = "invoice"
  /\ copy[s] = Row(s) /\ Row(s).status \notin {"NONE", "DRAFT"} /\ Row(s).total \notin billed

\* What its save() is about to write makes the row the copy.
Saving(s) == pc[s] = "write" => dirty[s] = {c \in Columns : copy[s][c] # Row(s)[c]}

Task(s) ==
  /\ Creating(s) \/ Updating(s) \/ Changing(s) \/ Confirming(s) \/ Converting(s)
  /\ Saving(s)

Working(s) == pc[s] # "idle" => Task(s)

\* A delivery, its ledger and its invoices.
Book(d) ==
  /\ delivery[d].status = "NONE" => delivery[d] = NoRow
  /\ delivery[d].status \in {"NONE", "DRAFT"} => ledger[d] = NoLines /\ invoices[d] = 0
  /\ \A i \in Items : ledger[d][i] <= lines[d][i]
  /\ invoices[d] <= 1
  /\ invoices[d] = 1 => delivery[d].total \in billed

OrderBook == order \in {"Delivered", "Closed"} => \A i \in Items : shipped[i] >= Ordered[i]

Books == OrderBook /\ \A d \in Deliveries : Book(d)

Serial ==
  /\ \A s, t \in Sessions : pc[s] # "idle" /\ pc[t] # "idle" => s = t
  /\ \A s \in Sessions : Working(s)
  /\ Books

SerialInv == ~trouble.overlap => Serial

\* A new order has no delivery and no request.
LEMMA SerialInit == Init => SerialInv
<1>. SUFFICES ASSUME Init PROVE Serial
  BY DEF SerialInv
<1>1. Books
  BY DEF Init, Books, Book, OrderBook, NoRow, NoLines
<1>. QED BY <1>1 DEF Init, Serial, Working

\* The stage of a request tells its operation.
LEMMA Stages ==
  ASSUME NEW s \in Sessions, Task(s)
  PROVE  /\ pc[s] = "line" => Creating(s)
         /\ pc[s] \in {"select", "write"} => Creating(s) \/ Changing(s)
         /\ pc[s] \in {"clear", "lines", "header"} => Updating(s)
         /\ pc[s] \in {"confirm"} \cup Before \cup After => Confirming(s)
         /\ pc[s] = "invoice" => Converting(s)
BY DEF Task, Creating, Updating, Changing, Confirming, Converting, Before, After

\* While requests come one at a time, every other one is idle.
LEMMA AloneStep ==
  ASSUME Types, SerialInv, NEW s \in Sessions, Start(s) \/ Continue(s) \/ Fail(s),
         ~trouble'.overlap
  PROVE  /\ ~trouble.overlap /\ Serial
         /\ \A t \in Sessions \ {s} : pc[t] = "idle"
         /\ ~Start(s) => Task(s)
<1>0. trouble \in Troubles
  BY DEF Types, SharedTypes
<1>1. ASSUME NEW t, EndWith(s, t), t.overlap = trouble.overlap PROVE ~trouble.overlap
  BY <1>1 DEF EndWith
<1>2. CASE Start(s)
  <2>1. ASSUME NEW o, NEW d, NEW row, NEW quantities, NEW to, Begin(s, o, d, row, quantities, to)
        PROVE  ~trouble.overlap /\ \A t \in Sessions : pc[t] = "idle"
    <3>1. trouble' = [trouble EXCEPT !.overlap = trouble.overlap \/ \E t \in Sessions : pc[t] # "idle"]
      BY <2>1 DEF Begin
    <3>2. trouble'.overlap = (trouble.overlap \/ \E t \in Sessions : pc[t] # "idle")
      BY <1>0, <3>1 DEF Troubles
    <3>. QED BY <3>2
  <2>2. ~trouble.overlap /\ \A t \in Sessions : pc[t] = "idle"
    BY <1>2, <2>1
    DEF Start, Create, Update, Ship, Deliver, Confirm, Cancel, Remove, Convert, Load
  <2>. QED BY <1>2, <2>2 DEF SerialInv
<1>3. CASE Continue(s)
  <2>1. pc[s] # "idle"
    BY <1>3
    DEF Continue, InsertLine, SaveSelect, SaveWrite, ClearLines, InsertLines, WriteHeader,
        ConfirmDelivered, ReadLines, CheckLedger, LedgerRow, Deduct, DeductRefused, Mark,
        ReadShipped, WriteShipped, ReadItems, WriteOrder, InsertInvoice
  <2>2. [trouble EXCEPT !.refused = TRUE].overlap = trouble.overlap
    BY <1>0 DEF Troubles
  <2>3. End(s) \/ Refuse(s) => ~trouble.overlap
    BY <1>1, <2>2 DEF End, Refuse
  <2>4. trouble' = trouble \/ End(s) \/ Refuse(s)
    BY <1>3
    DEF Continue, InsertLine, SaveSelect, SaveWrite, ClearLines, InsertLines, WriteHeader,
        ConfirmDelivered, ReadLines, CheckLedger, LedgerRow, Deduct, DeductRefused, Mark,
        ReadShipped, WriteShipped, ReadItems, WriteOrder, InsertInvoice
  <2>5. ~trouble.overlap
    BY <2>3, <2>4
  <2>. QED BY <2>1, <2>5 DEF SerialInv, Serial, Working
<1>4. CASE Fail(s)
  <2>1. [trouble EXCEPT !.failures = @ + 1].overlap = trouble.overlap
    BY <1>0 DEF Troubles
  <2>2. pc[s] # "idle" /\ ~trouble.overlap
    BY <1>1, <1>4, <2>1 DEF Fail
  <2>. QED BY <2>2 DEF SerialInv, Serial, Working
<1>. QED BY <1>2, <1>3, <1>4

\* What remains to be shown of a step: the books, and what the request then knows.
LEMMA SerialStep ==
  ASSUME Serial, NEW s \in Sessions, Own(s), \A t \in Sessions \ {s} : pc[t] = "idle",
         Working(s)', Books'
  PROVE  Serial'
<1>1. \A t \in Sessions \ {s} : pc'[t] = "idle"
  BY DEF Own
<1>2. \A t \in Sessions : Working(t)'
  BY <1>1 DEF Working
<1>3. \A t, u \in Sessions : pc'[t] # "idle" /\ pc'[u] # "idle" => t = u
  BY <1>1
<1>. QED BY <1>2, <1>3 DEF Serial

\* A save() of a request that runs alone leaves its copy.
LEMMA SavedRow ==
  ASSUME NEW row \in Rows, NEW mine \in Rows
  PROVE  [c \in Columns |->
            IF c \in {k \in Columns : mine[k] # row[k]} THEN mine[c] ELSE row[c]] = mine
BY DEF Rows, Columns

\* A delivery nobody wrote keeps its book.
LEMMA SameBook ==
  ASSUME NEW d \in Deliveries, Book(d), billed \subseteq billed',
         delivery'[d] = delivery[d], lines'[d] = lines[d], ledger'[d] = ledger[d],
         invoices'[d] = invoices[d]
  PROVE  Book(d)'
BY DEF Book

\* The books read deliveries, ledger, shipments, order and invoices.
LEMMA SameBooks ==
  ASSUME Books, UNCHANGED <<delivery, lines, ledger, shipped, order, billed, invoices>>
  PROVE  Books'
BY SameBook DEF Books, OrderBook


\* What a request begins with.
LEMMA BeginFacts ==
  ASSUME Types, NEW s \in Sessions, NEW o, NEW d, NEW row, NEW quantities, NEW to,
         Begin(s, o, d, row, quantities, to)
  PROVE  /\ pc'[s] = to /\ op'[s] = o /\ doc'[s] = d /\ copy'[s] = row
         /\ left'[s] = ItemsOf(quantities) /\ want'[s] = quantities
         /\ UNCHANGED <<ledger, onHand, shipped, order, billed, invoices>>
BY DEF Begin, Goto, Types, RequestTypes, stock, sales

\* A handler that starts alone reads the delivery as it is.
LEMMA StartSerial ==
  ASSUME Types, Serial, NEW s \in Sessions, Start(s)
  PROVE  Working(s)' /\ Books'
<1>1. PICK d \in Deliveries :
        \/ \E quantities \in [Items -> Quantities] :
             Create(s, d, quantities) \/ Update(s, d, quantities)
        \/ Ship(s, d) \/ Deliver(s, d) \/ Confirm(s, d) \/ Cancel(s, d) \/ Remove(s, d)
        \/ Convert(s, d)
  BY DEF Start
<1>0. delivery \in [Deliveries -> Rows] /\ delivery[d] \in Rows /\ Books
  BY DEF Types, SharedTypes, Serial
<1>2. /\ [NoRow EXCEPT !.status = "DRAFT"] \in Rows
      /\ [NoRow EXCEPT !.status = "DRAFT"].status = "DRAFT"
  BY DEF NoRow, Rows, Statuses
<1>3. ASSUME NEW quantities, Create(s, d, quantities) PROVE Working(s)' /\ Books'
  <2>. DEFINE row == [NoRow EXCEPT !.status = "DRAFT"]
  <2>1. /\ Begin(s, "create", d, row, quantities, "line")
        /\ delivery[d].status = "NONE" /\ lines' = lines
        /\ delivery' = [delivery EXCEPT ![d].status = "DRAFT"]
    BY <1>3 DEF Create
  <2>2. row \in Rows /\ row.status = "DRAFT"
    BY <1>2
  <2>3. delivery' = [delivery EXCEPT ![d] = row]
    BY <1>0, <2>1 DEF Books, Book
  <2>. HIDE DEF row
  <2>4. /\ pc'[s] = "line" /\ op'[s] = "create" /\ doc'[s] = d /\ copy'[s] = row
        /\ UNCHANGED <<ledger, shipped, order, billed, invoices, lines>>
    BY <2>1, BeginFacts
  <2>5. delivery'[d] = row /\ \A e \in Deliveries \ {d} : delivery'[e] = delivery[e]
    BY <1>0, <2>3
  <2>6. [row EXCEPT !.total = row.total] = row
    BY <2>2 DEF Rows
  <2>7. Working(s)'
    BY <2>2, <2>4, <2>5, <2>6 DEF Working, Task, Creating, Saving, Row
  <2>8. ASSUME NEW e \in Deliveries PROVE Book(e)'
    <3>1. Book(e)
      BY <1>0 DEF Books
    <3>2. CASE e = d
      BY <2>1, <2>2, <2>4, <2>5, <3>1, <3>2 DEF Book
    <3>3. CASE e # d
      BY <2>4, <2>5, <3>1, <3>3, SameBook
    <3>. QED BY <3>2, <3>3
  <2>. QED BY <1>0, <2>4, <2>7, <2>8 DEF Books, OrderBook
<1>4. ASSUME NEW o, NEW row, NEW quantities, NEW to, Load(s, o, d, row, quantities, to)
      PROVE  /\ pc'[s] = to /\ op'[s] = o /\ doc'[s] = d /\ copy'[s] = row
             /\ delivery[d].status # "NONE"
             /\ UNCHANGED <<delivery, billed>> /\ Books'
  <2>1. /\ pc'[s] = to /\ op'[s] = o /\ doc'[s] = d /\ copy'[s] = row
        /\ delivery[d].status # "NONE"
        /\ UNCHANGED <<delivery, lines, ledger, onHand, shipped, order, billed, invoices>>
    BY <1>4, BeginFacts DEF Load, Found, document
  <2>. QED BY <1>0, <2>1, SameBooks
<1>5. ASSUME NEW quantities, Update(s, d, quantities) PROVE Working(s)' /\ Books'
  BY <1>4, <1>5 DEF Update, Working, Task, Updating, Saving, Row
<1>6. ASSUME NEW o \in {"ship", "deliver", "cancel", "remove"}, NEW row \in Rows,
             Load(s, o, d, row, NoLines, "select"),
             row = [delivery[d] EXCEPT !.status = row.status, !.deleted = row.deleted],
             delivery[d].status # "CONFIRMED", row.status \notin {"NONE", "CONFIRMED"},
             row.status = "DRAFT" => delivery[d].status = "DRAFT"
      PROVE  Working(s)' /\ Books'
  <2>1. /\ pc'[s] = "select" /\ op'[s] = o /\ doc'[s] = d /\ copy'[s] = row
        /\ delivery[d].status # "NONE" /\ delivery' = delivery /\ Books'
    BY <1>4, <1>6
  <2>2. Changing(s)'
    BY <1>6, <2>1 DEF Changing, Row
  <2>. QED BY <2>1, <2>2 DEF Working, Task, Saving
<1>7. ASSUME Ship(s, d) \/ Deliver(s, d) \/ Cancel(s, d) PROVE Working(s)' /\ Books'
  <2>. DEFINE row(status) == [delivery[d] EXCEPT !.status = status]
  <2>1. ASSUME NEW status \in Statuses
        PROVE  /\ row(status) \in Rows /\ row(status).status = status
               /\ row(status) = [delivery[d] EXCEPT !.status = row(status).status,
                                                    !.deleted = row(status).deleted]
    BY <1>0 DEF Rows
  <2>2. /\ \/ Load(s, "ship", d, row("SHIPPED"), NoLines, "select")
           \/ Load(s, "deliver", d, row("DELIVERED"), NoLines, "select")
           \/ Load(s, "cancel", d, row("CANCELLED"), NoLines, "select")
        /\ delivery[d].status # "CONFIRMED"
    BY <1>7 DEF Ship, Deliver, Cancel
  <2>. HIDE DEF row
  <2>. QED BY <1>6, <2>1, <2>2 DEF Statuses
<1>8. ASSUME Remove(s, d) PROVE Working(s)' /\ Books'
  <2>. DEFINE row == [delivery[d] EXCEPT !.deleted = TRUE]
  <2>1. /\ row \in Rows /\ row.status = delivery[d].status
        /\ row = [delivery[d] EXCEPT !.status = row.status, !.deleted = row.deleted]
    BY <1>0 DEF Rows
  <2>2. Load(s, "remove", d, row, NoLines, "select") /\ delivery[d].status \in {"DRAFT", "CANCELLED"}
    BY <1>8 DEF Remove
  <2>. HIDE DEF row
  <2>. QED BY <1>6, <2>1, <2>2
<1>9. ASSUME Confirm(s, d) PROVE Working(s)' /\ Books'
  <2>1. /\ pc'[s] = "read" /\ op'[s] = "confirm" /\ doc'[s] = d /\ delivery' = delivery /\ Books'
        /\ delivery[d].status \in {"DELIVERED", "SHIPPED"}
    BY <1>4, <1>9 DEF Confirm, Confirmable
  <2>2. Confirming(s)'
    BY <2>1 DEF Confirming, Before, After, Row
  <2>. QED BY <2>1, <2>2 DEF Working, Task, Saving
<1>10. ASSUME Convert(s, d) PROVE Working(s)' /\ Books'
  <2>1. /\ pc'[s] = "invoice" /\ op'[s] = "convert" /\ doc'[s] = d /\ copy'[s] = delivery[d]
        /\ UNCHANGED <<delivery, billed>> /\ Books'
        /\ delivery[d].status \in {"CONFIRMED", "DELIVERED", "SHIPPED"}
        /\ delivery[d].total \notin billed
    BY <1>4, <1>10 DEF Convert
  <2>. QED BY <2>1 DEF Working, Task, Saving, Converting, Row
<1>. QED BY <1>1, <1>3, <1>5, <1>7, <1>8, <1>9, <1>10

\* Its save() writes the copy of a request that runs alone, and keeps the books.
LEMMA SaveSerial ==
  ASSUME Types, Serial, NEW s \in Sessions, Task(s), SaveSelect(s) \/ SaveWrite(s)
  PROVE  Working(s)' /\ Books'
<1>. DEFINE d == doc[s]
<1>0. /\ d \in Deliveries /\ delivery \in [Deliveries -> Rows] /\ Row(s) = delivery[d]
      /\ delivery[d] \in Rows /\ copy[s] \in Rows /\ Books
  BY DEF Types, SharedTypes, RequestTypes, Serial, Row
<1>1. Creating(s) \/ Changing(s)
  BY Stages DEF SaveSelect, SaveWrite
<1>2. CASE SaveSelect(s)
  <2>1. /\ pc[s] = "select" /\ pc'[s] = "write"
        /\ dirty'[s] = {c \in Columns : copy[s][c] # Row(s)[c]}
        /\ UNCHANGED <<delivery, lines, ledger, shipped, order, billed, invoices, op, doc, copy>>
    BY <1>2 DEF SaveSelect, Goto, document, stock, sales, Row, Types, RequestTypes
  <2>2. Saving(s)'
    BY <2>1 DEF Saving, Row
  <2>3. Creating(s)' \/ Changing(s)'
    BY <1>1, <2>1 DEF Creating, Changing, Row
  <2>. QED BY <1>0, <2>1, <2>2, <2>3, SameBooks DEF Working, Task
<1>3. CASE SaveWrite(s)
  <2>1. /\ pc[s] = "write" /\ UNCHANGED <<lines, ledger, shipped, order, billed, invoices>>
        /\ delivery' = [delivery EXCEPT ![d] =
             [c \in Columns |-> IF c \in dirty[s] THEN copy[s][c] ELSE delivery[d][c]]]
    BY <1>3 DEF SaveWrite, stock, sales
  <2>2. delivery' = [delivery EXCEPT ![d] = copy[s]]
    BY <1>0, <2>1, SavedRow DEF Task, Saving
  <2>3. delivery'[d] = copy[s] /\ \A e \in Deliveries \ {d} : delivery'[e] = delivery[e]
    BY <1>0, <2>2
  <2>4. \/ copy[s].status = "DRAFT" /\ delivery[d].status = "DRAFT"
        \/ /\ copy[s].status \notin {"NONE", "DRAFT"} /\ copy[s].total = delivery[d].total
    BY <1>0, <1>1 DEF Creating, Changing, Rows
  <2>5. ASSUME NEW e \in Deliveries PROVE Book(e)'
    <3>1. Book(e)
      BY <1>0 DEF Books
    <3>2. CASE e = d
      BY <2>1, <2>3, <2>4, <3>1, <3>2 DEF Book
    <3>3. CASE e # d
      BY <2>1, <2>3, <3>1, <3>3, SameBook
    <3>. QED BY <3>2, <3>3
  <2>6. Working(s)'
    <3>1. CASE op[s] = "deliver"
      <4>1. pc'[s] = "confirm" /\ op'[s] = "deliver"
        BY <1>3, <3>1 DEF SaveWrite, Goto, local, Types, RequestTypes
      <4>. QED BY <4>1 DEF Working, Task, Confirming, Saving, Before, After
    <3>2. CASE op[s] # "deliver"
      BY <1>3, <3>2 DEF SaveWrite, End, EndWith, Goto, Working, Types, RequestTypes
    <3>. QED BY <3>1, <3>2
  <2>. QED BY <1>0, <2>1, <2>5, <2>6 DEF Books, OrderBook
<1>. QED BY <1>2, <1>3


\* A request that ends without a write leaves the books.
LEMMA StopSerial ==
  ASSUME Types, Serial, NEW s \in Sessions, NEW t, EndWith(s, t),
         UNCHANGED <<delivery, lines, ledger, shipped, order, billed, invoices>>
  PROVE  Working(s)' /\ Books'
<1>1. pc'[s] = "idle"
  BY DEF EndWith, Goto, Types, RequestTypes
<1>. QED BY <1>1, SameBooks DEF Working, Serial

\* create() and update() change the lines of a draft, which has nothing on the ledger.
LEMMA LinesSerial ==
  ASSUME Types, Serial, NEW s \in Sessions, Task(s),
         InsertLine(s) \/ ClearLines(s) \/ InsertLines(s) \/ WriteHeader(s)
  PROVE  Working(s)' /\ Books'
<1>. DEFINE d == doc[s]
<1>0. /\ d \in Deliveries /\ delivery \in [Deliveries -> Rows] /\ Row(s) = delivery[d]
      /\ delivery[d] \in Rows /\ copy[s] \in Rows /\ Books
      /\ lines \in [Deliveries -> Amounts] /\ lines' \in [Deliveries -> Amounts]
  <2>1. Types'
    BY DocumentTypes
  <2>. QED BY <2>1 DEF Types, SharedTypes, RequestTypes, Serial, Row
<1>1. /\ InsertLine(s) => Creating(s)
      /\ ClearLines(s) \/ InsertLines(s) \/ WriteHeader(s) => Updating(s)
  BY Stages DEF InsertLine, ClearLines, InsertLines, WriteHeader
<1>2. delivery[d].status = "DRAFT"
  BY <1>0, <1>1 DEF Creating, Updating
<1>3. ledger[d] = NoLines /\ invoices[d] = 0
  BY <1>0, <1>2 DEF Books, Book
<1>4. /\ UNCHANGED <<ledger, shipped, order, billed, invoices>>
      /\ \A e \in Deliveries \ {d} : lines'[e] = lines[e] /\ delivery'[e] = delivery[e]
      /\ delivery'[d].status = "DRAFT"
  <2>1. CASE InsertLine(s)
    BY <1>0, <1>2, <2>1 DEF InsertLine, stock, sales
  <2>2. CASE ClearLines(s) \/ InsertLines(s)
    BY <1>0, <1>2, <2>2 DEF ClearLines, InsertLines, stock, sales
  <2>3. CASE WriteHeader(s)
    BY <1>0, <1>2, <2>3 DEF WriteHeader, stock, sales, Rows
  <2>. QED BY <2>1, <2>2, <2>3
<1>5. ASSUME NEW e \in Deliveries PROVE Book(e)'
  <2>1. Book(e)
    BY <1>0 DEF Books
  <2>2. CASE e = d
    <3>1. ASSUME NEW i \in Items PROVE ledger'[e][i] <= lines'[e][i]
      <4>1. ledger'[e][i] = 0 /\ lines'[e][i] \in Nat
        BY <1>0, <1>3, <1>4, <2>2 DEF NoLines, Amounts
      <4>. QED BY <4>1
    <3>. QED BY <1>3, <1>4, <2>2, <3>1 DEF Book
  <2>3. CASE e # d
    BY <1>4, <2>1, <2>3, SameBook
  <2>. QED BY <2>2, <2>3
<1>6. Books'
  BY <1>0, <1>4, <1>5 DEF Books, OrderBook
<1>7. Working(s)'
  <2>1. CASE InsertLine(s)
    <3>1. /\ pc'[s] \in {"line", "select"} /\ UNCHANGED <<delivery, doc, op>>
          /\ copy'[s] = [copy[s] EXCEPT !.total = SumFunction(want[s])]
      BY <2>1 DEF InsertLine, Goto, Types, RequestTypes
    <3>2. copy'[s] = [delivery[d] EXCEPT !.total = copy'[s].total]
      BY <1>0, <1>1, <2>1, <3>1 DEF Creating, Rows
    <3>3. Creating(s)'
      BY <1>1, <2>1, <3>1, <3>2 DEF Creating, Row
    <3>. QED BY <3>1, <3>3 DEF Working, Task, Saving
  <2>2. CASE ClearLines(s) \/ InsertLines(s)
    <3>1. /\ pc'[s] \in {"lines", "header"} /\ UNCHANGED <<delivery, doc, op>>
      BY <2>2 DEF ClearLines, InsertLines, Goto, local, Types, RequestTypes
    <3>2. Updating(s)'
      BY <1>1, <2>2, <3>1 DEF Updating, Row
    <3>. QED BY <3>1, <3>2 DEF Working, Task, Saving
  <2>3. CASE WriteHeader(s)
    BY <2>3 DEF WriteHeader, End, EndWith, Goto, Working, Types, RequestTypes
  <2>. QED BY <2>1, <2>2, <2>3
<1>. QED BY <1>6, <1>7

\* confirm() puts each line on the ledger once, and marks the delivery after the last.
LEMMA StockSerial ==
  ASSUME Types, Flows, Serial, NEW s \in Sessions, Task(s),
         \/ ConfirmDelivered(s) \/ ReadLines(s) \/ CheckLedger(s) \/ LedgerRow(s)
         \/ Deduct(s) \/ DeductRefused(s) \/ Mark(s)
  PROVE  Working(s)' /\ Books'
<1>. DEFINE d == doc[s]
<1>. USE DEF Goto
<1>0. /\ d \in Deliveries /\ delivery \in [Deliveries -> Rows] /\ Row(s) = delivery[d]
      /\ delivery[d] \in Rows /\ Books /\ lines \in [Deliveries -> Amounts]
      /\ ledger \in [Deliveries -> Amounts] /\ want[s] \in Amounts
  BY DEF Types, SharedTypes, RequestTypes, Serial, Row
<1>a. /\ pc[s] \in {"confirm"} \cup Before
      /\ UNCHANGED <<lines, shipped, order, billed, invoices>>
  BY DEF ConfirmDelivered, ReadLines, CheckLedger, LedgerRow, Deduct, DeductRefused, Mark, Before,
         document, stock, sales
<1>1. Confirming(s)
  BY <1>a, Stages
<1>2. ASSUME Confirming(s)', pc'[s] # "write" PROVE Working(s)'
  BY <1>2 DEF Working, Task, Saving
<1>3. ASSUME Refuse(s), UNCHANGED <<document, stock, sales>> PROVE Working(s)' /\ Books'
  BY <1>3, StopSerial DEF Refuse, document, stock, sales
<1>4. CASE ConfirmDelivered(s)
  <2>1. CASE Refuse(s)
    BY <1>3, <1>4, <2>1 DEF ConfirmDelivered
  <2>2. CASE ~Refuse(s)
    <3>1. /\ pc'[s] = "read" /\ UNCHANGED <<delivery, ledger, op, doc>>
          /\ delivery[d].status \in {"DELIVERED", "SHIPPED"}
      BY <1>4, <2>2 DEF ConfirmDelivered, document, stock, local, Confirmable, Types, RequestTypes
    <3>2. Confirming(s)'
      BY <1>1, <3>1 DEF Confirming, Before, After, Row
    <3>. QED BY <1>0, <1>2, <1>a, <3>1, <3>2, SameBooks
  <2>. QED BY <2>1, <2>2
<1>5. CASE ReadLines(s)
  <2>1. CASE Refuse(s)
    BY <1>3, <1>5, <2>1 DEF ReadLines
  <2>2. CASE ~Refuse(s)
    <3>1. /\ pc[s] = "read" /\ pc'[s] = "check" /\ UNCHANGED <<delivery, lines, ledger, op, doc>>
          /\ want'[s] = lines[d] /\ left'[s] = ItemsOf(lines[d])
      BY <1>5, <2>2 DEF ReadLines, document, stock, Types, RequestTypes
    <3>2. Confirming(s)'
      BY <1>1, <3>1 DEF Confirming, Before, After, Row
    <3>. QED BY <1>0, <1>2, <1>a, <3>1, <3>2, SameBooks
  <2>. QED BY <2>1, <2>2
<1>6. CASE CheckLedger(s)
  <2>1. /\ pc[s] = "check" /\ UNCHANGED <<delivery, lines, ledger, op, doc, want, left>>
        /\ pc'[s] = IF ledger[d] = NoLines THEN "ledger" ELSE "mark"
    BY <1>6 DEF CheckLedger, document, stock, local, Types, RequestTypes
  <2>2. ledger[d] = NoLines => \A i \in Items : ledger[d][i] = 0
    BY DEF NoLines
  <2>3. left[s] \subseteq Items
    BY DEF Types, RequestTypes
  <2>4. Confirming(s)'
    BY <1>1, <2>1, <2>2, <2>3 DEF Confirming, Before, After, Row
  <2>. QED BY <1>0, <1>2, <1>a, <2>1, <2>4, SameBooks
<1>7. CASE LedgerRow(s)
  <2>1. PICK i \in Items :
          /\ i \in left[s] /\ want[s][i] \in Nat \ {0} /\ item'[s] = i
          /\ \A e \in Deliveries, j \in Items :
               ledger'[e][j] = ledger[e][j] + (IF e = d /\ j = i THEN want[s][i] ELSE 0)
    BY <1>7, LedgerGrows
  <2>2. /\ pc[s] = "ledger" /\ pc'[s] = "deduct"
        /\ UNCHANGED <<delivery, lines, op, doc, want, left>>
    BY <1>7 DEF LedgerRow, document, Types, RequestTypes
  <2>3. /\ delivery[d].status \in {"SHIPPED", "DELIVERED"} /\ want[s] = lines[d]
        /\ \A j \in left[s] : ledger[d][j] = 0
    BY <1>0, <1>1, <2>2 DEF Confirming, Before
  <2>4. /\ \A j \in Items \ {i} : ledger'[d][j] = ledger[d][j]
        /\ ledger'[d][i] = lines[d][i]
    BY <1>0, <2>1, <2>3 DEF Amounts
  <2>5. ASSUME NEW e \in Deliveries, e # d PROVE ledger'[e] = ledger[e]
    BY <1>7, <2>5 DEF LedgerRow, Types, SharedTypes
  <2>6. ASSUME NEW e \in Deliveries PROVE Book(e)'
    <3>1. Book(e)
      BY <1>0 DEF Books
    <3>2. CASE e = d
      <4>1. ASSUME NEW j \in Items PROVE ledger'[e][j] <= lines'[e][j]
        BY <1>0, <2>2, <2>4, <3>1, <3>2 DEF Book, Amounts
      <4>. QED BY <1>a, <2>2, <2>3, <3>1, <3>2, <4>1 DEF Book
    <3>3. CASE e # d
      BY <1>a, <2>2, <2>5, <3>1, <3>3, SameBook
    <3>. QED BY <3>2, <3>3
  <2>7. Confirming(s)'
    <3>1. left[s] \subseteq Items
      BY DEF Types, RequestTypes
    <3>2. \A j \in left'[s] : j = item'[s] \/ ledger'[doc'[s]][j] = 0
      BY <2>1, <2>2, <2>3, <2>4, <3>1
    <3>. QED BY <1>1, <2>1, <2>2, <3>2 DEF Confirming, Before, After, Row
  <2>8. Books'
    BY <1>0, <1>a, <2>6 DEF Books, OrderBook
  <2>. QED BY <1>2, <2>2, <2>7, <2>8
<1>8. CASE Deduct(s)
  <2>1. /\ pc[s] = "deduct" /\ pc'[s] \in {"ledger", "mark"}
        /\ UNCHANGED <<delivery, lines, ledger, op, doc, want>>
        /\ left'[s] = left[s] \ {item[s]}
    BY <1>8 DEF Deduct, document, Types, RequestTypes
  <2>2. Confirming(s)'
    BY <1>1, <2>1 DEF Confirming, Before, After, Row
  <2>. QED BY <1>0, <1>2, <1>a, <2>1, <2>2, SameBooks
<1>9. CASE DeductRefused(s)
  BY <1>3, <1>9 DEF DeductRefused
<1>10. CASE Mark(s)
  <2>1. /\ pc[s] = "mark" /\ pc'[s] = "ship" /\ UNCHANGED <<lines, ledger, op, doc, want>>
        /\ delivery'[d].status = "CONFIRMED" /\ delivery'[d].total = delivery[d].total
        /\ \A e \in Deliveries \ {d} : delivery'[e] = delivery[e]
    BY <1>0, <1>10 DEF Mark, stock, Rows, Types, RequestTypes
  <2>2. ASSUME NEW e \in Deliveries PROVE Book(e)'
    <3>1. Book(e)
      BY <1>0 DEF Books
    <3>2. CASE e = d
      BY <1>a, <2>1, <3>1, <3>2 DEF Book
    <3>3. CASE e # d
      BY <1>a, <2>1, <3>1, <3>3, SameBook
    <3>. QED BY <3>2, <3>3
  <2>3. Confirming(s)'
    BY <1>1, <2>1 DEF Confirming, Before, After, Row
  <2>4. Books'
    BY <1>0, <1>a, <2>2 DEF Books, OrderBook
  <2>. QED BY <1>2, <2>1, <2>3, <2>4
<1>. QED BY <1>4, <1>5, <1>6, <1>7, <1>8, <1>9, <1>10


\* What counts as shipped only grows, the order reads it, and an invoice is the first of
\* its delivery.
LEMMA OrderSerial ==
  ASSUME Types, Serial, NEW s \in Sessions, Task(s),
         ReadShipped(s) \/ WriteShipped(s) \/ ReadItems(s) \/ WriteOrder(s) \/ InsertInvoice(s)
  PROVE  Working(s)' /\ Books'
<1>. DEFINE d == doc[s]
<1>. USE DEF Goto
<1>0. /\ d \in Deliveries /\ Row(s) = delivery[d] /\ Books /\ item[s] \in Items
      /\ shipped \in Amounts /\ want[s] \in Amounts /\ invoices \in [Deliveries -> Nat]
      /\ read[s] \in Reads
  BY DEF Types, SharedTypes, RequestTypes, Serial, Row
<1>1. /\ ReadShipped(s) \/ WriteShipped(s) \/ ReadItems(s) \/ WriteOrder(s) => Confirming(s)
      /\ InsertInvoice(s) => Converting(s)
  BY Stages DEF ReadShipped, WriteShipped, ReadItems, WriteOrder, InsertInvoice, After
<1>2. ASSUME Confirming(s)', pc'[s] # "write" PROVE Working(s)'
  BY <1>2 DEF Working, Task, Saving
<1>3. CASE ReadShipped(s)
  <2>1. PICK i \in left[s] :
          /\ item' = [item EXCEPT ![s] = i]
          /\ read' = [read EXCEPT ![s].shipped = shipped[i]]
    BY <1>3 DEF ReadShipped
  <2>2. /\ pc[s] = "ship" /\ pc'[s] = "shipped" /\ item'[s] = i /\ i \in left[s]
        /\ UNCHANGED <<delivery, lines, ledger, shipped, order, billed, invoices, op, doc, want, left>>
    BY <1>3, <2>1 DEF ReadShipped, document, stock, sales, Types, RequestTypes
  <2>3. read'[s].shipped = shipped[i]
    BY <1>0, <2>1 DEF Types, RequestTypes, Reads
  <2>4. Confirming(s)'
    BY <1>1, <1>3, <2>2, <2>3 DEF Confirming, Before, After, Row
  <2>. QED BY <1>0, <1>2, <2>2, <2>4, SameBooks
<1>4. CASE WriteShipped(s)
  <2>1. /\ pc[s] = "shipped" /\ pc'[s] \in {"items", "ship"}
        /\ UNCHANGED <<delivery, lines, ledger, order, billed, invoices, op, doc, want>>
        /\ shipped' = [shipped EXCEPT ![item[s]] = read[s].shipped + want[s][item[s]]]
    BY <1>4 DEF WriteShipped, document, stock, Types, RequestTypes
  <2>2. read[s].shipped = shipped[item[s]]
    BY <1>1, <1>4, <2>1 DEF Confirming
  <2>3. \A i \in Items : shipped'[i] \in Nat /\ shipped'[i] >= shipped[i]
    BY <1>0, <2>1, <2>2 DEF Amounts
  <2>4. OrderBook'
    <3>1. ASSUME NEW i \in Items, shipped[i] >= Ordered[i] PROVE shipped'[i] >= Ordered[i]
      <4>1. Ordered[i] \in Nat /\ shipped[i] \in Nat
        BY <1>0, ConstantsAssumption DEF Amounts
      <4>. QED BY <2>3, <3>1, <4>1
    <3>. QED BY <1>0, <2>1, <3>1 DEF Books, OrderBook
  <2>5. \A e \in Deliveries : Book(e)'
    BY <1>0, <2>1, SameBook DEF Books
  <2>6. Confirming(s)'
    BY <1>1, <1>4, <2>1 DEF Confirming, Before, After, Row
  <2>. QED BY <1>2, <2>1, <2>4, <2>5, <2>6 DEF Books
<1>5. CASE ReadItems(s)
  <2>1. /\ pc[s] = "items" /\ pc'[s] = "order"
        /\ UNCHANGED <<delivery, lines, ledger, shipped, order, billed, invoices, op, doc, want, left>>
        /\ read' = [read EXCEPT ![s].order = IF order = "Closed" THEN "keep" ELSE OrderStatus]
    BY <1>5 DEF ReadItems, document, stock, sales, Types, RequestTypes
  <2>2. read'[s].order = IF order = "Closed" THEN "keep" ELSE OrderStatus
    BY <1>0, <2>1 DEF Types, RequestTypes, Reads
  <2>3. read'[s].order = "Delivered" => \A i \in Items : shipped[i] >= Ordered[i]
    BY <2>2 DEF OrderStatus
  <2>4. Confirming(s)'
    BY <1>1, <1>5, <2>1, <2>3 DEF Confirming, Before, After, Row
  <2>. QED BY <1>0, <1>2, <2>1, <2>4, SameBooks
<1>6. CASE WriteOrder(s)
  <2>1. /\ pc[s] = "order" /\ pc'[s] = "idle"
        /\ UNCHANGED <<delivery, lines, ledger, shipped, billed, invoices>>
        /\ order' = IF read[s].order = "keep" THEN order ELSE read[s].order
    BY <1>6 DEF WriteOrder, End, EndWith, document, stock, Types, RequestTypes
  <2>2. OrderBook'
    BY <1>0, <1>1, <1>6, <2>1 DEF Books, OrderBook, Confirming, Reads
  <2>3. \A e \in Deliveries : Book(e)'
    BY <1>0, <2>1, SameBook DEF Books
  <2>. QED BY <2>1, <2>2, <2>3 DEF Working, Books
<1>7. CASE InsertInvoice(s)
  <2>1. /\ pc'[s] = "idle" /\ UNCHANGED <<delivery, lines, ledger, shipped, order>>
        /\ billed' = billed \cup {copy[s].total}
        /\ invoices'[d] = invoices[d] + 1 /\ \A e \in Deliveries \ {d} : invoices'[e] = invoices[e]
    BY <1>0, <1>7 DEF InsertInvoice, End, EndWith, document, stock, Types, RequestTypes
  <2>2. /\ copy[s] = delivery[d] /\ delivery[d].status \notin {"NONE", "DRAFT"}
        /\ delivery[d].total \notin billed
    BY <1>0, <1>1, <1>7 DEF Converting
  <2>3. ASSUME NEW e \in Deliveries PROVE Book(e)'
    <3>1. Book(e)
      BY <1>0 DEF Books
    <3>2. CASE e = d
      <4>1. invoices[d] = 0
        BY <1>0, <2>2, <3>1, <3>2 DEF Book
      <4>. QED BY <2>1, <2>2, <3>1, <3>2, <4>1 DEF Book
    <3>3. CASE e # d
      BY <2>1, <3>1, <3>3, SameBook
    <3>. QED BY <3>2, <3>3
  <2>. QED BY <1>0, <2>1, <2>3 DEF Working, Books, OrderBook
<1>. QED BY <1>3, <1>4, <1>5, <1>6, <1>7

\* The books, and what a request that runs alone knows, are inductive.
LEMMA SerialNext == Types /\ Flows /\ SerialInv /\ [Next]_vars => SerialInv'
<1>. SUFFICES ASSUME Types, Flows, SerialInv, [Next]_vars, ~trouble'.overlap PROVE Serial'
  BY DEF SerialInv
<1>1. ASSUME NEW s \in Sessions, Start(s) \/ Continue(s) \/ Fail(s) PROVE Serial'
  <2>1. /\ Serial /\ Own(s) /\ \A t \in Sessions \ {s} : pc[t] = "idle"
        /\ ~Start(s) => Task(s)
    BY <1>1, AloneStep, OwnStep
  <2>2. CASE Start(s)
    BY <2>1, <2>2, StartSerial, SerialStep
  <2>3. CASE Continue(s)
    <3>1. Task(s) \/ Start(s)
      BY <2>1
    <3>2. Working(s)' /\ Books'
      BY <2>1, <2>3, <3>1, StartSerial, SaveSerial, LinesSerial, StockSerial, OrderSerial
      DEF Continue
    <3>. QED BY <2>1, <3>2, SerialStep
  <2>4. CASE Fail(s)
    <3>1. Working(s)' /\ Books'
      BY <2>1, <2>4, StopSerial DEF Fail, document, stock, sales
    <3>. QED BY <2>1, <3>1, SerialStep
  <2>. QED BY <1>1, <2>2, <2>3, <2>4
<1>2. ASSUME UNCHANGED <<delivery, lines, ledger, onHand, shipped, billed, invoices, pc, op, doc,
                         copy, dirty, want, left, item, read, trouble>>,
             OrderBook' \/ ~OrderBook
      PROVE  Serial'
  <2>1. Serial
    BY <1>2 DEF SerialInv
  <2>2. ASSUME NEW t \in Sessions PROVE Working(t)'
    <3>1. Working(t) /\ (Saving(t) => Saving(t)')
      BY <1>2, <2>1 DEF Serial, Saving, Row
    <3>2. /\ Creating(t) => Creating(t)'
          /\ Updating(t) => Updating(t)'
          /\ Changing(t) => Changing(t)'
      BY <1>2 DEF Creating, Updating, Changing, Row
    <3>3. Converting(t) => Converting(t)'
      BY <1>2 DEF Converting, Row
    <3>4. Confirming(t) => Confirming(t)'
      BY <1>2 DEF Confirming, Row, Before, After
    <3>. QED BY <1>2, <3>1, <3>2, <3>3, <3>4 DEF Working, Task
  <2>3. \A d \in Deliveries : Book(d)'
    BY <1>2, <2>1, SameBook DEF Serial, Books
  <2>4. OrderBook'
    BY <1>2, <2>1 DEF Serial, Books
  <2>. QED BY <1>2, <2>1, <2>2, <2>3, <2>4 DEF Serial, Books
<1>3. CASE UNCHANGED vars
  BY <1>2, <1>3 DEF vars, OrderBook
<1>4. CASE EndOrder
  <2>1. OrderBook' \/ ~OrderBook
    BY <1>4 DEF EndOrder, OrderBook
  <2>. QED BY <1>2, <1>4, <2>1 DEF EndOrder, document, stock, local
<1>. QED BY <1>1, <1>3, <1>4 DEF Next

\* In every state, so long as requests come one at a time.
LEMMA SerialAlways == Spec => [](Types /\ Flows /\ SerialInv)
<1>1. Init => Types /\ Flows /\ SerialInv
  BY TypesInit, FlowsInit, SerialInit
<1>2. Types /\ Flows /\ SerialInv /\ [Next]_vars => (Types /\ Flows /\ SerialInv)'
  BY TypesNext, FlowsNext, SerialNext
<1>. QED BY <1>1, <1>2, PTL DEF Spec

\* Requests one after another take a delivery's goods out once and bill it once, wherever
\* they fail and however often they are repeated.
THEOREM TakenAndBilledOnce == Spec => []OncePerDelivery
<1>1. SerialInv => OncePerDelivery
  BY DEF SerialInv, Serial, Books, Book, OncePerDelivery, DeductedOnce, InvoicedOnce
<1>. QED BY <1>1, SerialAlways, PTL

\* An order reads Delivered, or Closed, only when all it ordered counts as shipped.
THEOREM OrderReadsShipped == Spec => []DeliveredMeansShipped
<1>1. SerialInv => DeliveredMeansShipped
  BY DEF SerialInv, Serial, Books, OrderBook, DeliveredMeansShipped
<1>. QED BY <1>1, SerialAlways, PTL


(***************************************************************************)
(* Requests one at a time, none of which dies or is refused half-way.      *)
(***************************************************************************)
\* The lines of a delivery that are on the ledger when only s runs.
Posted(s, d, i) ==
  IF d = doc[s] /\ pc[s] \in {"ledger", "deduct"}
  THEN i \notin left[s] \/ (pc[s] = "deduct" /\ i = item[s])
  ELSE delivery[d].status = "CONFIRMED" \/ (d = doc[s] /\ pc[s] = "mark")

\* What s has confirmed of an item and not yet counted as shipped.
Uncounted(s, i) == IF pc[s] \in {"ship", "shipped"} /\ i \in left[s] THEN want[s][i] ELSE 0

LedgerAccount(s) ==
  \A d \in Deliveries, i \in Items :
    ledger[d][i] = IF Posted(s, d, i) THEN lines[d][i] ELSE 0
StockAccount(s) == \A i \in Items : onHand[i] = Opening[i] - Out(i) + Taking(s, i)
ShippedAccount(s) == \A i \in Items : shipped[i] = ConfirmedOf(i) - Uncounted(s, i)

Account(s) == LedgerAccount(s) /\ StockAccount(s) /\ ShippedAccount(s)

Alone(s) == \A t \in Sessions \ {s} : pc[t] = "idle"

Calm == ~trouble.overlap /\ trouble.failures = 0 /\ ~trouble.refused

CalmInv == Calm => \A s \in Sessions : Alone(s) => Account(s)

\* What is confirmed is a natural number.
LEMMA ConfirmedType == ASSUME Types, NEW i \in Items PROVE ConfirmedOf(i) \in Nat
<1>. DEFINE f == [d \in Deliveries |->
                    IF delivery[d].status = "CONFIRMED" THEN lines[d][i] ELSE 0]
<1>1. f \in [Deliveries -> Nat]
  BY DEF Types, SharedTypes, Amounts
<1>. HIDE DEF f
<1>2. SumFunction(f) \in Nat
  BY <1>1, ConstantsAssumption, SumNat
<1>. QED BY <1>2 DEF f, ConfirmedOf

\* A delivery that becomes confirmed adds its lines.
LEMMA ConfirmedGrows ==
  ASSUME Types, Types', NEW e \in Deliveries, NEW i \in Items, lines' = lines,
         delivery[e].status # "CONFIRMED", delivery'[e].status = "CONFIRMED",
         \A d \in Deliveries \ {e} : delivery'[d] = delivery[d]
  PROVE  ConfirmedOf(i)' = ConfirmedOf(i) + lines[e][i]
<1>. DEFINE f == [d \in Deliveries |->
                    IF delivery[d].status = "CONFIRMED" THEN lines[d][i] ELSE 0]
            g == [d \in Deliveries |->
                    IF delivery'[d].status = "CONFIRMED" THEN lines'[d][i] ELSE 0]
<1>1. f \in [Deliveries -> Int] /\ g \in [Deliveries -> Int]
  BY DEF Types, SharedTypes, Amounts
<1>2. \A d \in Deliveries \ {e} : g[d] = f[d]
  OBVIOUS
<1>3. f[e] = 0 /\ g[e] = lines[e][i] /\ lines[e][i] \in Int
  BY DEF Types, SharedTypes, Amounts
<1>. HIDE DEF f, g
<1>4. SumFunction(g) = SumFunction(f) - f[e] + g[e]
  BY <1>1, <1>2, ConstantsAssumption, SumChange
<1>5. SumFunction(f) \in Int
  BY <1>1, ConstantsAssumption, SumType
<1>6. SumFunction(g) = SumFunction(f) + lines[e][i]
  BY <1>3, <1>4, <1>5
<1>. QED BY <1>6 DEF f, g, ConfirmedOf

\* Steps that neither move stock nor count shipments keep the confirmed deliveries.
LEMMA ConfirmedSame ==
  ASSUME NEW i \in Items,
         \A d \in Deliveries :
           /\ (delivery'[d].status = "CONFIRMED") <=> (delivery[d].status = "CONFIRMED")
           /\ delivery[d].status = "CONFIRMED" => lines'[d] = lines[d]
  PROVE  ConfirmedOf(i)' = ConfirmedOf(i)
<1>1. [d \in Deliveries |-> IF delivery'[d].status = "CONFIRMED" THEN lines'[d][i] ELSE 0]
        = [d \in Deliveries |-> IF delivery[d].status = "CONFIRMED" THEN lines[d][i] ELSE 0]
  OBVIOUS
<1>. QED BY <1>1 DEF ConfirmedOf

\* The ledger alone tells what went out.
LEMMA OutSame == ASSUME NEW i \in Items, ledger' = ledger PROVE Out(i)' = Out(i)
BY DEF Out

\* A new order has nothing on the ledger and nothing shipped.
LEMMA CalmInit == Init => CalmInv
<1>. SUFFICES ASSUME Init, NEW s \in Sessions PROVE Account(s)
  BY DEF CalmInv
<1>1. LedgerAccount(s)
  BY DEF Init, LedgerAccount, Posted, NoRow, NoLines
<1>2. ASSUME NEW i \in Items PROVE Out(i) = 0 /\ ConfirmedOf(i) = 0
  <2>1. /\ [d \in Deliveries |-> ledger[d][i]] = [d \in Deliveries |-> 0]
        /\ [d \in Deliveries |-> IF delivery[d].status = "CONFIRMED" THEN lines[d][i] ELSE 0]
             = [d \in Deliveries |-> 0]
    BY DEF Init, NoRow, NoLines
  <2>2. SumFunction([d \in Deliveries |-> 0]) = 0
    BY ConstantsAssumption, SumZero
  <2>. QED BY <2>1, <2>2 DEF Out, ConfirmedOf
<1>3. \A i \in Items : Opening[i] \in Nat /\ Taking(s, i) = 0 /\ Uncounted(s, i) = 0
  BY ConstantsAssumption DEF Init, Taking, Uncounted
<1>4. StockAccount(s)
  <2>1. onHand = Opening
    BY DEF Init
  <2>. QED BY <1>2, <1>3, <2>1 DEF StockAccount
<1>5. ShippedAccount(s)
  <2>1. \A i \in Items : shipped[i] = 0
    BY DEF Init, NoLines
  <2>. QED BY <1>2, <1>3, <2>1 DEF ShippedAccount
<1>. QED BY <1>1, <1>4, <1>5 DEF Account

\* Outside the part of confirm() that writes ledger, stock and order items.
Aside(point) == point \notin {"ledger", "deduct", "mark", "ship", "shipped"}

\* A step that leaves ledger, stock, shipments and the confirmed deliveries.
LEMMA QuietAccount ==
  ASSUME NEW s \in Sessions, Account(s), UNCHANGED <<ledger, onHand, shipped>>,
         Aside(pc[s]), Aside(pc'[s]),
         \A d \in Deliveries :
           /\ (delivery'[d].status = "CONFIRMED") <=> (delivery[d].status = "CONFIRMED")
           /\ delivery[d].status = "CONFIRMED" => lines'[d] = lines[d]
  PROVE  Account(s)'
<1>1. LedgerAccount(s)'
  BY DEF Account, LedgerAccount, Posted, Aside
<1>2. \A i \in Items : Taking(s, i) = 0 /\ Taking(s, i)' = 0
  BY DEF Taking, Aside
<1>3. \A i \in Items : Uncounted(s, i) = 0 /\ Uncounted(s, i)' = 0
  BY DEF Uncounted, Aside
<1>4. StockAccount(s)'
  <2>1. \A i \in Items : Out(i)' = Out(i)
    BY OutSame
  <2>. QED BY <1>2, <2>1 DEF Account, StockAccount
<1>5. ShippedAccount(s)'
  <2>1. \A i \in Items : ConfirmedOf(i)' = ConfirmedOf(i)
    BY ConfirmedSame
  <2>. QED BY <1>3, <2>1 DEF Account, ShippedAccount
<1>. QED BY <1>1, <1>4, <1>5 DEF Account


\* A handler starts without touching a confirmed delivery.
LEMMA StartAccount ==
  ASSUME Types, NEW s \in Sessions, Account(s), pc[s] = "idle", Start(s)
  PROVE  Account(s)'
<1>0. delivery \in [Deliveries -> Rows]
  BY DEF Types, SharedTypes
<1>1. ASSUME NEW o, NEW d, NEW row, NEW quantities, NEW to, Begin(s, o, d, row, quantities, to),
             Aside(to), lines' = lines,
             \A e \in Deliveries :
               (delivery'[e].status = "CONFIRMED") <=> (delivery[e].status = "CONFIRMED")
      PROVE  Account(s)'
  <2>1. pc'[s] = to /\ UNCHANGED <<ledger, onHand, shipped>>
    BY <1>1, BeginFacts
  <2>2. Aside(pc[s])
    BY DEF Aside
  <2>. QED BY <1>1, <2>1, <2>2, QuietAccount
<1>2. ASSUME NEW d \in Deliveries, NEW quantities, Create(s, d, quantities) PROVE Account(s)'
  <2>. DEFINE row == [NoRow EXCEPT !.status = "DRAFT"]
  <2>1. \A e \in Deliveries :
          (delivery'[e].status = "CONFIRMED") <=> (delivery[e].status = "CONFIRMED")
    BY <1>0, <1>2 DEF Create, Rows
  <2>2. Begin(s, "create", d, row, quantities, "line") /\ lines' = lines
    BY <1>2 DEF Create
  <2>3. Aside("line")
    BY DEF Aside
  <2>. HIDE DEF row
  <2>. QED BY <1>1, <2>1, <2>2, <2>3
<1>3. ASSUME NEW o, NEW d, NEW row, NEW quantities, NEW to, Load(s, o, d, row, quantities, to),
             Aside(to)
      PROVE  Account(s)'
  BY <1>1, <1>3 DEF Load, document
<1>4. Aside("select") /\ Aside("clear") /\ Aside("read") /\ Aside("invoice")
  BY DEF Aside
<1>5. ASSUME NEW d, NEW quantities, Update(s, d, quantities) PROVE Account(s)'
  BY <1>3, <1>4, <1>5 DEF Update
<1>6. ASSUME NEW d, Ship(s, d) \/ Deliver(s, d) \/ Cancel(s, d) \/ Remove(s, d) PROVE Account(s)'
  <2>. DEFINE row(status) == [delivery[d] EXCEPT !.status = status]
              gone == [delivery[d] EXCEPT !.deleted = TRUE]
  <2>1. \/ Load(s, "ship", d, row("SHIPPED"), NoLines, "select")
        \/ Load(s, "deliver", d, row("DELIVERED"), NoLines, "select")
        \/ Load(s, "cancel", d, row("CANCELLED"), NoLines, "select")
        \/ Load(s, "remove", d, gone, NoLines, "select")
    BY <1>6 DEF Ship, Deliver, Cancel, Remove
  <2>. HIDE DEF row, gone
  <2>. QED BY <1>3, <1>4, <2>1
<1>7. ASSUME NEW d, Confirm(s, d) \/ Convert(s, d) PROVE Account(s)'
  BY <1>3, <1>4, <1>7 DEF Confirm, Convert
<1>. QED BY <1>2, <1>5, <1>6, <1>7 DEF Start

\* The saves, the lines of a draft, the reads, the order and the invoice.
LEMMA AsideAccount ==
  ASSUME Types, Serial, NEW s \in Sessions, Task(s), Account(s), ~Refuse(s),
         \/ InsertLine(s) \/ SaveSelect(s) \/ SaveWrite(s)
         \/ ClearLines(s) \/ InsertLines(s) \/ WriteHeader(s)
         \/ ConfirmDelivered(s) \/ ReadLines(s)
         \/ ReadItems(s) \/ WriteOrder(s) \/ InsertInvoice(s)
  PROVE  Account(s)'
<1>. DEFINE d == doc[s]
            Same == \A e \in Deliveries :
                      /\ (delivery'[e].status = "CONFIRMED") <=> (delivery[e].status = "CONFIRMED")
                      /\ delivery[e].status = "CONFIRMED" => lines'[e] = lines[e]
<1>. USE DEF Goto
<1>0. /\ d \in Deliveries /\ delivery \in [Deliveries -> Rows] /\ Row(s) = delivery[d]
      /\ lines \in [Deliveries -> Amounts] /\ copy[s] \in Rows
  BY DEF Types, SharedTypes, RequestTypes, Row
<1>1. UNCHANGED <<ledger, onHand, shipped>>
  BY DEF InsertLine, SaveSelect, SaveWrite, ClearLines, InsertLines, WriteHeader, ConfirmDelivered,
         ReadLines, ReadItems, WriteOrder, InsertInvoice, stock, sales
<1>2. Aside(pc[s])
  BY DEF InsertLine, SaveSelect, SaveWrite, ClearLines, InsertLines, WriteHeader, ConfirmDelivered,
         ReadLines, ReadItems, WriteOrder, InsertInvoice, Aside
<1>3. End(s) => pc'[s] = "idle"
  BY DEF End, EndWith, Types, RequestTypes
<1>4. Aside(pc'[s])
  <2>1. CASE InsertLine(s) \/ SaveSelect(s) \/ ClearLines(s) \/ InsertLines(s)
    BY <2>1 DEF InsertLine, SaveSelect, ClearLines, InsertLines, Aside, Types, RequestTypes
  <2>2. CASE SaveWrite(s) \/ WriteHeader(s) \/ WriteOrder(s) \/ InsertInvoice(s)
    BY <1>3, <2>2 DEF SaveWrite, WriteHeader, WriteOrder, InsertInvoice, Aside, Types, RequestTypes
  <2>3. CASE ConfirmDelivered(s) \/ ReadLines(s) \/ ReadItems(s)
    BY <2>3 DEF ConfirmDelivered, ReadLines, ReadItems, Aside, Types, RequestTypes
  <2>. QED BY <2>1, <2>2, <2>3
<1>5. CASE SaveSelect(s) \/ ConfirmDelivered(s) \/ ReadLines(s) \/ ReadItems(s) \/ WriteOrder(s)
             \/ InsertInvoice(s)
  <2>1. UNCHANGED <<delivery, lines>>
    BY <1>5 DEF SaveSelect, ConfirmDelivered, ReadLines, ReadItems, WriteOrder, InsertInvoice, document
  <2>. QED BY <1>1, <1>2, <1>4, <2>1, QuietAccount
<1>6. CASE SaveWrite(s)
  <2>1. Row(s).status # "CONFIRMED" /\ copy[s].status # "CONFIRMED"
    <3>1. Creating(s) \/ Changing(s)
      BY <1>6, Stages DEF SaveWrite
    <3>. QED BY <1>0, <3>1 DEF Creating, Changing, Rows
  <2>2. /\ \A e \in Deliveries \ {d} : delivery'[e] = delivery[e]
        /\ delivery'[d] = [c \in Columns |-> IF c \in dirty[s] THEN copy[s][c] ELSE delivery[d][c]]
        /\ lines' = lines
    BY <1>0, <1>6 DEF SaveWrite
  <2>3. delivery'[d].status \in {copy[s].status, delivery[d].status}
    BY <2>2 DEF Columns
  <2>4. Same
    BY <1>0, <2>1, <2>2, <2>3
  <2>. QED BY <1>1, <1>2, <1>4, <2>4, QuietAccount
<1>7. CASE InsertLine(s) \/ ClearLines(s) \/ InsertLines(s) \/ WriteHeader(s)
  <2>1. delivery[d].status = "DRAFT"
    <3>1. Creating(s) \/ Updating(s)
      BY <1>7, Stages DEF InsertLine, ClearLines, InsertLines, WriteHeader
    <3>. QED BY <1>0, <3>1 DEF Creating, Updating
  <2>2. /\ \A e \in Deliveries \ {d} : delivery'[e] = delivery[e] /\ lines'[e] = lines[e]
        /\ delivery'[d].status = "DRAFT"
    <3>1. CASE InsertLine(s)
      BY <1>0, <2>1, <3>1 DEF InsertLine
    <3>2. CASE ClearLines(s) \/ InsertLines(s)
      BY <1>0, <2>1, <3>2 DEF ClearLines, InsertLines
    <3>3. CASE WriteHeader(s)
      BY <1>0, <2>1, <3>3 DEF WriteHeader, Rows
    <3>. QED BY <1>7, <3>1, <3>2, <3>3
  <2>3. Same
    BY <2>1, <2>2
  <2>. QED BY <1>1, <1>2, <1>4, <2>3, QuietAccount
<1>. QED BY <1>5, <1>6, <1>7

\* confirm(): the ledger, the stock and the status of a delivery, line by line.
LEMMA StockAccountStep ==
  ASSUME Types, Types', Flows, Serial, NEW s \in Sessions, Task(s), Account(s),
         CheckLedger(s) \/ LedgerRow(s) \/ Deduct(s)
  PROVE  Account(s)'
<1>. DEFINE d == doc[s]
<1>. USE DEF Goto
<1>0. /\ d \in Deliveries /\ Row(s) = delivery[d] /\ lines \in [Deliveries -> Amounts]
      /\ ledger \in [Deliveries -> Amounts] /\ want[s] \in Amounts /\ left[s] \subseteq Items
      /\ item[s] \in Items /\ onHand \in Amounts /\ Opening \in Amounts
  BY ConstantsAssumption DEF Types, SharedTypes, RequestTypes, Row, Amounts
<1>1. /\ LedgerAccount(s) /\ StockAccount(s) /\ ShippedAccount(s)
      /\ \A i \in Items : Out(i) \in Nat
  BY OutType DEF Account
<1>2. Confirming(s)
  BY Stages DEF CheckLedger, LedgerRow, Deduct, Before
<1>3. want[s] = lines[d] /\ delivery[d].status # "CONFIRMED"
  BY <1>0, <1>2 DEF Confirming, CheckLedger, LedgerRow, Deduct, Before, After
<1>4. ShippedAccount(s)'
  <2>1. /\ pc[s] \in {"check", "ledger", "deduct"} /\ pc'[s] \in {"ledger", "deduct", "mark"}
        /\ UNCHANGED <<delivery, lines, shipped>>
    BY DEF CheckLedger, LedgerRow, Deduct, document, sales, Types, RequestTypes
  <2>2. \A i \in Items : ConfirmedOf(i)' = ConfirmedOf(i)
    BY <2>1, ConfirmedSame
  <2>3. \A i \in Items : Uncounted(s, i) = 0 /\ Uncounted(s, i)' = 0
    BY <2>1 DEF Uncounted
  <2>. QED BY <1>1, <2>1, <2>2, <2>3 DEF ShippedAccount
<1>5. CASE CheckLedger(s)
  <2>1. /\ pc[s] = "check" /\ pc'[s] = IF ledger[d] = NoLines THEN "ledger" ELSE "mark"
        /\ UNCHANGED <<delivery, lines, ledger, onHand, doc, left, want, item>>
    BY <1>5 DEF CheckLedger, document, stock, local, Types, RequestTypes
  <2>2. \A i \in Items : ledger[d][i] = 0
    BY <1>0, <1>1, <1>3, <2>1 DEF LedgerAccount, Posted
  <2>3. ledger[d] = NoLines
    BY <1>0, <2>2 DEF NoLines, Amounts
  <2>4. left[s] = {i \in Items : lines[d][i] > 0}
    BY <1>2, <1>3, <2>1 DEF Confirming, ItemsOf
  <2>5. ASSUME NEW e \in Deliveries, NEW i \in Items
        PROVE  ledger'[e][i] = IF Posted(s, e, i)' THEN lines'[e][i] ELSE 0
    <3>1. CASE e = d
      <4>1. Posted(s, e, i)' <=> i \notin left[s]
        BY <2>1, <2>3, <3>1 DEF Posted
      <4>2. i \notin left[s] => lines[d][i] = 0
        BY <1>0, <2>4 DEF Amounts
      <4>. QED BY <2>1, <2>2, <3>1, <4>1, <4>2
    <3>2. CASE e # d
      BY <1>1, <2>1, <3>2 DEF LedgerAccount, Posted
    <3>. QED BY <3>1, <3>2
  <2>6. \A i \in Items : Taking(s, i) = 0 /\ Taking(s, i)' = 0 /\ Out(i)' = Out(i)
    BY <2>1, <2>3, OutSame DEF Taking
  <2>7. StockAccount(s)'
    BY <1>1, <2>1, <2>6 DEF StockAccount
  <2>. QED BY <1>4, <2>5, <2>7 DEF Account, LedgerAccount
<1>6. CASE LedgerRow(s)
  <2>1. PICK k \in Items :
          /\ k \in left[s] /\ want[s][k] \in Nat \ {0} /\ item'[s] = k
          /\ \A e \in Deliveries, j \in Items :
               ledger'[e][j] = ledger[e][j] + (IF e = d /\ j = k THEN want[s][k] ELSE 0)
    BY <1>6, LedgerGrows
  <2>2. /\ pc[s] = "ledger" /\ pc'[s] = "deduct"
        /\ UNCHANGED <<delivery, lines, onHand, doc, left, want>>
    BY <1>6 DEF LedgerRow, document, Types, RequestTypes
  <2>3. ASSUME NEW e \in Deliveries, NEW i \in Items
        PROVE  ledger'[e][i] = IF Posted(s, e, i)' THEN lines'[e][i] ELSE 0
    <3>0. ledger[e][i] = IF Posted(s, e, i) THEN lines[e][i] ELSE 0
      BY <1>1 DEF LedgerAccount
    <3>1. CASE e = d /\ i = k
      <4>1. Posted(s, e, i)' /\ ~Posted(s, e, i)
        BY <2>1, <2>2, <3>1 DEF Posted
      <4>. QED BY <1>0, <1>3, <2>1, <2>2, <3>0, <3>1, <4>1 DEF Amounts
    <3>2. CASE ~(e = d /\ i = k)
      <4>1. Posted(s, e, i)' <=> Posted(s, e, i)
        BY <2>1, <2>2, <3>2 DEF Posted
      <4>2. ledger'[e][i] = ledger[e][i]
        <5>1. ledger[e][i] \in Nat
          BY <1>0 DEF Amounts
        <5>. QED BY <2>1, <3>2, <5>1
      <4>. QED BY <2>2, <3>0, <4>1, <4>2
    <3>. QED BY <3>1, <3>2
  <2>4. ASSUME NEW i \in Items
        PROVE  onHand'[i] = Opening[i] - Out(i)' + Taking(s, i)'
    <3>1. Out(i)' = Out(i) + (IF i = k THEN want[s][k] ELSE 0)
      BY <2>1, OutGrows
    <3>2. Taking(s, i) = 0 /\ Taking(s, i)' = IF i = k THEN want[s][k] ELSE 0
      BY <2>1, <2>2 DEF Taking
    <3>3. onHand'[i] = Opening[i] - Out(i) + Taking(s, i)
      BY <1>1, <2>2 DEF StockAccount
    <3>4. Out(i) \in Nat /\ Opening[i] \in Nat /\ want[s][k] \in Nat
      BY <1>0, <1>1 DEF Amounts
    <3>. QED BY <3>1, <3>2, <3>3, <3>4
  <2>. QED BY <1>4, <2>3, <2>4 DEF Account, LedgerAccount, StockAccount
<1>7. CASE Deduct(s)
  <2>1. /\ pc[s] = "deduct" /\ pc'[s] = IF left[s] = {item[s]} THEN "mark" ELSE "ledger"
        /\ UNCHANGED <<delivery, lines, ledger, doc, want, item>>
        /\ left'[s] = left[s] \ {item[s]}
        /\ onHand' = [onHand EXCEPT ![item[s]] = @ - want[s][item[s]]]
    BY <1>7 DEF Deduct, document, Types, RequestTypes
  <2>2. ASSUME NEW e \in Deliveries, NEW i \in Items
        PROVE  ledger'[e][i] = IF Posted(s, e, i)' THEN lines'[e][i] ELSE 0
    <3>1. Posted(s, e, i)' <=> Posted(s, e, i)
      BY <1>3, <2>1 DEF Posted
    <3>. QED BY <1>1, <2>1, <3>1 DEF LedgerAccount
  <2>3. ASSUME NEW i \in Items
        PROVE  onHand'[i] = Opening[i] - Out(i)' + Taking(s, i)'
    <3>1. Out(i)' = Out(i)
      BY <2>1, OutSame
    <3>2. Taking(s, i)' = 0 /\ Taking(s, i) = IF i = item[s] THEN want[s][i] ELSE 0
      BY <2>1 DEF Taking
    <3>3. onHand[i] = Opening[i] - Out(i) + Taking(s, i)
      BY <1>1 DEF StockAccount
    <3>4. onHand'[i] = onHand[i] - (IF i = item[s] THEN want[s][i] ELSE 0)
      BY <1>0, <2>1 DEF Amounts
    <3>5. Out(i) \in Nat /\ Opening[i] \in Nat /\ want[s][i] \in Nat /\ onHand[i] \in Nat
      BY <1>0, <1>1 DEF Amounts
    <3>. QED BY <3>1, <3>2, <3>3, <3>4, <3>5
  <2>. QED BY <1>4, <2>2, <2>3 DEF Account, LedgerAccount, StockAccount
<1>. QED BY <1>5, <1>6, <1>7


\* The status, and what each order item counts as shipped.
LEMMA ShipAccount ==
  ASSUME Types, Types', Flows, Serial, NEW s \in Sessions, Task(s), Account(s),
         Mark(s) \/ ReadShipped(s) \/ WriteShipped(s)
  PROVE  Account(s)'
<1>. DEFINE d == doc[s]
<1>. USE DEF Goto
<1>0. /\ d \in Deliveries /\ Row(s) = delivery[d] /\ lines \in [Deliveries -> Amounts]
      /\ want[s] \in Amounts /\ item[s] \in Items /\ shipped \in Amounts
      /\ delivery \in [Deliveries -> Rows]
  BY DEF Types, SharedTypes, RequestTypes, Row
<1>1. /\ LedgerAccount(s) /\ StockAccount(s) /\ ShippedAccount(s)
      /\ \A i \in Items : ConfirmedOf(i) \in Nat
  BY ConfirmedType DEF Account
<1>2. Confirming(s)
  BY Stages DEF Mark, ReadShipped, WriteShipped, Before, After
<1>3. want[s] = lines[d]
  BY <1>2 DEF Confirming, Mark, ReadShipped, WriteShipped, Before, After
<1>4. /\ pc[s] \in {"mark", "ship", "shipped"} /\ pc'[s] \in {"ship", "shipped", "items"}
      /\ UNCHANGED <<lines, ledger, onHand, doc, want>>
  BY DEF Mark, ReadShipped, WriteShipped, document, stock, Types, RequestTypes
<1>5. StockAccount(s)'
  <2>1. \A i \in Items : Taking(s, i) = 0 /\ Taking(s, i)' = 0 /\ Out(i)' = Out(i)
    BY <1>4, OutSame DEF Taking
  <2>. QED BY <1>1, <1>4, <2>1 DEF StockAccount
<1>6. LedgerAccount(s)'
  <2>1. ASSUME NEW e \in Deliveries, NEW i \in Items PROVE Posted(s, e, i)' <=> Posted(s, e, i)
    <3>1. CASE Mark(s)
      <4>1. pc[s] = "mark" /\ pc'[s] = "ship"
        BY <3>1 DEF Mark, Types, RequestTypes
      <4>2. /\ delivery'[d].status = "CONFIRMED"
            /\ \A c \in Deliveries \ {d} : delivery'[c] = delivery[c]
        BY <1>0, <3>1 DEF Mark, Rows
      <4>. QED BY <1>4, <4>1, <4>2 DEF Posted
    <3>2. CASE ~Mark(s)
      <4>1. pc[s] # "mark" /\ delivery' = delivery
        BY <3>2 DEF ReadShipped, WriteShipped, document
      <4>. QED BY <1>4, <4>1 DEF Posted
    <3>. QED BY <3>1, <3>2
  <2>. QED BY <1>1, <1>4, <2>1 DEF LedgerAccount
<1>7. CASE Mark(s)
  <2>1. /\ pc[s] = "mark" /\ pc'[s] = "ship" /\ left'[s] = ItemsOf(want[s]) /\ shipped' = shipped
        /\ delivery[d].status # "CONFIRMED" /\ delivery'[d].status = "CONFIRMED"
        /\ \A e \in Deliveries \ {d} : delivery'[e] = delivery[e]
    <3>1. /\ pc[s] = "mark" /\ pc'[s] = "ship" /\ left'[s] = ItemsOf(want[s]) /\ shipped' = shipped
      BY <1>7 DEF Mark, sales, Types, RequestTypes
    <3>2. delivery[d].status # "CONFIRMED"
      BY <1>0, <1>2, <3>1 DEF Confirming, Before
    <3>3. /\ delivery'[d].status = "CONFIRMED"
          /\ \A e \in Deliveries \ {d} : delivery'[e] = delivery[e]
      BY <1>0, <1>7 DEF Mark, Rows
    <3>. QED BY <3>1, <3>2, <3>3
  <2>2. ASSUME NEW i \in Items PROVE shipped'[i] = ConfirmedOf(i)' - Uncounted(s, i)'
    <3>1. ConfirmedOf(i)' = ConfirmedOf(i) + lines[d][i]
      BY <1>0, <1>4, <2>1, ConfirmedGrows
    <3>2. lines[d][i] \in Nat
      BY <1>0 DEF Amounts
    <3>3. Uncounted(s, i) = 0 /\ Uncounted(s, i)' = lines[d][i]
      BY <1>3, <1>4, <2>1, <3>2 DEF Uncounted, ItemsOf
    <3>4. shipped[i] = ConfirmedOf(i) - Uncounted(s, i)
      BY <1>1 DEF ShippedAccount
    <3>. QED BY <1>1, <2>1, <3>1, <3>2, <3>3, <3>4
  <2>. QED BY <1>5, <1>6, <2>2 DEF Account, ShippedAccount
<1>8. CASE ReadShipped(s)
  <2>1. /\ pc[s] = "ship" /\ pc'[s] = "shipped" /\ UNCHANGED <<delivery, left, shipped>>
    BY <1>8 DEF ReadShipped, document, sales, Types, RequestTypes
  <2>2. \A i \in Items : ConfirmedOf(i)' = ConfirmedOf(i)
    BY <1>4, <2>1, ConfirmedSame
  <2>3. \A i \in Items : Uncounted(s, i)' = Uncounted(s, i)
    BY <1>4, <2>1 DEF Uncounted
  <2>. QED BY <1>1, <1>5, <1>6, <2>1, <2>2, <2>3 DEF Account, ShippedAccount
<1>9. CASE WriteShipped(s)
  <2>1. /\ pc[s] = "shipped" /\ pc'[s] = IF left[s] = {item[s]} THEN "items" ELSE "ship"
        /\ left'[s] = left[s] \ {item[s]} /\ delivery' = delivery
        /\ shipped' = [shipped EXCEPT ![item[s]] = read[s].shipped + want[s][item[s]]]
    BY <1>9 DEF WriteShipped, document, Types, RequestTypes
  <2>2. read[s].shipped = shipped[item[s]] /\ item[s] \in left[s]
    BY <1>2, <2>1 DEF Confirming
  <2>3. ASSUME NEW i \in Items PROVE shipped'[i] = ConfirmedOf(i)' - Uncounted(s, i)'
    <3>1. ConfirmedOf(i)' = ConfirmedOf(i)
      BY <1>4, <2>1, ConfirmedSame
    <3>2. Uncounted(s, i)' = IF i = item[s] THEN 0 ELSE Uncounted(s, i)
      BY <1>4, <2>1 DEF Uncounted
    <3>3. i = item[s] => Uncounted(s, i) = want[s][i]
      BY <2>1, <2>2 DEF Uncounted
    <3>4. shipped[i] = ConfirmedOf(i) - Uncounted(s, i)
      BY <1>1 DEF ShippedAccount
    <3>5. shipped'[i] = IF i = item[s] THEN shipped[i] + want[s][i] ELSE shipped[i]
      BY <1>0, <2>1, <2>2 DEF Amounts
    <3>6. ConfirmedOf(i) \in Nat /\ want[s][i] \in Nat
      BY <1>0, <1>1 DEF Amounts
    <3>. QED BY <3>1, <3>2, <3>3, <3>4, <3>5, <3>6
  <2>. QED BY <1>5, <1>6, <2>3 DEF Account, ShippedAccount
<1>. QED BY <1>7, <1>8, <1>9

\* In calm, no step is a failure or a refusal.
LEMMA CalmStep ==
  ASSUME Types, NEW s \in Sessions, Start(s) \/ Continue(s) \/ Fail(s),
         ~trouble.overlap, Calm'
  PROVE  Calm /\ ~Fail(s) /\ ~Refuse(s)
<1>0. trouble \in Troubles /\ MaxFailures \in Nat
  BY ConstantsAssumption DEF Types, SharedTypes
<1>1. ~Refuse(s)
  <2>1. [trouble EXCEPT !.refused = TRUE].refused
    BY <1>0 DEF Troubles
  <2>. QED BY <2>1 DEF Refuse, EndWith, Calm
<1>2. ~Fail(s)
  <2>1. [trouble EXCEPT !.failures = @ + 1].failures # 0
    BY <1>0 DEF Troubles
  <2>. QED BY <2>1 DEF Fail, EndWith, Calm
<1>3. CASE Start(s)
  <2>1. ASSUME NEW o, NEW d, NEW row, NEW quantities, NEW to, Begin(s, o, d, row, quantities, to)
        PROVE  Calm
    <3>1. trouble' = [trouble EXCEPT !.overlap = trouble.overlap \/ \E t \in Sessions : pc[t] # "idle"]
      BY <2>1 DEF Begin
    <3>2. trouble'.failures = trouble.failures /\ trouble'.refused = trouble.refused
      BY <1>0, <3>1 DEF Troubles
    <3>. QED BY <3>2 DEF Calm
  <2>. QED BY <1>1, <1>2, <1>3, <2>1
           DEF Start, Create, Update, Ship, Deliver, Confirm, Cancel, Remove, Convert, Load
<1>4. CASE Continue(s)
  <2>1. trouble' = trouble
    BY <1>1, <1>4
    DEF Continue, InsertLine, SaveSelect, SaveWrite, ClearLines, InsertLines, WriteHeader,
        ConfirmDelivered, ReadLines, CheckLedger, LedgerRow, Deduct, DeductRefused, Mark,
        ReadShipped, WriteShipped, ReadItems, WriteOrder, InsertInvoice, End, EndWith
  <2>. QED BY <1>1, <1>2, <2>1 DEF Calm
<1>. QED BY <1>2, <1>3, <1>4

\* The accounts are inductive.
LEMMA CalmNext == Types /\ Flows /\ SerialInv /\ CalmInv /\ [Next]_vars => CalmInv'
<1>. SUFFICES ASSUME Types, Flows, SerialInv, CalmInv, [Next]_vars, Calm',
                     NEW u \in Sessions, Alone(u)'
              PROVE  Account(u)'
  BY DEF CalmInv
<1>1. ASSUME UNCHANGED <<delivery, lines, ledger, onHand, shipped, pc, doc, want, left, item,
                         trouble>>
      PROVE  Account(u)'
  <2>1. Account(u)
    BY <1>1 DEF CalmInv, Calm, Alone
  <2>2. \A d \in Deliveries, i \in Items : Posted(u, d, i)' <=> Posted(u, d, i)
    BY <1>1 DEF Posted
  <2>3. \A i \in Items : /\ Out(i)' = Out(i) /\ ConfirmedOf(i)' = ConfirmedOf(i)
                         /\ Taking(u, i)' = Taking(u, i) /\ Uncounted(u, i)' = Uncounted(u, i)
    BY <1>1, OutSame, ConfirmedSame DEF Taking, Uncounted
  <2>4. LedgerAccount(u)'
    BY <1>1, <2>1, <2>2 DEF Account, LedgerAccount
  <2>. QED BY <1>1, <2>1, <2>3, <2>4 DEF Account, StockAccount, ShippedAccount
<1>2. CASE UNCHANGED vars \/ EndOrder
  BY <1>1, <1>2 DEF vars, EndOrder, document, stock, local
<1>3. ASSUME NEW s \in Sessions, Start(s) \/ Continue(s) \/ Fail(s) PROVE Account(u)'
  <2>1. /\ ~trouble.overlap /\ Serial /\ Alone(s) /\ Own(s)
        /\ ~Start(s) => Task(s)
    BY <1>3, AloneStep, OwnStep DEF Alone, Calm
  <2>2. Calm /\ ~Fail(s) /\ ~Refuse(s) /\ Types'
    BY <1>3, <2>1, CalmStep, TypesNext DEF Next
  <2>3. Account(s)
    BY <2>1, <2>2 DEF CalmInv
  <2>4. Account(s)'
    <3>1. CASE Start(s)
      <4>1. pc[s] = "idle"
        BY ZenonT(60), <3>1 DEF Start, Create, Update, Ship, Deliver, Confirm, Cancel, Remove, Convert, Load,
                    Begin
      <4>. QED BY <2>3, <3>1, <4>1, StartAccount
    <3>2. CASE ~Start(s)
      <4>1. Continue(s) /\ Task(s)
        BY <1>3, <2>1, <2>2, <3>2
      <4>2. ~DeductRefused(s)
        BY <2>2 DEF DeductRefused
      <4>. QED BY <2>1, <2>2, <2>3, <4>1, <4>2, AsideAccount, StockAccountStep, ShipAccount
               DEF Continue
    <3>. QED BY <3>1, <3>2
  <2>5. CASE u # s
    <3>1. pc'[s] = "idle" /\ pc'[u] = "idle"
      BY <2>1, <2>5 DEF Alone, Own
    <3>2. \A d \in Deliveries, i \in Items : Posted(u, d, i)' <=> Posted(s, d, i)'
      BY <3>1 DEF Posted
    <3>3. \A i \in Items : /\ Taking(u, i)' = Taking(s, i)'
                           /\ Uncounted(u, i)' = Uncounted(s, i)'
      BY <3>1 DEF Taking, Uncounted
    <3>4. LedgerAccount(u)'
      BY <2>4, <3>2 DEF Account, LedgerAccount
    <3>. QED BY <2>4, <3>3, <3>4 DEF Account, StockAccount, ShippedAccount
  <2>. QED BY <2>4, <2>5
<1>. QED BY <1>2, <1>3 DEF Next

\* Requests that follow each other and run through leave each confirmed delivery on the
\* ledger in full and no other, the stock lower by the ledger, and the order's shipped
\* quantities the sums over its confirmed deliveries.
THEOREM ConfirmedInFull == Spec => []ConfirmedIsComplete
<1>1. Types /\ CalmInv => ConfirmedIsComplete
  <2>. SUFFICES ASSUME Types, CalmInv, AtRest, ~trouble.refused
                PROVE  /\ \A d \in Deliveries :
                            ledger[d] = IF delivery[d].status = "CONFIRMED" THEN lines[d] ELSE NoLines
                       /\ \A i \in Items :
                            onHand[i] = Opening[i] - Out(i) /\ shipped[i] = ConfirmedOf(i)
    BY DEF ConfirmedIsComplete
  <2>1. PICK s \in Sessions : TRUE
    BY ConstantsAssumption
  <2>2. pc[s] = "idle" /\ Account(s)
    BY DEF AtRest, CalmInv, Calm, Alone
  <2>3. \A d \in Deliveries, i \in Items :
          ledger[d][i] = IF delivery[d].status = "CONFIRMED" THEN lines[d][i] ELSE 0
    BY <2>2 DEF Account, LedgerAccount, Posted
  <2>4. ASSUME NEW d \in Deliveries
        PROVE  ledger[d] = IF delivery[d].status = "CONFIRMED" THEN lines[d] ELSE NoLines
    <3>1. ledger[d] \in Amounts /\ lines[d] \in Amounts
      BY DEF Types, SharedTypes
    <3>. QED BY <2>3, <3>1 DEF NoLines, Amounts
  <2>5. ASSUME NEW i \in Items
        PROVE  onHand[i] = Opening[i] - Out(i) /\ shipped[i] = ConfirmedOf(i)
    <3>1. Taking(s, i) = 0 /\ Uncounted(s, i) = 0
      BY <2>2 DEF Taking, Uncounted
    <3>2. Out(i) \in Nat /\ ConfirmedOf(i) \in Nat /\ Opening[i] \in Nat
      BY OutType, ConfirmedType, ConstantsAssumption
    <3>. QED BY <2>2, <3>1, <3>2 DEF Account, StockAccount, ShippedAccount
  <2>. QED BY <2>4, <2>5
<1>2. Spec => [](Types /\ CalmInv)
  BY TypesInit, TypesNext, FlowsInit, FlowsNext, SerialInit, SerialNext, CalmInit, CalmNext, PTL
  DEF Spec
<1>. QED BY <1>1, <1>2, PTL
=================================================================================

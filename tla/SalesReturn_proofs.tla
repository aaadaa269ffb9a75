--------------------------- MODULE SalesReturn_proofs ---------------------------
(***************************************************************************)
(* What SalesReturn promises for any number of requests, returns and       *)
(* quantities. However requests interleave and wherever they die, a return *)
(* whose stock or credit is being posted stays as the lock found it until  *)
(* the commit (Protected), so stock comes back only with a return that was *)
(* not marked (ReturnsUnposted); only what came back good is sellable      *)
(* until a page view writes the stock (GoodAlone); and the state keeps its *)
(* type (TypesAlways). Requests of which only receipts and credit notes    *)
(* overlap, also those that die half-way, post each return once            *)
(* (PostedOnce), settle the invoice by what is credited and paid           *)
(* (InvoiceSettles) and return no more than was delivered (ReturnsFit).    *)
(* Their two locks never make all of them wait (LocksMakeNoCircle).        *)
(* Two invariants carry them: Serial, what the request under way knows     *)
(* (Tasks), what each return has on the ledger and on the invoice (Books)  *)
(* and that only such requests are under way together (Apart); and Within, *)
(* that what the returns take together fits into the delivery.             *)
(***************************************************************************)
EXTENDS SalesReturn, SumTheorems

Points == {"idle", "line", "clear", "select", "write", "lock", "stock", "number", "bill",
           "credit", "pay", "receipt"}

\* The transactions once they have the row lock.
Crediting == {"number", "bill", "credit"}
Inside == Crediting \cup {"stock"}

\* A row has its columns; numbers and totals may be anything.
IsRow(row) ==
  row = [status |-> row.status, stock |-> row.stock, credit |-> row.credit,
         number |-> row.number, total |-> row.total]

Types ==
  /\ DOMAIN return = Returns
  /\ \A r \in Returns : IsRow(return[r])
  /\ DOMAIN ledger = Returns
  /\ rowLock \in [Returns -> Sessions \cup {NoSession}]
  /\ pc \in [Sessions -> Points]
  /\ DOMAIN doc = Sessions

\* A request but for a payment works on a return.
Requests == \A s \in Sessions : pc[s] \notin {"idle", "pay", "receipt"} => doc[s] \in Returns

Locked ==
  \A s \in Sessions :
    /\ pc[s] \in Inside => rowLock[doc[s]] = s
    /\ pc[s] = "stock" => Receivable(doc[s])
    /\ pc[s] \in Crediting => Creditable(doc[s])

Inv == Types /\ Requests /\ Locked

USE DEF Inside, Crediting

(***************************************************************************)
(* The request steps.                                                      *)
(***************************************************************************)
\* What a save() leaves is a row.
LEMMA SavedRow ==
  ASSUME NEW row, row = [c \in Columns |-> row[c]] PROVE IsRow(row)
BY DEF IsRow, Columns

\* A step of a session that leaves it outside the transactions, and writes only a
\* return that nobody else has locked, frees its own lock at most.
LEMMA OutsideInv ==
  ASSUME Inv, NEW s \in Sessions, NEW to \in Points \ Inside, Goto(s, to),
         DOMAIN return' = Returns, \A r \in Returns : IsRow(return'[r]),
         DOMAIN ledger' = Returns, rowLock' \in [Returns -> Sessions \cup {NoSession}],
         DOMAIN doc' = Sessions, to \notin {"idle", "pay", "receipt"} => doc'[s] \in Returns,
         \A t \in Sessions \ {s} : doc'[t] = doc[t],
         \A t \in Sessions \ {s} : pc[t] \in Inside =>
           /\ rowLock'[doc[t]] = t
           /\ return'[doc[t]] = return[doc[t]] \/ return[doc[t]].status = "NONE"
  PROVE  Inv'
<1>1. Types'
  BY DEF Inv, Types, Goto
<1>2. Requests'
  BY DEF Inv, Types, Requests, Goto
<1>3. Locked'
  <2>1. SUFFICES ASSUME NEW t \in Sessions, pc'[t] \in Inside
                 PROVE  /\ rowLock'[doc'[t]] = t
                        /\ pc'[t] = "stock" => Receivable(doc[t])'
                        /\ pc'[t] \in Crediting => Creditable(doc[t])'
    BY DEF Locked
  <2>2. t # s /\ pc[t] = pc'[t] /\ doc'[t] = doc[t]
    BY <2>1 DEF Goto, Inv, Types
  <2>3. return'[doc[t]] = return[doc[t]]
    BY <2>1, <2>2 DEF Inv, Locked, Receivable, Creditable, Open
  <2>. QED BY <2>1, <2>2, <2>3 DEF Inv, Locked, Receivable, Creditable, Open
<1>. QED BY <1>1, <1>2, <1>3 DEF Inv

\* A request starts outside every transaction.
LEMMA BeginInv ==
  ASSUME Inv, NEW s \in Sessions, NEW o, NEW r, NEW row, NEW quantities,
         NEW to \in Points \ Inside, Begin(s, o, r, row, quantities, to),
         to # "pay" => r \in Returns, DOMAIN return' = Returns,
         \A q \in Returns : IsRow(return'[q]),
         \A q \in Returns : return'[q] = return[q] \/ return[q].status = "NONE"
  PROVE  Inv'
<1>1. /\ Goto(s, to) /\ ledger' = ledger /\ rowLock' = rowLock
      /\ doc' = [doc EXCEPT ![s] = r]
  BY DEF Begin, stock, locks
<1>2. DOMAIN doc' = Sessions /\ doc'[s] = r /\ \A t \in Sessions \ {s} : doc'[t] = doc[t]
  BY <1>1 DEF Inv, Types
<1>3. \A t \in Sessions : pc[t] \in Inside => rowLock[doc[t]] = t /\ doc[t] \in Returns
  BY DEF Inv, Locked, Requests
<1>. QED BY <1>1, <1>2, <1>3, OutsideInv DEF Inv, Types

\* Every handler starts so.
LEMMA StartInv == ASSUME Inv, NEW s \in Sessions, Start(s) PROVE Inv'
<1>1. ASSUME NEW o, NEW r \in Returns, NEW row, NEW quantities,
             NEW to \in {"select", "clear", "lock"}, Load(s, o, r, row, quantities, to)
      PROVE  Inv'
  <2>1. return' = return /\ Begin(s, o, r, row, quantities, to)
    BY <1>1 DEF Load, document
  <2>. QED BY <2>1, BeginInv DEF Points, Inv, Types
<1>2. ASSUME NEW r \in Returns, NEW quantities, Create(s, r, quantities) PROVE Inv'
  <2>1. /\ DOMAIN return' = Returns
        /\ \A q \in Returns : IsRow(return'[q])
        /\ \A q \in Returns : return'[q] = return[q] \/ return[q].status = "NONE"
    BY <1>2 DEF Create, Inv, Types, IsRow
  <2>. QED BY <1>2, <2>1, BeginInv DEF Create, Points
<1>3. ASSUME NEW amount, Pay(s, amount) PROVE Inv'
  <2>1. return' = return
    BY <1>3 DEF Pay, document
  <2>. QED BY <1>3, <2>1, BeginInv DEF Pay, Points, Inv, Types
<1>4. ASSUME NEW r \in Returns,
             \/ Submit(s, r) \/ Approve(s, r) \/ Reject(s, r) \/ Cancel(s, r)
             \/ UpdateHeader(s, r)
      PROVE  Inv'
  BY <1>1, <1>4 DEF Submit, Approve, Reject, Cancel, UpdateHeader, Advance
<1>5. ASSUME NEW r \in Returns, Receive(s, r) \/ Credit(s, r) PROVE Inv'
  BY <1>1, <1>5 DEF Receive, Credit
<1>6. ASSUME NEW r \in Returns, NEW quantities, Update(s, r, quantities) PROVE Inv'
  BY <1>1, <1>6 DEF Update
<1>. QED BY <1>2, <1>3, <1>4, <1>5, <1>6 DEF Start

\* A step outside the transactions that writes no return and frees no lock.
LEMMA GoInv ==
  ASSUME Inv, NEW s \in Sessions, NEW to \in Points \ Inside, Goto(s, to), pc[s] # "pay" => to # "receipt",
         \/ pc[s] \notin {"idle", "pay", "receipt"} /\ doc' = doc
         \/ to \in {"idle", "receipt"} /\ DOMAIN doc' = Sessions
              /\ \A t \in Sessions \ {s} : doc'[t] = doc[t],
         UNCHANGED <<return, ledger, rowLock>>
  PROVE  Inv'
<1>1. \A t \in Sessions : pc[t] \in Inside => rowLock[doc[t]] = t
  BY DEF Inv, Locked
<1>. QED BY <1>1, OutsideInv DEF Inv, Types, Requests

\* The steps of a save(), and of the lines of create() and update().
LEMMA SaveInv ==
  ASSUME Inv, NEW s \in Sessions,
         \/ InsertLine(s) \/ ClearLines(s) \/ SaveSelect(s) \/ SaveRefused(s)
         \/ SaveWrite(s) \/ LockRefused(s) \/ SavePayment(s) \/ EnterReceipt(s)
  PROVE  Inv'
<1>0. End(s) => /\ Goto(s, "idle") /\ DOMAIN doc' = Sessions
                /\ \A t \in Sessions \ {s} : doc'[t] = doc[t]
  BY DEF End, Inv, Types
<1>1. CASE InsertLine(s)
  BY <1>1, GoInv DEF InsertLine, Points, stock, locks
<1>2. CASE ClearLines(s)
  BY <1>2, GoInv DEF ClearLines, Points, document, stock, locks, local
<1>3. CASE SaveSelect(s)
  BY <1>3, GoInv DEF SaveSelect, Points, document, stock, locks
<1>4. CASE SaveRefused(s) \/ LockRefused(s) \/ EnterReceipt(s)
  BY <1>0, <1>4, GoInv DEF SaveRefused, LockRefused, EnterReceipt, Points, document, stock, locks
<1>5. CASE SaveWrite(s)
  <2> DEFINE row == [c \in Columns |->
                       IF c \in dirty[s] THEN copy[s][c] ELSE return[doc[s]][c]]
  <2>1. doc[s] \in Returns /\ return' = [return EXCEPT ![doc[s]] = row]
    BY <1>5 DEF SaveWrite, Inv, Requests
  <2>2. IsRow(row)
    BY SavedRow
  <2>3. DOMAIN return' = Returns /\ \A q \in Returns : IsRow(return'[q])
    BY <2>1, <2>2 DEF Inv, Types
  <2>4. \A t \in Sessions \ {s} : pc[t] \in Inside =>
          rowLock[doc[t]] = t /\ return'[doc[t]] = return[doc[t]]
    BY <1>5, <2>1, ConstantsAssumption DEF SaveWrite, Inv, Types, Requests, Locked
  <2>. QED BY <1>0, <1>5, <2>3, <2>4, OutsideInv DEF SaveWrite, Inv, Types, Points, stock, locks
<1>6. CASE SavePayment(s)
  <2>1. /\ Goto(s, "receipt") /\ DOMAIN doc' = Sessions
        /\ \A t \in Sessions \ {s} : doc'[t] = doc[t]
        /\ pc[s] = "pay" /\ UNCHANGED <<return, ledger, rowLock>>
    BY <1>6 DEF SavePayment, document, stock, locks, local, Inv, Types
  <2>. QED BY <2>1, GoInv DEF Points
<1>. QED BY <1>1, <1>2, <1>3, <1>4, <1>5, <1>6

\* Taking the lock.
LEMMA LockInv ==
  ASSUME Inv, NEW s \in Sessions, LockStock(s) \/ LockCredit(s) PROVE Inv'
<1>1. /\ pc[s] = "lock" /\ doc[s] \in Returns /\ rowLock[doc[s]] = NoSession
      /\ rowLock' = [rowLock EXCEPT ![doc[s]] = s]
      /\ UNCHANGED <<return, ledger, doc>>
  BY DEF LockStock, LockCredit, Inv, Requests, document, stock, local
<1>2. \/ pc' = [pc EXCEPT ![s] = "stock"] /\ Receivable(doc[s])
      \/ pc' = [pc EXCEPT ![s] = "number"] /\ Creditable(doc[s])
  BY DEF LockStock, LockCredit, Goto
<1>3. Types'
  BY <1>1, <1>2 DEF Inv, Types, Points
<1>4. Requests'
  BY <1>1, <1>2 DEF Inv, Types, Requests
<1>5. Locked'
  <2>1. SUFFICES ASSUME NEW t \in Sessions, pc'[t] \in Inside
                 PROVE  /\ rowLock'[doc[t]] = t
                        /\ pc'[t] = "stock" => Receivable(doc[t])
                        /\ pc'[t] \in Crediting => Creditable(doc[t])
    BY <1>1 DEF Locked, Receivable, Creditable, Open
  <2>2. CASE t = s
    BY <1>1, <1>2, <2>2 DEF Inv, Types
  <2>3. CASE t # s
    BY <1>1, <1>2, <2>1, <2>3, ConstantsAssumption DEF Inv, Types, Requests, Locked
  <2>. QED BY <2>2, <2>3
<1>. QED BY <1>3, <1>4, <1>5 DEF Inv

\* Inside the transaction of a credit note.
LEMMA CreditInv ==
  ASSUME Inv, NEW s \in Sessions, TakeNumber(s) \/ ReadInvoice(s) PROVE Inv'
<1>1. /\ UNCHANGED <<return, ledger, rowLock, doc>>
      /\ pc[s] \in Crediting
      /\ \E to \in Crediting : pc' = [pc EXCEPT ![s] = to]
  BY DEF TakeNumber, ReadInvoice, document, stock, locks, Goto
<1>2. Types' /\ Requests'
  BY <1>1 DEF Inv, Types, Requests, Points
<1>3. Locked'
  BY <1>1 DEF Inv, Types, Locked, Receivable, Creditable, Open
<1>. QED BY <1>2, <1>3 DEF Inv

\* The commits, and the end of a transaction that dies.
LEMMA CommitInv ==
  ASSUME Inv, NEW s \in Sessions, CommitStock(s) \/ CommitCredit(s) PROVE Inv'
<1>1. /\ doc[s] \in Returns /\ rowLock[doc[s]] = s /\ End(s)
      /\ rowLock' = [rowLock EXCEPT ![doc[s]] = NoSession]
  BY DEF CommitStock, CommitCredit, Inv, Requests, Locked
<1>2. DOMAIN ledger' = Returns /\ DOMAIN return' = Returns /\ \A q \in Returns : IsRow(return'[q])
  BY SMTT(30), <1>1 DEF CommitStock, CommitCredit, Inv, Types, IsRow, stock
<1>3. \A q \in Returns \ {doc[s]} : return'[q] = return[q] /\ rowLock'[q] = rowLock[q]
  BY <1>1 DEF CommitStock, CommitCredit, Inv, Types
<1>4. \A t \in Sessions \ {s} : pc[t] \in Inside =>
        rowLock'[doc[t]] = t /\ return'[doc[t]] = return[doc[t]]
  BY <1>1, <1>3 DEF Inv, Requests, Locked
<1>5. /\ Goto(s, "idle") /\ DOMAIN doc' = Sessions
      /\ \A t \in Sessions \ {s} : doc'[t] = doc[t]
  BY <1>1 DEF End, Inv, Types
<1>. QED BY <1>1, <1>2, <1>4, <1>5, OutsideInv DEF Inv, Types, Points

\* What dies gives its lock back and writes nothing.
LEMMA FailInv == ASSUME Inv, NEW s \in Sessions, Fail(s) PROVE Inv'
<1>1. /\ Goto(s, "idle") /\ DOMAIN doc' = Sessions
      /\ \A t \in Sessions \ {s} : doc'[t] = doc[t]
      /\ UNCHANGED <<return, ledger>>
  BY DEF Fail, End, Inv, Types, document, stock
<1>2. rowLock' \in [Returns -> Sessions \cup {NoSession}]
  BY DEF Fail, Inv, Types
<1>3. \A t \in Sessions \ {s} : pc[t] \in Inside => rowLock'[doc[t]] = t
  BY DEF Fail, Inv, Requests, Locked
<1>. QED BY <1>1, <1>2, <1>3, OutsideInv DEF Inv, Types, Points

\* No return is locked at first.
LEMMA InvInit == Init => Inv
BY DEF Init, Inv, Types, Requests, Locked, IsRow, NoRow, Points

\* The protection is inductive.
LEMMA InvNext == Inv /\ [Next]_vars => Inv'
<1>. SUFFICES ASSUME Inv, [Next]_vars PROVE Inv'
  OBVIOUS
<1>1. CASE UNCHANGED vars \/ View
  <2>. UNCHANGED <<return, ledger, rowLock, pc, doc>>
    BY <1>1 DEF vars, View, document, locks, local
  <2>. QED BY DEF Inv, Types, Requests, Locked, Receivable, Creditable, Open
<1>2. ASSUME NEW s \in Sessions, Start(s) \/ Continue(s) \/ Fail(s) PROVE Inv'
  BY <1>2, StartInv, SaveInv, LockInv, CreditInv, CommitInv, FailInv DEF Continue
<1>. QED BY <1>1, <1>2 DEF Next

(***************************************************************************)
(* Theorems.                                                               *)
(***************************************************************************)
\* While receiveStock() or generateCreditNote() is between its lock and its commit the
\* return stays receivable or creditable: whatever copies other requests hold, and
\* whichever die, nothing is posted to it a second time.
THEOREM Protected == Spec => []Inv
<1>. QED BY InvInit, InvNext, PTL DEF Spec

\* The ledger changes only by the commit of a receipt.
LEMMA LedgerChanges ==
  ASSUME [Next]_vars, ledger' # ledger PROVE \E s \in Sessions : CommitStock(s)
<1>1. ASSUME NEW s \in Sessions, Start(s) PROVE ledger' = ledger
  BY <1>1 DEF Start, Create, Update, Submit, Approve, Reject, Cancel, UpdateHeader, Advance,
     Receive, Credit, Pay, Load, Begin, stock
<1>2. ASSUME NEW s \in Sessions, Continue(s), ~CommitStock(s) PROVE ledger' = ledger
  BY <1>2 DEF Continue, InsertLine, ClearLines, SaveSelect, SaveRefused, SaveWrite, LockStock,
     LockCredit, LockRefused, TakeNumber, ReadInvoice, CommitCredit, SavePayment,
     EnterReceipt, stock
<1>3. ASSUME NEW s \in Sessions, Fail(s) PROVE ledger' = ledger
  BY <1>3 DEF Fail, stock
<1>4. View \/ UNCHANGED vars => ledger' = ledger
  BY DEF View, vars
<1>. QED BY <1>1, <1>2, <1>3, <1>4 DEF Next

\* However requests interleave, stock comes back only with a return that is
\* receivable at that very step, and marks it.
THEOREM ReturnsUnposted == Spec => StockOnlyFromUnposted
<1> DEFINE Step == \A r \in Returns : ledger'[r] # ledger[r] => Receivable(r) /\ return'[r].stock
<1>1. ASSUME Inv, [Next]_vars PROVE [Step]_vars
  <2>1. SUFFICES ASSUME NEW r \in Returns, ledger'[r] # ledger[r]
                 PROVE  Receivable(r) /\ return'[r].stock
    OBVIOUS
  <2>2. PICK s \in Sessions : CommitStock(s)
    BY <1>1, <2>1, LedgerChanges
  <2>3. doc[s] = r
    BY <1>1, <2>1, <2>2 DEF CommitStock, Inv, Types
  <2>4. Receivable(r)
    BY <1>1, <2>2, <2>3 DEF CommitStock, Inv, Locked
  <2>5. return'[r].stock
    BY <1>1, <2>2, <2>3 DEF CommitStock, Inv, Types, IsRow
  <2>. QED BY <2>4, <2>5
<1>. QED BY <1>1, Protected, PTL DEF Spec, StockOnlyFromUnposted


(***************************************************************************)
(* Typing.                                                                 *)
(***************************************************************************)
Names == (UNION {Operations[s] : s \in Sessions}) \cup {"none"}
Rows == [status: Statuses \cup {"NONE"}, stock: BOOLEAN, credit: BOOLEAN, number: Nat, total: Nat]
Amounts == [Conditions -> Nat]
Bills == [paid: Nat, balance: 0..Delivered, amount: Nat]

SharedTypes ==
  /\ return \in [Returns -> Rows]
  /\ lines \in [Returns -> Amounts]
  /\ ledger \in [Returns -> Amounts]
  /\ onHand \in Nat
  /\ healed \in BOOLEAN
  /\ credits \in [Returns -> Nat]
  /\ invoice \in [paid: Nat, balance: 0..Delivered]
  /\ receipts \in Nat
  /\ rowLock \in [Returns -> Sessions \cup {NoSession}]
  /\ noteLock \in Sessions \cup {NoSession}
  /\ mixed \in BOOLEAN

RequestTypes ==
  /\ pc \in [Sessions -> Points]
  /\ op \in [Sessions -> Names]
  /\ doc \in [Sessions -> Returns]
  /\ copy \in [Sessions -> Rows]
  /\ dirty \in [Sessions -> SUBSET Columns]
  /\ want \in [Sessions -> Amounts]
  /\ bill \in [Sessions -> Bills]

Typed == SharedTypes /\ RequestTypes /\ stale \in [Sessions -> BOOLEAN]

\* The invariant in parts: what requests share, what each holds, and stale.
LEMMA TypedIsTypeOK == Typed <=> TypeOK
BY DEF Typed, SharedTypes, RequestTypes, TypeOK, Points, Names, Rows, Amounts, Bills

\* What is left of a difference.
LEMMA AtLeastZeroIs == ASSUME NEW n \in Int PROVE AtLeastZero(n) = IF n >= 0 THEN n ELSE 0
<1>. DEFINE top == IF n >= 0 THEN n ELSE 0
<1>1. top \in {0, n} /\ \A y \in {0, n} : top >= y
  OBVIOUS
<1>2. ASSUME NEW x \in {0, n}, \A y \in {0, n} : x >= y PROVE x = top
  BY <1>2
<1>. QED BY <1>1, <1>2 DEF AtLeastZero, Max

\* The values a request starts from and ends with.
LEMMA Defaults ==
  /\ NoRow \in Rows /\ NoLines \in Amounts /\ NoBill \in Bills /\ "none" \in Names
  /\ (CHOOSE r \in Returns : TRUE) \in Returns /\ Delivered \in Nat
<1>1. NoRow \in Rows /\ "none" \in Names
  BY DEF NoRow, Rows, Names
<1>2. NoLines \in Amounts
  BY DEF NoLines, Amounts
<1>3. Delivered \in Nat /\ (CHOOSE r \in Returns : TRUE) \in Returns
  BY ConstantsAssumption
<1>4. NoBill \in Bills
  BY <1>3 DEF NoBill, Bills
<1>. QED BY <1>1, <1>2, <1>3, <1>4

\* The types hold at first.
LEMMA TypedInit == Init => Typed
<1>. SUFFICES ASSUME Init PROVE Typed
  OBVIOUS
<1>1. SharedTypes
  <2>1. invoice \in [paid: Nat, balance: 0..Delivered]
    BY Defaults DEF Init
  <2>. QED BY <2>1, Defaults DEF Init, SharedTypes
<1>2. RequestTypes /\ stale \in [Sessions -> BOOLEAN]
  BY Defaults DEF Init, RequestTypes, Points
<1>. QED BY <1>1, <1>2 DEF Typed

\* A request that ends leaves its variables at the values they started from.
LEMMA EndTyped ==
  ASSUME Typed, NEW s \in Sessions, End(s)
  PROVE  RequestTypes' /\ mixed' \in BOOLEAN
<1>1. pc' \in [Sessions -> Points] /\ op' \in [Sessions -> Names]
  BY Defaults DEF Typed, RequestTypes, End, Goto, Points
<1>2. /\ doc' \in [Sessions -> Returns] /\ copy' \in [Sessions -> Rows]
      /\ dirty' \in [Sessions -> SUBSET Columns]
  BY Defaults DEF Typed, RequestTypes, End
<1>3. want' \in [Sessions -> Amounts] /\ bill' \in [Sessions -> Bills]
  BY Defaults DEF Typed, RequestTypes, End
<1>. QED BY <1>1, <1>2, <1>3 DEF End, RequestTypes, Typed, SharedTypes

\* The start of a handler.
LEMMA BeginTyped ==
  ASSUME Typed, NEW s \in Sessions, NEW o, NEW r \in Returns, NEW row \in Rows,
         NEW quantities \in Amounts, NEW to \in Points, Begin(s, o, r, row, quantities, to),
         return' \in [Returns -> Rows], UNCHANGED lines, bill' \in [Sessions -> Bills]
  PROVE  Typed'
<1>1. mixed' \in BOOLEAN
  BY DEF Begin, Typed, SharedTypes
<1>2. pc' \in [Sessions -> Points] /\ doc' \in [Sessions -> Returns]
  BY DEF Begin, Goto, Typed, RequestTypes
<1>3. op' \in [Sessions -> Names]
  <2>1. o \in Names
    BY DEF Begin, Names
  <2>. QED BY <2>1 DEF Begin, Typed, RequestTypes
<1>4. copy' \in [Sessions -> Rows] /\ want' \in [Sessions -> Amounts]
  BY DEF Begin, Typed, RequestTypes
<1>5. stale' \in [Sessions -> BOOLEAN]
  BY DEF Begin, Typed
<1>. QED BY <1>1, <1>2, <1>3, <1>4, <1>5
         DEF Begin, stock, money, locks, Typed, SharedTypes, RequestTypes

\* The credits posted are a natural number.
LEMMA CreditedType == ASSUME Typed PROVE Credited \in Nat
<1>. DEFINE f == [r \in Returns |-> IF return[r].credit THEN return[r].total ELSE 0]
<1>1. f \in [Returns -> Nat]
  BY DEF Typed, SharedTypes, Rows
<1>. HIDE DEF f
<1>2. SumFunction(f) \in Nat
  BY <1>1, ConstantsAssumption, SumNat
<1>. QED BY <1>2 DEF f, Credited

\* What is left of the invoice is no more than its total.
LEMMA BalanceType ==
  ASSUME NEW n \in Nat, NEW m \in Nat PROVE AtLeastZero(Delivered - n - m) \in 0..Delivered
BY Defaults, AtLeastZeroIs

\* Every handler starts from rows, quantities and amounts.
LEMMA StartTyped == ASSUME Typed, NEW s \in Sessions, Start(s) PROVE Typed'
<1>0. /\ return \in [Returns -> Rows] /\ lines \in [Returns -> Amounts]
      /\ bill \in [Sessions -> Bills]
  BY DEF Typed, SharedTypes, RequestTypes
<1>1. ASSUME NEW o, NEW r \in Returns, NEW row \in Rows, NEW quantities \in Amounts,
             NEW to \in Points, Load(s, o, r, row, quantities, to)
      PROVE  Typed'
  BY <1>0, <1>1, BeginTyped DEF Load, document
<1>2. ASSUME NEW r \in Returns, NEW quantities \in Requested, Create(s, r, quantities) PROVE Typed'
  <2>1. quantities \in Amounts
    BY ConstantsAssumption DEF Amounts
  <2>2. [NoRow EXCEPT !.status = "DRAFT"] \in Rows
    BY DEF NoRow, Rows, Statuses
  <2>3. return' \in [Returns -> Rows]
    BY <1>0, <1>2 DEF Create, Rows, Statuses
  <2>. DEFINE row == [NoRow EXCEPT !.status = "DRAFT"]
  <2>4. Begin(s, "create", r, row, quantities, "line") /\ row \in Rows /\ UNCHANGED <<lines, bill>>
    BY <1>2, <2>2 DEF Create
  <2>. HIDE DEF row
  <2>. QED BY <1>0, <2>1, <2>3, <2>4, BeginTyped DEF Points
<1>3. ASSUME NEW o, NEW r \in Returns, NEW from, NEW to \in Statuses, Advance(s, o, r, from, to)
      PROVE  Typed'
  <2>. DEFINE row == [return[r] EXCEPT !.status = to]
  <2>1. row \in Rows
    BY <1>0 DEF Rows
  <2>2. Load(s, o, r, row, NoLines, "select")
    BY <1>3 DEF Advance
  <2>. HIDE DEF row
  <2>. QED BY <1>1, <2>1, <2>2, Defaults DEF Points
<1>4. ASSUME NEW r \in Returns,
             \/ Submit(s, r) \/ Approve(s, r) \/ Reject(s, r) \/ Cancel(s, r)
             \/ UpdateHeader(s, r)
      PROVE  Typed'
  BY <1>3, <1>4 DEF Submit, Approve, Reject, Cancel, UpdateHeader, Statuses
<1>5. ASSUME NEW r \in Returns, NEW quantities \in Requested, Update(s, r, quantities) PROVE Typed'
  <2>1. quantities \in Amounts
    BY ConstantsAssumption DEF Amounts
  <2>. DEFINE row == [return[r] EXCEPT !.total = 0]
  <2>2. row \in Rows
    BY <1>0 DEF Rows
  <2>3. Load(s, "update", r, row, quantities, "clear")
    BY <1>5 DEF Update
  <2>. HIDE DEF row
  <2>. QED BY <1>1, <2>1, <2>2, <2>3 DEF Points
<1>6. ASSUME NEW r \in Returns, Receive(s, r) \/ Credit(s, r) PROVE Typed'
  BY <1>0, <1>1, <1>6, Defaults DEF Receive, Credit, Points
<1>7. ASSUME NEW amount \in 1..Delivered, Pay(s, amount) PROVE Typed'
  <2>1. amount \in Nat /\ invoice.paid \in Nat /\ Credited \in Nat
    BY Defaults, CreditedType DEF Typed, SharedTypes
  <2>2. AtLeastZero(Delivered - (invoice.paid + amount) - Credited) \in 0..Delivered
    <3>. DEFINE n == invoice.paid + amount
    <3>1. n \in Nat
      BY <2>1
    <3>. HIDE DEF n
    <3>2. AtLeastZero(Delivered - n - Credited) \in 0..Delivered
      BY <2>1, <3>1, BalanceType
    <3>. QED BY <3>2 DEF n
  <2>3. bill' \in [Sessions -> Bills]
    BY <1>0, <1>7, <2>1, <2>2 DEF Pay, Bills
  <2>. DEFINE r == CHOOSE q \in Returns : TRUE
  <2>4. r \in Returns /\ NoRow \in Rows /\ NoLines \in Amounts
    BY Defaults
  <2>5. Begin(s, "pay", r, NoRow, NoLines, "pay") /\ return' = return /\ lines' = lines
    BY <1>7 DEF Pay, document
  <2>. HIDE DEF r
  <2>. QED BY <1>0, <2>3, <2>4, <2>5, BeginTyped DEF Points
<1>. QED BY <1>2, <1>4, <1>5, <1>6, <1>7 DEF Start

\* The steps of create(), update() and of a save().
LEMMA DocumentTyped ==
  ASSUME Typed, NEW s \in Sessions,
         \/ InsertLine(s) \/ ClearLines(s) \/ SaveSelect(s) \/ SaveRefused(s) \/ SaveWrite(s)
  PROVE  Typed'
<1>. DEFINE r == doc[s]
<1>0. /\ r \in Returns /\ copy[s] \in Rows /\ return[r] \in Rows /\ want[s] \in Amounts
      /\ lines[r] \in Amounts /\ return \in [Returns -> Rows]
  BY DEF Typed, SharedTypes, RequestTypes
<1>. USE DEF Goto
<1>1. CASE InsertLine(s)
  <2>1. PICK c \in Conditions :
          /\ lines' = [lines EXCEPT ![r][c] = @ + want[s][c]]
          /\ want' = [want EXCEPT ![s][c] = 0]
          /\ copy' = [copy EXCEPT ![s].total = @ + want[s][c]]
    BY <1>1 DEF InsertLine
  <2>2. lines' \in [Returns -> Amounts]
    <3>1. lines[r][c] + want[s][c] \in Nat
      BY <1>0 DEF Amounts
    <3>. QED BY <1>0, <2>1, <3>1 DEF Typed, SharedTypes, Amounts
  <2>3. want' \in [Sessions -> Amounts]
    BY <2>1 DEF Typed, RequestTypes, Amounts
  <2>4. copy' \in [Sessions -> Rows]
    <3>1. copy[s].total + want[s][c] \in Nat
      BY <1>0 DEF Amounts, Rows
    <3>2. [copy[s] EXCEPT !.total = copy[s].total + want[s][c]] \in Rows
      BY <1>0, <3>1 DEF Rows
    <3>. QED BY <2>1, <3>2 DEF Typed, RequestTypes
  <2>5. stale' \in [Sessions -> BOOLEAN] /\ pc' \in [Sessions -> Points]
    BY <1>1 DEF InsertLine, Typed, RequestTypes, Points
  <2>. QED BY <1>1, <2>2, <2>3, <2>4, <2>5
           DEF InsertLine, stock, money, locks, Typed, SharedTypes, RequestTypes
<1>2. CASE ClearLines(s)
  <2>1. lines' \in [Returns -> Amounts]
    BY <1>2, Defaults DEF ClearLines, Typed, SharedTypes
  <2>. QED BY <1>2, <2>1
           DEF ClearLines, stock, money, locks, local, Typed, SharedTypes, RequestTypes, Points
<1>3. CASE SaveSelect(s)
  BY <1>3 DEF SaveSelect, document, stock, money, locks, Typed, SharedTypes, RequestTypes, Points
<1>4. CASE SaveRefused(s)
  <2>1. RequestTypes' /\ mixed' \in BOOLEAN
    BY <1>4, EndTyped DEF SaveRefused
  <2>. QED BY <1>4, <2>1 DEF SaveRefused, document, stock, money, locks, Typed, SharedTypes
<1>5. CASE SaveWrite(s)
  <2>1. [c \in Columns |-> IF c \in dirty[s] THEN copy[s][c] ELSE return[r][c]] \in Rows
    BY <1>0 DEF Rows, Columns
  <2>2. return' \in [Returns -> Rows]
    BY <1>0, <1>5, <2>1 DEF SaveWrite
  <2>3. RequestTypes' /\ mixed' \in BOOLEAN
    BY <1>5, EndTyped DEF SaveWrite
  <2>. QED BY <1>5, <2>2, <2>3 DEF SaveWrite, stock, money, locks, Typed, SharedTypes
<1>. QED BY <1>1, <1>2, <1>3, <1>4, <1>5


\* receiveStock(), and the end of a request that dies.
LEMMA StockTyped ==
  ASSUME Typed, NEW s \in Sessions, LockStock(s) \/ LockRefused(s) \/ CommitStock(s) \/ Fail(s)
  PROVE  Typed'
<1>. DEFINE r == doc[s]
<1>0. /\ r \in Returns /\ return[r] \in Rows /\ want[s] \in Amounts /\ ledger[r] \in Amounts
      /\ return \in [Returns -> Rows] /\ onHand \in Nat
  BY DEF Typed, SharedTypes, RequestTypes
<1>1. CASE LockStock(s)
  BY <1>1 DEF LockStock, Goto, document, stock, money, local, Typed, SharedTypes, RequestTypes, Points
<1>2. End(s) => RequestTypes' /\ mixed' \in BOOLEAN
  BY EndTyped
<1>3. CASE LockRefused(s)
  BY <1>2, <1>3 DEF LockRefused, document, stock, money, locks, Typed, SharedTypes
<1>4. CASE Fail(s)
  BY <1>2, <1>4 DEF Fail, document, stock, money, Typed, SharedTypes
<1>5. CASE CommitStock(s)
  <2>1. [c \in Conditions |-> ledger[r][c] + want[s][c]] \in Amounts
    BY <1>0 DEF Amounts
  <2>2. ledger' \in [Returns -> Amounts]
    BY <1>5, <2>1 DEF CommitStock, Typed, SharedTypes
  <2>3. onHand' \in Nat
    BY <1>0, <1>5 DEF CommitStock, Sellable, Amounts, Conditions
  <2>4. [return[r] EXCEPT !.stock = TRUE, !.status = AfterStock(s)] \in Rows
    BY <1>0 DEF AfterStock, Rows, Statuses
  <2>5. return' \in [Returns -> Rows]
    BY <1>0, <1>5, <2>4 DEF CommitStock
  <2>6. rowLock' \in [Returns -> Sessions \cup {NoSession}]
    BY <1>5 DEF CommitStock, Typed, SharedTypes
  <2>. QED BY <1>2, <1>5, <2>2, <2>3, <2>5, <2>6 DEF CommitStock, money, Typed, SharedTypes
<1>. QED BY <1>1, <1>3, <1>4, <1>5

\* A greatest number of the returns exists.
LEMMA LastNumber ==
  ASSUME NEW f \in [Returns -> Nat]
  PROVE  /\ Max({f[r] : r \in Returns}) \in Nat
         /\ \A r \in Returns : f[r] <= Max({f[q] : q \in Returns})
<1>. DEFINE G == {S \in SUBSET Returns : S # {} => \E x \in S : \A y \in S : f[x] >= f[y]}
<1>1. {} \in G
  OBVIOUS
<1>2. ASSUME NEW S \in SUBSET Returns, S # {}, \A x \in S : S \ {x} \in G PROVE S \in G
  <2>1. PICK x \in S : TRUE
    BY <1>2
  <2>2. CASE S = {x}
    <3>1. f[x] >= f[x]
      BY <2>1
    <3>. QED BY <2>1, <2>2, <3>1
  <2>3. CASE S # {x}
    <3>1. PICK z \in S \ {x} : \A y \in S \ {x} : f[z] >= f[y]
      BY <1>2, <2>1, <2>3
    <3>2. CASE f[z] >= f[x]
      <4>1. \A y \in S : f[z] >= f[y]
        BY <3>1, <3>2
      <4>. QED BY <3>1, <4>1
    <3>3. CASE ~(f[z] >= f[x])
      <4>1. \A y \in S : f[x] >= f[y]
        BY <2>1, <3>1, <3>3
      <4>. QED BY <2>1, <4>1
    <3>. QED BY <3>2, <3>3
  <2>. QED BY <2>2, <2>3
<1>. HIDE DEF G
<1>3. SUBSET Returns \subseteq G
  BY <1>1, <1>2, ConstantsAssumption, SubsetInduction
<1>4. PICK x \in Returns : \A y \in Returns : f[x] >= f[y]
  BY <1>3, ConstantsAssumption DEF G
<1>. DEFINE T == {f[r] : r \in Returns}
<1>5. f[x] \in T /\ \A n \in T : f[x] >= n
  BY <1>4
<1>6. Max(T) \in T /\ \A n \in T : Max(T) >= n
  BY <1>5 DEF Max
<1>. QED BY <1>6

\* generateCreditNote() and recordPayment().
LEMMA MoneyTyped ==
  ASSUME Typed, NEW s \in Sessions,
         \/ LockCredit(s) \/ TakeNumber(s) \/ ReadInvoice(s) \/ CommitCredit(s)
         \/ SavePayment(s) \/ EnterReceipt(s)
  PROVE  Typed'
<1>. DEFINE r == doc[s]
<1>0. /\ r \in Returns /\ return[r] \in Rows /\ return \in [Returns -> Rows] /\ copy[s] \in Rows
      /\ bill[s] \in Bills /\ credits \in [Returns -> Nat] /\ receipts \in Nat
      /\ invoice \in [paid: Nat, balance: 0..Delivered]
  BY DEF Typed, SharedTypes, RequestTypes
<1>. USE DEF Goto
<1>1. End(s) => RequestTypes' /\ mixed' \in BOOLEAN
  BY EndTyped
<1>2. CASE LockCredit(s)
  BY <1>0, <1>2 DEF LockCredit, document, stock, money, Typed, SharedTypes, RequestTypes, Points
<1>3. CASE TakeNumber(s)
  <2>1. NextNumber \in Nat
    <3>. DEFINE f == [q \in Returns |-> return[q].number]
    <3>1. f \in [Returns -> Nat] /\ {return[q].number : q \in Returns} = {f[q] : q \in Returns}
      BY <1>0 DEF Rows
    <3>. HIDE DEF f
    <3>2. Max({f[q] : q \in Returns}) \in Nat
      BY <3>1, LastNumber
    <3>3. Max({return[q].number : q \in Returns}) \in Nat
      BY <3>1, <3>2
    <3>. QED BY <3>3 DEF NextNumber
  <2>2. \A n \in Nat : [copy[s] EXCEPT !.number = n] \in Rows
    BY <1>0 DEF Rows
  <2>3. (IF copy[s].number # 0 THEN copy[s].number ELSE NextNumber) \in Nat
    BY <1>0, <2>1 DEF Rows
  <2>4. copy' = [copy EXCEPT ![s] = [copy[s] EXCEPT !.number =
                   IF copy[s].number # 0 THEN copy[s].number ELSE NextNumber]]
    BY <1>3 DEF TakeNumber
  <2>5. copy' \in [Sessions -> Rows]
    BY <2>2, <2>3, <2>4 DEF Typed, RequestTypes
  <2>. QED BY <1>3, <2>5 DEF TakeNumber, document, stock, money, Typed, SharedTypes, RequestTypes,
                             Points
<1>4. CASE ReadInvoice(s)
  <2>1. invoice.paid \in Nat /\ Credited + copy[s].total \in Nat
    BY <1>0, CreditedType DEF Rows
  <2>2. Outstanding(s) \in 0..Delivered
    BY <2>1, BalanceType DEF Outstanding
  <2>3. [NoBill EXCEPT !.balance = Outstanding(s)] \in Bills
    BY <2>2 DEF NoBill, Bills
  <2>4. bill' \in [Sessions -> Bills]
    BY <1>4, <2>3 DEF ReadInvoice, Typed, RequestTypes
  <2>. QED BY <1>4, <2>4
           DEF ReadInvoice, document, stock, money, locks, Typed, SharedTypes, RequestTypes, Points
<1>5. CASE CommitCredit(s)
  <2>1. credits' \in [Returns -> Nat]
    BY <1>0, <1>5 DEF CommitCredit, Rows
  <2>2. [return[r] EXCEPT !.credit = TRUE, !.number = copy[s].number,
                          !.status = IF return[r].stock THEN "COMPLETED" ELSE "CREDITED"] \in Rows
    BY <1>0 DEF Rows, Statuses
  <2>3. return' \in [Returns -> Rows]
    BY <1>0, <1>5, <2>2 DEF CommitCredit
  <2>4. invoice' \in [paid: Nat, balance: 0..Delivered]
    BY <1>0, <1>5 DEF CommitCredit, Bills
  <2>. QED BY <1>1, <1>5, <2>1, <2>3, <2>4 DEF CommitCredit, stock, Typed, SharedTypes
<1>6. CASE SavePayment(s)
  <2>1. invoice' \in [paid: Nat, balance: 0..Delivered]
    BY <1>0, <1>6 DEF SavePayment, Bills
  <2>. QED BY <1>6, <2>1
           DEF SavePayment, document, stock, locks, local, Typed, SharedTypes, RequestTypes, Points
<1>7. CASE EnterReceipt(s)
  <2>1. receipts' \in Nat
    BY <1>0, <1>7 DEF EnterReceipt, Bills
  <2>. QED BY <1>1, <1>7, <2>1 DEF EnterReceipt, document, stock, locks, Typed, SharedTypes
<1>. QED BY <1>2, <1>3, <1>4, <1>5, <1>6, <1>7

\* There are two conditions.
LEMMA ConditionsFinite == IsFiniteSet(Conditions)
<1>1. ASSUME NEW x, NEW y PROVE IsFiniteSet({x, y})
  <2>1. IsFiniteSet({} \cup {x})
    BY FS_EmptySet, FS_AddElement, Zenon
  <2>2. IsFiniteSet(({} \cup {x}) \cup {y})
    BY <2>1, FS_AddElement, Zenon
  <2>3. {x, y} = ({} \cup {x}) \cup {y}
    OBVIOUS
  <2>. QED BY <2>2, <2>3, Zenon
<1>. QED BY <1>1, Zenon DEF Conditions

\* The net quantity of the ledger is a natural number.
LEMMA NetType ==
  ASSUME Typed PROVE SumFunction([r \in Returns |-> Quantity(ledger, r)]) \in Nat
<1>1. IsFiniteSet(Conditions)
  BY ConditionsFinite
<1>2. ASSUME NEW r \in Returns PROVE Quantity(ledger, r) \in Nat
  <2>1. ledger[r] \in [Conditions -> Nat]
    BY DEF Typed, SharedTypes, Amounts
  <2>. QED BY <1>1, <2>1, SumNat DEF Quantity
<1>. DEFINE f == [r \in Returns |-> Quantity(ledger, r)]
<1>3. f \in [Returns -> Nat]
  BY <1>2
<1>. HIDE DEF f
<1>4. SumFunction(f) \in Nat
  BY <1>3, ConstantsAssumption, SumNat
<1>. QED BY <1>4 DEF f

\* The types are inductive.
LEMMA TypedNext == Typed /\ [Next]_vars => Typed'
<1>. SUFFICES ASSUME Typed, [Next]_vars PROVE Typed'
  OBVIOUS
<1>1. CASE UNCHANGED vars
  BY <1>1 DEF vars, Typed, SharedTypes, RequestTypes
<1>2. CASE View
  <2>1. onHand' \in Nat /\ healed' \in BOOLEAN
    BY <1>2, NetType DEF View
  <2>. QED BY <1>2, <2>1 DEF View, document, money, locks, local, Typed, SharedTypes, RequestTypes
<1>3. ASSUME NEW s \in Sessions, Start(s) \/ Continue(s) \/ Fail(s) PROVE Typed'
  BY <1>3, StartTyped, DocumentTyped, StockTyped, MoneyTyped DEF Continue
<1>. QED BY <1>1, <1>2, <1>3 DEF Next

\* Whatever requests do and wherever they die, rows, ledgers and what the requests hold
\* of them have their types: the balance stays between nothing and the invoice's total.
THEOREM TypesAlways == Spec => []TypeOK
<1>1. Spec => []Typed
  BY TypedInit, TypedNext, PTL DEF Spec
<1>. QED BY <1>1, TypedIsTypeOK, PTL


(***************************************************************************)
(* Only good items are sellable.                                           *)
(***************************************************************************)
\* Stock changes by the commit of a receipt and by a page view only.
LEMMA StockChanges ==
  ASSUME [Next]_vars PROVE UNCHANGED stock \/ View \/ \E s \in Sessions : CommitStock(s)
<1>1. ASSUME NEW s \in Sessions, Start(s) PROVE UNCHANGED stock
  BY <1>1 DEF Start, Create, Update, Submit, Approve, Reject, Cancel, UpdateHeader, Advance,
     Receive, Credit, Pay, Load, Begin
<1>2. ASSUME NEW s \in Sessions, Continue(s), ~CommitStock(s) PROVE UNCHANGED stock
  BY <1>2 DEF Continue, InsertLine, ClearLines, SaveSelect, SaveRefused, SaveWrite, LockStock,
     LockCredit, LockRefused, TakeNumber, ReadInvoice, CommitCredit, SavePayment,
     EnterReceipt
<1>3. ASSUME NEW s \in Sessions, Fail(s) PROVE UNCHANGED stock
  BY <1>3 DEF Fail
<1>4. UNCHANGED vars => UNCHANGED stock
  BY DEF vars, stock
<1>. QED BY <1>1, <1>2, <1>3, <1>4 DEF Next

\* The good items of each return, by the ledger.
Good == [r \in Returns |-> ledger[r]["GOOD"]]

\* The commit of a receipt adds the good lines to both.
LEMMA GoodCommit ==
  ASSUME Typed, NEW s \in Sessions, CommitStock(s)
  PROVE  onHand' - onHand = SumFunction(Good') - SumFunction(Good)
<1>. DEFINE r == doc[s]
<1>0. /\ r \in Returns /\ want[s] \in Amounts /\ ledger \in [Returns -> Amounts] /\ onHand \in Nat
      /\ want[s]["GOOD"] \in Nat /\ ledger[r]["GOOD"] \in Nat
  BY DEF Typed, SharedTypes, RequestTypes, Amounts, Conditions
<1>1. /\ ledger' = [ledger EXCEPT ![r] = [c \in Conditions |-> ledger[r][c] + want[s][c]]]
      /\ onHand' = onHand + want[s]["GOOD"]
  BY DEF CommitStock, Sellable
<1>2. /\ ledger'[r]["GOOD"] = ledger[r]["GOOD"] + want[s]["GOOD"]
      /\ \A q \in Returns \ {r} : ledger'[q] = ledger[q]
  BY <1>0, <1>1 DEF Conditions
<1>. DEFINE f == Good  g == Good'
<1>3. f \in [Returns -> Int] /\ g \in [Returns -> Int]
  <2>1. \A q \in Returns : ledger[q]["GOOD"] \in Nat
    BY <1>0 DEF Amounts, Conditions
  <2>2. \A q \in Returns : ledger'[q]["GOOD"] \in Nat
    BY <1>0, <1>2, <2>1
  <2>. QED BY <2>1, <2>2 DEF Good
<1>4. g[r] = f[r] + want[s]["GOOD"] /\ \A q \in Returns \ {r} : g[q] = f[q]
  BY <1>0, <1>2 DEF Good
<1>. HIDE DEF f, g
<1>5. SumFunction(g) = SumFunction(f) - f[r] + g[r]
  BY <1>0, <1>3, <1>4, ConstantsAssumption, SumChange
<1>6. SumFunction(f) \in Int /\ f[r] \in Int
  BY <1>0, <1>3, ConstantsAssumption, SumType
<1>7. SumFunction(g) - SumFunction(f) = want[s]["GOOD"]
  BY <1>0, <1>4, <1>5, <1>6
<1>8. onHand' - onHand = want[s]["GOOD"]
  BY <1>0, <1>1
<1>. QED BY <1>7, <1>8 DEF f, g

\* However requests overlap and fail, what the returns made sellable is what they
\* brought back in good condition, until a page view writes the stock.
THEOREM GoodAlone == Spec => []OnlyGoodIsSellable
<1>1. Init => OnlyGoodIsSellable
  <2>. SUFFICES ASSUME Init PROVE onHand = SumFunction(Good)
    BY DEF OnlyGoodIsSellable, Good
  <2>1. Good = [r \in Returns |-> 0]
    BY DEF Init, Good, NoLines, Conditions
  <2>. QED BY <2>1, ConstantsAssumption, SumZero DEF Init
<1>2. ASSUME Typed, OnlyGoodIsSellable, [Next]_vars PROVE OnlyGoodIsSellable'
  <2>1. CASE UNCHANGED stock
    BY <1>2, <2>1 DEF OnlyGoodIsSellable, stock
  <2>2. CASE View
    BY <2>2 DEF View, OnlyGoodIsSellable
  <2>3. ASSUME NEW s \in Sessions, CommitStock(s) PROVE OnlyGoodIsSellable'
    <3>0. Typed'
      BY <1>2, <2>3, StockTyped
    <3>1. healed' = healed /\ onHand \in Int /\ onHand' \in Int
      BY <1>2, <2>3, <3>0 DEF CommitStock, Typed, SharedTypes
    <3>2. onHand' - onHand = SumFunction(Good') - SumFunction(Good)
      BY <1>2, <2>3, GoodCommit
    <3>3. SumFunction(Good) \in Int
      <4>1. Good \in [Returns -> Int]
        BY <1>2 DEF Good, Typed, SharedTypes, Amounts, Conditions
      <4>. QED BY <4>1, ConstantsAssumption, SumType
    <3>4. SumFunction(Good') \in Int
      <4>1. Good' \in [Returns -> Int]
        BY <3>0 DEF Good, Typed, SharedTypes, Amounts, Conditions
      <4>. QED BY <4>1, ConstantsAssumption, SumType
    <3>5. onHand = SumFunction(Good) => onHand' = SumFunction(Good')
      BY <3>1, <3>2, <3>3, <3>4
    <3>6. OnlyGoodIsSellable <=> (~healed => onHand = SumFunction(Good))
      BY DEF OnlyGoodIsSellable, Good
    <3>7. OnlyGoodIsSellable' <=> (~healed' => onHand' = SumFunction(Good'))
      BY DEF OnlyGoodIsSellable, Good
    <3>. QED BY <1>2, <3>1, <3>5, <3>6, <3>7
  <2>. QED BY <1>2, <2>1, <2>2, <2>3, StockChanges
<1>3. Spec => []Typed
  BY TypedInit, TypedNext, PTL DEF Spec
<1>. QED BY <1>1, <1>2, <1>3, PTL DEF Spec

(***************************************************************************)
(* Requests that do not overlap, but for receipts and credit notes.        *)
(***************************************************************************)
Apart ==
  \A s, t \in Sessions :
    s # t /\ pc[s] # "idle" /\ pc[t] # "idle" => {op[s], op[t]} \subseteq Locking

\* What a request knows of its return at each point.
Editing(s) ==
  /\ op[s] \in {"create", "update"} /\ pc[s] \in {"line", "clear", "select", "write"}
  /\ return[doc[s]].status = "DRAFT"
  /\ \A c \in Columns \ {"total"} : copy[s][c] = return[doc[s]][c]

Changing(s) ==
  /\ op[s] \in {"submit", "approve", "reject", "cancel"} /\ pc[s] \in {"select", "write"}
  /\ Active(doc[s]) /\ ~Posted(doc[s])
  /\ copy[s].status \in {"SUBMITTED", "APPROVED", "REJECTED", "CANCELLED"}
  /\ \A c \in Columns \ {"status"} : copy[s][c] = return[doc[s]][c]

Receiving(s) ==
  /\ op[s] = "receive" /\ pc[s] \in {"lock", "stock"}
  /\ want[s] = lines[doc[s]]

Noting(s) ==
  /\ op[s] = "credit" /\ pc[s] \in Crediting \cup {"lock"}
  /\ pc[s] # "lock" => copy[s].total = return[doc[s]].total
  /\ pc[s] = "number" => copy[s].number = 0
  /\ pc[s] \in {"bill", "credit"} =>
       /\ noteLock = s /\ copy[s].number # 0
       /\ \A r \in Returns : return[r].number # copy[s].number
  /\ pc[s] = "credit" => bill[s].balance = Outstanding(s)

Paying(s) ==
  /\ op[s] = "pay" /\ pc[s] \in {"pay", "receipt"}
  /\ pc[s] = "pay" => bill[s].balance = AtLeastZero(Delivered - bill[s].paid - Credited)

Task(s) ==
  pc[s] # "idle" => Editing(s) \/ Changing(s) \/ Receiving(s) \/ Noting(s) \/ Paying(s)

\* A return, its lines and what the ledgers have of it.
Book(r) ==
  /\ return[r].status = "NONE" => return[r] = NoRow /\ lines[r] = NoLines
  /\ ledger[r] = IF return[r].stock THEN lines[r] ELSE NoLines
  /\ credits[r] = IF return[r].credit THEN return[r].total ELSE 0
  /\ (return[r].stock /\ return[r].credit) <=> (return[r].status = "COMPLETED")
  /\ (return[r].stock /\ ~return[r].credit) <=> (return[r].status = "RECEIVED")
  /\ (~return[r].stock /\ return[r].credit) <=> (return[r].status = "CREDITED")
  /\ ~return[r].credit => return[r].number = 0

Unique ==
  \A q, r \in Returns :
    q # r /\ return[q].number # 0 => return[q].number # return[r].number

Settled == invoice.balance = AtLeastZero(Delivered - invoice.paid - Credited)

Books == (\A r \in Returns : Book(r)) /\ Unique /\ Settled
Tasks == \A s \in Sessions : Task(s)
Calm == Apart /\ Tasks /\ Books
Serial == ~mixed => Calm

\* What a session holds stays as it is.
Kept(t) == UNCHANGED <<pc[t], op[t], doc[t], copy[t], want[t], bill[t]>>

\* The credits of a return count only once they are posted.
LEMMA CreditedSame ==
  ASSUME \A r \in Returns : /\ return'[r].credit = return[r].credit
                            /\ return[r].credit => return'[r].total = return[r].total
  PROVE  Credited' = Credited
<1>1. [r \in Returns |-> IF return[r].credit THEN return[r].total ELSE 0]'
        = [r \in Returns |-> IF return[r].credit THEN return[r].total ELSE 0]
  OBVIOUS
<1>. QED BY <1>1 DEF Credited

\* A receipt or a credit note of another session goes on undisturbed.
LEMMA OtherTask ==
  ASSUME NEW t \in Sessions, Task(t), Kept(t),
         pc[t] # "idle" =>
           /\ op[t] \in Locking /\ lines' = lines /\ invoice'.paid = invoice.paid
           /\ \A r \in Returns : return'[r].total = return[r].total,
         pc[t] # "idle" => doc[t] \in Returns,
         noteLock = t => /\ noteLock' = t /\ Credited' = Credited
                         /\ \A r \in Returns : return'[r].number = return[r].number
  PROVE  Task(t)'
<1>1. CASE pc[t] = "idle"
  BY <1>1 DEF Kept, Task
<1>2. CASE Receiving(t) /\ pc[t] # "idle"
  <2>1. Receiving(t)'
    BY <1>2 DEF Receiving, Kept
  <2>. QED BY <2>1 DEF Task
<1>3. CASE Noting(t) /\ pc[t] # "idle"
  <2>1. pc[t] = "credit" => Outstanding(t)' = Outstanding(t)
    BY <1>3 DEF Noting, Outstanding, Kept
  <2>2. Noting(t)'
    BY <1>3, <2>1 DEF Noting, Kept
  <2>. QED BY <2>2 DEF Task
<1>. QED BY <1>1, <1>2, <1>3 DEF Task, Editing, Changing, Paying, Locking

\* A step of s, which may change shared state only where the others do not rely on it.
LEMMA OthersCalm ==
  ASSUME Typed, Apart, Tasks, NEW s \in Sessions, pc[s] # "idle",
         \A t \in Sessions \ {s} : Kept(t), pc'[s] = "idle" \/ op'[s] = op[s],
         op[s] \in Locking =>
           /\ lines' = lines /\ invoice'.paid = invoice.paid
           /\ \A r \in Returns : return'[r].total = return[r].total
           /\ \A t \in Sessions \ {s} : noteLock = t =>
                /\ noteLock' = t /\ Credited' = Credited
                /\ \A r \in Returns : return'[r].number = return[r].number
  PROVE  Apart' /\ \A t \in Sessions \ {s} : Task(t)'
<1>1. Apart'
  BY DEF Apart, Kept
<1>2. ASSUME NEW t \in Sessions \ {s} PROVE Task(t)'
  <2>1. CASE pc[t] = "idle"
    BY <2>1 DEF Kept, Task
  <2>2. CASE pc[t] # "idle"
    <3>1. op[s] \in Locking /\ op[t] \in Locking
      BY <2>2 DEF Apart
    <3>2. doc[t] \in Returns /\ Task(t) /\ Kept(t)
      BY DEF Typed, RequestTypes, Tasks
    <3>. QED BY <3>1, <3>2, OtherTask
  <2>. QED BY <2>1, <2>2
<1>. QED BY <1>1, <1>2

\* The books are about these.
LEMMA QuietBooks ==
  ASSUME Books, UNCHANGED <<document, ledger, credits, invoice>> PROVE Books'
<1>1. return' = return /\ lines' = lines /\ Credited' = Credited
  BY DEF document, Credited
<1>2. (\A r \in Returns : Book(r))'
  BY <1>1 DEF Books, Book
<1>3. Unique'
  BY <1>1 DEF Books, Unique
<1>4. Settled'
  BY <1>1 DEF Books, Settled
<1>. QED BY <1>2, <1>3, <1>4 DEF Books

\* A step that writes none of them.
LEMMA QuietCalm ==
  ASSUME Typed, Calm, NEW s \in Sessions, pc[s] # "idle",
         \A t \in Sessions \ {s} : Kept(t), pc'[s] = "idle" \/ op'[s] = op[s], Task(s)',
         UNCHANGED <<document, ledger, credits, invoice>>,
         \A t \in Sessions \ {s} : noteLock = t => noteLock' = t
  PROVE  Calm'
<1>1. return' = return /\ lines' = lines /\ Credited' = Credited
  BY DEF document, Credited
<1>2. Apart' /\ \A t \in Sessions \ {s} : Task(t)'
  BY <1>1, OthersCalm DEF Calm
<1>. QED BY <1>2, QuietBooks DEF Calm, Tasks

\* A step that changes the books of one return.
LEMMA OneBook ==
  ASSUME Books, NEW d \in Returns, Book(d)',
         \A r \in Returns \ {d} :
           UNCHANGED <<return[r], lines[r], ledger[r], credits[r]>>
  PROVE  \A r \in Returns : Book(r)'
<1>1. ASSUME NEW r \in Returns \ {d} PROVE Book(r)'
  BY <1>1 DEF Books, Book
<1>. QED BY <1>1

\* What End and Begin do.
LEMMA EndIs ==
  ASSUME Typed, NEW s \in Sessions, End(s)
  PROVE  pc'[s] = "idle" /\ mixed' = mixed /\ \A t \in Sessions \ {s} : Kept(t)
BY DEF End, Goto, Kept, Typed, RequestTypes

\* What a request holds when it starts.
LEMMA BeginIs ==
  ASSUME Typed, NEW s \in Sessions, NEW o, NEW r, NEW row, NEW quantities, NEW to,
         Begin(s, o, r, row, quantities, to)
  PROVE  /\ pc[s] = "idle" /\ pc'[s] = to /\ op'[s] = o /\ doc'[s] = r /\ copy'[s] = row
         /\ want'[s] = quantities
         /\ \A t \in Sessions \ {s} : UNCHANGED <<pc[t], op[t], doc[t], copy[t], want[t]>>
         /\ UNCHANGED <<ledger, credits, invoice, noteLock>>
         /\ mixed => mixed'
         /\ ~mixed' => \A t \in Sessions : pc[t] # "idle" => {o, op[t]} \subseteq Locking
<1>1. /\ pc[s] = "idle" /\ pc'[s] = to /\ op'[s] = o /\ doc'[s] = r /\ copy'[s] = row
      /\ want'[s] = quantities
  BY DEF Begin, Goto, Typed, RequestTypes
<1>2. \A t \in Sessions \ {s} : UNCHANGED <<pc[t], op[t], doc[t], copy[t], want[t]>>
  BY DEF Begin, Goto, Typed, RequestTypes
<1>3. UNCHANGED <<ledger, credits, invoice, noteLock>>
  BY DEF Begin, stock, money, locks
<1>. QED BY <1>1, <1>2, <1>3 DEF Begin

\* The start of a handler that overlaps none but receipts and credit notes.
LEMMA BeginCalm ==
  ASSUME Typed, Calm, NEW s \in Sessions, NEW o, NEW r, NEW row, NEW quantities, NEW to,
         Begin(s, o, r, row, quantities, to), ~mixed', Task(s)', Books', lines' = lines,
         \A t \in Sessions \ {s} : bill'[t] = bill[t], o \in Locking => return' = return
  PROVE  Calm'
<1>1. /\ pc'[s] = to /\ op'[s] = o /\ noteLock' = noteLock /\ invoice' = invoice
      /\ \A t \in Sessions : pc[t] # "idle" => {o, op[t]} \subseteq Locking
      /\ \A t \in Sessions \ {s} : Kept(t)
  BY BeginIs DEF Kept
<1>2. Apart'
  BY <1>1 DEF Calm, Apart, Kept
<1>3. ASSUME NEW t \in Sessions \ {s} PROVE Task(t)'
  <2>1. CASE pc[t] = "idle"
    BY <1>1, <2>1 DEF Kept, Task
  <2>2. CASE pc[t] # "idle"
    <3>1. op[t] \in Locking /\ return' = return
      BY <1>1, <2>2
    <3>2. Credited' = Credited
      BY <3>1 DEF Credited
    <3>3. doc[t] \in Returns /\ Task(t) /\ Kept(t)
      BY <1>1 DEF Typed, RequestTypes, Calm, Tasks
    <3>. QED BY <1>1, <3>1, <3>2, <3>3, OtherTask
  <2>. QED BY <2>1, <2>2
<1>. QED BY <1>2, <1>3 DEF Calm, Tasks


\* A return nobody has posted yet: what its status may say.
LEMMA Unposted ==
  ASSUME Typed, Books, NEW r \in Returns, return[r].status \in {"DRAFT", "SUBMITTED", "APPROVED"}
  PROVE  ~return[r].stock /\ ~return[r].credit
<1>1. Book(r) /\ return[r].stock \in BOOLEAN /\ return[r].credit \in BOOLEAN
  BY DEF Books, Typed, SharedTypes, Rows
<1>. QED BY <1>1 DEF Book

\* A handler that loads a return that is there.
LEMMA LoadSerial ==
  ASSUME Typed, Serial, NEW s \in Sessions, NEW o, NEW r \in Returns, NEW row, NEW quantities,
         NEW to, Load(s, o, r, row, quantities, to), ~mixed' => Task(s)'
  PROVE  Serial'
<1>1. /\ Begin(s, o, r, row, quantities, to) /\ return' = return /\ lines' = lines
      /\ bill' = bill /\ UNCHANGED document
  BY DEF Load, document
<1>2. UNCHANGED <<ledger, credits, invoice>> /\ (mixed => mixed')
  BY <1>1, BeginIs
<1>3. SUFFICES ASSUME ~mixed' PROVE Calm'
  BY DEF Serial
<1>4. Calm
  BY <1>2, <1>3 DEF Serial
<1>5. Books'
  BY <1>1, <1>2, <1>4, QuietBooks DEF Calm
<1>. QED BY <1>1, <1>3, <1>4, <1>5, BeginCalm

\* Each handler's start.
LEMMA StartSerial == ASSUME Typed, Serial, NEW s \in Sessions, Start(s) PROVE Serial'
<1>0. return \in [Returns -> Rows] /\ Columns = {"status", "stock", "credit", "number", "total"}
  BY DEF Typed, SharedTypes, Columns
<1>1. ASSUME NEW r \in Returns, NEW from, NEW to,
             NEW o \in {"submit", "approve", "reject", "cancel"}, Advance(s, o, r, from, to),
             ~mixed => ~Posted(r), to \in {"SUBMITTED", "APPROVED", "REJECTED", "CANCELLED"},
             from \cap {"REJECTED", "CANCELLED"} = {}
      PROVE  Serial'
  <2>. DEFINE row == [return[r] EXCEPT !.status = to]
  <2>1. /\ row.status = to
        /\ \A c \in Columns \ {"status"} : row[c] = return[r][c]
    BY <1>0 DEF Rows
  <2>2. Load(s, o, r, row, NoLines, "select") /\ Active(r)
    BY <1>1 DEF Advance, Load, Active
  <2>. HIDE DEF row
  <2>3. /\ pc'[s] = "select" /\ op'[s] = o /\ doc'[s] = r /\ copy'[s] = row /\ return' = return
        /\ mixed => mixed'
    BY <2>2, BeginIs DEF Load, document
  <2>4. ~mixed' => Changing(s)'
    BY <1>1, <2>1, <2>2, <2>3 DEF Changing, Posted, Active
  <2>. QED BY <2>2, <2>4, LoadSerial DEF Task
<1>2. ASSUME NEW r \in Returns, UpdateHeader(s, r) PROVE Serial'
  <2>. DEFINE row == [return[r] EXCEPT !.status = "DRAFT"]
  <2>1. return[r].status = "DRAFT" /\ Load(s, "update", r, row, NoLines, "select")
    BY <1>2 DEF UpdateHeader, Advance
  <2>2. \A c \in Columns \ {"total"} : row[c] = return[r][c]
    BY <1>0, <2>1 DEF Rows
  <2>. HIDE DEF row
  <2>3. /\ pc'[s] = "select" /\ op'[s] = "update" /\ doc'[s] = r /\ copy'[s] = row
        /\ return' = return
    BY <2>1, BeginIs DEF Load, document
  <2>4. Editing(s)'
    BY <2>1, <2>2, <2>3 DEF Editing
  <2>. QED BY <2>1, <2>4, LoadSerial DEF Task
<1>3. ASSUME NEW r \in Returns, NEW quantities \in Requested, Update(s, r, quantities)
      PROVE  Serial'
  <2>. DEFINE row == [return[r] EXCEPT !.total = 0]
  <2>1. return[r].status = "DRAFT" /\ Load(s, "update", r, row, quantities, "clear")
    BY <1>3 DEF Update
  <2>2. \A c \in Columns \ {"total"} : row[c] = return[r][c]
    BY <1>0 DEF Rows
  <2>. HIDE DEF row
  <2>3. /\ pc'[s] = "clear" /\ op'[s] = "update" /\ doc'[s] = r /\ copy'[s] = row
        /\ return' = return
    BY <2>1, BeginIs DEF Load, document
  <2>4. Editing(s)'
    BY <2>1, <2>2, <2>3 DEF Editing
  <2>. QED BY <2>1, <2>4, LoadSerial DEF Task
<1>4. ASSUME NEW r \in Returns, Receive(s, r) PROVE Serial'
  <2>1. Load(s, "receive", r, return[r], lines[r], "lock")
    BY <1>4 DEF Receive
  <2>2. /\ pc'[s] = "lock" /\ op'[s] = "receive" /\ doc'[s] = r /\ want'[s] = lines[r]
        /\ lines' = lines
    BY <2>1, BeginIs DEF Load, document
  <2>3. Receiving(s)'
    BY <2>2 DEF Receiving
  <2>. QED BY <2>1, <2>3, LoadSerial DEF Task
<1>5. ASSUME NEW r \in Returns, Credit(s, r) PROVE Serial'
  <2>1. Load(s, "credit", r, return[r], NoLines, "lock")
    BY <1>5 DEF Credit
  <2>2. pc'[s] = "lock" /\ op'[s] = "credit"
    BY <2>1, BeginIs DEF Load
  <2>3. Noting(s)'
    BY <2>2 DEF Noting
  <2>. QED BY <2>1, <2>3, LoadSerial DEF Task
<1>6. ASSUME NEW r \in Returns,
             Submit(s, r) \/ Approve(s, r) \/ Reject(s, r) \/ Cancel(s, r)
      PROVE  Serial'
  <2>1. ~mixed => ~Posted(r)
    BY <1>6, Unposted DEF Submit, Approve, Reject, Cancel, Advance, Posted, Serial, Calm
  <2>2. CASE Submit(s, r)
    BY <1>1, <2>1, <2>2 DEF Submit
  <2>3. CASE Approve(s, r)
    BY <1>1, <2>1, <2>3 DEF Approve
  <2>4. CASE Reject(s, r)
    BY <1>1, <2>1, <2>4 DEF Reject
  <2>5. CASE Cancel(s, r)
    BY <1>1, <2>1, <2>5 DEF Cancel
  <2>. QED BY <1>6, <2>2, <2>3, <2>4, <2>5
<1>7. ASSUME NEW r \in Returns, NEW quantities \in Requested, Create(s, r, quantities)
      PROVE  Serial'
  <2>. DEFINE row == [NoRow EXCEPT !.status = "DRAFT"]
  <2>0. /\ row.status = "DRAFT" /\ row.stock = FALSE /\ row.credit = FALSE
        /\ row.number = 0 /\ row.total = 0
    BY DEF NoRow
  <2>10. return[r] = NoRow => [return[r] EXCEPT !.status = "DRAFT"] = row
    OBVIOUS
  <2>11. NoRow.stock = FALSE /\ NoRow.credit = FALSE /\ NoRow.number = 0
    BY DEF NoRow
  <2>1. /\ Begin(s, "create", r, row, quantities, "line") /\ lines' = lines /\ bill' = bill
        /\ return[r].status = "NONE"
        /\ return' = [return EXCEPT ![r] = [return[r] EXCEPT !.status = "DRAFT"]]
    BY <1>7 DEF Create
  <2>. HIDE DEF row
  <2>2. SUFFICES ASSUME ~mixed' PROVE Calm'
    BY DEF Serial
  <2>3. /\ pc'[s] = "line" /\ op'[s] = "create" /\ doc'[s] = r /\ copy'[s] = row
        /\ UNCHANGED <<ledger, credits, invoice>> /\ ~mixed
    BY <2>1, <2>2, BeginIs
  <2>4. Calm
    BY <2>3 DEF Serial
  <2>5. return[r] = NoRow /\ lines[r] = NoLines /\ Book(r)
    BY <2>1, <2>4 DEF Calm, Books, Book
  <2>6. return'[r] = row /\ \A q \in Returns \ {r} : return'[q] = return[q]
    BY <1>0, <2>10, <2>1, <2>5
  <2>7. Editing(s)'
    BY <2>0, <2>3, <2>6 DEF Editing
  <2>8. Book(r)'
    BY <2>0, <2>11, <2>1, <2>3, <2>5, <2>6 DEF Book
  <2>9. \A q \in Returns : /\ return'[q].number = return[q].number
                           /\ return'[q].credit = return[q].credit
                           /\ return[q].credit => return'[q].total = return[q].total
    BY <2>0, <2>11, <2>5, <2>6
  <2>12. Books'
    <3>1. \A q \in Returns : Book(q)'
      BY <2>1, <2>3, <2>4, <2>6, <2>8, OneBook DEF Calm
    <3>2. Unique'
      BY <2>4, <2>9 DEF Calm, Books, Unique
    <3>3. Credited' = Credited
      BY <2>9, CreditedSame
    <3>4. Settled'
      BY <2>3, <2>4, <3>3 DEF Calm, Books, Settled
    <3>. QED BY <3>1, <3>2, <3>4 DEF Books
  <2>. QED BY <2>1, <2>2, <2>4, <2>7, <2>12, BeginCalm DEF Task, Locking
<1>8. ASSUME NEW amount \in 1..Delivered, Pay(s, amount) PROVE Serial'
  <2>. DEFINE r == CHOOSE q \in Returns : TRUE
              b == [paid |-> invoice.paid + amount, amount |-> amount,
                    balance |-> AtLeastZero(Delivered - (invoice.paid + amount) - Credited)]
  <2>1. /\ Begin(s, "pay", r, NoRow, NoLines, "pay") /\ return' = return /\ lines' = lines
        /\ UNCHANGED document /\ bill' = [bill EXCEPT ![s] = b]
    BY <1>8 DEF Pay, document
  <2>2. b.balance = AtLeastZero(Delivered - b.paid - Credited)
    OBVIOUS
  <2>. HIDE DEF r, b
  <2>3. SUFFICES ASSUME ~mixed' PROVE Calm'
    BY DEF Serial
  <2>4. /\ pc'[s] = "pay" /\ op'[s] = "pay" /\ UNCHANGED <<ledger, credits, invoice>> /\ ~mixed
    BY <2>1, <2>3, BeginIs
  <2>5. Calm
    BY <2>4 DEF Serial
  <2>6. bill'[s] = b /\ (\A t \in Sessions \ {s} : bill'[t] = bill[t]) /\ Credited' = Credited
    BY <2>1 DEF Typed, RequestTypes, Credited
  <2>7. Paying(s)'
    BY <2>2, <2>4, <2>6 DEF Paying
  <2>8. Books'
    BY <2>1, <2>4, <2>5, QuietBooks DEF Calm
  <2>. QED BY <2>1, <2>3, <2>5, <2>6, <2>7, <2>8, BeginCalm DEF Task
<1>. QED BY <1>2, <1>3, <1>4, <1>5, <1>6, <1>7, <1>8 DEF Start


\* The task of a request, by where it is.
LEMMA AtPoint ==
  ASSUME Calm, NEW s \in Sessions
  PROVE  /\ pc[s] \in {"line", "clear"} => Editing(s)
         /\ pc[s] \in {"select", "write"} => Editing(s) \/ Changing(s)
         /\ pc[s] = "lock" => Receiving(s) \/ Noting(s)
         /\ pc[s] = "stock" => Receiving(s)
         /\ pc[s] \in Crediting => Noting(s)
         /\ pc[s] \in {"pay", "receipt"} => Paying(s)
<1>1. pc[s] # "idle" =>
        Editing(s) \/ Changing(s) \/ Receiving(s) \/ Noting(s) \/ Paying(s)
  BY DEF Calm, Tasks, Task
<1>. QED BY <1>1 DEF Editing, Changing, Receiving, Noting, Paying

\* The return being edited has posted nothing, so its lines are nowhere else.
LEMMA LinesBooks ==
  ASSUME Typed, Books, NEW r \in Returns, return[r].status = "DRAFT",
         UNCHANGED <<return, ledger, credits, invoice>>,
         \A q \in Returns \ {r} : lines'[q] = lines[q]
  PROVE  Books'
<1>1. Book(r) /\ ~return[r].stock /\ ~return[r].credit
  BY Unposted DEF Books
<1>2. Book(r)'
  BY <1>1 DEF Book
<1>3. \A q \in Returns : Book(q)'
  BY <1>2, OneBook
<1>4. Unique'
  BY DEF Books, Unique
<1>5. Credited' = Credited
  BY DEF Credited
<1>6. Settled'
  BY <1>5 DEF Books, Settled
<1>. QED BY <1>3, <1>4, <1>6 DEF Books

\* The steps of create() and update() that write lines.
LEMMA LinesSerial ==
  ASSUME Typed, Serial, NEW s \in Sessions, InsertLine(s) \/ ClearLines(s) PROVE Serial'
<1>. DEFINE r == doc[s]
<1>1. /\ mixed' = mixed /\ UNCHANGED <<return, ledger, credits, invoice, op, doc>>
      /\ pc[s] \in {"line", "clear"}
  BY DEF InsertLine, ClearLines, stock, money, local
<1>2. SUFFICES ASSUME Calm PROVE Calm'
  BY <1>1 DEF Serial
<1>3. Editing(s) /\ r \in Returns /\ lines \in [Returns -> Amounts] /\ copy[s] \in Rows
  BY <1>1, <1>2, AtPoint DEF Typed, SharedTypes, RequestTypes
<1>4. \A q \in Returns \ {r} : lines'[q] = lines[q]
  BY <1>3 DEF InsertLine, ClearLines
<1>5. \A t \in Sessions \ {s} : Kept(t)
  BY <1>1 DEF InsertLine, ClearLines, Goto, local, Kept, Typed, RequestTypes
<1>6. pc'[s] \in {"line", "select"}
  BY DEF InsertLine, ClearLines, Goto, Typed, RequestTypes
<1>7. \A c \in Columns \ {"total"} : copy'[s][c] = copy[s][c]
  <2>1. CASE InsertLine(s)
    <3>1. PICK n : copy' = [copy EXCEPT ![s] = [copy[s] EXCEPT !.total = n]]
      BY <2>1 DEF InsertLine
    <3>2. copy'[s] = [copy[s] EXCEPT !.total = n]
      BY <3>1 DEF Typed, RequestTypes
    <3>. QED BY <1>3, <3>2 DEF Rows, Columns
  <2>2. CASE ClearLines(s)
    BY <2>2 DEF ClearLines, local
  <2>. QED BY <2>1, <2>2
<1>8. Task(s)'
  BY <1>1, <1>3, <1>6, <1>7 DEF Editing, Task
<1>9. Books'
  BY <1>1, <1>2, <1>3, <1>4, LinesBooks DEF Calm, Editing
<1>10. Apart' /\ \A t \in Sessions \ {s} : Task(t)'
  BY <1>1, <1>2, <1>3, <1>5, OthersCalm DEF Calm, Editing, Locking
<1>. QED BY <1>8, <1>9, <1>10 DEF Calm, Tasks

\* A save(): what it compares and what it writes.
LEMMA SaveSerial ==
  ASSUME Typed, Serial, NEW s \in Sessions, SaveSelect(s) \/ SaveRefused(s) \/ SaveWrite(s)
  PROVE  Serial'
<1>. PICK r \in Returns : r = doc[s]
  BY DEF Typed, RequestTypes
<1>0. mixed' = mixed /\ pc[s] \in {"select", "write"}
  BY EndIs DEF SaveSelect, SaveRefused, SaveWrite
<1>1. SUFFICES ASSUME Calm PROVE Calm'
  BY <1>0 DEF Serial
<1>2. /\ Editing(s) \/ Changing(s)
      /\ r \in Returns /\ return \in [Returns -> Rows]
  BY <1>0, <1>1, AtPoint DEF Typed, SharedTypes, RequestTypes
<1>3. CASE SaveSelect(s)
  <2>1. /\ UNCHANGED <<op, doc, copy, want, bill, document, return, lines, noteLock>>
        /\ UNCHANGED <<ledger, credits, invoice>>
        /\ pc' = [pc EXCEPT ![s] = "write"]
    BY <1>3 DEF SaveSelect, Goto, document, stock, money, locks
  <2>2. pc'[s] = "write" /\ \A t \in Sessions \ {s} : Kept(t)
    BY <2>1 DEF Kept, Typed, RequestTypes
  <2>3. Task(s)'
    BY <1>2, <2>1, <2>2 DEF Task, Editing, Changing, Posted, Active
  <2>. QED BY <1>0, <1>1, <2>1, <2>2, <2>3, QuietCalm
<1>4. CASE SaveRefused(s)
  <2>1. /\ UNCHANGED <<document, ledger, credits, invoice, noteLock>>
        /\ pc'[s] = "idle" /\ \A t \in Sessions \ {s} : Kept(t)
    BY <1>4, EndIs DEF SaveRefused, stock, money, locks
  <2>. QED BY <1>0, <1>1, <2>1, QuietCalm DEF Task
<1>5. CASE SaveWrite(s)
  <2>. DEFINE row == [c \in Columns |-> IF c \in dirty[s] THEN copy[s][c] ELSE return[r][c]]
  <2>1. /\ return' = [return EXCEPT ![r] = row] /\ UNCHANGED <<lines, ledger, credits, invoice>>
        /\ pc'[s] = "idle" /\ \A t \in Sessions \ {s} : Kept(t)
    BY <1>5, EndIs DEF SaveWrite, stock, money
  <2>2. \A c \in Columns : row[c] \in {copy[s][c], return[r][c]}
    OBVIOUS
  <2>. HIDE DEF row
  <2>3. return'[r] = row /\ \A q \in Returns \ {r} : return'[q] = return[q]
    BY <1>2, <2>1
  <2>4. /\ ~return[r].stock /\ ~return[r].credit
        /\ return[r].status # "NONE"
    BY <1>1, <1>2, Unposted DEF Calm, Editing, Changing, Posted, Active
  <2>5. return[r].stock = FALSE /\ return[r].credit = FALSE
    <3>1. return[r].stock \in BOOLEAN /\ return[r].credit \in BOOLEAN
      BY <1>2 DEF Rows
    <3>. QED BY <2>4, <3>1
  <2>6. /\ row.stock = return[r].stock /\ row.credit = return[r].credit
        /\ row.number = return[r].number
    <3>1. /\ row["stock"] \in {copy[s]["stock"], return[r]["stock"]}
          /\ row["credit"] \in {copy[s]["credit"], return[r]["credit"]}
          /\ row["number"] \in {copy[s]["number"], return[r]["number"]}
      BY <2>2 DEF Columns
    <3>2. /\ copy[s]["stock"] = return[r]["stock"] /\ copy[s]["credit"] = return[r]["credit"]
          /\ copy[s]["number"] = return[r]["number"]
      BY <1>2 DEF Editing, Changing, Columns
    <3>. QED BY <3>1, <3>2
  <2>7. row.status \in {"DRAFT", "SUBMITTED", "APPROVED", "REJECTED", "CANCELLED"}
                         \cup {return[r].status}
    <3>1. row["status"] \in {copy[s]["status"], return[r]["status"]}
      BY <2>2 DEF Columns
    <3>2. copy[s]["status"] \in {"DRAFT", "SUBMITTED", "APPROVED", "REJECTED", "CANCELLED"}
      BY <1>2 DEF Editing, Changing, Columns
    <3>. QED BY <3>1, <3>2
  <2>8. Book(r)'
    <3>1. Book(r)
      BY <1>1, <1>2 DEF Calm, Books
    <3>. QED BY <2>1, <2>3, <2>4, <2>5, <2>6, <2>7, <3>1 DEF Book
  <2>9. \A q \in Returns : Book(q)'
    BY <1>1, <1>2, <2>1, <2>3, <2>8, OneBook DEF Calm
  <2>10. \A q \in Returns : /\ return'[q].number = return[q].number
                            /\ return'[q].credit = return[q].credit
                            /\ return[q].credit => return'[q].total = return[q].total
    BY <2>3, <2>5, <2>6
  <2>11. Unique'
    BY <1>1, <2>10 DEF Calm, Books, Unique
  <2>12. Credited' = Credited
    BY <2>10, CreditedSame
  <2>13. Settled'
    BY <1>1, <2>1, <2>12 DEF Calm, Books, Settled
  <2>14. op[s] \notin Locking
    BY <1>2 DEF Editing, Changing, Locking
  <2>15. Apart' /\ \A t \in Sessions \ {s} : Task(t)'
    BY <1>0, <1>1, <2>1, <2>14, OthersCalm DEF Calm
  <2>. QED BY <2>1, <2>9, <2>11, <2>13, <2>15 DEF Calm, Tasks, Task, Books
<1>. QED BY <1>3, <1>4, <1>5


\* The next number is none that a return has.
LEMMA FreshNumber ==
  ASSUME Typed PROVE NextNumber # 0 /\ \A r \in Returns : return[r].number # NextNumber
<1>. DEFINE f == [q \in Returns |-> return[q].number]
            top == Max({f[q] : q \in Returns})
<1>1. f \in [Returns -> Nat]
  BY DEF Typed, SharedTypes, Rows
<1>2. {return[q].number : q \in Returns} = {f[q] : q \in Returns}
  OBVIOUS
<1>3. NextNumber = 1 + top
  BY <1>2 DEF NextNumber
<1>4. \A r \in Returns : f[r] = return[r].number
  OBVIOUS
<1>. HIDE DEF f
<1>5. top \in Nat /\ \A r \in Returns : f[r] <= top
  BY <1>1, LastNumber
<1>6. \A r \in Returns : f[r] \in Nat
  BY <1>1
<1>. HIDE DEF top
<1>. QED BY <1>3, <1>4, <1>5, <1>6

\* Taking the locks, reading the invoice, and the check that finds the return posted.
LEMMA LockSerial ==
  ASSUME Typed, Serial, NEW s \in Sessions,
         LockStock(s) \/ LockCredit(s) \/ LockRefused(s) \/ TakeNumber(s) \/ ReadInvoice(s)
  PROVE  Serial'
<1>. PICK r \in Returns : r = doc[s]
  BY DEF Typed, RequestTypes
<1>0. mixed' = mixed /\ pc[s] \in Crediting \cup {"lock"}
  BY EndIs DEF LockStock, LockCredit, LockRefused, TakeNumber, ReadInvoice
<1>1. SUFFICES ASSUME Calm PROVE Calm'
  BY <1>0 DEF Serial
<1>2. /\ UNCHANGED <<document, ledger, credits, invoice, return, lines>> /\ Credited' = Credited
  BY DEF LockStock, LockCredit, LockRefused, TakeNumber, ReadInvoice, document, stock, money,
         Credited
<1>3. /\ pc[s] = "lock" => Receiving(s) \/ Noting(s)
      /\ pc[s] \in Crediting => Noting(s)
  BY <1>1, AtPoint
<1>4. CASE LockStock(s)
  <2>1. /\ pc[s] = "lock" /\ op[s] = "receive" /\ UNCHANGED <<op, doc, copy, want, bill, noteLock>>
        /\ pc' = [pc EXCEPT ![s] = "stock"]
    BY <1>4 DEF LockStock, Goto, local
  <2>2. pc'[s] = "stock" /\ \A t \in Sessions \ {s} : Kept(t)
    BY <2>1 DEF Kept, Typed, RequestTypes
  <2>3. Receiving(s)
    BY <1>3, <2>1 DEF Noting
  <2>4. Receiving(s)'
    BY <1>2, <2>1, <2>2, <2>3 DEF Receiving
  <2>. QED BY <1>0, <1>1, <1>2, <2>1, <2>2, <2>4, QuietCalm DEF Task
<1>5. CASE LockCredit(s)
  <2>1. /\ pc[s] = "lock" /\ op[s] = "credit" /\ UNCHANGED <<op, doc, want, bill, noteLock>>
        /\ pc' = [pc EXCEPT ![s] = "number"] /\ copy' = [copy EXCEPT ![s] = return[r]]
        /\ ~return[r].credit
    BY <1>5 DEF LockCredit, Goto, Creditable
  <2>2. /\ pc'[s] = "number" /\ copy'[s] = return[r] /\ doc'[s] = r
        /\ \A t \in Sessions \ {s} : Kept(t)
    BY <2>1 DEF Kept, Typed, RequestTypes
  <2>3. return[r].number = 0
    BY <1>1, <2>1 DEF Calm, Books, Book
  <2>4. Noting(s)'
    BY <1>2, <2>1, <2>2, <2>3 DEF Noting
  <2>. QED BY <1>0, <1>1, <1>2, <2>1, <2>2, <2>4, QuietCalm DEF Task
<1>6. CASE LockRefused(s)
  <2>1. noteLock' = noteLock /\ pc'[s] = "idle" /\ \A t \in Sessions \ {s} : Kept(t)
    BY <1>6, EndIs DEF LockRefused, locks
  <2>. QED BY <1>0, <1>1, <1>2, <2>1, QuietCalm DEF Task
<1>7. CASE TakeNumber(s)
  <2>1. /\ pc[s] = "number" /\ UNCHANGED <<op, doc, want, bill>>
        /\ noteLock = NoSession /\ noteLock' = s
        /\ pc' = [pc EXCEPT ![s] = "bill"]
        /\ copy' = [copy EXCEPT ![s] = [copy[s] EXCEPT !.number =
                      IF copy[s].number # 0 THEN copy[s].number ELSE NextNumber]]
    BY <1>7 DEF TakeNumber, Goto
  <2>2. pc'[s] = "bill" /\ \A t \in Sessions \ {s} : Kept(t)
    BY <2>1 DEF Kept, Typed, RequestTypes
  <2>3. Noting(s)
    BY <1>3, <2>1
  <2>4. copy'[s].number = NextNumber /\ copy'[s].total = copy[s].total
    BY <2>1, <2>3 DEF Noting, Typed, RequestTypes, Rows
  <2>5. Noting(s)'
    BY <1>2, <2>1, <2>2, <2>3, <2>4, FreshNumber DEF Noting
  <2>6. \A t \in Sessions \ {s} : noteLock # t
    BY <2>1, ConstantsAssumption
  <2>. QED BY <1>0, <1>1, <1>2, <2>1, <2>2, <2>5, <2>6, QuietCalm DEF Task
<1>8. CASE ReadInvoice(s)
  <2>. DEFINE b == [NoBill EXCEPT !.balance = Outstanding(s)]
  <2>1. /\ pc[s] = "bill" /\ UNCHANGED <<op, doc, copy, want, noteLock>>
        /\ pc' = [pc EXCEPT ![s] = "credit"] /\ bill' = [bill EXCEPT ![s] = b]
    BY <1>8 DEF ReadInvoice, Goto, locks
  <2>2. b.balance = Outstanding(s)
    BY DEF NoBill
  <2>. HIDE DEF b
  <2>3. pc'[s] = "credit" /\ bill'[s] = b /\ \A t \in Sessions \ {s} : Kept(t)
    BY <2>1 DEF Kept, Typed, RequestTypes
  <2>4. Noting(s)
    BY <1>3, <2>1
  <2>5. Outstanding(s)' = Outstanding(s)
    BY <1>2, <2>1 DEF Outstanding
  <2>6. Noting(s)'
    BY <1>2, <2>1, <2>2, <2>3, <2>4, <2>5 DEF Noting
  <2>. QED BY <1>0, <1>1, <1>2, <2>1, <2>3, <2>6, QuietCalm DEF Task
<1>. QED BY <1>4, <1>5, <1>6, <1>7, <1>8

\* The commit of a receipt.
LEMMA CommitStockSerial ==
  ASSUME Inv, Typed, Serial, NEW s \in Sessions, CommitStock(s) PROVE Serial'
<1>. PICK r \in Returns : r = doc[s]
  BY DEF Typed, RequestTypes
<1>0. /\ mixed' = mixed /\ pc[s] = "stock" /\ pc'[s] = "idle"
      /\ \A t \in Sessions \ {s} : Kept(t)
  BY EndIs DEF CommitStock
<1>1. SUFFICES ASSUME Calm PROVE Calm'
  BY <1>0 DEF Serial
<1>2. /\ UNCHANGED <<lines, credits, invoice, noteLock>>
      /\ ledger' = [ledger EXCEPT ![r] = [c \in Conditions |-> ledger[r][c] + want[s][c]]]
      /\ return' = [return EXCEPT ![r] =
           [return[r] EXCEPT !.stock = TRUE, !.status = AfterStock(s)]]
  BY DEF CommitStock, money
<1>3. /\ return \in [Returns -> Rows] /\ ledger \in [Returns -> Amounts]
      /\ lines[r] \in Amounts
  BY DEF Typed, SharedTypes
<1>4. Receivable(r) /\ want[s] = lines[r] /\ Book(r) /\ op[s] \in Locking
  BY <1>0, <1>1, AtPoint DEF Inv, Locked, Receiving, Calm, Books, Locking
<1>5. ledger'[r] = lines[r]
  <2>1. ledger[r] = NoLines
    BY <1>4 DEF Book, Receivable
  <2>2. ledger'[r] = [c \in Conditions |-> NoLines[c] + lines[r][c]]
    BY <1>2, <1>3, <1>4, <2>1
  <2>3. \A c \in Conditions : NoLines[c] + lines[r][c] = lines[r][c]
    BY <1>3 DEF NoLines, Amounts
  <2>. QED BY <1>3, <2>2, <2>3 DEF Amounts
<1>6. /\ return'[r].stock = TRUE /\ return'[r].status = AfterStock(s)
      /\ return'[r].credit = return[r].credit /\ return'[r].number = return[r].number
      /\ return'[r].total = return[r].total
      /\ \A q \in Returns \ {r} : return'[q] = return[q]
  BY <1>2, <1>3 DEF Rows
<1>7. Book(r)'
  BY <1>2, <1>3, <1>4, <1>5, <1>6 DEF Book, AfterStock, Rows
<1>8. \A q \in Returns : Book(q)'
  BY <1>1, <1>2, <1>3, <1>6, <1>7, OneBook DEF Calm
<1>9. \A q \in Returns : /\ return'[q].number = return[q].number
                         /\ return'[q].credit = return[q].credit
                         /\ return'[q].total = return[q].total
  BY <1>6
<1>10. Unique'
  BY <1>1, <1>9 DEF Calm, Books, Unique
<1>11. Credited' = Credited
  BY <1>9, CreditedSame
<1>12. Settled'
  BY <1>1, <1>2, <1>11 DEF Calm, Books, Settled
<1>13. Apart' /\ \A t \in Sessions \ {s} : Task(t)'
  BY <1>0, <1>1, <1>2, <1>9, <1>11, OthersCalm DEF Calm
<1>. QED BY <1>0, <1>8, <1>10, <1>12, <1>13 DEF Calm, Tasks, Task, Books

\* The commit of a credit note.
LEMMA CommitCreditSerial ==
  ASSUME Inv, Typed, Serial, NEW s \in Sessions, CommitCredit(s) PROVE Serial'
<1>. PICK r \in Returns : r = doc[s]
  BY DEF Typed, RequestTypes
<1>0. /\ mixed' = mixed /\ pc[s] = "credit" /\ pc'[s] = "idle"
      /\ \A t \in Sessions \ {s} : Kept(t)
  BY EndIs DEF CommitCredit
<1>1. SUFFICES ASSUME Calm PROVE Calm'
  BY <1>0 DEF Serial
<1>. DEFINE status == IF return[r].stock THEN "COMPLETED" ELSE "CREDITED"
            number == copy[s].number
<1>2. /\ UNCHANGED <<lines, ledger>> /\ noteLock' = NoSession
      /\ credits' = [credits EXCEPT ![r] = credits[r] + copy[s].total]
      /\ return' = [return EXCEPT ![r] =
           [return[r] EXCEPT !.credit = TRUE, !.number = number, !.status = status]]
      /\ invoice' = [invoice EXCEPT !.balance = bill[s].balance]
  BY DEF CommitCredit, stock
<1>3. /\ return \in [Returns -> Rows] /\ credits \in [Returns -> Nat]
      /\ invoice \in [paid: Nat, balance: 0..Delivered]
  BY DEF Typed, SharedTypes
<1>4. /\ Creditable(r) /\ Noting(s) /\ Book(r) /\ op[s] \in Locking
  BY <1>0, <1>1, AtPoint DEF Inv, Locked, Noting, Calm, Books, Locking
<1>5. /\ ~return[r].credit /\ copy[s].total = return[r].total /\ noteLock = s
      /\ number # 0 /\ (\A q \in Returns : return[q].number # number)
      /\ bill[s].balance = Outstanding(s)
  BY <1>0, <1>4 DEF Creditable, Noting
<1>. HIDE DEF number
<1>6. /\ return'[r].credit = TRUE /\ return'[r].status = status
      /\ return'[r].stock = return[r].stock /\ return'[r].number = number
      /\ return'[r].total = return[r].total
      /\ \A q \in Returns \ {r} : return'[q] = return[q]
  BY <1>2, <1>3 DEF Rows
<1>7. /\ credits'[r] = return[r].total /\ (\A q \in Returns \ {r} : credits'[q] = credits[q])
  <2>1. credits[r] = 0 /\ return[r].total \in Nat
    BY <1>3, <1>4, <1>5 DEF Book, Rows
  <2>. QED BY <1>2, <1>3, <1>5, <2>1
<1>8. Book(r)'
  BY <1>2, <1>3, <1>4, <1>6, <1>7 DEF Book, Rows, Creditable, Open
<1>9. \A q \in Returns : Book(q)'
  BY <1>1, <1>2, <1>6, <1>7, <1>8, OneBook DEF Calm
<1>10. Unique'
  BY <1>1, <1>5, <1>6 DEF Calm, Books, Unique
<1>11. Credited' = Credited + return[r].total
  <2>. DEFINE f == [q \in Returns |-> IF return[q].credit THEN return[q].total ELSE 0]
              g == [q \in Returns |-> IF return'[q].credit THEN return'[q].total ELSE 0]
  <2>1. f \in [Returns -> Int]
    BY <1>3 DEF Rows
  <2>2. return'[r].total \in Int /\ \A q \in Returns : return[q].total \in Int
    BY <1>3, <1>6 DEF Rows
  <2>3. g \in [Returns -> Int]
    BY <1>6, <2>2
  <2>4. f[r] = 0 /\ g[r] = return[r].total /\ \A q \in Returns \ {r} : g[q] = f[q]
    BY <1>5, <1>6
  <2>5. Credited = SumFunction(f) /\ Credited' = SumFunction(g)
    BY DEF Credited
  <2>. HIDE DEF f, g
  <2>6. SumFunction(g) = SumFunction(f) - f[r] + g[r]
    BY <2>1, <2>3, <2>4, ConstantsAssumption, SumChange
  <2>7. SumFunction(f) \in Int
    BY <2>1, ConstantsAssumption, SumType
  <2>. QED BY <2>2, <2>4, <2>5, <2>6, <2>7
<1>12. Settled'
  <2>1. invoice'.paid = invoice.paid /\ invoice'.balance = Outstanding(s)
    BY <1>2, <1>3, <1>5
  <2>2. Outstanding(s) = AtLeastZero(Delivered - invoice.paid - (Credited + return[r].total))
    BY <1>5 DEF Outstanding
  <2>. QED BY <1>11, <2>1, <2>2 DEF Settled
<1>13. \A t \in Sessions \ {s} : noteLock # t
  BY <1>5
<1>14. invoice'.paid = invoice.paid /\ \A q \in Returns : return'[q].total = return[q].total
  BY <1>2, <1>3, <1>6
<1>15. Apart' /\ \A t \in Sessions \ {s} : Task(t)'
  BY <1>0, <1>1, <1>2, <1>4, <1>13, <1>14, OthersCalm DEF Calm
<1>. QED BY <1>0, <1>9, <1>10, <1>12, <1>15 DEF Calm, Tasks, Task, Books

\* A payment, and the end of a request that dies.
LEMMA PaySerial ==
  ASSUME Typed, Serial, NEW s \in Sessions, SavePayment(s) \/ EnterReceipt(s) \/ Fail(s)
  PROVE  Serial'
<1>0. mixed' = mixed /\ pc[s] # "idle"
  BY EndIs DEF SavePayment, EnterReceipt, Fail
<1>1. SUFFICES ASSUME Calm PROVE Calm'
  BY <1>0 DEF Serial
<1>2. CASE SavePayment(s)
  <2>1. /\ pc[s] = "pay" /\ UNCHANGED <<return, lines, ledger, credits, op, doc, copy, want, bill>>
        /\ pc' = [pc EXCEPT ![s] = "receipt"]
        /\ invoice' = [paid |-> bill[s].paid, balance |-> bill[s].balance]
    BY <1>2 DEF SavePayment, Goto, document, stock, local
  <2>2. pc'[s] = "receipt" /\ \A t \in Sessions \ {s} : Kept(t)
    BY <2>1 DEF Kept, Typed, RequestTypes
  <2>3. Paying(s)
    BY <1>1, <2>1, AtPoint
  <2>4. Task(s)'
    BY <2>1, <2>2, <2>3 DEF Task, Paying
  <2>5. Apart' /\ \A t \in Sessions \ {s} : Task(t)'
    BY <1>0, <1>1, <2>1, <2>2, <2>3, OthersCalm DEF Calm, Paying, Locking
  <2>6. Credited' = Credited
    BY <2>1 DEF Credited
  <2>7. Settled'
    BY <2>1, <2>3, <2>6 DEF Paying, Settled
  <2>8. (\A r \in Returns : Book(r))' /\ Unique'
    BY <1>1, <2>1 DEF Calm, Books, Book, Unique
  <2>. QED BY <2>4, <2>5, <2>7, <2>8 DEF Calm, Tasks, Books
<1>3. CASE EnterReceipt(s)
  <2>1. /\ UNCHANGED <<document, ledger, credits, invoice, noteLock>>
        /\ pc'[s] = "idle" /\ \A t \in Sessions \ {s} : Kept(t)
    BY <1>3, EndIs DEF EnterReceipt, stock, locks
  <2>. QED BY <1>0, <1>1, <2>1, QuietCalm DEF Task
<1>4. CASE Fail(s)
  <2>1. /\ UNCHANGED <<document, ledger, credits, invoice>>
        /\ pc'[s] = "idle" /\ \A t \in Sessions \ {s} : Kept(t)
    BY <1>4, EndIs DEF Fail, stock, money
  <2>2. \A t \in Sessions \ {s} : noteLock = t => noteLock' = t
    BY <1>4 DEF Fail
  <2>. QED BY <1>0, <1>1, <2>1, <2>2, QuietCalm DEF Task
<1>. QED BY <1>2, <1>3, <1>4

\* At first nothing is posted and the whole invoice is open.
LEMMA SerialInit == Init => Serial
<1>. SUFFICES ASSUME Init PROVE Calm
  BY DEF Serial
<1>1. Apart /\ Tasks
  BY DEF Init, Apart, Tasks, Task
<1>2. \A r \in Returns : Book(r)
  BY DEF Init, Book, NoRow
<1>3. Unique
  BY DEF Init, Unique, NoRow
<1>4. Settled
  <2>1. [r \in Returns |-> IF return[r].credit THEN return[r].total ELSE 0] = [r \in Returns |-> 0]
    BY DEF Init, NoRow
  <2>2. Credited = 0
    BY <2>1, ConstantsAssumption, SumZero DEF Credited
  <2>3. AtLeastZero(Delivered - 0 - 0) = Delivered
    BY Defaults, AtLeastZeroIs
  <2>. QED BY <2>2, <2>3 DEF Init, Settled
<1>. QED BY <1>1, <1>2, <1>3, <1>4 DEF Calm, Books

\* What holds of requests that do not overlap is inductive.
LEMMA SerialNext ==
  ASSUME Inv, Typed, Serial, [Next]_vars PROVE Serial'
<1>1. CASE UNCHANGED vars \/ View
  <2>1. UNCHANGED <<return, lines, ledger, credits, invoice, noteLock, pc, op, doc, copy, want,
                    bill, mixed>>
    BY <1>1 DEF vars, View, document, money, locks, local
  <2>2. Credited' = Credited
    BY <2>1 DEF Credited
  <2>3. Apart => Apart'
    BY <2>1 DEF Apart
  <2>4. Tasks => Tasks'
    BY <2>1, <2>2 DEF Tasks, Task, Editing, Changing, Posted, Active, Receiving, Noting,
                      Outstanding, Paying
  <2>5. Books => Books'
    BY <2>1, QuietBooks DEF document
  <2>. QED BY <2>1, <2>3, <2>4, <2>5 DEF Serial, Calm
<1>2. ASSUME NEW s \in Sessions, Start(s) \/ Continue(s) \/ Fail(s) PROVE Serial'
  BY <1>2, StartSerial, LinesSerial, SaveSerial, LockSerial, CommitStockSerial,
     CommitCreditSerial, PaySerial DEF Continue
<1>. QED BY <1>1, <1>2 DEF Next

\* One request at a time, whatever dies, returns, ledger and invoice agree.
LEMMA SerialAlways == Spec => []Serial
<1>1. Init => Inv /\ Typed /\ Serial
  BY InvInit, TypedInit, SerialInit
<1>2. Inv /\ Typed /\ Serial /\ [Next]_vars => (Inv /\ Typed /\ Serial)'
  BY InvNext, TypedNext, SerialNext
<1>. QED BY <1>1, <1>2, PTL DEF Spec

\* Receipts and credit notes may overlap and die anywhere: each return's stock and credit
\* are posted once, its status tells which were, its credit note's number is its own.
THEOREM PostedOnce == Spec => []EachPostedOnce
<1>1. Serial => EachPostedOnce
  BY DEF Serial, Calm, Books, Book, Unique, EachPostedOnce, StockReturnsOnce, CreditedOnce,
         StatusTellsPostings, NumbersUnique
<1>. QED BY <1>1, SerialAlways, PTL

\* However the credit notes of several returns overlap, payments and credit notes leave
\* the invoice with its total less what was paid and credited, and nothing below zero.
THEOREM InvoiceSettles == Spec => []BalanceSettles
<1>1. Serial => BalanceSettles
  BY DEF Serial, Calm, Books, Settled, BalanceSettles
<1>. QED BY <1>1, SerialAlways, PTL

(***************************************************************************)
(* Room for what is returned.                                              *)
(***************************************************************************)
\* Quantities of one condition at most.
OneOnly(quantities) == \E c \in Conditions : \A e \in Conditions \ {c} : quantities[e] = 0

\* What a request is still to insert fits the invoice.
Room(s) ==
  /\ pc[s] \in {"line", "clear"} => OneOnly(want[s])
  /\ pc[s] = "line" => lines[doc[s]] = NoLines /\ Returned + Quantity(want, s) <= Delivered
  /\ pc[s] = "clear" => Returned - Quantity(lines, doc[s]) + Quantity(want, s) <= Delivered

Fits ==
  /\ Returned <= Delivered
  /\ \A r \in Returns : OneOnly(lines[r])
  /\ \A s \in Sessions : Room(s)

Within == ~mixed => Fits

\* Requests for one line each: the invoice is of one item, so this says of one condition.
OneLineRequests == \A quantities \in Requested : OneOnly(quantities)

\* What a return counts for.
Share(r) == IF Active(r) THEN Quantity(lines, r) ELSE 0

\* Sums of lines.
LEMMA LinesSum ==
  /\ \A f \in Amounts : SumFunction(f) \in Nat
  /\ SumFunction(NoLines) = 0 /\ OneOnly(NoLines)
  /\ \A f \in Amounts : \A c \in Conditions :
       (\A e \in Conditions \ {c} : f[e] = 0) => SumFunction(f) = f[c]
<1>1. ASSUME NEW f \in Amounts PROVE SumFunction(f) \in Nat
  BY ConditionsFinite, SumNat DEF Amounts
<1>2. SumFunction(NoLines) = 0
  BY ConditionsFinite, SumZero DEF NoLines
<1>3. ASSUME NEW f \in Amounts, NEW c \in Conditions, \A e \in Conditions \ {c} : f[e] = 0
      PROVE  SumFunction(f) = f[c]
  <2>1. NoLines \in [Conditions -> Int] /\ f \in [Conditions -> Int] /\ NoLines[c] = 0
        /\ \A e \in Conditions \ {c} : f[e] = NoLines[e]
    BY <1>3 DEF NoLines, Amounts
  <2>2. SumFunction(f) = SumFunction(NoLines) - NoLines[c] + f[c]
    BY <2>1, ConditionsFinite, SumChange
  <2>3. f[c] \in Int
    BY <2>1
  <2>. QED BY <1>2, <2>1, <2>2, <2>3
<1>4. OneOnly(NoLines)
  BY DEF OneOnly, NoLines, Conditions
<1>. QED BY <1>1, <1>2, <1>3, <1>4

\* What is returned is the sum of the shares.
LEMMA SharesType == ASSUME Typed PROVE Returned \in Nat /\ \A r \in Returns : Share(r) \in Nat
<1>1. ASSUME NEW r \in Returns PROVE Share(r) \in Nat
  <2>1. lines[r] \in Amounts
    BY DEF Typed, SharedTypes
  <2>. QED BY <2>1, LinesSum DEF Share, Quantity
<1>. DEFINE f == [r \in Returns |-> Share(r)]
<1>2. f \in [Returns -> Nat] /\ Returned = SumFunction(f)
  BY <1>1 DEF Returned, Share
<1>. HIDE DEF f
<1>. QED BY <1>1, <1>2, ConstantsAssumption, SumNat

\* A step that changes one return's share changes what is returned by as much.
LEMMA ReturnedChange ==
  ASSUME Typed, Typed', NEW d \in Returns, \A r \in Returns \ {d} : Share(r)' = Share(r)
  PROVE  Returned' = Returned - Share(d) + Share(d)'
<1>. DEFINE f == [r \in Returns |-> Share(r)]
            g == [r \in Returns |-> Share(r)']
<1>1. f \in [Returns -> Int] /\ Returned = SumFunction(f)
  BY SharesType DEF Returned, Share
<1>2. \A r \in Returns : Share(r)' \in Nat
  <2>1. Typed' => (\A r \in Returns : Share(r) \in Nat)'
    BY SharesType, PTL
  <2>. QED BY <2>1
<1>3. g \in [Returns -> Int] /\ Returned' = SumFunction(g)
  BY <1>2 DEF Returned, Share
<1>4. f[d] = Share(d) /\ g[d] = Share(d)' /\ \A r \in Returns \ {d} : g[r] = f[r]
  OBVIOUS
<1>. HIDE DEF f, g
<1>. QED BY <1>1, <1>3, <1>4, ConstantsAssumption, SumChange


\* No return becomes active and no line is added: less is returned, or as much.
LEMMA ReturnedLess ==
  ASSUME Typed, Typed', lines' = lines, \A r \in Returns : Active(r)' => Active(r)
  PROVE  Returned' <= Returned
<1>. DEFINE f == [r \in Returns |-> Share(r)]
            g == [r \in Returns |-> Share(r)']
<1>1. f \in [Returns -> Int] /\ Returned = SumFunction(f)
  BY SharesType DEF Returned, Share
<1>2. \A r \in Returns : Quantity(lines, r) \in Nat /\ Quantity(lines, r)' = Quantity(lines, r)
  <2>1. \A r \in Returns : lines[r] \in Amounts
    BY DEF Typed, SharedTypes
  <2>. QED BY <2>1, LinesSum DEF Quantity
<1>3. \A r \in Returns : Share(r)' \in Nat /\ Share(r)' <= Share(r)
  BY <1>2 DEF Share
<1>4. g \in [Returns -> Int] /\ Returned' = SumFunction(g) /\ \A r \in Returns : g[r] <= f[r]
  BY <1>3 DEF Returned, Share
<1>. HIDE DEF f, g
<1>. QED BY <1>1, <1>4, ConstantsAssumption, SumMonotonic

\* Such a step keeps the room, when nobody is inserting lines afterwards.
LEMMA QuietFits ==
  ASSUME Typed, Typed', Fits, lines' = lines, \A r \in Returns : Active(r)' => Active(r),
         \A t \in Sessions : pc'[t] \notin {"line", "clear"}
  PROVE  Fits'
<1>1. Returned' <= Returned /\ Returned \in Nat /\ Returned' \in Nat
  <2>1. Typed' => (Returned \in Nat /\ \A r \in Returns : Share(r) \in Nat)'
    BY SharesType, PTL
  <2>. QED BY <2>1, SharesType, ReturnedLess
<1>2. Returned' <= Delivered
  BY <1>1, Defaults DEF Fits
<1>3. \A t \in Sessions : Room(t)'
  BY DEF Room
<1>. QED BY <1>2, <1>3 DEF Fits

\* Who inserts lines is alone.
LEMMA InsertsAlone ==
  ASSUME Calm, NEW s \in Sessions, pc[s] # "idle"
  PROVE  \A t \in Sessions \ {s} : pc[t] \notin {"line", "clear"}
<1>. SUFFICES ASSUME NEW t \in Sessions \ {s}, pc[t] \in {"line", "clear"} PROVE FALSE
  OBVIOUS
<1>1. Editing(t)
  BY AtPoint
<1>. QED BY <1>1 DEF Editing, Locking, Calm, Apart

\* The steps of a request that insert or delete no line.
LEMMA StepsQuiet ==
  ASSUME Inv, Typed, NEW s \in Sessions,
         \/ SaveSelect(s) \/ SaveRefused(s) \/ SaveWrite(s) \/ LockStock(s) \/ LockCredit(s)
         \/ LockRefused(s) \/ CommitStock(s) \/ TakeNumber(s) \/ ReadInvoice(s)
         \/ CommitCredit(s) \/ SavePayment(s) \/ EnterReceipt(s) \/ Fail(s)
  PROVE  /\ pc[s] # "idle" /\ pc'[s] \notin {"line", "clear"} /\ mixed' = mixed /\ lines' = lines
         /\ \A t \in Sessions \ {s} : pc'[t] = pc[t]
<1>1. CASE SaveSelect(s) \/ LockStock(s) \/ LockCredit(s) \/ TakeNumber(s) \/ ReadInvoice(s)
           \/ SavePayment(s)
  BY <1>1 DEF SaveSelect, LockStock, LockCredit, TakeNumber, ReadInvoice, SavePayment, Goto,
              document, Typed, RequestTypes
<1>2. CASE SaveRefused(s) \/ SaveWrite(s) \/ LockRefused(s) \/ CommitStock(s)
           \/ CommitCredit(s) \/ EnterReceipt(s) \/ Fail(s)
  <2>1. pc[s] # "idle" /\ lines' = lines /\ End(s)
    BY <1>2 DEF SaveRefused, SaveWrite, LockRefused, CommitStock, CommitCredit, EnterReceipt,
                Fail, document
  <2>. QED BY <2>1, EndIs DEF Kept
<1>. QED BY <1>1, <1>2

\* None of them makes a return active.
LEMMA StepsActive ==
  ASSUME Inv, Typed, Calm, NEW s \in Sessions,
         \/ SaveSelect(s) \/ SaveRefused(s) \/ SaveWrite(s) \/ LockStock(s) \/ LockCredit(s)
         \/ LockRefused(s) \/ CommitStock(s) \/ TakeNumber(s) \/ ReadInvoice(s)
         \/ CommitCredit(s) \/ SavePayment(s) \/ EnterReceipt(s) \/ Fail(s)
  PROVE  \A r \in Returns : Active(r)' => Active(r)
<1>1. CASE UNCHANGED return
  BY <1>1 DEF Active
<1>2. CASE SaveWrite(s) \/ CommitStock(s) \/ CommitCredit(s)
  <2>1. Active(doc[s])
    <3>1. CASE SaveWrite(s)
      <4>1. Editing(s) \/ Changing(s)
        BY <3>1, AtPoint DEF SaveWrite
      <4>. QED BY <4>1 DEF Editing, Changing, Active
    <3>2. CASE CommitStock(s) \/ CommitCredit(s)
      <4>1. Open(doc[s])
        BY <3>2 DEF CommitStock, CommitCredit, Inv, Locked, Receivable, Creditable
      <4>. QED BY <4>1 DEF Open, Active
    <3>. QED BY <1>2, <3>1, <3>2
  <2>2. \A r \in Returns \ {doc[s]} : return'[r] = return[r]
    BY <1>2 DEF SaveWrite, CommitStock, CommitCredit, Typed, SharedTypes
  <2>. QED BY <2>1, <2>2 DEF Active
<1>. QED BY <1>1, <1>2 DEF SaveSelect, SaveRefused, LockStock, LockCredit, LockRefused, TakeNumber,
                           ReadInvoice, SavePayment, EnterReceipt, Fail, document

\* They keep the room.
LEMMA StepsWithin ==
  ASSUME Inv, Typed, Typed', Serial, Within, NEW s \in Sessions,
         \/ SaveSelect(s) \/ SaveRefused(s) \/ SaveWrite(s) \/ LockStock(s) \/ LockCredit(s)
         \/ LockRefused(s) \/ CommitStock(s) \/ TakeNumber(s) \/ ReadInvoice(s)
         \/ CommitCredit(s) \/ SavePayment(s) \/ EnterReceipt(s) \/ Fail(s)
  PROVE  Within'
<1>1. /\ pc[s] # "idle" /\ pc'[s] \notin {"line", "clear"} /\ mixed' = mixed /\ lines' = lines
      /\ \A t \in Sessions \ {s} : pc'[t] = pc[t]
  BY StepsQuiet
<1>2. SUFFICES ASSUME Calm, Fits PROVE Fits'
  BY <1>1 DEF Serial, Within
<1>3. \A t \in Sessions : pc'[t] \notin {"line", "clear"}
  BY <1>1, <1>2, InsertsAlone
<1>4. \A r \in Returns : Active(r)' => Active(r)
  BY <1>2, StepsActive
<1>. QED BY <1>1, <1>2, <1>3, <1>4, QuietFits


\* The starts of the handlers.
LEMMA StartWithin ==
  ASSUME OneLineRequests, Typed, Typed', Serial, Serial', Within, NEW s \in Sessions, Start(s)
  PROVE  Within'
<1>0. \A r \in Returns : lines[r] \in Amounts
  BY DEF Typed, SharedTypes
<1>1. ASSUME NEW o, NEW r, NEW row, NEW quantities, NEW to,
             Begin(s, o, r, row, quantities, to), ~mixed'
      PROVE  /\ Calm /\ Fits /\ pc'[s] = to /\ doc'[s] = r /\ want'[s] = quantities
             /\ \A t \in Sessions \ {s} : pc'[t] \notin {"line", "clear"}
  <2>1. /\ pc'[s] = to /\ doc'[s] = r /\ want'[s] = quantities /\ ~mixed
        /\ \A t \in Sessions \ {s} : pc'[t] = pc[t]
        /\ \A t \in Sessions : pc[t] # "idle" => op[t] \in Locking
    BY <1>1, BeginIs
  <2>2. Calm /\ Fits
    BY <2>1 DEF Serial, Within
  <2>3. \A t \in Sessions : pc[t] \in {"line", "clear"} => Editing(t)
    BY <2>2, AtPoint
  <2>. QED BY <2>1, <2>2, <2>3 DEF Editing, Locking
<1>2. ASSUME NEW o, NEW r, NEW row, NEW quantities, NEW to \in {"select", "lock", "pay"},
             Begin(s, o, r, row, quantities, to), UNCHANGED <<return, lines>>
      PROVE  Within'
  <2>1. SUFFICES ASSUME ~mixed' PROVE Fits'
    BY DEF Within
  <2>2. Fits /\ \A t \in Sessions : pc'[t] \notin {"line", "clear"}
    BY <1>1, <1>2, <2>1
  <2>3. \A q \in Returns : Active(q)' => Active(q)
    BY <1>2 DEF Active
  <2>. QED BY <1>2, <2>2, <2>3, QuietFits
<1>3. ASSUME NEW r \in Returns,
             \/ Submit(s, r) \/ Approve(s, r) \/ Reject(s, r) \/ Cancel(s, r)
             \/ UpdateHeader(s, r) \/ Receive(s, r) \/ Credit(s, r)
      PROVE  Within'
  BY <1>2, <1>3 DEF Submit, Approve, Reject, Cancel, UpdateHeader, Receive, Credit, Advance,
                    Load, document
<1>4. ASSUME NEW amount \in 1..Delivered, Pay(s, amount) PROVE Within'
  BY <1>2, <1>4 DEF Pay, document
<1>5. ASSUME NEW r \in Returns, NEW quantities \in Requested, Create(s, r, quantities)
      PROVE  Within'
  <2>. DEFINE row == [NoRow EXCEPT !.status = "DRAFT"]
  <2>1. /\ Begin(s, "create", r, row, quantities, "line") /\ lines' = lines
        /\ return[r].status = "NONE" /\ Valid(quantities, 0)
        /\ return' = [return EXCEPT ![r].status = "DRAFT"]
    BY <1>5 DEF Create
  <2>. HIDE DEF row
  <2>2. SUFFICES ASSUME ~mixed' PROVE Fits'
    BY DEF Within
  <2>3. /\ Calm /\ Fits /\ pc'[s] = "line" /\ doc'[s] = r /\ want'[s] = quantities
        /\ \A t \in Sessions \ {s} : pc'[t] \notin {"line", "clear"}
    BY <1>1, <2>1, <2>2
  <2>4. lines[r] = NoLines
    BY <2>1, <2>3 DEF Calm, Books, Book
  <2>5. Share(r) = 0 /\ Share(r)' = 0
    BY <2>1, <2>4, LinesSum DEF Share, Active, Quantity
  <2>6. \A q \in Returns \ {r} : Share(q)' = Share(q)
    BY <2>1 DEF Share, Active, Quantity, Typed, SharedTypes
  <2>7. Returned \in Nat /\ Returned' = Returned
    <3>1. Returned' = Returned - Share(r) + Share(r)'
      BY <2>6, ReturnedChange
    <3>. QED BY <2>5, <3>1, SharesType
  <2>8. PICK c \in Conditions : \A e \in Conditions \ {c} : quantities[e] = 0
    BY DEF OneLineRequests, OneOnly
  <2>9. quantities \in Amounts /\ SumFunction(quantities) = quantities[c] /\ quantities[c] \in Nat
    BY <2>8, ConstantsAssumption, LinesSum DEF Amounts
  <2>10. quantities[c] <= AtLeastZero(Delivered - Returned)
    <3>1. quantities[c] <= Returnable + 0
      BY <2>1 DEF Valid
    <3>2. Returnable = AtLeastZero(Delivered - Returned) /\ AtLeastZero(Delivered - Returned) \in Int
      BY <2>7, Defaults, AtLeastZeroIs DEF Returnable
    <3>. QED BY <2>9, <3>1, <3>2
  <2>11. Returned + SumFunction(quantities) <= Delivered
    BY <2>3, <2>7, <2>9, <2>10, Defaults, AtLeastZeroIs DEF Fits
  <2>12. Room(s)'
    <3>1. OneOnly(want[s])' /\ lines'[doc'[s]] = NoLines /\ Quantity(want, s)' = SumFunction(quantities)
      BY <2>1, <2>3, <2>4, <2>8 DEF OneOnly, Quantity
    <3>. QED BY <2>3, <2>7, <2>11, <3>1 DEF Room
  <2>13. \A t \in Sessions \ {s} : Room(t)'
    BY <2>3 DEF Room
  <2>. QED BY <2>1, <2>3, <2>7, <2>12, <2>13 DEF Fits
<1>6. ASSUME NEW r \in Returns, NEW quantities \in Requested, Update(s, r, quantities)
      PROVE  Within'
  <2>. DEFINE row == [return[r] EXCEPT !.total = 0]
  <2>1. /\ Begin(s, "update", r, row, quantities, "clear") /\ lines' = lines /\ return' = return
        /\ return[r].status = "DRAFT"
    BY <1>6 DEF Update, Load, document
  <2>. HIDE DEF row
  <2>2. SUFFICES ASSUME ~mixed' PROVE Fits'
    BY DEF Within
  <2>3. /\ Calm /\ Fits /\ pc'[s] = "clear" /\ doc'[s] = r /\ want'[s] = quantities
        /\ \A t \in Sessions \ {s} : pc'[t] \notin {"line", "clear"}
    BY <1>1, <2>1, <2>2
  <2>4. Returned' = Returned /\ Returned \in Nat
    BY <2>1, SharesType DEF Returned, Active, Quantity
  <2>5. PICK c \in Conditions : \A e \in Conditions \ {c} : quantities[e] = 0
    BY DEF OneLineRequests, OneOnly
  <2>6. quantities \in Amounts /\ SumFunction(quantities) = quantities[c] /\ quantities[c] \in Nat
    BY <2>5, ConstantsAssumption, LinesSum DEF Amounts
  <2>7. SumFunction(lines[r]) \in Nat /\ SumFunction(lines[r]) <= Returned
    <3>1. SumFunction(lines[r]) = Share(r)
      BY <2>1 DEF Share, Active, Quantity
    <3>2. Share(r) <= Returned
      <4>. DEFINE f == [q \in Returns |-> Share(q)]
      <4>1. f \in [Returns -> Nat] /\ Returned = SumFunction(f) /\ f[r] = Share(r)
        BY SharesType DEF Returned, Share
      <4>. HIDE DEF f
      <4>. QED BY <4>1, ConstantsAssumption, SumNat
    <3>. QED BY <3>1, <3>2, SharesType
  <2>8. PICK back \in Range(lines[r]) :
          (back > 0 \/ lines[r] = NoLines) /\ Valid(quantities, back)
    BY <1>6 DEF Update
  <2>9. back = SumFunction(lines[r])
    <3>1. PICK e \in Conditions : \A x \in Conditions \ {e} : lines[r][x] = 0
      BY <2>3 DEF Fits, OneOnly
    <3>2. SumFunction(lines[r]) = lines[r][e]
      BY <1>0, <3>1, LinesSum
    <3>3. PICK x \in Conditions : back = lines[r][x]
      BY <1>0, <2>8 DEF Range, Amounts
    <3>4. CASE back > 0
      BY <3>1, <3>2, <3>3, <3>4
    <3>5. CASE lines[r] = NoLines
      BY <3>3, <3>5, LinesSum DEF NoLines
    <3>. QED BY <2>8, <3>4, <3>5
  <2>10. quantities[c] <= AtLeastZero(Delivered - Returned) + back
    BY <2>8 DEF Valid, Returnable
  <2>11. Returned - SumFunction(lines[r]) + SumFunction(quantities) <= Delivered
    <3>1. AtLeastZero(Delivered - Returned) = Delivered - Returned
      BY <2>3, <2>4, Defaults, AtLeastZeroIs DEF Fits
    <3>. QED BY <2>4, <2>6, <2>7, <2>9, <2>10, <3>1, Defaults
  <2>12. Room(s)'
    <3>1. /\ OneOnly(want[s])' /\ Quantity(want, s)' = SumFunction(quantities)
          /\ Quantity(lines, doc[s])' = SumFunction(lines[r])
      BY <2>1, <2>3, <2>5 DEF OneOnly, Quantity
    <3>. QED BY <2>3, <2>4, <2>11, <3>1 DEF Room
  <2>13. \A t \in Sessions \ {s} : Room(t)'
    BY <2>3 DEF Room
  <2>. QED BY <2>1, <2>3, <2>4, <2>12, <2>13 DEF Fits
<1>. QED BY <1>3, <1>4, <1>5, <1>6 DEF Start


\* The return whose lines are written.
LEMMA LinesOwn ==
  ASSUME Typed, Typed', Calm, Fits, NEW s \in Sessions, InsertLine(s) \/ ClearLines(s),
         NEW r \in Returns, r = doc[s]
  PROVE  /\ pc[s] \in {"line", "clear"} /\ return' = return /\ doc'[s] = r
         /\ (\A q \in Returns \ {r} : lines'[q] = lines[q])
         /\ Returned' = Returned - SumFunction(lines[r]) + SumFunction(lines'[r])
         /\ (\A t \in Sessions \ {s} : pc'[t] \notin {"line", "clear"})
<1>1. pc[s] \in {"line", "clear"} /\ return' = return /\ doc'[s] = r
  BY DEF InsertLine, ClearLines, local
<1>2. \A q \in Returns \ {r} : lines'[q] = lines[q]
  BY DEF InsertLine, ClearLines, Typed, SharedTypes
<1>3. \A t \in Sessions \ {s} : pc'[t] = pc[t]
  BY DEF InsertLine, ClearLines, Goto, Typed, RequestTypes
<1>4. Active(r)
  BY <1>1, AtPoint DEF Editing, Active
<1>5. Share(r) = SumFunction(lines[r]) /\ Share(r)' = SumFunction(lines'[r])
  BY <1>1, <1>4 DEF Share, Active, Quantity
<1>6. \A q \in Returns \ {r} : Share(q)' = Share(q)
  BY <1>1, <1>2 DEF Share, Active, Quantity
<1>. QED BY <1>1, <1>2, <1>3, <1>5, <1>6, InsertsAlone, ReturnedChange

\* Deleting the lines makes the room the new ones were promised; inserting takes it.
LEMMA LinesWithin ==
  ASSUME Typed, Typed', Serial, Within, NEW s \in Sessions, InsertLine(s) \/ ClearLines(s)
  PROVE  Within'
<1>. PICK r \in Returns : r = doc[s]
  BY DEF Typed, RequestTypes
<1>0. mixed' = mixed
  BY DEF InsertLine, ClearLines
<1>1. SUFFICES ASSUME Calm, Fits PROVE Fits'
  BY <1>0 DEF Serial, Within
<1>2. /\ pc[s] \in {"line", "clear"} /\ return' = return /\ doc'[s] = r
      /\ (\A q \in Returns \ {r} : lines'[q] = lines[q])
      /\ Returned' = Returned - SumFunction(lines[r]) + SumFunction(lines'[r])
      /\ (\A t \in Sessions \ {s} : pc'[t] \notin {"line", "clear"})
  BY <1>1, LinesOwn
<1>3. /\ lines[r] \in Amounts /\ want[s] \in Amounts /\ SumFunction(lines[r]) \in Nat
      /\ SumFunction(want[s]) \in Nat /\ Returned \in Nat /\ Delivered \in Nat
  <2>1. lines[r] \in Amounts /\ want[s] \in Amounts
    BY DEF Typed, SharedTypes, RequestTypes
  <2>. QED BY <2>1, LinesSum, SharesType, Defaults
<1>4. PICK c \in Conditions : \A e \in Conditions \ {c} : want[s][e] = 0
  BY <1>1, <1>2 DEF Fits, Room, OneOnly
<1>5. ASSUME OneOnly(lines'[r]), Returned' <= Delivered, Room(s)' PROVE Fits'
  <2>1. \A q \in Returns : OneOnly(lines'[q])
    BY <1>1, <1>2, <1>5 DEF Fits
  <2>2. \A t \in Sessions : Room(t)'
    BY <1>2, <1>5 DEF Room
  <2>. QED BY <1>5, <2>1, <2>2 DEF Fits, OneOnly
<1>6. CASE ClearLines(s)
  <2>1. /\ pc[s] = "clear" /\ pc'[s] = "line" /\ want' = want /\ lines'[r] = NoLines
    BY <1>6 DEF ClearLines, Goto, local, Typed, SharedTypes, RequestTypes
  <2>2. Returned' = Returned - SumFunction(lines[r])
    BY <1>2, <1>3, <2>1, LinesSum
  <2>3. Returned - SumFunction(lines[r]) + SumFunction(want[s]) <= Delivered
    BY <1>1, <2>1 DEF Fits, Room, Quantity
  <2>4. OneOnly(want[s])' /\ Quantity(want, s)' = SumFunction(want[s])
    BY <1>4, <2>1 DEF OneOnly, Quantity
  <2>5. Room(s)'
    BY <1>2, <2>1, <2>2, <2>3, <2>4 DEF Room
  <2>6. Returned' <= Delivered
    BY <1>1, <1>3, <2>2 DEF Fits
  <2>. QED BY <1>5, <2>1, <2>5, <2>6, LinesSum
<1>7. CASE InsertLine(s)
  <2>1. PICK e \in Conditions :
          /\ want[s][e] > 0
          /\ lines' = [lines EXCEPT ![r][e] = lines[r][e] + want[s][e]]
          /\ want' = [want EXCEPT ![s][e] = 0]
    BY <1>7 DEF InsertLine
  <2>2. e = c /\ want[s][c] \in Nat
    BY <1>3, <1>4, <2>1 DEF Amounts
  <2>3. lines[r] = NoLines /\ Returned + SumFunction(want[s]) <= Delivered
    BY <1>1, <1>7 DEF InsertLine, Fits, Room, Quantity
  <2>4. want'[s] = NoLines
    <3>1. want'[s] = [want[s] EXCEPT ![c] = 0]
      BY <2>1, <2>2 DEF Typed, RequestTypes
    <3>. QED BY <1>3, <1>4, <3>1 DEF NoLines, Amounts
  <2>5. pc'[s] = "select"
    BY <1>7, <2>4 DEF InsertLine, Goto, Typed, RequestTypes
  <2>6. lines'[r] = [NoLines EXCEPT ![c] = 0 + want[s][c]]
    <3>1. lines'[r] = [lines[r] EXCEPT ![c] = lines[r][c] + want[s][c]]
      BY <2>1, <2>2 DEF Typed, SharedTypes
    <3>2. NoLines[c] = 0
      BY DEF NoLines
    <3>. QED BY <2>3, <3>1, <3>2
  <2>7. lines'[r][c] = want[s][c] /\ \A x \in Conditions \ {c} : lines'[r][x] = 0
    BY <2>2, <2>6 DEF NoLines
  <2>8. SumFunction(lines'[r]) = SumFunction(want[s])
    <3>1. lines'[r] \in Amounts
      BY DEF Typed, SharedTypes
    <3>. QED BY <1>3, <1>4, <2>7, <3>1, LinesSum
  <2>9. Returned' <= Delivered
    <3>1. SumFunction(lines[r]) = 0
      BY <2>3, LinesSum
    <3>. QED BY <1>2, <1>3, <2>3, <2>8, <3>1
  <2>10. OneOnly(lines'[r])
    BY <2>7 DEF OneOnly
  <2>11. Room(s)'
    BY <2>5 DEF Room
  <2>. QED BY <1>5, <2>9, <2>10, <2>11
<1>. QED BY <1>6, <1>7

\* What holds of requests one after the other is inductive.
LEMMA WithinNext ==
  ASSUME OneLineRequests, Inv, Typed, Serial, Within, [Next]_vars PROVE Within'
<1>0. Typed' /\ Serial'
  BY TypedNext, SerialNext
<1>1. CASE UNCHANGED vars \/ View
  <2>1. UNCHANGED <<return, lines, pc, doc, want, mixed>>
    BY <1>1 DEF vars, View, document, local
  <2>2. Returned' = Returned
    BY <2>1 DEF Returned, Active, Quantity
  <2>. QED BY <2>1, <2>2 DEF Within, Fits, Room, OneOnly, Quantity
<1>2. ASSUME NEW s \in Sessions, Start(s) \/ Continue(s) \/ Fail(s) PROVE Within'
  BY <1>0, <1>2, StartWithin, StepsWithin, LinesWithin DEF Continue
<1>. QED BY <1>1, <1>2 DEF Next

\* Nothing is returned at first.
LEMMA WithinInit == Init => Within
<1>. SUFFICES ASSUME Init PROVE Fits
  BY DEF Within
<1>1. [r \in Returns |-> IF Active(r) THEN Quantity(lines, r) ELSE 0] = [r \in Returns |-> 0]
  BY DEF Init, Active, NoRow
<1>2. Returned = 0
  BY <1>1, ConstantsAssumption, SumZero DEF Returned
<1>3. \A s \in Sessions : Room(s)
  BY DEF Init, Room
<1>. QED BY <1>2, <1>3, LinesSum, Defaults DEF Init, Fits

\* When each request asks for quantities of one condition, requests one at a time, of which
\* any may die half-way, never bring the active returns above what was delivered.
THEOREM ReturnsFit ==
  ASSUME OneLineRequests PROVE Spec => []ReturnedWithinDelivered
<1>1. Init => Inv /\ Typed /\ Serial /\ Within
  BY InvInit, TypedInit, SerialInit, WithinInit
<1>2. Inv /\ Typed /\ Serial /\ Within /\ [Next]_vars => (Inv /\ Typed /\ Serial /\ Within)'
  BY InvNext, TypedNext, SerialNext, WithinNext
<1>3. Within => ReturnedWithinDelivered
  BY DEF Within, Fits, ReturnedWithinDelivered
<1>. QED BY <1>1, <1>2, <1>3, PTL DEF Spec


(***************************************************************************)
(* The two locks: whoever holds one is in the transaction that took it,    *)
(* and the lock on the credit notes is taken last.                         *)
(***************************************************************************)
Held ==
  /\ \A r \in Returns : rowLock[r] # NoSession =>
       rowLock[r] \in Sessions /\ pc[rowLock[r]] \in Inside /\ doc[rowLock[r]] = r
  /\ noteLock # NoSession => noteLock \in Sessions /\ pc[noteLock] \in {"bill", "credit"}

\* A step of a session that takes a lock for a transaction it is in, or frees what it
\* held when it leaves it.
LEMMA StepHeld ==
  ASSUME Typed, Held, NEW s \in Sessions, NEW to, Goto(s, to),
         \A t \in Sessions \ {s} : doc'[t] = doc[t],
         \A r \in Returns : rowLock'[r] # NoSession =>
           \/ rowLock'[r] = s /\ to \in Inside /\ doc'[s] = r
           \/ rowLock'[r] = rowLock[r] /\ rowLock[r] # s,
         noteLock' # NoSession =>
           \/ noteLock' = s /\ to \in {"bill", "credit"}
           \/ noteLock' = noteLock /\ noteLock # s
  PROVE  Held'
<1>1. pc'[s] = to /\ \A t \in Sessions \ {s} : pc'[t] = pc[t]
  BY DEF Goto, Typed, RequestTypes
<1>. QED BY <1>1 DEF Held

\* A step outside the transactions touches no lock.
LEMMA OutsideHeld ==
  ASSUME Typed, Held, NEW s \in Sessions, NEW to, Goto(s, to), pc[s] \notin Inside,
         \A t \in Sessions \ {s} : doc'[t] = doc[t], UNCHANGED <<rowLock, noteLock>>
  PROVE  Held'
<1>1. /\ \A r \in Returns : rowLock[r] # s
      /\ noteLock # s \/ noteLock = NoSession
  BY ConstantsAssumption DEF Held
<1>. QED BY <1>1, StepHeld

\* Every step of a session.
LEMMA SessionHeld ==
  ASSUME Typed, Held, NEW s \in Sessions, Start(s) \/ Continue(s) \/ Fail(s)
  PROVE  Held'
<1>. DOMAIN doc = Sessions /\ rowLock \in [Returns -> Sessions \cup {NoSession}]
  BY DEF Typed, SharedTypes, RequestTypes
<1>1. CASE Start(s)
  <2>1. ASSUME NEW o, NEW r, NEW row, NEW quantities, NEW to,
               Begin(s, o, r, row, quantities, to)
        PROVE  Held'
    BY <2>1, OutsideHeld DEF Begin, locks
  <2>. QED BY <1>1, <2>1 DEF Start, Create, Update, Submit, Approve, Reject, Cancel, UpdateHeader,
                             Advance, Receive, Credit, Load, Pay
<1>2. CASE InsertLine(s)
  <2>1. \E to : Goto(s, to)
    BY <1>2 DEF InsertLine
  <2>. QED BY <1>2, <2>1, OutsideHeld DEF InsertLine, locks
<1>3. CASE ClearLines(s) \/ SaveSelect(s) \/ SavePayment(s)
  BY <1>3, OutsideHeld DEF ClearLines, SaveSelect, SavePayment, locks, local
<1>4. CASE SaveRefused(s) \/ SaveWrite(s) \/ LockRefused(s) \/ EnterReceipt(s)
  BY <1>4, OutsideHeld DEF SaveRefused, SaveWrite, LockRefused, EnterReceipt, End, locks
<1>5. CASE LockStock(s) \/ LockCredit(s)
  <2>1. /\ rowLock' = [rowLock EXCEPT ![doc[s]] = s] /\ pc[s] = "lock"
        /\ UNCHANGED <<doc, noteLock>> /\ (Goto(s, "stock") \/ Goto(s, "number"))
    BY <1>5 DEF LockStock, LockCredit, local
  <2>2. /\ \A r \in Returns : rowLock[r] # s
        /\ noteLock # s \/ noteLock = NoSession
    BY <2>1, ConstantsAssumption DEF Held
  <2>. QED BY <2>1, <2>2, StepHeld
<1>6. CASE TakeNumber(s) \/ ReadInvoice(s)
  <2>1. /\ UNCHANGED <<doc, rowLock>> /\ noteLock' \in {noteLock, s}
        /\ Goto(s, "bill") \/ Goto(s, "credit")
    BY <1>6 DEF TakeNumber, ReadInvoice, locks
  <2>2. \A r \in Returns : rowLock[r] = s => doc[s] = r
    BY ConstantsAssumption DEF Held
  <2>. QED BY <2>1, <2>2, StepHeld
<1>7. CASE CommitStock(s) \/ CommitCredit(s)
  <2>1. /\ rowLock' = [rowLock EXCEPT ![doc[s]] = NoSession]
        /\ Goto(s, "idle") /\ \A t \in Sessions \ {s} : doc'[t] = doc[t]
        /\ (pc[s] = "stock" /\ noteLock' = noteLock) \/ noteLock' = NoSession
    BY <1>7 DEF CommitStock, CommitCredit, End
  <2>2. /\ \A r \in Returns : rowLock[r] = s => doc[s] = r
        /\ pc[s] = "stock" => noteLock # s \/ noteLock = NoSession
    BY ConstantsAssumption DEF Held
  <2>. QED BY <2>1, <2>2, StepHeld
<1>8. CASE Fail(s)
  <2>1. /\ rowLock' = [r \in Returns |-> IF rowLock[r] = s THEN NoSession ELSE rowLock[r]]
        /\ noteLock' = IF noteLock = s THEN NoSession ELSE noteLock
        /\ Goto(s, "idle") /\ \A t \in Sessions \ {s} : doc'[t] = doc[t]
    BY <1>8 DEF Fail, End
  <2>. QED BY <2>1, StepHeld
<1>. QED BY <1>1, <1>2, <1>3, <1>4, <1>5, <1>6, <1>7, <1>8 DEF Continue

\* A request waits for the row of its return, or for the lock on the credit notes.
Waits(s) ==
  \/ pc[s] \in {"write", "lock"} /\ rowLock[doc[s]] # NoSession
  \/ pc[s] = "number" /\ noteLock # NoSession

SomebodyGoesOn ==
  (\E s \in Sessions : pc[s] # "idle") => \E s \in Sessions : pc[s] # "idle" /\ ~Waits(s)

\* Receipts and credit notes hold a return's row while they run, and credit notes a
\* second lock beside it: however many of any returns are under way, and wherever
\* others died, one has nothing to wait for.
THEOREM LocksMakeNoCircle == Spec => []SomebodyGoesOn
<1>1. Init => Held
  BY DEF Init, Held
<1>2. Typed /\ Held /\ [Next]_vars => Held'
  <2>. SUFFICES ASSUME Typed, Held, [Next]_vars PROVE Held'
    OBVIOUS
  <2>1. CASE \E s \in Sessions : Start(s) \/ Continue(s) \/ Fail(s)
    BY <2>1, SessionHeld
  <2>2. CASE View \/ UNCHANGED vars
    <3>1. UNCHANGED <<rowLock, noteLock, pc, doc>>
      BY <2>2 DEF View, locks, local, vars
    <3>. QED BY <3>1 DEF Held
  <2>. QED BY <2>1, <2>2 DEF Next
<1>3. ASSUME Inv, Held PROVE SomebodyGoesOn
  <2>. SUFFICES ASSUME NEW s \in Sessions, pc[s] # "idle", Waits(s)
                PROVE  \E t \in Sessions : pc[t] # "idle" /\ ~Waits(t)
    BY DEF SomebodyGoesOn
  <2>1. CASE noteLock # NoSession
    BY <1>3, <2>1 DEF Held, Waits
  <2>2. CASE noteLock = NoSession
    <3>1. pc[s] \in {"write", "lock"} /\ doc[s] \in Returns /\ rowLock[doc[s]] # NoSession
      BY <1>3, <2>2 DEF Waits, Inv, Requests
    <3>2. rowLock[doc[s]] \in Sessions /\ pc[rowLock[doc[s]]] \in Inside
      BY <1>3, <3>1 DEF Held
    <3>. QED BY <2>2, <3>2 DEF Waits
  <2>. QED BY <2>1, <2>2
<1>. QED BY <1>1, <1>2, <1>3, TypesAlways, TypedIsTypeOK, Protected, PTL DEF Spec
=================================================================================

------------------------- MODULE ProductionOrder_proofs -------------------------
(***************************************************************************)
(* What ProductionOrder promises for any number of requests, operations,   *)
(* materials and quantities. However requests interleave and wherever they *)
(* die, stock does not get ahead of the ledger: the ledger covers the      *)
(* stock and what each request has on the ledger but not yet in stock      *)
(* (Covered, a sum over the requests). Requests one at a time, also those  *)
(* that are refused or die half-way, follow the routing, never issue too   *)
(* much and keep results: whoever runs knows the order and the operation   *)
(* it has read (Task), and between requests the books agree (Books). Those *)
(* of which none dies also leave goods, ledger and log in agreement with   *)
(* the order (Account).                                                    *)
(***************************************************************************)
EXTENDS ProductionOrder, SumTheorems

Points == {"idle", "select", "write", "check", "insert", "opselect", "opwrite", "log",
           "receipt", "goods", "line", "issue", "take"}
Names == {"none", "update", "remove", "cancel", "release", "start", "finish", "complete",
          "issue"}
OrderRows == [status: Statuses, planned: Nat, completed: Nat, deleted: BOOLEAN]
OpRows == [status: OpStatuses, output: Nat]

SharedTypes ==
  /\ order \in OrderRows
  /\ ops \in [Steps -> OpRows]
  /\ log \in [Steps -> [started: 0..MaxEvents, completed: 0..MaxEvents]]
  /\ received \in 0..MaxReceived
  /\ goods \in Nat
  /\ issued \in [Materials -> Nat]
  /\ material \in [Materials -> Nat]
  /\ trouble \in [overlap: BOOLEAN, failures: 0..MaxFailures]

RequestTypes ==
  /\ pc \in [Sessions -> Points]
  /\ op \in [Sessions -> Names]
  /\ step \in [Sessions -> Steps]
  /\ copy \in [Sessions -> OrderRows]
  /\ opCopy \in [Sessions -> OpRows]
  /\ dirty \in [Sessions -> SUBSET (OrderColumns \cup OpColumns)]
  /\ want \in [Sessions -> [Materials -> Nat]]
  /\ item \in [Sessions -> Materials]
  /\ amount \in [Sessions -> Nat]

Types == SharedTypes /\ RequestTypes

\* The two halves of the type invariant are TypeOK.
LEMMA TypesAreTypeOK == Types <=> TypeOK
BY DEF Types, SharedTypes, RequestTypes, TypeOK, Points, Names, OrderRows, OpRows

(***************************************************************************)
(* Typing.                                                                 *)
(***************************************************************************)
LEMMA Defaults ==
  /\ NoOrder \in OrderRows
  /\ NoOp \in OpRows
  /\ NoLines \in [Materials -> Nat]
  /\ (CHOOSE m \in Materials : TRUE) \in Materials
  /\ 1 \in Steps /\ Last \in Steps
BY ConstantsAssumption
DEF NoOrder, OrderRows, NoOp, OpRows, NoLines, Steps, Statuses, OpStatuses

\* A new order is well-typed.
LEMMA TypesInit == Init => Types
BY Defaults, ConstantsAssumption
DEF Init, Types, SharedTypes, RequestTypes, Points, Names, NoLog

\* The end of a request resets what it holds.
LEMMA EndTypes ==
  ASSUME Types, NEW s \in Sessions, NEW t \in [overlap: BOOLEAN, failures: 0..MaxFailures],
         EndWith(s, t)
  PROVE  RequestTypes' /\ trouble' \in [overlap: BOOLEAN, failures: 0..MaxFailures]
<1>1. /\ pc' \in [Sessions -> Points] /\ op' \in [Sessions -> Names]
      /\ step' \in [Sessions -> Steps]
  BY Defaults DEF Types, RequestTypes, EndWith, Goto, Points, Names
<1>2. copy' \in [Sessions -> OrderRows] /\ opCopy' \in [Sessions -> OpRows]
  BY Defaults DEF Types, RequestTypes, EndWith
<1>3. /\ dirty' \in [Sessions -> SUBSET (OrderColumns \cup OpColumns)]
      /\ want' \in [Sessions -> [Materials -> Nat]]
  BY Defaults DEF Types, RequestTypes, EndWith
<1>4. item' \in [Sessions -> Materials] /\ amount' \in [Sessions -> Nat]
  BY Defaults DEF Types, RequestTypes, EndWith
<1>. QED BY <1>1, <1>2, <1>3, <1>4 DEF EndWith, RequestTypes

\* A request holds a row of the order.
LEMMA LoadTypes ==
  ASSUME Types, NEW s \in Sessions, NEW o \in Names, NEW from, NEW row \in OrderRows,
         NEW to \in Points, Load(s, o, from, row, to),
         step' \in [Sessions -> Steps], want' \in [Sessions -> [Materials -> Nat]],
         amount' \in [Sessions -> Nat]
  PROVE  Types'
BY DEF Types, SharedTypes, RequestTypes, Load, Goto, rows, stock

\* Every handler begins with well-typed rows and inputs.
LEMMA StartTypes == ASSUME Types, NEW s \in Sessions, Start(s) PROVE Types'
<1>. USE DEF Plain
<1>0. /\ order \in OrderRows
      /\ step \in [Sessions -> Steps] /\ want \in [Sessions -> [Materials -> Nat]]
      /\ amount \in [Sessions -> Nat]
      /\ Plans \subseteq Nat /\ Outputs \subseteq Nat /\ Issues \subseteq Nat
  BY ConstantsAssumption DEF Types, SharedTypes, RequestTypes
<1>1. ASSUME NEW plan \in Plans, Create(s, plan) PROVE Types'
  <2>1. order' \in OrderRows
    BY <1>0, <1>1 DEF Create, NoOrder, OrderRows, Statuses
  <2>. QED BY <1>1, <2>1 DEF Create, Types, SharedTypes, RequestTypes, stock, local
<1>2. ASSUME NEW plan \in Plans, Update(s, plan) PROVE Types'
  <2>1. [order EXCEPT !.planned = plan] \in OrderRows
    BY <1>0 DEF OrderRows
  <2>. QED BY <1>0, <1>2, <2>1, LoadTypes DEF Update, Points, Names
<1>3. CASE Remove(s)
  <2>1. [order EXCEPT !.deleted = TRUE] \in OrderRows
    BY <1>0 DEF OrderRows
  <2>. QED BY <1>0, <1>3, <2>1, LoadTypes DEF Remove, Points, Names
<1>4. \A status \in Statuses : [order EXCEPT !.status = status] \in OrderRows
  BY <1>0 DEF OrderRows
<1>5. CASE Cancel(s)
  BY <1>0, <1>4, <1>5, LoadTypes DEF Cancel, Points, Names, Statuses
<1>6. CASE Release(s)
  BY <1>0, <1>4, <1>6, LoadTypes DEF Release, Points, Names, Statuses
<1>7. CASE CompleteOrder(s)
  BY <1>0, <1>7, LoadTypes DEF CompleteOrder, Points, Names
<1>8. ASSUME NEW k \in Steps, StartOperation(s, k) PROVE Types'
  <2>1. /\ step' \in [Sessions -> Steps] /\ want' \in [Sessions -> [Materials -> Nat]]
        /\ amount' \in [Sessions -> Nat]
    BY <1>0, <1>8 DEF StartOperation
  <2>. QED BY <1>0, <1>8, <2>1, LoadTypes DEF StartOperation, Points, Names
<1>9. ASSUME NEW k \in Steps, NEW quantity \in Outputs, CompleteOperation(s, k, quantity)
      PROVE  Types'
  <2>1. /\ step' \in [Sessions -> Steps] /\ want' \in [Sessions -> [Materials -> Nat]]
        /\ amount' \in [Sessions -> Nat]
    BY <1>0, <1>9 DEF CompleteOperation
  <2>. QED BY <1>0, <1>9, <2>1, LoadTypes DEF CompleteOperation, Points, Names
<1>10. ASSUME NEW issue \in [Materials -> Issues], IssueMaterials(s, issue) PROVE Types'
  <2>1. /\ step' \in [Sessions -> Steps] /\ want' \in [Sessions -> [Materials -> Nat]]
        /\ amount' \in [Sessions -> Nat]
    BY <1>0, <1>10 DEF IssueMaterials
  <2>. QED BY <1>0, <1>10, <2>1, LoadTypes DEF IssueMaterials, Points, Names
<1>. QED BY <1>1, <1>2, <1>3, <1>5, <1>6, <1>7, <1>8, <1>9, <1>10 DEF Start

\* What ends a request without writing anything.
LEMMA StopTypes ==
  ASSUME Types, NEW s \in Sessions, UNCHANGED <<rows, stock>>,
         \/ End(s)
         \/ trouble.failures < MaxFailures /\ EndWith(s, [trouble EXCEPT !.failures = @ + 1])
  PROVE  Types'
<1>1. /\ trouble \in [overlap: BOOLEAN, failures: 0..MaxFailures]
      /\ trouble.failures < MaxFailures =>
           [trouble EXCEPT !.failures = @ + 1] \in [overlap: BOOLEAN, failures: 0..MaxFailures]
  BY ConstantsAssumption DEF Types, SharedTypes
<1>2. RequestTypes' /\ trouble' \in [overlap: BOOLEAN, failures: 0..MaxFailures]
  BY <1>1, EndTypes DEF End
<1>. QED BY <1>2 DEF Types, SharedTypes, rows, stock

\* save() of the order and of an operation, the inserts of release() and the log.
LEMMA RowTypes ==
  ASSUME Types, NEW s \in Sessions,
         \/ CancelChecked(s) \/ SaveSelect(s) \/ SaveWrite(s) \/ ReleaseChecked(s)
         \/ InsertOp(s) \/ OperationChecked(s) \/ OpSelect(s) \/ OpWrite(s) \/ Log(s)
  PROVE  Types'
<1>0. /\ order \in OrderRows /\ copy[s] \in OrderRows /\ opCopy[s] \in OpRows
      /\ step[s] \in Steps /\ ops[step[s]] \in OpRows /\ amount[s] \in Nat
      /\ trouble \in [overlap: BOOLEAN, failures: 0..MaxFailures]
  BY DEF Types, SharedTypes, RequestTypes
<1>. USE DEF Goto
<1>1. CASE CancelChecked(s) \/ ReleaseChecked(s)
  BY <1>1 DEF CancelChecked, ReleaseChecked, Types, SharedTypes, RequestTypes, Points,
              rows, stock, local
<1>2. CASE SaveSelect(s)
  BY <1>2 DEF SaveSelect, Types, SharedTypes, RequestTypes, Points, rows, stock
<1>3. CASE SaveWrite(s)
  <2>1. [c \in OrderColumns |-> IF c \in dirty[s] THEN copy[s][c] ELSE order[c]] \in OrderRows
    BY <1>0 DEF OrderRows, OrderColumns
  <2>2. RequestTypes' /\ trouble' \in [overlap: BOOLEAN, failures: 0..MaxFailures]
    BY <1>0, <1>3, EndTypes DEF SaveWrite, End
  <2>. QED BY <1>3, <2>1, <2>2 DEF SaveWrite, Types, SharedTypes, stock
<1>4. CASE InsertOp(s)
  <2>1. ops' \in [Steps -> OpRows]
    BY <1>0, <1>4 DEF InsertOp, Types, SharedTypes, OpRows, OpStatuses
  <2>0. step[s] < Last => step[s] + 1 \in Steps
    BY <1>0, ConstantsAssumption DEF Steps
  <2>2. pc' \in [Sessions -> Points]
    BY <1>4 DEF InsertOp, Types, RequestTypes, Points
  <2>3. step' \in [Sessions -> Steps]
    BY <1>4, <2>0 DEF InsertOp, Types, RequestTypes
  <2>. QED BY <1>4, <2>1, <2>2, <2>3 DEF InsertOp, Types, SharedTypes, RequestTypes, stock
<1>5. CASE OperationChecked(s)
  <2>1. /\ [ops[step[s]] EXCEPT !.status = "IN_PROGRESS"] \in OpRows
        /\ [status |-> "COMPLETED", output |-> amount[s]] \in OpRows
    BY <1>0 DEF OpRows, OpStatuses
  <2>2. opCopy' \in [Sessions -> OpRows]
    BY <1>5, <2>1 DEF OperationChecked, Types, RequestTypes
  <2>. QED BY <1>5, <2>2
           DEF OperationChecked, Types, SharedTypes, RequestTypes, Points, rows, stock
<1>6. CASE OpSelect(s)
  BY <1>6 DEF OpSelect, Types, SharedTypes, RequestTypes, Points, rows, stock
<1>7. CASE OpWrite(s)
  <2>1. [c \in OpColumns |-> IF c \in dirty[s] THEN opCopy[s][c] ELSE ops[step[s]][c]] \in OpRows
    BY <1>0 DEF OpRows, OpColumns
  <2>2. ops' \in [Steps -> OpRows]
    BY <1>0, <1>7, <2>1 DEF OpWrite, Types, SharedTypes
  <2>. QED BY <1>7, <2>2 DEF OpWrite, Types, SharedTypes, RequestTypes, Points, stock, local
<1>8. CASE Log(s)
  <2>1. log' \in [Steps -> [started: 0..MaxEvents, completed: 0..MaxEvents]]
    BY <1>0, <1>8, ConstantsAssumption DEF Log, Types, SharedTypes
  <2>2. CASE End(s)
    <3>1. RequestTypes' /\ trouble' \in [overlap: BOOLEAN, failures: 0..MaxFailures]
      BY <1>0, <2>2, EndTypes DEF End
    <3>. QED BY <1>8, <2>1, <3>1 DEF Log, Types, SharedTypes, stock
  <2>3. CASE ~End(s)
    <3>1. [copy[s] EXCEPT !.status = "IN_PROGRESS"] \in OrderRows
      BY <1>0 DEF OrderRows, Statuses
    <3>2. copy' \in [Sessions -> OrderRows]
      BY <1>8, <2>3, <3>1 DEF Log, Types, RequestTypes
    <3>. QED BY <1>8, <2>1, <2>3, <3>2
             DEF Log, Types, SharedTypes, RequestTypes, Points, stock
  <2>. QED BY <2>2, <2>3
<1>. QED BY <1>1, <1>2, <1>3, <1>4, <1>5, <1>6, <1>7, <1>8

\* completeProductionOrder() and issueMaterials().
LEMMA StockTypes ==
  ASSUME Types, NEW s \in Sessions,
         \/ CompleteChecked(s) \/ Receipt(s) \/ PutGoods(s)
         \/ IssueLine(s) \/ IssueLedger(s) \/ Take(s)
  PROVE  Types'
<1>0. /\ copy[s] \in OrderRows /\ ops[Last] \in OpRows /\ amount[s] \in Nat
      /\ item[s] \in Materials /\ want[s] \in [Materials -> Nat]
      /\ want[s][item[s]] \in Nat /\ material[item[s]] \in Nat /\ issued[item[s]] \in Nat
      /\ trouble \in [overlap: BOOLEAN, failures: 0..MaxFailures]
  BY Defaults DEF Types, SharedTypes, RequestTypes
<1>. USE DEF Goto
<1>1. CASE CompleteChecked(s)
  <2>1. /\ [copy[s] EXCEPT !.status = "COMPLETED", !.completed = ops[Last].output] \in OrderRows
        /\ ops[Last].output \in Nat
    BY <1>0 DEF OrderRows, OpRows, Statuses
  <2>2. copy' \in [Sessions -> OrderRows] /\ amount' \in [Sessions -> Nat]
    BY <1>1, <2>1 DEF CompleteChecked, Types, RequestTypes
  <2>. QED BY <1>1, <2>2
           DEF CompleteChecked, Types, SharedTypes, RequestTypes, Points, rows, stock
<1>2. CASE Receipt(s)
  <2>1. received' \in 0..MaxReceived
    BY <1>0, <1>2, ConstantsAssumption DEF Receipt, Types, SharedTypes
  <2>. QED BY <1>2, <2>1 DEF Receipt, Types, SharedTypes, RequestTypes, Points, rows, local
<1>3. CASE PutGoods(s)
  BY <1>0, <1>3 DEF PutGoods, Types, SharedTypes, RequestTypes, Points, rows, local
<1>4. CASE IssueLine(s)
  BY <1>4 DEF IssueLine, Types, SharedTypes, RequestTypes, Points, rows, stock
<1>5. CASE IssueLedger(s)
  BY <1>0, <1>5 DEF IssueLedger, Types, SharedTypes, RequestTypes, Points, rows, local
<1>6. CASE Take(s)
  <2>1. material' \in [Materials -> Nat]
    BY <1>0, <1>6 DEF Take, Types, SharedTypes
  <2>2. CASE End(s)
    <3>1. RequestTypes' /\ trouble' \in [overlap: BOOLEAN, failures: 0..MaxFailures]
      BY <1>0, <2>2, EndTypes DEF End
    <3>. QED BY <1>6, <2>1, <3>1 DEF Take, Types, SharedTypes, rows
  <2>3. CASE ~End(s)
    <3>1. [want[s] EXCEPT ![item[s]] = 0] \in [Materials -> Nat]
      BY <1>0
    <3>2. want' \in [Sessions -> [Materials -> Nat]]
      BY <1>6, <2>3, <3>1 DEF Take, Types, RequestTypes
    <3>. QED BY <1>6, <2>1, <2>3, <3>2 DEF Take, Types, SharedTypes, RequestTypes, Points, rows
  <2>. QED BY <2>2, <2>3
<1>. QED BY <1>1, <1>2, <1>3, <1>4, <1>5, <1>6

\* The types are inductive.
LEMMA TypesNext == Types /\ [Next]_vars => Types'
<1>. SUFFICES ASSUME Types, [Next]_vars PROVE Types'
  OBVIOUS
<1>1. CASE UNCHANGED vars
  BY <1>1 DEF vars, Types, SharedTypes, RequestTypes
<1>2. ASSUME NEW s \in Sessions, Continue(s) PROVE Types'
  BY <1>2, RowTypes, StockTypes, StopTypes
  DEF Continue, Refuse, InsertRefused, IssueRefused, TakeRefused
<1>3. ASSUME NEW s \in Sessions, Fail(s) PROVE Types'
  BY <1>3, StopTypes DEF Fail
<1>. QED BY <1>1, <1>2, <1>3, StartTypes DEF Next

\* Whatever requests do, and wherever they die, the rows and what the requests hold of
\* them have their types: quantities, stock and ledger never go below nothing.
THEOREM TypesAlways == Spec => []TypeOK
<1>1. Spec => []Types
  BY TypesInit, TypesNext, PTL DEF Spec
<1>. QED BY <1>1, TypesAreTypeOK, PTL

(***************************************************************************)
(* Stock and ledger.                                                       *)
(***************************************************************************)
\* What a request has on the ledger and not yet in stock.
Arriving(s) == IF pc[s] = "goods" THEN amount[s] ELSE 0
Leaving(s, m) == IF pc[s] = "take" /\ item[s] = m THEN want[s][m] ELSE 0

\* The ledger covers the stock with what is on its way, and the completed quantity of
\* the order and of every copy that may be saved.
Covered ==
  /\ goods + SumFunction([s \in Sessions |-> Arriving(s)]) <= received
  /\ order.completed <= received
  /\ \A s \in Sessions :
       copy[s].completed <= IF pc[s] = "receipt" THEN amount[s] ELSE received
  /\ \A m \in Materials :
       /\ material[m] <= Opening[m]
       /\ Opening[m] - material[m] + SumFunction([s \in Sessions |-> Leaving(s, m)]) <= issued[m]

\* A step of a session changes what that session holds.
Own(s) ==
  \A t \in Sessions \ {s} :
    /\ pc'[t] = pc[t] /\ op'[t] = op[t] /\ step'[t] = step[t] /\ copy'[t] = copy[t]
    /\ opCopy'[t] = opCopy[t] /\ dirty'[t] = dirty[t] /\ want'[t] = want[t]
    /\ item'[t] = item[t] /\ amount'[t] = amount[t]

\* Every step is the step of one session.
LEMMA OwnStep ==
  ASSUME Types, NEW s \in Sessions, Start(s) \/ Continue(s) \/ Fail(s) PROVE Own(s)
<1>1. ASSUME NEW t, EndWith(s, t) PROVE Own(s)
  BY <1>1 DEF EndWith, Goto, Own, Types, RequestTypes
<1>2. CASE Start(s)
  BY ZenonT(60), <1>2 DEF Start, Create, Update, Remove, Cancel, Release, CompleteOrder, StartOperation,
              CompleteOperation, IssueMaterials, Plain, Load, Goto, local, Own, Types, RequestTypes
<1>3. CASE Continue(s)
  <2>1. CASE \/ CancelChecked(s) \/ SaveSelect(s) \/ ReleaseChecked(s) \/ InsertOp(s)
             \/ OperationChecked(s) \/ OpSelect(s) \/ OpWrite(s)
    BY <2>1 DEF CancelChecked, SaveSelect, ReleaseChecked, InsertOp, OperationChecked,
                OpSelect, OpWrite, Goto, local, Own, Types, RequestTypes
  <2>2. CASE Log(s) \/ Take(s)
    BY <1>1, <2>2 DEF Log, Take, End, Goto, Own, Types, RequestTypes
  <2>3. CASE \/ CompleteChecked(s) \/ Receipt(s) \/ PutGoods(s)
             \/ IssueLine(s) \/ IssueLedger(s)
    BY <2>3 DEF CompleteChecked, Receipt, PutGoods, IssueLine, IssueLedger, Goto, local, Own,
                Types, RequestTypes
  <2>4. CASE \/ Refuse(s) \/ SaveWrite(s) \/ InsertRefused(s) \/ IssueRefused(s) \/ TakeRefused(s)
    BY <1>1, <2>4 DEF Refuse, SaveWrite, InsertRefused, IssueRefused, TakeRefused, End
  <2>. QED BY <1>3, <2>1, <2>2, <2>3, <2>4 DEF Continue
<1>4. CASE Fail(s)
  BY <1>1, <1>4 DEF Fail
<1>. QED BY <1>2, <1>3, <1>4

\* What a step has to keep of the order's goods and materials, put in its own terms.
LEMMA CoveredStep ==
  ASSUME Types, Types', Covered, NEW s \in Sessions, Own(s),
         received' - received >= (goods' - goods) + (Arriving(s)' - Arriving(s)),
         received' >= received,
         order'.completed <= received',
         copy'[s].completed <= IF pc'[s] = "receipt" THEN amount'[s] ELSE received',
         \A m \in Materials :
           /\ material'[m] <= Opening[m]
           /\ issued'[m] - issued[m] >=
                (material[m] - material'[m]) + (Leaving(s, m)' - Leaving(s, m))
  PROVE  Covered'
<1> DEFINE A == [t \in Sessions |-> Arriving(t)]
           L(m) == [t \in Sessions |-> Leaving(t, m)]
<1>0. /\ received \in Int /\ received' \in Int /\ goods \in Int /\ goods' \in Int
      /\ IsFiniteSet(Sessions)
      /\ \A t \in Sessions : copy[t].completed \in Int
  BY ConstantsAssumption DEF Types, SharedTypes, RequestTypes, OrderRows
<1>1. goods' + SumFunction(A)' <= received'
  <2>1. A \in [Sessions -> Int] /\ A' \in [Sessions -> Int]
    BY DEF Types, RequestTypes, Arriving
  <2>2. /\ \A t \in Sessions \ {s} : A'[t] = A[t]
        /\ A[s] = Arriving(s) /\ A'[s] = Arriving(s)'
    BY DEF Own, Arriving
  <2>3. A[s] \in Int /\ A'[s] \in Int
    BY <2>1
  <2> HIDE DEF A
  <2>4. SumFunction(A') = SumFunction(A) - A[s] + A'[s]
    BY <1>0, <2>1, <2>2, SumChange
  <2>5. SumFunction(A) \in Int
    BY <1>0, <2>1, SumType
  <2>6. goods + SumFunction(A) <= received
    BY DEF Covered, A
  <2>. QED BY <1>0, <2>2, <2>3, <2>4, <2>5, <2>6
<1>2. ASSUME NEW t \in Sessions
      PROVE  copy'[t].completed <= IF pc'[t] = "receipt" THEN amount'[t] ELSE received'
  BY <1>0 DEF Own, Covered
<1>3. ASSUME NEW m \in Materials
      PROVE  Opening[m] - material'[m] + SumFunction(L(m))' <= issued'[m]
  <2> DEFINE B == L(m)
  <2>0. /\ material[m] \in Int /\ material'[m] \in Int /\ issued[m] \in Int /\ issued'[m] \in Int
        /\ Opening[m] \in Int
    BY ConstantsAssumption DEF Types, SharedTypes
  <2>1. B \in [Sessions -> Int] /\ B' \in [Sessions -> Int]
    BY DEF Types, RequestTypes, Leaving
  <2>2. /\ \A t \in Sessions \ {s} : B'[t] = B[t]
        /\ B[s] = Leaving(s, m) /\ B'[s] = Leaving(s, m)'
    BY DEF Own, Leaving
  <2>3. B[s] \in Int /\ B'[s] \in Int
    BY <2>1
  <2>6. Opening[m] - material[m] + SumFunction(B) <= issued[m]
    BY DEF Covered
  <2> HIDE DEF B
  <2>4. SumFunction(B') = SumFunction(B) - B[s] + B'[s]
    BY <1>0, <2>1, <2>2, SumChange
  <2>5. SumFunction(B) \in Int
    BY <1>0, <2>1, SumType
  <2>7. issued'[m] - issued[m] >= (material[m] - material'[m]) + (B'[s] - B[s])
    BY <2>2
  <2>8. Opening[m] - material'[m] + SumFunction(B') <= issued'[m]
    BY <2>0, <2>3, <2>4, <2>5, <2>6, <2>7
  <2>. QED BY <2>8 DEF B
<1>. QED BY <1>1, <1>2, <1>3 DEF Covered

\* What Covered says apart from its sums.
LEMMA Bounds ==
  ASSUME Types, Covered
  PROVE  /\ order.completed <= received
         /\ \A s \in Sessions :
              copy[s].completed <= IF pc[s] = "receipt" THEN amount[s] ELSE received
         /\ \A m \in Materials :
              /\ material[m] <= Opening[m]
              /\ material[m] \in Nat /\ issued[m] \in Nat /\ Opening[m] \in Nat
<1>1. \A m \in Materials : material[m] <= Opening[m]
  BY Zenon DEF Covered
<1>2. \A m \in Materials : material[m] \in Nat /\ issued[m] \in Nat /\ Opening[m] \in Nat
  BY ConstantsAssumption DEF Types, SharedTypes
<1>. QED BY <1>1, <1>2 DEF Covered

\* Whatever a step that moves no stock and starts no move leaves pending is no more
\* than before, also when the request dies.
LEMMA QuietStep ==
  ASSUME Types, Types', Covered, NEW s \in Sessions, Own(s), UNCHANGED stock,
         order'.completed <= received, copy'[s].completed <= received,
         pc'[s] \notin {"goods", "take", "receipt"}
  PROVE  Covered'
<1>1. /\ received' = received /\ goods' = goods /\ issued' = issued /\ material' = material
      /\ received \in Int /\ goods \in Int
      /\ Arriving(s)' = 0 /\ Arriving(s) \in Nat
  BY DEF stock, Types, SharedTypes, RequestTypes, Arriving
<1>2. ASSUME NEW m \in Materials
      PROVE  /\ material'[m] <= Opening[m]
             /\ issued'[m] - issued[m] >=
                  (material[m] - material'[m]) + (Leaving(s, m)' - Leaving(s, m))
  <2>1. /\ Leaving(s, m)' = 0 /\ Leaving(s, m) \in Nat
        /\ material[m] \in Int /\ issued[m] \in Int /\ material[m] <= Opening[m]
    BY Bounds DEF Types, SharedTypes, RequestTypes, Leaving
  <2>. QED BY <1>1, <2>1
<1>3. copy'[s].completed <= IF pc'[s] = "receipt" THEN amount'[s] ELSE received'
  BY <1>1
<1>. QED BY <1>1, <1>2, <1>3, CoveredStep

\* A request that ends gives up what it had pending.
LEMMA EndCovered ==
  ASSUME Types, Types', Covered, NEW s \in Sessions, Own(s), NEW t, EndWith(s, t),
         UNCHANGED stock, order'.completed <= received
  PROVE  Covered'
<1>1. pc'[s] = "idle" /\ copy'[s] = NoOrder /\ received \in Nat
  BY DEF EndWith, Goto, Types, SharedTypes, RequestTypes
<1>. QED BY <1>1, QuietStep DEF NoOrder

\* create() and the load of every other handler move nothing.
LEMMA StartCovered ==
  ASSUME Types, Types', Covered, NEW s \in Sessions, Own(s), Start(s) PROVE Covered'
<1>0. order \in OrderRows /\ order.completed <= received /\ received \in Nat
  BY DEF Types, SharedTypes, Covered
<1>1. ASSUME NEW plan, Create(s, plan) PROVE Covered'
  <2>1. /\ order'.completed <= received /\ UNCHANGED stock /\ pc' = pc /\ copy' = copy
        /\ pc[s] = "idle"
    BY <1>0, <1>1 DEF Create, NoOrder, local
  <2>2. copy[s].completed <= received
    BY <2>1 DEF Covered
  <2>. QED BY <2>1, <2>2, QuietStep
<1>2. ASSUME NEW o, NEW from, NEW row, NEW to \in {"select", "check", "line"},
             Load(s, o, from, row, to), row.completed = order.completed
      PROVE  Covered'
  <2>1. /\ order' = order /\ UNCHANGED stock /\ pc'[s] = to /\ copy'[s] = row
    BY <1>2 DEF Load, rows, Goto, Types, RequestTypes
  <2>. QED BY <1>0, <1>2, <2>1, QuietStep
<1>3. \A plan : [order EXCEPT !.planned = plan].completed = order.completed
  BY <1>0 DEF OrderRows
<1>4. \A status : [order EXCEPT !.status = status].completed = order.completed
  BY <1>0 DEF OrderRows
<1>5. [order EXCEPT !.deleted = TRUE].completed = order.completed
  BY <1>0 DEF OrderRows
<1>. QED BY ZenonT(60), <1>1, <1>2, <1>3, <1>4, <1>5
         DEF Start, Update, Remove, Cancel, Release, CompleteOrder, StartOperation,
             CompleteOperation, IssueMaterials

\* The save() of the order writes a copy whose completed quantity is on the ledger.
LEMMA RowCovered ==
  ASSUME Types, Types', Covered, NEW s \in Sessions, Own(s),
         \/ CancelChecked(s) \/ SaveSelect(s) \/ SaveWrite(s) \/ ReleaseChecked(s)
         \/ InsertOp(s) \/ OperationChecked(s) \/ OpSelect(s) \/ OpWrite(s) \/ Log(s)
  PROVE  Covered'
<1>0. /\ order \in OrderRows /\ order.completed <= received
      /\ copy[s] \in OrderRows
      /\ pc[s] # "receipt" => copy[s].completed <= received
  BY DEF Types, SharedTypes, RequestTypes, Covered
<1>1. CASE \/ CancelChecked(s) \/ SaveSelect(s) \/ ReleaseChecked(s)
           \/ InsertOp(s) \/ OperationChecked(s) \/ OpSelect(s) \/ OpWrite(s)
  <2>1. /\ pc[s] \in {"check", "select", "insert", "opselect", "opwrite"}
        /\ order' = order /\ copy' = copy /\ UNCHANGED stock
    BY <1>1 DEF CancelChecked, SaveSelect, ReleaseChecked, InsertOp, OperationChecked, OpSelect,
                OpWrite, Passes, rows, local
  <2>2. pc'[s] \in {"select", "write", "insert", "opselect", "opwrite", "log"}
    BY <1>1 DEF CancelChecked, SaveSelect, ReleaseChecked, InsertOp, OperationChecked, OpSelect,
                OpWrite, Goto, Types, RequestTypes
  <2>. QED BY <1>0, <2>1, <2>2, QuietStep
<1>2. CASE SaveWrite(s)
  <2>1. order'.completed \in {copy[s].completed, order.completed}
    BY <1>2 DEF SaveWrite, OrderColumns
  <2>. QED BY <1>0, <1>2, <2>1, EndCovered DEF SaveWrite, End
<1>3. CASE Log(s)
  <2>1. CASE End(s)
    BY <1>0, <1>3, <2>1, EndCovered DEF Log, End
  <2>2. CASE ~End(s)
    <3>1. /\ order' = order /\ UNCHANGED stock /\ pc[s] = "log" /\ pc'[s] = "select"
          /\ copy'[s].completed = copy[s].completed
      BY <1>0, <1>3, <2>2 DEF Log, Goto, Types, RequestTypes, OrderRows
    <3>. QED BY <1>0, <3>1, QuietStep
  <2>. QED BY <2>1, <2>2
<1>. QED BY <1>1, <1>2, <1>3

\* completeProductionOrder(): ledger, then stock, then order.
LEMMA GoodsCovered ==
  ASSUME Types, Types', Covered, NEW s \in Sessions, Own(s),
         CompleteChecked(s) \/ Receipt(s) \/ PutGoods(s)
  PROVE  Covered'
<1>0. /\ order.completed <= received /\ amount[s] \in Nat /\ received \in Nat /\ goods \in Nat
      /\ copy[s] \in OrderRows
      /\ copy[s].completed <= IF pc[s] = "receipt" THEN amount[s] ELSE received
      /\ \A m \in Materials : material[m] \in Int /\ issued[m] \in Int /\ material[m] <= Opening[m]
  BY Bounds DEF Types, SharedTypes, RequestTypes
<1>1. /\ pc[s] \in {"check", "receipt", "goods"} /\ pc'[s] \in {"receipt", "goods", "select"}
      /\ UNCHANGED <<order, issued, material>>
  BY DEF CompleteChecked, Receipt, PutGoods, Passes, Goto, rows, stock, Types, RequestTypes
<1>2. \A m \in Materials :
        /\ material'[m] <= Opening[m]
        /\ issued'[m] - issued[m] >= (material[m] - material'[m]) + (Leaving(s, m)' - Leaving(s, m))
  BY <1>0, <1>1 DEF Leaving
<1>3. CASE CompleteChecked(s)
  <2>1. /\ received' = received /\ goods' = goods /\ pc'[s] = "receipt"
        /\ copy'[s].completed = amount'[s] /\ amount'[s] \in Nat
        /\ Arriving(s)' = 0 /\ Arriving(s) = 0
    BY <1>0, <1>3 DEF CompleteChecked, Passes, Goto, stock, Types, RequestTypes, OrderRows, Arriving
  <2>. QED BY <1>0, <1>1, <1>2, <2>1, CoveredStep
<1>4. CASE Receipt(s)
  <2>1. /\ received' = received + amount[s] /\ goods' = goods /\ pc'[s] = "goods" /\ pc[s] = "receipt"
        /\ copy'[s] = copy[s]
        /\ Arriving(s)' = amount[s] /\ Arriving(s) = 0
    BY <1>4 DEF Receipt, Goto, local, Types, RequestTypes, Arriving
  <2>2. order'.completed <= received' /\ copy'[s].completed <= received'
    BY <1>0, <1>1, <2>1 DEF OrderRows, Types, SharedTypes
  <2>. QED BY <1>0, <1>2, <2>1, <2>2, CoveredStep
<1>5. CASE PutGoods(s)
  <2>1. /\ received' = received /\ goods' = goods + amount[s] /\ pc'[s] = "select" /\ pc[s] = "goods"
        /\ copy'[s] = copy[s]
        /\ Arriving(s)' = 0 /\ Arriving(s) = amount[s]
    BY <1>5 DEF PutGoods, Goto, local, Types, RequestTypes, Arriving
  <2>. QED BY <1>0, <1>1, <1>2, <2>1, CoveredStep
<1>. QED BY <1>3, <1>4, <1>5

\* issueMaterials(): ledger, then stock, line by line.
LEMMA MaterialCovered ==
  ASSUME Types, Types', Covered, NEW s \in Sessions, Own(s),
         IssueLine(s) \/ IssueLedger(s) \/ Take(s)
  PROVE  Covered'
<1>0. /\ order.completed <= received /\ received \in Nat /\ goods \in Nat
      /\ item[s] \in Materials /\ want[s] \in [Materials -> Nat]
      /\ \A m \in Materials :
           material[m] \in Nat /\ issued[m] \in Int /\ material[m] <= Opening[m] /\ Opening[m] \in Nat
      /\ pc[s] # "receipt" => copy[s].completed <= received
  BY Bounds DEF Types, SharedTypes, RequestTypes
<1>1. CASE IssueLine(s)
  <2>1. /\ order' = order /\ UNCHANGED stock /\ pc[s] = "line" /\ pc'[s] = "issue"
        /\ copy' = copy
    BY <1>1 DEF IssueLine, rows, Goto, Types, RequestTypes
  <2>. QED BY <1>0, <2>1, QuietStep
<1>2. CASE IssueLedger(s)
  <2>1. /\ UNCHANGED <<order, received, goods, material, copy, item, want>>
        /\ pc[s] = "issue" /\ pc'[s] = "take"
        /\ issued' = [issued EXCEPT ![item[s]] = issued[item[s]] + want[s][item[s]]]
        /\ Arriving(s)' = 0 /\ Arriving(s) = 0
    BY <1>2 DEF IssueLedger, rows, local, Goto, Types, RequestTypes, Arriving
  <2>2. \A m \in Materials : issued'[m] - issued[m] >= Leaving(s, m)' - Leaving(s, m)
    BY <1>0, <2>1 DEF Leaving, Types, SharedTypes
  <2>3. ASSUME NEW m \in Materials
        PROVE  /\ material'[m] <= Opening[m]
               /\ issued'[m] - issued[m] >=
                    (material[m] - material'[m]) + (Leaving(s, m)' - Leaving(s, m))
    <3>1. Leaving(s, m) \in Int /\ Leaving(s, m)' \in Int /\ issued'[m] \in Int
      BY <1>0 DEF Leaving, Types, SharedTypes, RequestTypes
    <3>. QED BY <1>0, <2>1, <2>2, <3>1
  <2>. QED BY <1>0, <2>1, <2>3, CoveredStep
<1>3. CASE Take(s)
  <2>1. /\ UNCHANGED <<order, received, goods, issued>> /\ pc[s] = "take"
        /\ material' = [material EXCEPT ![item[s]] = material[item[s]] - want[s][item[s]]]
        /\ Arriving(s) = 0
    BY <1>3 DEF Take, rows, Arriving
  <2>2. /\ pc'[s] \in {"idle", "line"}
        /\ copy'[s] \in {copy[s], NoOrder}
    BY <1>3 DEF Take, End, EndWith, Goto, Types, RequestTypes
  <2>3. copy'[s].completed <= received'
    BY <1>0, <2>1, <2>2 DEF NoOrder
  <2>4. ASSUME NEW m \in Materials
        PROVE  /\ material'[m] <= Opening[m]
               /\ issued'[m] - issued[m] >=
                    (material[m] - material'[m]) + (Leaving(s, m)' - Leaving(s, m))
    <3>1. Leaving(s, m)' = 0
      BY <2>2 DEF Leaving
    <3>2. CASE m = item[s]
      <4>1. Leaving(s, m) = want[s][m] /\ material'[m] = material[m] - want[s][m]
            /\ want[s][m] \in Nat
        BY <1>0, <2>1, <3>2 DEF Leaving, Types, SharedTypes
      <4>. QED BY <1>0, <2>1, <3>1, <4>1
    <3>3. CASE m # item[s]
      <4>1. Leaving(s, m) = 0 /\ material'[m] = material[m]
        BY <1>0, <2>1, <3>3 DEF Leaving, Types, SharedTypes
      <4>. QED BY <1>0, <2>1, <3>1, <4>1
    <3>. QED BY <3>2, <3>3
  <2>5. Arriving(s)' = 0
    BY <2>2 DEF Arriving
  <2>. QED BY <1>0, <2>1, <2>2, <2>3, <2>4, <2>5, CoveredStep
<1>. QED BY <1>1, <1>2, <1>3

\* The cover is inductive.
LEMMA CoveredNext == Types /\ Types' /\ Covered /\ [Next]_vars => Covered'
<1>. SUFFICES ASSUME Types, Types', Covered, [Next]_vars PROVE Covered'
  OBVIOUS
<1>1. CASE UNCHANGED vars
  BY <1>1 DEF vars, Covered, Arriving, Leaving
<1>2. ASSUME NEW s \in Sessions, Start(s) \/ Continue(s) \/ Fail(s) PROVE Covered'
  <2>1. Own(s)
    BY <1>2, OwnStep
  <2>2. order.completed <= received
    BY DEF Covered
  <2>3. CASE \/ Refuse(s) \/ InsertRefused(s) \/ IssueRefused(s) \/ TakeRefused(s) \/ Fail(s)
    BY <2>1, <2>2, <2>3, EndCovered
    DEF Refuse, InsertRefused, IssueRefused, TakeRefused, Fail, End, rows
  <2>. QED BY <1>2, <2>1, <2>3, StartCovered, RowCovered, GoodsCovered, MaterialCovered
           DEF Continue
<1>. QED BY <1>1, <1>2 DEF Next

\* Nothing has moved at first.
LEMMA CoveredInit == Init => Covered
<1>. SUFFICES ASSUME Init PROVE Covered
  OBVIOUS
<1>1. \A s \in Sessions : pc[s] = "idle" /\ copy[s] = NoOrder
  BY DEF Init
<1>2. /\ [s \in Sessions |-> Arriving(s)] = [s \in Sessions |-> 0]
      /\ \A m \in Materials : [s \in Sessions |-> Leaving(s, m)] = [s \in Sessions |-> 0]
  BY <1>1 DEF Arriving, Leaving
<1>3. SumFunction([s \in Sessions |-> 0]) = 0
  BY SumZero, ConstantsAssumption
<1>4. /\ order.completed <= received
      /\ \A s \in Sessions : copy[s].completed <= IF pc[s] = "receipt" THEN amount[s] ELSE received
      /\ goods = 0 /\ received = 0
  BY <1>1 DEF Init, NoOrder
<1>5. \A m \in Materials : material[m] = Opening[m] /\ Opening[m] \in Nat /\ issued[m] = 0
  BY ConstantsAssumption DEF Init, NoLines
<1>6. \A m \in Materials :
        /\ material[m] <= Opening[m]
        /\ Opening[m] - material[m] + SumFunction([s \in Sessions |-> Leaving(s, m)]) <= issued[m]
  BY <1>2, <1>3, <1>5
<1>. QED BY <1>2, <1>3, <1>4, <1>6 DEF Covered

\* However requests overlap, fail or are refused half-way: the ledger row comes first,
\* so stock, and the quantity the order reads as completed, never run ahead of it.
THEOREM LedgerLeads == Spec => []StockFollowsLedger
<1>1. Types /\ Covered => StockFollowsLedger
  <2>. SUFFICES ASSUME Types, Covered PROVE StockFollowsLedger
    OBVIOUS
  <2>0. IsFiniteSet(Sessions)
    BY ConstantsAssumption
  <2>1. CompletedIsReceived
    <3>1. [s \in Sessions |-> Arriving(s)] \in [Sessions -> Nat]
      BY DEF Types, RequestTypes, Arriving
    <3>2. SumFunction([s \in Sessions |-> Arriving(s)]) \in Nat
      BY <2>0, <3>1, SumNat
    <3>. QED BY <3>2 DEF Covered, CompletedIsReceived, Types, SharedTypes
  <2>2. ASSUME NEW m \in Materials PROVE Opening[m] - material[m] \in 0..issued[m]
    <3>1. [s \in Sessions |-> Leaving(s, m)] \in [Sessions -> Nat]
      BY DEF Types, RequestTypes, Leaving
    <3>2. SumFunction([s \in Sessions |-> Leaving(s, m)]) \in Nat
      BY <2>0, <3>1, SumNat
    <3>3. Opening[m] \in Nat /\ material[m] \in Nat /\ issued[m] \in Nat
      BY ConstantsAssumption DEF Types, SharedTypes
    <3>. QED BY <3>2, <3>3 DEF Covered
  <2>. QED BY <2>1, <2>2 DEF StockFollowsLedger, IssuesAreOnLedger
<1>2. Spec => [](Types /\ Covered)
  BY TypesInit, TypesNext, CoveredInit, CoveredNext, PTL DEF Spec
<1>. QED BY <1>1, <1>2, PTL

(***************************************************************************)
(* Requests one at a time.                                                 *)
(***************************************************************************)
Busy(s, o, points, statuses) ==
  op[s] = o /\ pc[s] \in points /\ order.status \in statuses

Untouched == \A k \in Steps : ops[k].status \in {"NONE", "PENDING"}
Inserted == \A k \in Steps : ops[k].status # "NONE"

\* What a request that runs alone knows, by operation.
Editing(s) ==
  \/ /\ Busy(s, "update", {"select", "write"}, {"DRAFT"})
     /\ copy[s] = [order EXCEPT !.planned = copy[s].planned]
  \/ /\ Busy(s, "remove", {"select", "write"}, {"DRAFT"})
     /\ copy[s] = [order EXCEPT !.deleted = TRUE]
  \/ /\ Busy(s, "cancel", {"check", "select", "write"}, {"DRAFT", "RELEASED"})
     /\ copy[s] = [order EXCEPT !.status = "CANCELLED"]
     /\ pc[s] # "check" => Untouched

Releasing(s) ==
  /\ Busy(s, "release", {"check", "insert", "select", "write"}, {"DRAFT"})
  /\ copy[s] = [order EXCEPT !.status = "RELEASED"]
  /\ pc[s] = "check" => step[s] = 1
  /\ pc[s] = "insert" => \A k \in Steps : (ops[k].status # "NONE") <=> (k < step[s])
  /\ pc[s] \in {"select", "write"} => Inserted

Starting(s) ==
  \/ /\ Busy(s, "start", {"check", "opselect", "opwrite", "log"}, {"RELEASED", "IN_PROGRESS"})
     /\ copy[s] = order
     /\ pc[s] \in {"opselect", "opwrite"} =>
          MayStart(step[s]) /\ opCopy[s] = [ops[step[s]] EXCEPT !.status = "IN_PROGRESS"]
     /\ pc[s] = "log" => ops[step[s]].status = "IN_PROGRESS"
  \/ /\ Busy(s, "start", {"select", "write"}, {"RELEASED"})
     /\ copy[s] = [order EXCEPT !.status = "IN_PROGRESS"]

Finishing(s) ==
  /\ Busy(s, "finish", {"check", "opselect", "opwrite", "log"}, {"IN_PROGRESS"})
  /\ copy[s] = order
  /\ pc[s] \in {"opselect", "opwrite"} =>
       MayFinish(step[s]) /\ opCopy[s].status = "COMPLETED"
  /\ pc[s] = "log" => ops[step[s]].status = "COMPLETED"

Completing(s) ==
  \/ Busy(s, "complete", {"check"}, {"IN_PROGRESS"}) /\ copy[s] = order
  \/ /\ Busy(s, "complete", {"receipt", "goods", "select", "write"}, {"IN_PROGRESS"})
     /\ amount[s] = ops[Last].output
     /\ copy[s] = [order EXCEPT !.status = "COMPLETED", !.completed = ops[Last].output]

Issuing(s) ==
  /\ Busy(s, "issue", {"line", "issue", "take"}, {"RELEASED", "IN_PROGRESS"})
  /\ copy[s] = order
  /\ pc[s] = "issue" => WithinNeed(s, item[s])

\* What its save() is about to write makes the row the copy.
Saving(s) ==
  /\ pc[s] = "write" => dirty[s] = {c \in OrderColumns : copy[s][c] # order[c]}
  /\ pc[s] = "opwrite" => dirty[s] = {c \in OpColumns : opCopy[s][c] # ops[step[s]][c]}

Task(s) ==
  /\ \/ Editing(s) \/ Releasing(s) \/ Starting(s) \/ Finishing(s) \/ Completing(s) \/ Issuing(s)
  /\ Saving(s)

\* A request begins with the first operation.
Turn(s) == IF pc[s] = "idle" THEN step[s] = 1 ELSE Task(s)

\* The order, its operations and what was issued to it.
Books ==
  /\ order.status \in {"NONE", "DRAFT", "CANCELLED"} => Untouched
  /\ order.status \in {"NONE", "DRAFT"} => issued = NoLines
  /\ order.status \in {"RELEASED", "IN_PROGRESS", "COMPLETED"} => Inserted
  /\ \A j, k \in Steps :
       j < k /\ ops[k].status \in {"IN_PROGRESS", "COMPLETED"} => ops[j].status = "COMPLETED"
  /\ \A m \in Materials : issued[m] <= PerUnit[m] * order.planned

Serial ==
  /\ \A s, t \in Sessions : pc[s] # "idle" /\ pc[t] # "idle" => s = t
  /\ \A s \in Sessions : Turn(s)
  /\ Books

SerialInv == ~trouble.overlap => Serial

\* A new order has an empty book and no request.
LEMMA SerialInit == Init => SerialInv
BY ConstantsAssumption
DEF Init, SerialInv, Serial, Turn, Books, Untouched, NoOrder, NoOp, NoLines

\* While requests come one at a time, every other one is idle.
LEMMA AloneStep ==
  ASSUME Types, SerialInv, NEW s \in Sessions, Start(s) \/ Continue(s) \/ Fail(s),
         ~trouble'.overlap
  PROVE  /\ ~trouble.overlap /\ Serial
         /\ \A t \in Sessions \ {s} : pc[t] = "idle"
<1>0. trouble \in [overlap: BOOLEAN, failures: 0..MaxFailures]
  BY DEF Types, SharedTypes
<1>1. ASSUME NEW t, EndWith(s, t), t.overlap = trouble.overlap PROVE ~trouble.overlap
  BY <1>1 DEF EndWith
<1>2. CASE Start(s)
  <2>1. ASSUME NEW plan, Create(s, plan)
        PROVE  ~trouble.overlap /\ \A t \in Sessions \ {s} : pc[t] = "idle"
    <3>1. ~trouble.overlap /\ order.status = "NONE"
      BY <2>1 DEF Create
    <3>. QED BY <3>1 DEF SerialInv, Serial, Turn, Task, Editing, Releasing, Starting,
                         Finishing, Completing, Issuing, Busy
  <2>2. ASSUME NEW o, NEW from, NEW row, NEW to, Load(s, o, from, row, to)
        PROVE  ~trouble.overlap /\ \A t \in Sessions : pc[t] = "idle"
    <3>1. trouble'.overlap = (trouble.overlap \/ \E t \in Sessions : pc[t] # "idle")
      BY <1>0, <2>2 DEF Load
    <3>. QED BY <3>1
  <2>. QED BY <1>2, <2>1, <2>2
           DEF Start, Update, Remove, Cancel, Release, CompleteOrder, StartOperation,
               CompleteOperation, IssueMaterials, SerialInv
<1>3. CASE Continue(s)
  <2>1. pc[s] # "idle"
    BY <1>3 DEF Continue, Refuse, CancelChecked, SaveSelect, SaveWrite, ReleaseChecked, InsertOp,
                InsertRefused, OperationChecked, OpSelect, OpWrite, Log, CompleteChecked,
                Receipt, PutGoods, IssueLine, IssueRefused, IssueLedger, Take, TakeRefused, Passes
  <2>2. ~trouble.overlap
    BY <1>3 DEF Continue, Refuse, CancelChecked, SaveSelect, SaveWrite, ReleaseChecked, InsertOp,
                InsertRefused, OperationChecked, OpSelect, OpWrite, Log, CompleteChecked,
                Receipt, PutGoods, IssueLine, IssueRefused, IssueLedger, Take, TakeRefused,
                End, EndWith
  <2>. QED BY <2>1, <2>2 DEF SerialInv, Serial
<1>4. CASE Fail(s)
  <2>1. pc[s] # "idle" /\ ~trouble.overlap
    BY <1>0, <1>4 DEF Fail, EndWith
  <2>. QED BY <2>1 DEF SerialInv, Serial
<1>. QED BY <1>2, <1>3, <1>4

\* What remains to be shown of a step: the books, and what the request then knows.
LEMMA SerialStep ==
  ASSUME Serial, NEW s \in Sessions, Own(s), \A t \in Sessions \ {s} : pc[t] = "idle",
         Turn(s)', Books'
  PROVE  Serial'
<1>1. \A t \in Sessions \ {s} : pc'[t] = "idle" /\ Turn(t)'
  BY DEF Own, Serial, Turn
<1>. QED BY <1>1 DEF Serial

\* A save() of a request that runs alone leaves its copy.
LEMMA SavedOrder ==
  ASSUME NEW row \in OrderRows, NEW mine \in OrderRows
  PROVE  [c \in OrderColumns |->
            IF c \in {k \in OrderColumns : mine[k] # row[k]} THEN mine[c] ELSE row[c]] = mine
BY DEF OrderRows, OrderColumns

\* The same of an operation.
LEMMA SavedOp ==
  ASSUME NEW row \in OpRows, NEW mine \in OpRows
  PROVE  [c \in OpColumns |->
            IF c \in {k \in OpColumns : mine[k] # row[k]} THEN mine[c] ELSE row[c]] = mine
BY DEF OpRows, OpColumns

\* The books read the order, its operations and what was issued.
LEMMA SameBooks == ASSUME Books, UNCHANGED <<order, ops, issued>> PROVE Books'
BY DEF Books, Untouched, Inserted

\* A handler that starts alone reads the order as it is.
LEMMA StartSerial ==
  ASSUME Types, Serial, NEW s \in Sessions, Start(s)
  PROVE  Turn(s)' /\ Books'
<1>. USE DEF Busy
<1>0. /\ order \in OrderRows /\ Books
      /\ pc[s] = "idle" => step[s] = 1
  BY DEF Types, SharedTypes, Serial, Turn
<1>1. ASSUME NEW plan \in Plans, Create(s, plan) PROVE Turn(s)' /\ Books'
  <2>1. /\ order.status = "NONE" /\ order'.status = "DRAFT" /\ order'.planned = plan
        /\ UNCHANGED <<ops, issued>> /\ pc'[s] = "idle" /\ step'[s] = 1
    BY <1>0, <1>1 DEF Create, NoOrder, stock, local
  <2>2. \A m \in Materials : issued[m] = 0 /\ PerUnit[m] * plan >= 0
    BY <1>0, <2>1, ConstantsAssumption DEF Books, NoLines
  <2>. QED BY <1>0, <2>1, <2>2 DEF Books, Untouched, Inserted, Turn
<1>2. ASSUME NEW o, NEW from, NEW row, NEW to, Load(s, o, from, row, to)
      PROVE  /\ order.status \in from /\ order' = order /\ ops' = ops /\ issued' = issued
             /\ op'[s] = o /\ pc'[s] = to /\ copy'[s] = row /\ step[s] = 1 /\ Books'
  <2>1. /\ order.status \in from /\ order' = order /\ ops' = ops /\ issued' = issued
        /\ op'[s] = o /\ pc'[s] = to /\ copy'[s] = row /\ step[s] = 1
    BY <1>0, <1>2 DEF Load, Goto, rows, stock, Types, RequestTypes
  <2>. QED BY <1>0, <2>1, SameBooks
<1>3. ASSUME NEW plan, Update(s, plan) PROVE Task(s)' /\ pc'[s] # "idle"
  <2>1. copy'[s] = [order EXCEPT !.planned = plan]
    BY <1>2, <1>3 DEF Update
  <2>2. copy'[s].planned = plan
    BY <1>0, <2>1 DEF OrderRows
  <2>. QED BY <1>2, <1>3, <2>1, <2>2 DEF Update, Task, Editing, Saving
<1>4. ASSUME Remove(s) \/ Cancel(s) PROVE Task(s)' /\ pc'[s] # "idle"
  <2>1. CASE Remove(s)
    <3>1. /\ order.status \in {"DRAFT"} /\ order' = order
          /\ op'[s] = "remove" /\ pc'[s] = "select" /\ copy'[s] = [order EXCEPT !.deleted = TRUE]
      BY <1>2, <2>1 DEF Remove
    <3>2. copy'[s] = [order' EXCEPT !.deleted = TRUE]
      BY <3>1
    <3>. QED BY <3>1, <3>2 DEF Task, Editing, Saving
  <2>2. CASE Cancel(s)
    BY <1>2, <2>2 DEF Cancel, Task, Editing, Saving
  <2>. QED BY <1>4, <2>1, <2>2
<1>5. ASSUME Release(s) PROVE Task(s)' /\ pc'[s] # "idle"
  BY <1>2, <1>5 DEF Release, Plain, Task, Releasing, Saving
<1>6. ASSUME CompleteOrder(s) PROVE Task(s)' /\ pc'[s] # "idle"
  BY <1>2, <1>6 DEF CompleteOrder, Task, Completing, Saving
<1>7. ASSUME NEW k, StartOperation(s, k) PROVE Task(s)' /\ pc'[s] # "idle"
  BY <1>2, <1>7 DEF StartOperation, Task, Starting, Saving
<1>8. ASSUME NEW k, NEW quantity, CompleteOperation(s, k, quantity) PROVE Task(s)' /\ pc'[s] # "idle"
  BY <1>2, <1>8 DEF CompleteOperation, Task, Finishing, Saving
<1>9. ASSUME NEW issue, IssueMaterials(s, issue) PROVE Task(s)' /\ pc'[s] # "idle"
  BY <1>2, <1>9 DEF IssueMaterials, Task, Issuing, Saving
<1>10. Start(s) => Books'
  BY <1>1, <1>2 DEF Start, Update, Remove, Cancel, Release, CompleteOrder, StartOperation,
                    CompleteOperation, IssueMaterials
<1>. QED BY <1>1, <1>3, <1>4, <1>5, <1>6, <1>7, <1>8, <1>9, <1>10 DEF Start, Turn

\* Products of natural numbers are natural numbers.
LEMMA ProductNat == ASSUME NEW a \in Nat, NEW b \in Nat PROVE a * b \in Nat
OBVIOUS

\* Its save() writes the copy of a request that runs alone, and keeps the books.
LEMMA SaveSerial ==
  ASSUME Types, Serial, NEW s \in Sessions, SaveSelect(s) \/ SaveWrite(s)
  PROVE  Turn(s)' /\ Books'
<1>0. /\ order \in OrderRows /\ copy[s] \in OrderRows /\ Books
      /\ pc[s] # "idle" => Task(s)
  BY DEF Types, SharedTypes, RequestTypes, Serial, Turn
<1>1. CASE SaveSelect(s)
  <2>1. /\ pc[s] = "select" /\ pc'[s] = "write" /\ dirty'[s] = {c \in OrderColumns : copy[s][c] # order[c]}
        /\ UNCHANGED <<order, ops, issued, op, step, copy, opCopy, amount>>
    BY <1>1 DEF SaveSelect, Goto, rows, stock, Types, RequestTypes
  <2>2. Saving(s)'
    BY <2>1 DEF Saving
  <2>3. Task(s)'
    BY <1>0, <2>1, <2>2
    DEF Task, Editing, Releasing, Starting, Finishing, Completing, Issuing, Busy, Untouched,
        Inserted
  <2>. QED BY <1>0, <2>1, <2>3, SameBooks DEF Turn
<1>2. CASE SaveWrite(s)
  <2>1. /\ pc[s] = "write" /\ pc'[s] = "idle" /\ step'[s] = 1
        /\ UNCHANGED <<ops, issued>>
    BY <1>2 DEF SaveWrite, End, EndWith, Goto, stock, Types, RequestTypes
  <2>2. order' = copy[s]
    BY <1>0, <1>2, <2>1, SavedOrder DEF SaveWrite, Task, Saving
  <2>3. \/ /\ copy[s].status = "DRAFT" /\ order.status = "DRAFT"
        \/ copy[s].status = "CANCELLED" /\ Untouched /\ copy[s].planned = order.planned
        \/ /\ copy[s].status = "RELEASED" /\ Inserted /\ copy[s].planned = order.planned
        \/ /\ copy[s].status \in {"IN_PROGRESS", "COMPLETED"} /\ copy[s].planned = order.planned
           /\ order.status \in {"RELEASED", "IN_PROGRESS"}
    BY <1>0, <2>1 DEF Task, Editing, Releasing, Starting, Finishing, Completing, Issuing, Busy,
                      OrderRows
  <2>4. ASSUME NEW m \in Materials PROVE issued[m] <= PerUnit[m] * copy[s].planned
    <3>1. PerUnit[m] \in Nat /\ copy[s].planned \in Nat
      BY <1>0, ConstantsAssumption DEF OrderRows
    <3>2. PerUnit[m] * copy[s].planned \in Nat
      BY <3>1, ProductNat
    <3>3. CASE copy[s].planned = order.planned
      BY <1>0, <3>3 DEF Books
    <3>4. CASE order.status = "DRAFT"
      <4>1. issued[m] = 0
        BY <1>0, <3>4 DEF Books, NoLines
      <4>. QED BY <3>2, <4>1
    <3>. QED BY <2>3, <3>3, <3>4
  <2>5. Books'
    BY <1>0, <2>1, <2>2, <2>3, <2>4 DEF Books, Untouched, Inserted
  <2>. QED BY <2>1, <2>5 DEF Turn
<1>. QED BY <1>1, <1>2

\* What a handler checks of the operations still holds when it goes on.
LEMMA CheckSerial ==
  ASSUME Types, Serial, NEW s \in Sessions,
         CancelChecked(s) \/ ReleaseChecked(s) \/ OperationChecked(s) \/ CompleteChecked(s)
  PROVE  Turn(s)' /\ Books'
<1>. USE DEF Busy
<1>0. /\ order \in OrderRows /\ Books
      /\ pc[s] = "check" /\ Task(s) /\ Allowed(s)
      /\ UNCHANGED <<order, ops, issued, op, step>>
  BY DEF Types, SharedTypes, Serial, Turn, CancelChecked, ReleaseChecked, OperationChecked,
         CompleteChecked, Passes, rows, stock, local
<1>1. Books'
  BY <1>0, SameBooks
<1>2. CASE CancelChecked(s)
  <2>1. op[s] = "cancel" /\ MayCancel /\ pc'[s] = "select" /\ copy' = copy
    BY <1>0, <1>2 DEF CancelChecked, Passes, Allowed, Goto, local, Types, RequestTypes
  <2>2. Editing(s)
    BY <1>0, <2>1 DEF Turn, Task, Releasing, Starting, Finishing, Completing, Issuing
  <2>. QED BY <1>0, <1>1, <2>1, <2>2 DEF Turn, Task, Editing, Saving, Untouched, MayCancel
<1>3. CASE ReleaseChecked(s)
  <2>1. op[s] = "release" /\ MayRelease /\ pc'[s] = "insert" /\ copy' = copy
    BY <1>0, <1>3 DEF ReleaseChecked, Passes, Allowed, Goto, local, Types, RequestTypes
  <2>2. Releasing(s)
    BY <1>0, <2>1 DEF Turn, Task, Editing, Starting, Finishing, Completing, Issuing
  <2>3. \A k \in Steps : (ops[k].status # "NONE") <=> (k < step[s])
    BY <2>1, <2>2, <1>0 DEF Releasing, MayRelease, Steps
  <2>. QED BY <1>0, <1>1, <2>1, <2>2, <2>3 DEF Turn, Task, Releasing, Saving, Inserted
<1>4. CASE OperationChecked(s)
  <2>1. /\ pc'[s] = "opselect" /\ UNCHANGED copy
        /\ \/ /\ op[s] = "start" /\ MayStart(step[s])
              /\ opCopy'[s] = [ops[step[s]] EXCEPT !.status = "IN_PROGRESS"]
           \/ /\ op[s] = "finish" /\ MayFinish(step[s])
              /\ opCopy'[s] = [status |-> "COMPLETED", output |-> amount[s]]
    BY <1>0, <1>4 DEF OperationChecked, Passes, Allowed, Goto, Types, RequestTypes
  <2>2. \/ op[s] = "start" /\ Starting(s) /\ copy[s] = order
        \/ op[s] = "finish" /\ Finishing(s)
    BY <1>0, <2>1 DEF Turn, Task, Editing, Releasing, Starting, Finishing, Completing, Issuing
  <2>. QED BY <1>0, <1>1, <2>1, <2>2 DEF Turn, Task, Starting, Finishing, Saving, MayStart, MayFinish
<1>5. CASE CompleteChecked(s)
  <2>1. /\ op[s] = "complete" /\ pc'[s] = "receipt"
        /\ amount'[s] = ops[Last].output
        /\ copy' = [copy EXCEPT ![s].status = "COMPLETED", ![s].completed = ops[Last].output]
    BY <1>0, <1>5 DEF CompleteChecked, Passes, Goto, Types, RequestTypes
  <2>2. copy[s] = order /\ order.status = "IN_PROGRESS"
    BY <1>0, <2>1 DEF Turn, Task, Editing, Releasing, Starting, Finishing, Completing, Issuing
  <2>3. copy'[s] = [order EXCEPT !.status = "COMPLETED", !.completed = ops[Last].output]
    BY <1>0, <2>1, <2>2 DEF Types, RequestTypes
  <2>. QED BY <1>0, <1>1, <2>1, <2>2, <2>3 DEF Turn, Task, Completing, Saving
<1>. QED BY <1>2, <1>3, <1>4, <1>5

\* A request that ends without a write leaves the books.
LEMMA StopSerial ==
  ASSUME Types, Serial, NEW s \in Sessions, NEW t, EndWith(s, t), UNCHANGED <<order, ops, issued>>
  PROVE  Turn(s)' /\ Books'
<1>1. pc'[s] = "idle" /\ step'[s] = 1
  BY DEF EndWith, Goto, Types, RequestTypes
<1>. QED BY <1>1, SameBooks DEF Turn, Serial

\* release() inserts the operations in the order of the routing.
LEMMA InsertSerial ==
  ASSUME Types, Serial, NEW s \in Sessions, InsertOp(s)
  PROVE  Turn(s)' /\ Books'
<1>. USE DEF Busy
<1>. DEFINE k == step[s]
<1>a. /\ Books /\ pc[s] = "insert" /\ k \in Steps /\ ops \in [Steps -> OpRows] /\ Turn(s)
  BY DEF Types, SharedTypes, RequestTypes, Serial, InsertOp
<1>b. Last \in Nat /\ \A j \in Steps : j \in Nat /\ j <= Last
  BY ConstantsAssumption DEF Steps
<1>0. /\ Books /\ pc[s] = "insert" /\ k \in Steps /\ Steps \subseteq Nat
      /\ ops \in [Steps -> OpRows] /\ Turn(s) /\ Last \in Nat /\ \A j \in Steps : j <= Last
  BY <1>a, <1>b
<1>1. Releasing(s)
  BY <1>0 DEF Turn, Task, Editing, Starting, Finishing, Completing, Issuing
<1>2. /\ ops[k].status = "NONE" /\ ops' = [ops EXCEPT ![k].status = "PENDING"]
      /\ UNCHANGED <<order, issued, op, copy, opCopy, dirty>>
      /\ \/ k < Last /\ step'[s] = k + 1 /\ pc'[s] = "insert"
         \/ k = Last /\ pc'[s] = "select"
  BY <1>0 DEF InsertOp, Goto, stock, Types, RequestTypes
<1>3. /\ ops'[k].status = "PENDING"
      /\ \A j \in Steps \ {k} : ops'[j] = ops[j]
  BY <1>0, <1>2 DEF OpRows
<1>4. Books'
  BY <1>0, <1>1, <1>2, <1>3 DEF Books, Releasing, Untouched, Inserted
<1>5. Task(s)'
  <2>1. CASE pc'[s] = "insert"
    <3>1. \A j \in Steps : (ops'[j].status # "NONE") <=> (j < step'[s])
      BY <1>0, <1>1, <1>2, <1>3, <2>1 DEF Releasing
    <3>. QED BY <1>1, <1>2, <2>1, <3>1 DEF Task, Releasing, Saving
  <2>2. CASE pc'[s] = "select"
    <3>1. Inserted'
      BY <1>0, <1>1, <1>2, <1>3, <2>2 DEF Releasing, Inserted
    <3>. QED BY <1>1, <1>2, <2>2, <3>1 DEF Task, Releasing, Saving
  <2>. QED BY <1>2, <2>1, <2>2
<1>. QED BY <1>2, <1>4, <1>5 DEF Turn

\* A start and a completion move one operation on, in sequence, and log it.
LEMMA OperationSerial ==
  ASSUME Types, Serial, NEW s \in Sessions, OpSelect(s) \/ OpWrite(s) \/ Log(s)
  PROVE  Turn(s)' /\ Books'
<1>. USE DEF Busy
<1>. DEFINE k == step[s]
<1>0. /\ order \in OrderRows /\ Books /\ k \in Steps /\ Steps \subseteq Nat
      /\ pc[s] \in {"opselect", "opwrite", "log"} /\ Turn(s) /\ UNCHANGED <<order, issued>>
      /\ ops \in [Steps -> OpRows] /\ opCopy[s] \in OpRows
  BY DEF Types, SharedTypes, RequestTypes, Serial, OpSelect, OpWrite, Log, rows, stock, Steps
<1>1. (Starting(s) \/ Finishing(s)) /\ copy[s] = order /\ Saving(s)
  BY <1>0 DEF Turn, Task, Editing, Releasing, Starting, Finishing, Completing, Issuing
<1>2. CASE OpSelect(s)
  <2>1. /\ pc[s] = "opselect" /\ pc'[s] = "opwrite"
        /\ dirty'[s] = {c \in OpColumns : opCopy[s][c] # ops[step[s]][c]}
        /\ UNCHANGED <<ops, op, step, copy, opCopy>>
    BY <1>2 DEF OpSelect, Goto, rows, Types, RequestTypes
  <2>2. Starting(s)' \/ Finishing(s)'
    BY <1>0, <1>1, <2>1 DEF Starting, Finishing, MayStart, MayFinish
  <2>3. Saving(s)'
    BY <2>1 DEF Saving
  <2>. QED BY <1>0, <2>1, <2>2, <2>3, SameBooks DEF Turn, Task
<1>3. CASE OpWrite(s)
  <2>1. /\ pc[s] = "opwrite" /\ pc'[s] = "log" /\ UNCHANGED <<op, step, copy>>
        /\ \A j \in Steps \ {k} : ops'[j] = ops[j]
        /\ ops'[k] = [c \in OpColumns |-> IF c \in dirty[s] THEN opCopy[s][c] ELSE ops[k][c]]
    BY <1>0, <1>3 DEF OpWrite, Goto, local, Types, RequestTypes
  <2>2. ops'[k] = opCopy[s]
    BY <1>0, <1>1, <2>1, SavedOp DEF Saving
  <2>3. /\ order.status \in {"RELEASED", "IN_PROGRESS"} /\ Inserted
        /\ \/ op[s] = "start" /\ MayStart(k) /\ opCopy[s].status = "IN_PROGRESS"
           \/ op[s] = "finish" /\ MayFinish(k) /\ opCopy[s].status = "COMPLETED"
    BY <1>0, <1>1, <2>1 DEF Starting, Finishing, Books, OpRows
  <2>4. Starting(s)' \/ Finishing(s)'
    BY <1>0, <1>1, <2>1, <2>2, <2>3 DEF Starting, Finishing
  <2>5. ASSUME NEW i \in Steps, NEW j \in Steps, i < j,
               ops'[j].status \in {"IN_PROGRESS", "COMPLETED"}
        PROVE  ops'[i].status = "COMPLETED"
    <3>1. CASE i # k /\ j # k
      BY <1>0, <2>1, <2>5, <3>1 DEF Books
    <3>2. CASE j = k
      BY <1>0, <2>1, <2>3, <2>5, <3>2 DEF Books, MayStart, MayFinish, Inserted
    <3>3. CASE i = k
      BY <1>0, <2>1, <2>3, <2>5, <3>3 DEF Books, MayStart, MayFinish
    <3>. QED BY <3>1, <3>2, <3>3
  <2>6. Inserted'
    BY <1>0, <2>1, <2>2, <2>3 DEF Inserted
  <2>7. Books'
    BY <1>0, <2>3, <2>5, <2>6 DEF Books
  <2>. QED BY <2>1, <2>4, <2>7 DEF Turn, Task, Saving
<1>4. CASE Log(s)
  <2>1. pc[s] = "log" /\ UNCHANGED ops
    BY <1>4 DEF Log
  <2>2. CASE End(s)
    BY <1>0, <2>1, <2>2, StopSerial DEF End
  <2>3. CASE ~End(s)
    <3>1. /\ op[s] = "start" /\ order.status = "RELEASED" /\ pc'[s] = "select"
          /\ copy' = [copy EXCEPT ![s].status = "IN_PROGRESS"] /\ UNCHANGED op
      BY <1>1, <1>4, <2>3 DEF Log, Goto, Types, RequestTypes
    <3>2. copy'[s] = [order EXCEPT !.status = "IN_PROGRESS"]
      BY <1>1, <3>1 DEF Types, RequestTypes
    <3>3. Starting(s)'
      BY <1>0, <3>1, <3>2 DEF Starting
    <3>. QED BY <1>0, <2>1, <3>1, <3>3, SameBooks DEF Turn, Task, Saving
  <2>. QED BY <2>2, <2>3
<1>. QED BY <1>2, <1>3, <1>4

\* The receipt of the goods leaves order and operations alone.
LEMMA GoodsSerial ==
  ASSUME Types, Serial, NEW s \in Sessions, Receipt(s) \/ PutGoods(s)
  PROVE  Turn(s)' /\ Books'
<1>1. /\ pc[s] \in {"receipt", "goods"} /\ pc'[s] \in {"goods", "select"}
      /\ UNCHANGED <<order, ops, issued, op, copy, amount>> /\ Books /\ Turn(s)
  BY DEF Receipt, PutGoods, Goto, rows, local, Types, RequestTypes, Serial
<1>2. Completing(s)
  BY <1>1 DEF Turn, Task, Editing, Releasing, Starting, Finishing, Issuing, Busy
<1>3. Completing(s)'
  BY <1>1, <1>2 DEF Completing, Busy
<1>. QED BY <1>1, <1>3, SameBooks DEF Turn, Task, Saving

\* issueMaterials() stays within the need of the plan, line by line.
LEMMA IssueSerial ==
  ASSUME Types, Serial, NEW s \in Sessions, IssueLine(s) \/ IssueLedger(s) \/ Take(s)
  PROVE  Turn(s)' /\ Books'
<1>0. /\ pc[s] \in {"line", "issue", "take"} /\ UNCHANGED <<order, ops>> /\ Books /\ Turn(s)
      /\ item[s] \in Materials /\ issued \in [Materials -> Nat]
  BY DEF IssueLine, IssueLedger, Take, rows, Types, SharedTypes, RequestTypes, Serial
<1>1. Issuing(s)
  BY <1>0 DEF Turn, Task, Editing, Releasing, Starting, Finishing, Completing, Busy
<1>2. CASE IssueLine(s)
  <2>1. /\ pc'[s] = "issue" /\ WithinNeed(s, item'[s]) /\ UNCHANGED <<issued, op, copy, want>>
    BY <1>2 DEF IssueLine, Goto, stock, Types, RequestTypes
  <2>2. Issuing(s)'
    BY <1>0, <1>1, <2>1 DEF Issuing, Busy, WithinNeed
  <2>. QED BY <1>0, <2>1, <2>2, SameBooks DEF Turn, Task, Saving
<1>3. CASE IssueLedger(s)
  <2>. DEFINE m == item[s]
  <2>1. /\ pc[s] = "issue" /\ pc'[s] = "take" /\ UNCHANGED <<op, copy>>
        /\ issued'[m] = issued[m] + want[s][m]
        /\ \A n \in Materials \ {m} : issued'[n] = issued[n]
    BY <1>0, <1>3 DEF IssueLedger, Goto, local, Types, RequestTypes
  <2>2. issued'[m] <= PerUnit[m] * order.planned
    BY <1>0, <1>1, <2>1 DEF Issuing, WithinNeed
  <2>3. Books'
    BY <1>0, <1>1, <2>1, <2>2 DEF Books, Issuing, Busy, Untouched, Inserted
  <2>4. Issuing(s)'
    BY <1>0, <1>1, <2>1 DEF Issuing, Busy
  <2>. QED BY <2>1, <2>3, <2>4 DEF Turn, Task, Saving
<1>4. CASE Take(s)
  <2>1. UNCHANGED issued
    BY <1>4 DEF Take
  <2>2. CASE End(s)
    BY <1>0, <2>1, <2>2, StopSerial DEF End
  <2>3. CASE ~End(s)
    <3>1. pc'[s] = "line" /\ UNCHANGED <<op, copy>>
      BY <1>4, <2>3 DEF Take, Goto, Types, RequestTypes
    <3>2. Issuing(s)'
      BY <1>0, <1>1, <3>1 DEF Issuing, Busy
    <3>. QED BY <1>0, <2>1, <3>1, <3>2, SameBooks DEF Turn, Task, Saving
  <2>. QED BY <2>2, <2>3
<1>. QED BY <1>2, <1>3, <1>4

\* The invariant of requests one at a time is inductive.
LEMMA SerialNext == Types /\ SerialInv /\ [Next]_vars => SerialInv'
<1>. SUFFICES ASSUME Types, SerialInv, [Next]_vars, ~trouble'.overlap PROVE Serial'
  BY DEF SerialInv
<1>1. CASE UNCHANGED vars
  <2>1. /\ UNCHANGED <<order, ops, issued, pc, op, step, copy, opCopy, dirty, want, item, amount>>
        /\ Serial
    BY <1>1 DEF vars, SerialInv
  <2>2. ASSUME NEW s \in Sessions, Task(s) PROVE Task(s)'
    <3>1. Editing(s) => Editing(s)'
      BY <2>1 DEF Editing, Busy, Untouched
    <3>2. Releasing(s) => Releasing(s)'
      BY <2>1 DEF Releasing, Busy, Inserted
    <3>3. Starting(s) => Starting(s)'
      BY <2>1 DEF Starting, Busy, MayStart
    <3>4. Finishing(s) => Finishing(s)'
      BY <2>1 DEF Finishing, Busy, MayFinish
    <3>5. Completing(s) => Completing(s)'
      BY <2>1 DEF Completing, Busy
    <3>6. Issuing(s) => Issuing(s)'
      BY <2>1 DEF Issuing, Busy, WithinNeed
    <3>7. Saving(s)'
      BY <2>1, <2>2 DEF Task, Saving
    <3>. QED BY <2>2, <3>1, <3>2, <3>3, <3>4, <3>5, <3>6, <3>7 DEF Task
  <2>3. \A s \in Sessions : Turn(s)'
    BY <2>1, <2>2 DEF Serial, Turn
  <2>. QED BY <2>1, <2>3, SameBooks DEF Serial
<1>2. ASSUME NEW s \in Sessions, Start(s) \/ Continue(s) \/ Fail(s) PROVE Serial'
  <2>1. Own(s)
    BY <1>2, OwnStep
  <2>2. Serial /\ \A t \in Sessions \ {s} : pc[t] = "idle"
    BY <1>2, AloneStep
  <2>3. ASSUME NEW t, EndWith(s, t), UNCHANGED <<order, ops, issued>> PROVE Turn(s)' /\ Books'
    BY <2>2, <2>3, StopSerial
  <2>4. Turn(s)' /\ Books'
    <3>1. CASE Start(s)
      BY <2>2, <3>1, StartSerial
    <3>2. CASE Continue(s)
      BY <2>2, <2>3, <3>2, SaveSerial, CheckSerial, InsertSerial, OperationSerial, GoodsSerial,
         IssueSerial
      DEF Continue, Refuse, InsertRefused, IssueRefused, TakeRefused, End, rows, stock
    <3>3. CASE Fail(s)
      BY <2>3, <3>3 DEF Fail, rows, stock
    <3>. QED BY <1>2, <3>1, <3>2, <3>3
  <2>. QED BY <2>1, <2>2, <2>4, SerialStep
<1>. QED BY <1>1, <1>2 DEF Next

\* It holds in every reachable state.
LEMMA SerialAlways == Spec => [](Types /\ SerialInv)
BY TypesInit, TypesNext, SerialInit, SerialNext, PTL DEF Spec

\* Requests one at a time, of which any may be refused or die half-way, never issue more
\* of a material than the plan requires.
THEOREM NeverOverIssued == Spec => []IssuedWithinNeed
<1>1. SerialInv => IssuedWithinNeed
  BY DEF SerialInv, Serial, Books, IssuedWithinNeed
<1>. QED BY <1>1, SerialAlways, PTL

\* Nor do they work on the operations out of the routing's order, or on a cancelled order.
THEOREM RoutingIsFollowed == Spec => []WorkInSequence
<1>1. SerialInv => WorkInSequence
  BY DEF SerialInv, Serial, Books, Untouched, WorkInSequence
<1>. QED BY <1>1, SerialAlways, PTL

\* Only the insert of a release() and the save() of an operation write operations; only
\* create() and save() write the order.  None of them comes upon a completed row.
LEMMA ResultsStep ==
  ASSUME Types, SerialInv, [Next]_vars, ~trouble'.overlap
  PROVE  /\ \A k \in Steps : ops[k].status = "COMPLETED" => ops'[k] = ops[k]
         /\ order.status = "COMPLETED" => order' = order
<1>. DEFINE Kept == /\ \A k \in Steps : ops[k].status = "COMPLETED" => ops'[k] = ops[k]
                    /\ order.status = "COMPLETED" => order' = order
<1>1. UNCHANGED <<order, ops>> => Kept
  OBVIOUS
<1>2. ASSUME NEW s \in Sessions, Start(s) \/ Continue(s) \/ Fail(s) PROVE Kept
  <2>1. Serial /\ Turn(s)
    BY <1>2, AloneStep DEF Serial
  <2>2. CASE Start(s)
    <3>1. \A plan : Create(s, plan) => Kept
      BY DEF Create
    <3>2. \A o, from, row, to : Load(s, o, from, row, to) => UNCHANGED <<order, ops>>
      BY DEF Load, rows
    <3>. QED BY <1>1, <2>2, <3>1, <3>2
             DEF Start, Update, Remove, Cancel, Release, CompleteOrder, StartOperation,
                 CompleteOperation, IssueMaterials
  <2>3. CASE InsertOp(s)
    <3>1. UNCHANGED order /\ \A k \in Steps : k # step[s] => ops'[k] = ops[k]
      BY <2>3 DEF InsertOp, Types, SharedTypes
    <3>. QED BY <2>3, <3>1 DEF InsertOp
  <2>4. CASE OpWrite(s)
    <3>1. UNCHANGED order /\ \A k \in Steps : k # step[s] => ops'[k] = ops[k]
      BY <2>4 DEF OpWrite, Types, SharedTypes
    <3>2. ops[step[s]].status # "COMPLETED"
      BY <2>1, <2>4 DEF OpWrite, Turn, Task, Editing, Releasing, Starting, Finishing, Completing,
                        Issuing, Busy, MayStart, MayFinish
    <3>. QED BY <3>1, <3>2
  <2>5. CASE SaveWrite(s)
    <3>1. order.status # "COMPLETED" /\ UNCHANGED ops
      BY <2>1, <2>5 DEF SaveWrite, Turn, Task, Editing, Releasing, Starting, Finishing, Completing,
                        Issuing, Busy
    <3>. QED BY <3>1
  <2>6. CASE Continue(s) /\ ~InsertOp(s) /\ ~OpWrite(s) /\ ~SaveWrite(s)
    BY <1>1, <2>6
    DEF Continue, Refuse, CancelChecked, SaveSelect, ReleaseChecked, InsertRefused,
        OperationChecked, OpSelect, Log, CompleteChecked, Receipt, PutGoods, IssueLine,
        IssueRefused, IssueLedger, Take, TakeRefused, rows
  <2>7. CASE Fail(s)
    BY <1>1, <2>7 DEF Fail, rows
  <2>. QED BY <1>2, <2>2, <2>3, <2>4, <2>5, <2>6, <2>7
<1>. QED BY <1>1, <1>2 DEF Next, vars

\* Requests one at a time change neither a completed operation nor a completed order.
THEOREM ResultsKept == Spec => ResultsAreKept
<1>1. Types /\ SerialInv /\ [Next]_vars
      => [~trouble'.overlap =>
            /\ \A k \in Steps : ops[k].status = "COMPLETED" => ops'[k] = ops[k]
            /\ order.status = "COMPLETED" => order' = order]_vars
  BY ResultsStep
<1>. QED BY <1>1, SerialAlways, PTL DEF Spec, ResultsAreKept

(***************************************************************************)
(* Requests one at a time, none of which dies.                             *)
(***************************************************************************)
Posted(s) == op[s] = "complete" /\ pc[s] \in {"goods", "select", "write"}

Logging(s, k, o) == pc[s] = "log" /\ op[s] = o /\ step[s] = k

\* What is on the ledger, in stock and in the log when only s runs, up to what it has
\* yet to write.
Account(s) ==
  /\ order.status # "COMPLETED" => order.completed = 0
  /\ order.status = "COMPLETED" => order.completed = ops[Last].output
  /\ received = IF Posted(s) THEN amount[s] ELSE order.completed
  /\ goods = IF Posted(s) /\ pc[s] # "goods" THEN amount[s] ELSE order.completed
  /\ \A k \in Steps :
       /\ log[k].started = IF /\ ops[k].status \in {"IN_PROGRESS", "COMPLETED"}
                              /\ ~Logging(s, k, "start")
                           THEN 1 ELSE 0
       /\ log[k].completed = IF ops[k].status = "COMPLETED" /\ ~Logging(s, k, "finish")
                             THEN 1 ELSE 0

Alone(s) == \A t \in Sessions \ {s} : pc[t] = "idle"

CalmInv ==
  ~trouble.overlap /\ trouble.failures = 0 => \A s \in Sessions : Alone(s) => Account(s)

\* A new order has no goods, no ledger and no log.
LEMMA CalmInit == Init => CalmInv
<1>. SUFFICES ASSUME Init, NEW s \in Sessions PROVE Account(s)
  BY DEF CalmInv
<1>1. ~Posted(s) /\ \A k, o : ~Logging(s, k, o)
  BY DEF Init, Posted, Logging
<1>. QED BY <1>1 DEF Init, Account, NoOrder, NoOp, NoLog

\* A step that writes neither the order, nor operations, nor log, nor the product's stock.
LEMMA QuietAccount ==
  ASSUME NEW s \in Sessions, Account(s), UNCHANGED <<order, ops, log, received, goods>>,
         ~Posted(s), ~Posted(s)', pc[s] # "log", pc'[s] # "log"
  PROVE  Account(s)'
<1>1. \A k, o : ~Logging(s, k, o) /\ ~Logging(s, k, o)'
  BY DEF Logging
<1>. QED BY <1>1 DEF Account

\* A handler starts without writing, but for create().
LEMMA StartAccount ==
  ASSUME Types, NEW s \in Sessions, Account(s), Start(s), pc[s] = "idle"
  PROVE  Account(s)'
<1>0. ~Posted(s) /\ \A k, o : ~Logging(s, k, o)
  BY DEF Posted, Logging
<1>1. ASSUME NEW plan, Create(s, plan) PROVE Account(s)'
  <2>1. /\ order.status = "NONE" /\ order'.status = "DRAFT" /\ order'.completed = 0
        /\ UNCHANGED <<ops, log, received, goods, pc, op, step, amount>>
    BY <1>1 DEF Create, NoOrder, stock, local
  <2>2. ~Posted(s)' /\ \A k, o : ~Logging(s, k, o)'
    BY <1>0, <2>1 DEF Posted, Logging
  <2>. QED BY <1>0, <2>1, <2>2 DEF Account
<1>2. ASSUME NEW o, NEW from, NEW row, NEW to, Load(s, o, from, row, to),
             to # "log", o # "complete" \/ to = "check"
      PROVE  Account(s)'
  <2>1. /\ op'[s] = o /\ pc'[s] = to /\ UNCHANGED <<order, ops, log, received, goods>>
    BY <1>2 DEF Load, Goto, rows, stock, Types, RequestTypes
  <2>2. ~Posted(s)'
    BY <1>2, <2>1 DEF Posted
  <2>. QED BY <1>0, <1>2, <2>1, <2>2, QuietAccount
<1>. QED BY <1>1, <1>2
         DEF Start, Update, Remove, Cancel, Release, CompleteOrder, StartOperation,
             CompleteOperation, IssueMaterials

\* save() of the order.
LEMMA SaveAccount ==
  ASSUME Types, NEW s \in Sessions, Account(s), Turn(s), SaveSelect(s) \/ SaveWrite(s)
  PROVE  Account(s)'
<1>0. /\ order \in OrderRows /\ copy[s] \in OrderRows /\ pc[s] \in {"select", "write"}
      /\ UNCHANGED <<ops, log, received, goods>> /\ Task(s)
      /\ pc'[s] = (IF pc[s] = "select" THEN "write" ELSE "idle")
  BY DEF Types, SharedTypes, RequestTypes, SaveSelect, SaveWrite, End, EndWith, Goto, rows, stock,
         Turn
<1>1. \A k, o : ~Logging(s, k, o) /\ ~Logging(s, k, o)'
  BY <1>0 DEF Logging
<1>2. CASE SaveSelect(s)
  <2>1. UNCHANGED <<order, op, amount>> /\ pc[s] = "select" /\ pc'[s] = "write"
    BY <1>0, <1>2 DEF SaveSelect, rows
  <2>2. Posted(s)' <=> Posted(s)
    BY <2>1 DEF Posted
  <2>. QED BY <1>0, <1>1, <2>1, <2>2 DEF Account
<1>3. CASE SaveWrite(s)
  <2>1. pc[s] = "write" /\ pc'[s] = "idle"
    BY <1>0, <1>3 DEF SaveWrite
  <2>2. order' = copy[s]
    BY <1>0, <1>3, <2>1, SavedOrder DEF SaveWrite, Task, Saving
  <2>3. ~Posted(s)'
    BY <2>1 DEF Posted
  <2>4. CASE op[s] = "complete"
    <3>1. /\ amount[s] = ops[Last].output
          /\ copy[s] = [order EXCEPT !.status = "COMPLETED", !.completed = ops[Last].output]
      BY <1>0, <2>1, <2>4 DEF Task, Editing, Releasing, Starting, Finishing, Completing, Issuing,
                              Busy
    <3>2. copy[s].status = "COMPLETED" /\ copy[s].completed = amount[s]
      BY <1>0, <3>1 DEF OrderRows
    <3>3. received = amount[s] /\ goods = amount[s]
      BY <2>1, <2>4 DEF Account, Posted
    <3>. QED BY <1>0, <1>1, <2>2, <2>3, <3>1, <3>2, <3>3 DEF Account
  <2>5. CASE op[s] # "complete"
    <3>1. /\ order.status # "COMPLETED" /\ copy[s].status # "COMPLETED"
          /\ copy[s].completed = order.completed
      BY <1>0, <2>1, <2>5 DEF Task, Editing, Releasing, Starting, Finishing, Completing, Issuing,
                              Busy, OrderRows
    <3>2. ~Posted(s)
      BY <2>5 DEF Posted
    <3>. QED BY <1>0, <1>1, <2>2, <2>3, <3>1, <3>2 DEF Account
  <2>. QED BY <2>4, <2>5
<1>. QED BY <1>2, <1>3

\* release() inserts operations that have no log.
LEMMA InsertAccount ==
  ASSUME Types, NEW s \in Sessions, Account(s), Turn(s), InsertOp(s)
  PROVE  Account(s)'
<1>0. /\ pc[s] = "insert" /\ pc'[s] \in {"insert", "select"} /\ step[s] \in Steps
      /\ ops[step[s]].status = "NONE" /\ ops'[step[s]].status = "PENDING"
      /\ \A k \in Steps \ {step[s]} : ops'[k] = ops[k]
      /\ UNCHANGED <<order, log, received, goods, op>> /\ Task(s)
  BY DEF InsertOp, Goto, stock, Turn, Types, SharedTypes, RequestTypes, OpRows
<1>1. op[s] = "release" /\ order.status = "DRAFT"
  BY <1>0 DEF Task, Editing, Releasing, Starting, Finishing, Completing, Issuing, Busy
<1>2. /\ ~Posted(s) /\ ~Posted(s)' /\ \A k, o : ~Logging(s, k, o) /\ ~Logging(s, k, o)'
  BY <1>0, <1>1 DEF Posted, Logging
<1>. QED BY <1>0, <1>1, <1>2 DEF Account

\* The save() of an operation and the log entry that follows it.
LEMMA OperationAccount ==
  ASSUME Types, NEW s \in Sessions, Account(s), Turn(s), OpWrite(s) \/ Log(s)
  PROVE  Account(s)'
<1>. DEFINE k == step[s]
<1>0. /\ pc[s] \in {"opwrite", "log"} /\ k \in Steps /\ Task(s)
      /\ UNCHANGED <<order, received, goods>>
      /\ ops \in [Steps -> OpRows] /\ opCopy[s] \in OpRows
  BY DEF OpWrite, Log, stock, Turn, Types, SharedTypes, RequestTypes
<1>1. /\ op[s] \in {"start", "finish"} /\ order.status # "COMPLETED" /\ copy[s] = order
      /\ Starting(s) \/ Finishing(s)
  BY <1>0 DEF Task, Editing, Releasing, Starting, Finishing, Completing, Issuing, Busy
<1>2. CASE OpWrite(s)
  <2>1. /\ pc[s] = "opwrite" /\ pc'[s] = "log" /\ UNCHANGED <<op, step, log>>
        /\ \A j \in Steps \ {k} : ops'[j] = ops[j]
        /\ ops'[k] = [c \in OpColumns |-> IF c \in dirty[s] THEN opCopy[s][c] ELSE ops[k][c]]
    BY <1>0, <1>2 DEF OpWrite, Goto, local, Types, RequestTypes
  <2>2. ops'[k] = opCopy[s]
    BY <1>0, <2>1, SavedOp DEF Task, Saving
  <2>3. \/ /\ op[s] = "start" /\ ops[k].status = "PENDING"
           /\ ops'[k].status = "IN_PROGRESS"
        \/ /\ op[s] = "finish" /\ ops[k].status = "IN_PROGRESS"
           /\ ops'[k].status = "COMPLETED"
    BY <1>0, <1>1, <2>1, <2>2 DEF Starting, Finishing, Busy, MayStart, MayFinish, OpRows
  <2>4. /\ ~Posted(s) /\ ~Posted(s)' /\ \A j, o : ~Logging(s, j, o)
        /\ \A j, o : Logging(s, j, o)' <=> op[s] = o /\ j = k
    BY <1>1, <2>1 DEF Posted, Logging
  <2>5. \A j \in Steps :
          /\ log[j].started = IF ops[j].status \in {"IN_PROGRESS", "COMPLETED"} THEN 1 ELSE 0
          /\ log[j].completed = IF ops[j].status = "COMPLETED" THEN 1 ELSE 0
    BY <2>4 DEF Account
  <2>6. ASSUME NEW j \in Steps
        PROVE  /\ log'[j].started = IF /\ ops'[j].status \in {"IN_PROGRESS", "COMPLETED"}
                                       /\ ~Logging(s, j, "start")'
                                    THEN 1 ELSE 0
               /\ log'[j].completed = IF ops'[j].status = "COMPLETED" /\ ~Logging(s, j, "finish")'
                                      THEN 1 ELSE 0
    <3>1. CASE j = k
      BY <1>0, <2>1, <2>3, <2>4, <2>5, <3>1
    <3>2. CASE j # k
      BY <1>0, <2>1, <2>4, <2>5, <3>2
    <3>. QED BY <3>1, <3>2
  <2>. QED BY <1>0, <1>1, <2>4, <2>6 DEF Account
<1>3. CASE Log(s)
  <2>1. /\ pc[s] = "log" /\ UNCHANGED ops /\ pc'[s] \in {"idle", "select"}
        /\ pc'[s] = "select" => op'[s] = "start"
    BY <1>0, <1>3 DEF Log, End, EndWith, Goto, Types, RequestTypes
  <2>2. /\ op[s] = "start" =>
             /\ log'[k].started = log[k].started + 1 /\ log'[k].completed = log[k].completed
        /\ op[s] = "finish" =>
             /\ log'[k].completed = log[k].completed + 1 /\ log'[k].started = log[k].started
        /\ \A j \in Steps \ {k} : log'[j] = log[j]
    BY <1>0, <1>3 DEF Log, Types, SharedTypes
  <2>3. ops[k].status = IF op[s] = "start" THEN "IN_PROGRESS" ELSE "COMPLETED"
    BY <1>1, <2>1 DEF Starting, Finishing, Busy
  <2>4. /\ ~Posted(s) /\ ~Posted(s)' /\ \A j, o : ~Logging(s, j, o)'
        /\ \A j, o : Logging(s, j, o) <=> op[s] = o /\ j = k
    BY <1>1, <2>1 DEF Posted, Logging
  <2>6. ASSUME NEW j \in Steps
        PROVE  /\ log'[j].started = IF /\ ops'[j].status \in {"IN_PROGRESS", "COMPLETED"}
                                       /\ ~Logging(s, j, "start")'
                                    THEN 1 ELSE 0
               /\ log'[j].completed = IF ops'[j].status = "COMPLETED" /\ ~Logging(s, j, "finish")'
                                      THEN 1 ELSE 0
    <3>0. /\ log[j].started = IF /\ ops[j].status \in {"IN_PROGRESS", "COMPLETED"}
                                 /\ ~(op[s] = "start" /\ j = k)
                              THEN 1 ELSE 0
          /\ log[j].completed = IF ops[j].status = "COMPLETED" /\ ~(op[s] = "finish" /\ j = k)
                                THEN 1 ELSE 0
      BY <2>4 DEF Account
    <3>1. CASE j = k
      BY <1>0, <1>1, <2>1, <2>2, <2>3, <2>4, <3>0, <3>1
    <3>2. CASE j # k
      BY <1>0, <2>1, <2>2, <2>4, <3>0, <3>2
    <3>. QED BY <3>1, <3>2
  <2>. QED BY <1>0, <1>1, <2>4, <2>6 DEF Account
<1>. QED BY <1>2, <1>3

\* The receipt of the goods.
LEMMA GoodsAccount ==
  ASSUME Types, NEW s \in Sessions, Account(s), Turn(s), Receipt(s) \/ PutGoods(s)
  PROVE  Account(s)'
<1>0. /\ pc[s] \in {"receipt", "goods"} /\ Task(s) /\ amount[s] \in Nat
      /\ UNCHANGED <<order, ops, log, op, step, amount>>
      /\ pc'[s] \in {"goods", "select"}
  BY DEF Receipt, PutGoods, Goto, rows, local, Turn, Types, RequestTypes
<1>1. op[s] = "complete" /\ order.status = "IN_PROGRESS"
  BY <1>0 DEF Task, Editing, Releasing, Starting, Finishing, Completing, Issuing, Busy
<1>2. order.completed = 0
  BY <1>1 DEF Account
<1>3. Posted(s)' /\ \A k, o : ~Logging(s, k, o) /\ ~Logging(s, k, o)'
  BY <1>0, <1>1 DEF Posted, Logging
<1>4. CASE Receipt(s)
  <2>1. /\ pc[s] = "receipt" /\ pc'[s] = "goods" /\ received' = received + amount[s]
        /\ UNCHANGED goods
    BY <1>4 DEF Receipt, Goto, Types, RequestTypes
  <2>2. received = 0 /\ goods = 0
    BY <1>2, <2>1 DEF Account, Posted
  <2>. QED BY <1>0, <1>1, <1>2, <1>3, <2>1, <2>2 DEF Account
<1>5. CASE PutGoods(s)
  <2>1. /\ pc[s] = "goods" /\ pc'[s] = "select" /\ goods' = goods + amount[s]
        /\ UNCHANGED received
    BY <1>5 DEF PutGoods, Goto, Types, RequestTypes
  <2>2. received = amount[s] /\ goods = 0
    BY <1>1, <1>2, <2>1 DEF Account, Posted
  <2>. QED BY <1>0, <1>1, <1>2, <1>3, <2>1, <2>2 DEF Account
<1>. QED BY <1>4, <1>5

\* The steps that write neither the order, nor operations, nor log, nor the product's stock.
LEMMA OtherAccount ==
  ASSUME Types, NEW s \in Sessions, Account(s), Turn(s), Continue(s),
         ~(SaveSelect(s) \/ SaveWrite(s) \/ InsertOp(s) \/ OpWrite(s) \/ Log(s)
             \/ Receipt(s) \/ PutGoods(s))
  PROVE  Account(s)'
<1>1. ASSUME End(s), UNCHANGED <<order, ops, log, received, goods>>,
             pc[s] \in {"check", "insert", "line", "take"}
      PROVE  Account(s)'
  <2>1. pc'[s] = "idle"
    BY <1>1 DEF End, EndWith, Goto, Types, RequestTypes
  <2>. QED BY <1>1, <2>1, QuietAccount DEF Posted
<1>2. CASE Refuse(s) \/ InsertRefused(s) \/ IssueRefused(s) \/ TakeRefused(s)
  BY <1>1, <1>2 DEF Refuse, InsertRefused, IssueRefused, TakeRefused, rows, stock
<1>3. CASE CancelChecked(s) \/ ReleaseChecked(s)
  <2>1. /\ pc[s] = "check" /\ pc'[s] \in {"select", "insert"} /\ op'[s] \in {"cancel", "release"}
        /\ UNCHANGED <<order, ops, log, received, goods>>
    BY <1>3 DEF CancelChecked, ReleaseChecked, Passes, Goto, rows, stock, local, Types, RequestTypes
  <2>. QED BY <2>1, QuietAccount DEF Posted
<1>4. CASE \/ OperationChecked(s) \/ OpSelect(s) \/ CompleteChecked(s)
           \/ IssueLine(s) \/ IssueLedger(s)
  <2>1. /\ pc[s] \in {"check", "opselect", "line", "issue"}
        /\ pc'[s] \in {"opselect", "opwrite", "receipt", "issue", "take"}
        /\ UNCHANGED <<order, ops, log, received, goods>>
    BY <1>4 DEF OperationChecked, OpSelect, CompleteChecked, IssueLine, IssueLedger, Passes, Goto,
                rows, stock, Types, RequestTypes
  <2>. QED BY <2>1, QuietAccount DEF Posted
<1>5. CASE Take(s)
  <2>1. pc[s] = "take" /\ UNCHANGED <<order, ops, log, received, goods>>
    BY <1>5 DEF Take, rows
  <2>2. pc'[s] \in {"idle", "line"}
    BY <1>5 DEF Take, End, EndWith, Goto, Types, RequestTypes
  <2>. QED BY <2>1, <2>2, QuietAccount DEF Posted
<1>. QED BY <1>2, <1>3, <1>4, <1>5 DEF Continue

\* The accounts are inductive.
LEMMA CalmNext == Types /\ SerialInv /\ CalmInv /\ [Next]_vars => CalmInv'
<1>. SUFFICES ASSUME Types, SerialInv, CalmInv, [Next]_vars,
                     ~trouble'.overlap, trouble'.failures = 0,
                     NEW u \in Sessions, Alone(u)'
              PROVE  Account(u)'
  BY DEF CalmInv
<1>1. CASE UNCHANGED vars
  BY <1>1 DEF vars, CalmInv, Alone, Account, Posted, Logging
<1>2. ASSUME NEW s \in Sessions, Start(s) \/ Continue(s) \/ Fail(s) PROVE Account(u)'
  <2>1. ~trouble.overlap /\ Serial /\ Alone(s) /\ Own(s)
    BY <1>2, AloneStep, OwnStep DEF Alone
  <2>2. trouble.failures = 0 /\ ~Fail(s)
    <3>1. trouble \in [overlap: BOOLEAN, failures: 0..MaxFailures] /\ MaxFailures \in Nat
      BY ConstantsAssumption DEF Types, SharedTypes
    <3>2. ~Fail(s)
      BY <3>1 DEF Fail, EndWith
    <3>3. ASSUME Start(s) PROVE trouble.failures = 0
      BY <3>1, <3>3 DEF Start, Create, Update, Remove, Cancel, Release, CompleteOrder,
                        StartOperation, CompleteOperation, IssueMaterials, Load
    <3>4. ASSUME Continue(s) PROVE trouble.failures = 0
      BY <3>4 DEF Continue, Refuse, CancelChecked, SaveSelect, SaveWrite, ReleaseChecked, InsertOp,
                  InsertRefused, OperationChecked, OpSelect, OpWrite, Log, CompleteChecked,
                  Receipt, PutGoods, IssueLine, IssueRefused, IssueLedger, Take, TakeRefused,
                  End, EndWith
    <3>. QED BY <1>2, <3>2, <3>3, <3>4
  <2>3. Account(s) /\ Turn(s)
    BY <2>1, <2>2 DEF CalmInv, Serial
  <2>4. Account(s)'
    <3>1. CASE Start(s)
      <4>1. (\A plan : ~Create(s, plan)) => pc[s] = "idle"
        BY <3>1 DEF Start, Update, Remove, Cancel, Release, CompleteOrder, StartOperation,
                    CompleteOperation, IssueMaterials, Load
      <4>2. \A plan : Create(s, plan) => pc[s] = "idle"
        BY DEF Create
      <4>. QED BY <2>3, <3>1, <4>1, <4>2, StartAccount
    <3>2. CASE Continue(s)
      BY <2>3, <3>2, SaveAccount, InsertAccount, OperationAccount, GoodsAccount, OtherAccount
    <3>. QED BY <1>2, <2>2, <3>1, <3>2
  <2>5. CASE u # s
    <3>1. pc'[s] = "idle" /\ pc'[u] = "idle"
      BY <2>1, <2>5 DEF Alone, Own
    <3>2. \A k, o : ~Logging(s, k, o)' /\ ~Logging(u, k, o)'
      BY <3>1 DEF Logging
    <3>3. ~Posted(s)' /\ ~Posted(u)'
      BY <3>1 DEF Posted
    <3>. QED BY <2>4, <3>2, <3>3 DEF Account
  <2>. QED BY <2>4, <2>5
<1>. QED BY <1>1, <1>2 DEF Next

\* Once requests that came one at a time have all run through, goods, ledger, log and
\* order agree: the product is in stock exactly once, in the quantity of the last
\* operation, and the log tells each operation's state.
THEOREM WorkAccounted == Spec => []WorkIsAccounted
<1>1. Types /\ CalmInv => WorkIsAccounted
  <2>. SUFFICES ASSUME CalmInv, AtRest PROVE WorkIsAccounted
    BY DEF WorkIsAccounted, StockMovesOnce, LogTellsWork
  <2>1. PICK s \in Sessions : TRUE
    BY ConstantsAssumption
  <2>2. pc[s] = "idle" /\ Account(s)
    BY DEF AtRest, AllIdle, CalmInv, Alone
  <2>3. ~Posted(s) /\ \A k, o : ~Logging(s, k, o)
    BY <2>2 DEF Posted, Logging
  <2>4. StockMovesOnce
    BY <2>2, <2>3 DEF Account, StockMovesOnce
  <2>5. LogTellsWork
    BY <2>2, <2>3 DEF Account, LogTellsWork
  <2>. QED BY <2>4, <2>5 DEF WorkIsAccounted
<1>2. Spec => [](Types /\ CalmInv)
  BY TypesInit, TypesNext, SerialInit, SerialNext, CalmInit, CalmNext, PTL DEF Spec
<1>. QED BY <1>1, <1>2, PTL
=================================================================================

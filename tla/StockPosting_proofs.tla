-------------------------- MODULE StockPosting_proofs --------------------------
(***************************************************************************)
(* What postings leave behind although the balances they read are not      *)
(* locked, for any number of postings, movements, warehouses and page      *)
(* views, however they interleave, fail, crash or lose a deadlock.         *)
(*                                                                         *)
(* The first part is about the check inside updateBalance(): a posting     *)
(* that only issues from a warehouse never leaves its balance below zero   *)
(* (NeverOverdraws).  Inv follows the value it saves from the read over    *)
(* the pending row to the commit.                                          *)
(*                                                                         *)
(* The second part is about the sums: the ledger counts the committed      *)
(* postings (LedgerCounts), and every balance the whole of some of them    *)
(* (NothingInvented).  Accounts says of every value on its way into a      *)
(* balance - computed, pending, committed or read by a page view - which   *)
(* postings it counts, and of an open posting how much of it has been      *)
(* moved.                                                                  *)
(*                                                                         *)
(* The third part is what of PostingEnds and BalancesSettle is safety: the *)
(* row locks end with their postings (LocksEndWithPostings), somebody can  *)
(* always go on (NoStandstill), and a repaired balance stays repaired      *)
(* (RepairsAreFinal).                                                      *)
(***************************************************************************)
EXTENDS StockPosting, SumTheorems

Movements == [wh: Warehouses, qty: Int]
States == {"idle", "leg", "save", "committed", "aborted"}
Views == [pc: {"idle", "sum", "heal"}, wh: Warehouses, onHand: Int]

BalanceTypes ==
  /\ onHand \in [Warehouses -> Int]
  /\ ledger \in [Warehouses -> Int]
  /\ rowLock \in [Warehouses -> Txns \cup {NoTxn}]
  /\ pending \in [Warehouses -> Int]

PostingTypes ==
  /\ pc \in [Txns -> States]
  /\ leg \in [Txns -> Nat \ {0}]
  /\ \A t \in Txns : leg[t] <= Len(Legs[t]) + 1
  /\ \A t \in Txns : pc[t] = "save" => leg[t] <= Len(Legs[t])
  /\ result \in [Txns -> Int]
  /\ moved \in [Txns -> [Warehouses -> Int]]

ViewTypes == view \in [Readers -> Views]

Types == BalanceTypes /\ PostingTypes /\ ViewTypes

\* What a posting may leave in a balance: less than nothing only if it also
\* receives there.
Allowed(t, w, value) == value < 0 => Receives(t, w)

\* The computed value and the value of the locked row are such.
Computed == \A t \in Txns : pc[t] = "save" => Allowed(t, Current(t).wh, result[t])
Written == \A t \in Txns, w \in Warehouses : rowLock[w] = t => Allowed(t, w, pending[w])

Inv == Types /\ Computed /\ Written

\* A posting's next movement is a movement it receives or issues in a warehouse.
LEMMA CurrentLeg ==
  ASSUME PostingTypes, NEW t \in Txns, leg[t] <= Len(Legs[t])
  PROVE  /\ Current(t) \in Movements
         /\ leg[t] \in 1..Len(Legs[t])
<1>1. Legs[t] \in Seq(Movements)
  BY ConstantsAssumption DEF Movements
<1>2. leg[t] \in Nat \ {0}
  BY DEF PostingTypes
<1>. QED BY <1>1, <1>2 DEF Current

\* What updateBalance() computes after its check.
LEMMA ResultAllowed ==
  ASSUME Types, NEW t \in Txns, leg[t] <= Len(Legs[t]), Current(t).qty < 0 => Covered(t)
  PROVE  /\ Visible(t, Current(t).wh) + Current(t).qty \in Int
         /\ Allowed(t, Current(t).wh, Visible(t, Current(t).wh) + Current(t).qty)
<1>1. Current(t).wh \in Warehouses /\ Current(t).qty \in Int
  BY CurrentLeg DEF Types, Movements
<1>2. Visible(t, Current(t).wh) \in Int
  BY <1>1 DEF Visible, Types, BalanceTypes
<1>3. CASE Current(t).qty < 0
  BY <1>1, <1>2, <1>3 DEF Covered, Allowed
<1>4. CASE Current(t).qty >= 0
  <2>1. Receives(t, Current(t).wh)
    BY <1>4, CurrentLeg DEF Types, Receives, Current
  <2>. QED BY <1>1, <1>2, <2>1 DEF Allowed
<1>. QED BY <1>1, <1>3, <1>4

(***************************************************************************)
(* Steps of a posting.                                                     *)
(***************************************************************************)
LEMMA ReadInv == ASSUME Inv, NEW t \in Txns, Read(t) PROVE Inv'
<1>. Types /\ Computed /\ Written
  BY DEF Inv
<1>1. /\ Current(t) \in Movements
      /\ Visible(t, Current(t).wh) + Current(t).qty \in Int
      /\ Allowed(t, Current(t).wh, Visible(t, Current(t).wh) + Current(t).qty)
  BY CurrentLeg, ResultAllowed DEF Read, Types
<1>2. pc' \in [Txns -> States] /\ result' \in [Txns -> Int]
  BY <1>1 DEF Read, Types, PostingTypes, States
<1>3. moved' \in [Txns -> [Warehouses -> Int]]
  BY <1>1 DEF Read, Types, PostingTypes, Movements
<1>4. Types'
  BY <1>2, <1>3 DEF Read, Types, BalanceTypes, PostingTypes, ViewTypes
<1>5. Computed'
  BY <1>1 DEF Read, Computed, Current, Allowed, Receives, Types, PostingTypes
<1>6. Written'
  BY DEF Read, Written, Allowed, Receives
<1>. QED BY <1>4, <1>5, <1>6 DEF Inv

\* save() makes the computed value the pending one.
LEMMA SaveInv == ASSUME Inv, NEW t \in Txns, Save(t) PROVE Inv'
<1>. Types /\ Computed /\ Written
  BY DEF Inv
<1>1. Current(t).wh \in Warehouses /\ leg[t] \in 1..Len(Legs[t])
  BY CurrentLeg DEF Save, Types, PostingTypes, Movements
<1>2. BalanceTypes'
  BY <1>1 DEF Save, Types, BalanceTypes, PostingTypes
<1>3. PostingTypes'
  BY <1>1 DEF Save, Types, PostingTypes, States
<1>4. Computed'
  BY DEF Save, Computed, Current, Allowed, Receives, Types, PostingTypes
<1>5. Written'
  <2>1. Allowed(t, Current(t).wh, result[t])
    BY DEF Save, Computed
  <2>2. /\ rowLock'[Current(t).wh] = t /\ pending'[Current(t).wh] = result[t]
        /\ \A w \in Warehouses \ {Current(t).wh} :
             rowLock'[w] = rowLock[w] /\ pending'[w] = pending[w]
    BY <1>1 DEF Save, Types, BalanceTypes
  <2>. QED BY <2>1, <2>2 DEF Written, Allowed, Receives
<1>. QED BY <1>2, <1>3, <1>4, <1>5 DEF Save, Inv, Types, ViewTypes

\* A transaction that ends, in whatever way.
LEMMA EndInv ==
  ASSUME Inv, NEW t \in Txns, NEW outcome \in {"committed", "aborted"}, End(t, outcome),
         onHand' \in [Warehouses -> Int], ledger' \in [Warehouses -> Int]
  PROVE  Inv'
<1>. Types /\ Computed /\ Written
  BY DEF Inv
<1>1. BalanceTypes'
  BY DEF End, Types, BalanceTypes
<1>2. PostingTypes' /\ ViewTypes'
  BY DEF End, Types, PostingTypes, ViewTypes, States
<1>3. Computed'
  BY DEF End, Computed, Current, Allowed, Receives, Types, PostingTypes
<1>4. Written'
  BY ConstantsAssumption DEF End, Held, Written, Allowed, Receives, Types, BalanceTypes
<1>. QED BY <1>1, <1>2, <1>3, <1>4 DEF Inv, Types

\* What a commit leaves are quantities.
LEMMA CommitTypes ==
  ASSUME Types, NEW t \in Txns, Commit(t)
  PROVE  onHand' \in [Warehouses -> Int] /\ ledger' \in [Warehouses -> Int]
BY DEF Commit, Types, BalanceTypes, PostingTypes

\* Every step of a posting keeps the invariant.
LEMMA PostingInv ==
  ASSUME Inv, NEW t \in Txns, Begin(t) \/ Step(t) \/ Crash(t) PROVE Inv'
<1>. Types /\ Computed /\ Written
  BY DEF Inv
<1>1. CASE Begin(t)
  <2>1. Types'
    BY <1>1 DEF Begin, Types, BalanceTypes, PostingTypes, ViewTypes, States
  <2>2. Computed' /\ Written'
    BY <1>1 DEF Begin, Computed, Written, Current, Allowed, Receives, Types, PostingTypes
  <2>. QED BY <2>1, <2>2 DEF Inv
<1>2. CASE Rollback(t)
  BY <1>2, EndInv DEF Rollback, Types, BalanceTypes
<1>3. CASE Commit(t)
  BY <1>3, CommitTypes, EndInv DEF Commit
<1>. QED BY <1>1, <1>2, <1>3, ReadInv, SaveInv DEF Step, Refuse, DeadlockVictim, Crash

(***************************************************************************)
(* Steps of a page view.                                                   *)
(***************************************************************************)
LEMMA ViewInv ==
  ASSUME Inv, NEW v \in Readers, View(v) \/ ViewLost(v) PROVE Inv'
<1>. Types /\ Computed /\ Written
  BY DEF Inv
<1>. IdleView \in Views
  BY ConstantsAssumption DEF IdleView, Views
<1>1. UNCHANGED <<ledger, rowLock, pending, pc, leg, result, moved>>
  BY DEF View, ViewRead, ViewSum, ViewHeal, ViewLost
<1>2. onHand' \in [Warehouses -> Int] /\ view' \in [Readers -> Views]
  <2>1. ASSUME NEW w \in Warehouses, ViewRead(v, w) PROVE <1>2
    BY <2>1 DEF ViewRead, Types, BalanceTypes, ViewTypes, Views
  <2>2. CASE ViewSum(v)
    BY <2>2 DEF ViewSum, Types, BalanceTypes, ViewTypes, Views
  <2>3. CASE ViewHeal(v)
    BY <2>3 DEF ViewHeal, Types, BalanceTypes, ViewTypes, Views
  <2>4. CASE ViewLost(v)
    BY <2>4 DEF ViewLost, Types, BalanceTypes, ViewTypes
  <2>. QED BY <2>1, <2>2, <2>3, <2>4 DEF View
<1>3. Types'
  BY <1>1, <1>2 DEF Types, BalanceTypes, PostingTypes, ViewTypes
<1>4. Computed' /\ Written'
  BY <1>1 DEF Computed, Written, Current, Allowed, Receives
<1>. QED BY <1>3, <1>4 DEF Inv

(***************************************************************************)
(* The invariant and what follows from it.                                 *)
(***************************************************************************)
\* Every posting's computed and pending balances are allowed ones, in every
\* behaviour.
THEOREM Invariant == Spec => []Inv
<1>1. Init => Inv
  <2>. SUFFICES ASSUME Init PROVE Inv
    OBVIOUS
  <2>1. BalanceTypes
    BY ConstantsAssumption DEF Init, BalanceTypes, NothingMoved
  <2>2. PostingTypes
    <3>1. \A t \in Txns : Len(Legs[t]) \in Nat
      BY ConstantsAssumption
    <3>. QED BY <3>1 DEF Init, PostingTypes, States, NothingMoved
  <2>3. ViewTypes
    BY ConstantsAssumption DEF Init, ViewTypes, Views, IdleView
  <2>4. Computed /\ Written
    BY ConstantsAssumption DEF Init, Computed, Written
  <2>. QED BY <2>1, <2>2, <2>3, <2>4 DEF Inv, Types
<1>2. Inv /\ [Next]_vars => Inv'
  <2>. SUFFICES ASSUME Inv, [Next]_vars PROVE Inv'
    OBVIOUS
  <2>1. CASE UNCHANGED vars
    BY <2>1 DEF Inv, Types, BalanceTypes, PostingTypes, ViewTypes, Computed, Written,
                Current, Allowed, Receives, vars
  <2>. QED BY <2>1, PostingInv, ViewInv DEF Next
<1>. QED BY <1>1, <1>2, PTL DEF Spec

\* The state of postings, balances and page views keeps its type.
THEOREM Typed == Spec => []TypeOK
<1>1. Inv => TypeOK
  <2>. SUFFICES ASSUME Inv PROVE TypeOK
    OBVIOUS
  <2>1. \A t \in Txns : leg[t] \in 1..(Len(Legs[t]) + 1)
    <3>1. \A t \in Txns : Len(Legs[t]) \in Nat
      BY ConstantsAssumption
    <3>. QED BY <3>1 DEF Inv, Types, PostingTypes
  <2>. QED BY <2>1 DEF Inv, Types, BalanceTypes, PostingTypes, ViewTypes, TypeOK, States, Views
<1>. QED BY <1>1, Invariant, PTL

\* What a posting that only issues from a warehouse leaves there is not negative,
\* for any number of postings and page views and however they interleave.
THEOREM NeverOverdraws == Spec => PostingNeverOverdraws
<1> DEFINE Covers ==
      \A t \in Txns, w \in Warehouses :
        (pc'[t] # pc[t] /\ onHand'[w] # onHand[w] /\ onHand'[w] < 0) => Receives(t, w)
<1>1. Inv /\ [Next]_vars => [Covers]_vars
  <2>. SUFFICES ASSUME Inv, Next, NEW t \in Txns, NEW w \in Warehouses,
                       pc'[t] # pc[t], onHand'[w] # onHand[w], onHand'[w] < 0
                PROVE  Receives(t, w)
    BY DEF Receives
  <2>1. \A v \in Readers : ~View(v) /\ ~ViewLost(v)
    BY DEF View, ViewRead, ViewSum, ViewHeal, ViewLost
  <2>2. PICK u \in Txns : Begin(u) \/ Step(u) \/ Crash(u)
    BY <2>1 DEF Next
  <2>3. Commit(u)
    BY <2>2 DEF Begin, Step, Read, Save, Refuse, DeadlockVictim, Crash, Rollback
  <2>4. u = t
    BY <2>3 DEF Commit, End, Inv, Types, PostingTypes
  <2>5. rowLock[w] = t /\ onHand'[w] = pending[w]
    BY <2>3, <2>4 DEF Commit, Held
  <2>. QED BY <2>5 DEF Inv, Written, Allowed
<1>. QED BY <1>1, Invariant, PTL DEF Spec, PostingNeverOverdraws

(***************************************************************************)
(* What a balance may be although updates get lost.                        *)
(***************************************************************************)
\* What the first n movements of a posting move in a warehouse.
Quantities(t) == [i \in 1..Len(Legs[t]) |-> Legs[t][i].qty]
LegsIn(t, w, n) == {i \in 1..n : Legs[t][i].wh = w}
Part(t, w, n) == SumFunctionOnSet(Quantities(t), LegsIn(t, w, n))

\* A value that counts postings of a set as a whole.
Whole(x, w, set) == \E S \in SUBSET set : x = After(S, w)

\* The ledger rows a posting inserted are those of its movements so far.
Inserted ==
  \A t \in Txns, w \in Warehouses :
    /\ pc[t] \in {"idle", "leg"} => moved[t][w] = Part(t, w, leg[t] - 1)
    /\ pc[t] = "save" => moved[t][w] = Part(t, w, leg[t])

\* A locked row belongs to an open posting and holds a whole value and what that
\* posting saved so far; in a row that it does not hold it saved nothing.
Locked ==
  \A t \in Txns, w \in Warehouses :
    /\ rowLock[w] = t => /\ pc[t] \in {"leg", "save"}
                         /\ Whole(pending[w] - Part(t, w, leg[t] - 1), w, Committed)
    /\ pc[t] \in {"idle", "leg", "save"} /\ rowLock[w] # t => Part(t, w, leg[t] - 1) = 0

\* So does the value updateBalance() computed.
ToSave ==
  \A t \in Txns :
    pc[t] = "save" =>
      Whole(result[t] - Part(t, Current(t).wh, leg[t]), Current(t).wh, Committed)

\* Balances and what a page view will write are whole values.
Balances == \A w \in Warehouses : Whole(onHand[w], w, Committed)
Repairs == \A v \in Readers : view[v].pc = "heal" => Whole(view[v].onHand, view[v].wh, Committed)

Accounts == Inserted /\ Locked /\ ToSave /\ Balances /\ Repairs /\ LedgerIsCommittedPosts

\* The movements of a posting are finitely many whole quantities.
LEMMA LegsFinite ==
  ASSUME NEW t \in Txns, NEW w, NEW n \in 0..Len(Legs[t])
  PROVE  /\ Len(Legs[t]) \in Nat
         /\ IsFiniteSet(LegsIn(t, w, n))
         /\ \A i \in 1..Len(Legs[t]) : Quantities(t)[i] = Legs[t][i].qty /\ Legs[t][i].qty \in Int
         /\ LegsIn(t, w, n) \subseteq 1..Len(Legs[t])
<1>1. Legs[t] \in Seq(Movements)
  BY ConstantsAssumption DEF Movements
<1>2. \A i \in 1..Len(Legs[t]) : Legs[t][i] \in Movements
  BY <1>1
<1>3. IsFiniteSet(1..Len(Legs[t])) /\ Len(Legs[t]) \in Nat
  BY <1>1, FS_Interval
<1>4. LegsIn(t, w, n) \subseteq 1..Len(Legs[t])
  BY <1>3 DEF LegsIn
<1>. QED BY <1>2, <1>3, <1>4, FS_Subset DEF Quantities, Movements

\* Nothing is moved before the first movement, all of it after the last.
LEMMA PartEnds ==
  ASSUME NEW t \in Txns, NEW w
  PROVE  /\ Part(t, w, 0) = 0
         /\ Part(t, w, Len(Legs[t])) = Net(t, w)
<1>1. LegsIn(t, w, 0) = {}
  BY DEF LegsIn
<1>2. Part(t, w, 0) = 0
  BY <1>1, SumOnEmpty DEF Part
<1>. QED BY <1>2 DEF Part, Net, LegsIn, Quantities

\* Moved quantities are whole numbers.
LEMMA PartType ==
  ASSUME NEW t \in Txns, NEW w, NEW n \in 0..Len(Legs[t])
  PROVE  Part(t, w, n) \in Int
<1>1. \A i \in LegsIn(t, w, n) : Quantities(t)[i] \in Int
  BY LegsFinite
<1>. QED BY <1>1, LegsFinite, SumOnType DEF Part

\* One movement more adds its quantity in its warehouse and nothing elsewhere.
LEMMA PartNext ==
  ASSUME NEW t \in Txns, NEW w, NEW n \in 1..Len(Legs[t])
  PROVE  Part(t, w, n) = Part(t, w, n - 1) + (IF Legs[t][n].wh = w THEN Legs[t][n].qty ELSE 0)
<1>. Len(Legs[t]) \in Nat /\ n \in 0..Len(Legs[t]) /\ n - 1 \in 0..Len(Legs[t])
  BY LegsFinite, 0 \in 0..Len(Legs[t])
<1>1. CASE Legs[t][n].wh # w
  <2>1. LegsIn(t, w, n) = LegsIn(t, w, n - 1)
    BY <1>1 DEF LegsIn
  <2>. QED BY <1>1, <2>1, PartType DEF Part
<1>2. CASE Legs[t][n].wh = w
  <2>1. LegsIn(t, w, n) = LegsIn(t, w, n - 1) \cup {n} /\ n \notin LegsIn(t, w, n - 1)
    BY <1>2 DEF LegsIn
  <2>2. \A i \in LegsIn(t, w, n - 1) \cup {n} : Quantities(t)[i] \in Int
    BY <2>1, LegsFinite
  <2>3. IsFiniteSet(LegsIn(t, w, n - 1))
    BY LegsFinite
  <2>4. Part(t, w, n) = Quantities(t)[n] + Part(t, w, n - 1)
    BY <2>1, <2>2, <2>3, SumOnInsert DEF Part
  <2>5. Quantities(t)[n] = Legs[t][n].qty /\ Legs[t][n].qty \in Int
    BY LegsFinite
  <2>. QED BY <1>2, <2>4, <2>5, PartType
<1>. QED BY <1>1, <1>2

\* So is what any set of postings leaves; none leaves the opening stock.
LEMMA AfterType ==
  ASSUME NEW w \in Warehouses, NEW S \in SUBSET Txns
  PROVE  /\ After(S, w) \in Int
         /\ After({}, w) = Opening[w]
         /\ \A t \in Txns : Net(t, w) \in Int
<1> DEFINE nets == [t \in Txns |-> Net(t, w)]
<1>1. \A t \in Txns : Net(t, w) \in Int
  <2>. SUFFICES ASSUME NEW t \in Txns PROVE Net(t, w) \in Int
    OBVIOUS
  <2>1. Len(Legs[t]) \in Nat
    BY ConstantsAssumption
  <2>2. Len(Legs[t]) \in 0..Len(Legs[t])
    BY <2>1
  <2>. QED BY <2>2, PartEnds, PartType
<1>2. IsFiniteSet(S) /\ \A t \in S : nets[t] \in Int
  BY <1>1, FS_Subset, ConstantsAssumption
<1>3. After(S, w) = Opening[w] + SumFunctionOnSet(nets, S) /\ After({}, w) = Opening[w] + SumFunctionOnSet(nets, {})
  BY DEF After
<1>. HIDE DEF nets
<1>4. SumFunctionOnSet(nets, S) \in Int /\ SumFunctionOnSet(nets, {}) = 0
  BY <1>2, SumOnType, SumOnEmpty
<1>5. Opening[w] \in Nat
  BY ConstantsAssumption
<1>. QED BY <1>1, <1>3, <1>4, <1>5

\* One posting more adds its net movement.
LEMMA AfterOneMore ==
  ASSUME NEW w \in Warehouses, NEW S \in SUBSET Txns, NEW t \in Txns, t \notin S
  PROVE  After(S \cup {t}, w) = After(S, w) + Net(t, w)
<1> DEFINE nets == [u \in Txns |-> Net(u, w)]
<1>1. IsFiniteSet(S) /\ \A u \in S \cup {t} : nets[u] \in Int
  BY AfterType, FS_Subset, ConstantsAssumption
<1>2. nets[t] = Net(t, w) /\ Net(t, w) \in Int
  BY AfterType
<1>3. After(S, w) = Opening[w] + SumFunctionOnSet(nets, S)
      /\ After(S \cup {t}, w) = Opening[w] + SumFunctionOnSet(nets, S \cup {t})
  BY DEF After
<1>. HIDE DEF nets
<1>4. SumFunctionOnSet(nets, S) \in Int
  BY <1>1, SumOnType
<1>5. SumFunctionOnSet(nets, S \cup {t}) = nets[t] + SumFunctionOnSet(nets, S)
  BY <1>1, SumOnInsert
<1>6. Opening[w] \in Nat
  BY ConstantsAssumption
<1>. QED BY <1>2, <1>3, <1>4, <1>5, <1>6


\* A whole value stays one when more postings commit.
LEMMA WholeGrows ==
  ASSUME NEW set, NEW more, set \subseteq more, NEW x, NEW w, Whole(x, w, set)
  PROVE  Whole(x, w, more)
BY DEF Whole

(***************************************************************************)
(* Steps of a posting, and what they leave whole.                          *)
(***************************************************************************)
\* updateBalance() adds the movement to what it sees of the row.
LEMMA ReadAccounts == ASSUME Inv, Accounts, NEW t \in Txns, Read(t) PROVE Accounts'
<1> DEFINE here == Current(t).wh
           quantity == Current(t).qty
           n == leg[t]
<1>1. /\ here \in Warehouses /\ quantity \in Int
      /\ n \in 1..Len(Legs[t]) /\ Legs[t][n].wh = here /\ Legs[t][n].qty = quantity
  BY CurrentLeg DEF Read, Inv, Types, Movements, Current
<1>2. /\ UNCHANGED <<onHand, ledger, rowLock, pending, leg, view>>
      /\ pc[t] = "leg" /\ pc' = [pc EXCEPT ![t] = "save"]
      /\ result' = [result EXCEPT ![t] = Visible(t, here) + quantity]
      /\ moved' = [moved EXCEPT ![t][here] = @ + quantity]
  BY DEF Read
<1>3. /\ pc \in [Txns -> States] /\ result \in [Txns -> Int]
      /\ moved \in [Txns -> [Warehouses -> Int]] /\ leg \in [Txns -> Nat \ {0}]
      /\ pending \in [Warehouses -> Int] /\ onHand \in [Warehouses -> Int]
  BY DEF Inv, Types, PostingTypes, BalanceTypes
<1>4. Committed' = Committed
  BY <1>2, <1>3 DEF Committed
<1>5. /\ pc'[t] = "save" /\ result'[t] = Visible(t, here) + quantity
      /\ \A u \in Txns \ {t} : pc'[u] = pc[u] /\ result'[u] = result[u] /\ moved'[u] = moved[u]
      /\ \A w \in Warehouses : moved'[t][w] = moved[t][w] + (IF w = here THEN quantity ELSE 0)
  BY <1>1, <1>2, <1>3
<1>6. \A w \in Warehouses : /\ Part(t, w, n) = Part(t, w, n - 1) + (IF here = w THEN quantity ELSE 0)
                            /\ Part(t, w, n - 1) \in Int
  <2>1. n - 1 \in 0..Len(Legs[t])
    BY <1>1, LegsFinite, 0 \in 0..Len(Legs[t])
  <2>. QED BY <1>1, <2>1, PartNext, PartType
<1>7. \A u \in Txns : Current(u)' = Current(u)
  BY <1>2 DEF Current
<1>. HIDE DEF here, quantity
<1>8. Inserted'
  <2>. SUFFICES ASSUME NEW u \in Txns, NEW w \in Warehouses
                PROVE  /\ pc'[u] \in {"idle", "leg"} => moved'[u][w] = Part(u, w, leg[u] - 1)
                       /\ pc'[u] = "save" => moved'[u][w] = Part(u, w, leg[u])
    BY <1>2 DEF Inserted
  <2>1. CASE u = t
    <3>1. moved[t][w] = Part(t, w, n - 1)
      BY <1>2 DEF Accounts, Inserted
    <3>. QED BY <2>1, <3>1, <1>5, <1>6
  <2>2. CASE u # t
    BY <2>2, <1>5 DEF Accounts, Inserted
  <2>. QED BY <2>1, <2>2
<1>9. Locked'
  BY <1>2, <1>4, <1>5 DEF Accounts, Locked
<1>10. ToSave'
  <2>. SUFFICES ASSUME NEW u \in Txns, pc'[u] = "save"
                PROVE  Whole(result'[u] - Part(u, Current(u).wh, leg[u]), Current(u).wh, Committed)
    BY <1>2, <1>4, <1>7 DEF ToSave
  <2>1. CASE u = t
    <3>1. Whole(Visible(t, here) - Part(t, here, n - 1), here, Committed)
      <4>1. CASE rowLock[here] = t
        BY <4>1, <1>1 DEF Accounts, Locked, Visible
      <4>2. CASE rowLock[here] # t
        <5>1. Part(t, here, n - 1) = 0
          BY <4>2, <1>1, <1>2 DEF Accounts, Locked
        <5>2. Whole(onHand[here], here, Committed) /\ onHand[here] \in Int
          BY <1>1, <1>3 DEF Accounts, Balances
        <5>3. onHand[here] - 0 = onHand[here]
          BY <5>2
        <5>. QED BY <4>2, <5>1, <5>2, <5>3 DEF Visible
      <4>. QED BY <4>1, <4>2
    <3>2. Visible(t, here) \in Int
      BY <1>1, <1>3 DEF Visible
    <3>3. result'[t] - Part(t, here, n) = Visible(t, here) - Part(t, here, n - 1)
      BY <1>1, <1>5, <1>6, <3>2
    <3>. QED BY <2>1, <3>1, <3>3 DEF here
  <2>2. CASE u # t
    BY <2>2, <1>5 DEF Accounts, ToSave
  <2>. QED BY <2>1, <2>2
<1>11. Balances' /\ Repairs' /\ LedgerIsCommittedPosts'
  BY <1>2, <1>4 DEF Accounts, Balances, Repairs, LedgerIsCommittedPosts
<1>. QED BY <1>8, <1>9, <1>10, <1>11 DEF Accounts

\* The saved value counts the movement it was computed for.
LEMMA SaveAccounts == ASSUME Inv, Accounts, NEW t \in Txns, Save(t) PROVE Accounts'
<1> DEFINE here == Current(t).wh
           n == leg[t]
<1>1. /\ here \in Warehouses
      /\ n \in 1..Len(Legs[t]) /\ Legs[t][n].wh = here /\ Legs[t][n].qty \in Int
  BY CurrentLeg DEF Save, Inv, Types, PostingTypes, Movements, Current
<1>2. /\ UNCHANGED <<onHand, ledger, result, moved, view>>
      /\ pc[t] = "save" /\ pc' = [pc EXCEPT ![t] = "leg"]
      /\ rowLock[here] \in {NoTxn, t}
      /\ rowLock' = [rowLock EXCEPT ![here] = t]
      /\ pending' = [pending EXCEPT ![here] = result[t]]
      /\ leg' = [leg EXCEPT ![t] = @ + 1]
  BY DEF Save
<1>3. /\ pc \in [Txns -> States] /\ leg \in [Txns -> Nat \ {0}]
      /\ pending \in [Warehouses -> Int] /\ rowLock \in [Warehouses -> Txns \cup {NoTxn}]
  BY DEF Inv, Types, PostingTypes, BalanceTypes
<1>4. Committed' = Committed
  BY <1>2, <1>3 DEF Committed
<1>5. /\ pc'[t] = "leg" /\ leg'[t] - 1 = n
      /\ \A u \in Txns \ {t} : pc'[u] = pc[u] /\ leg'[u] = leg[u]
      /\ rowLock'[here] = t /\ pending'[here] = result[t]
      /\ \A w \in Warehouses \ {here} : rowLock'[w] = rowLock[w] /\ pending'[w] = pending[w]
  BY <1>1, <1>2, <1>3
<1>6. \A w \in Warehouses \ {here} : Part(t, w, n) = Part(t, w, n - 1)
  <2>1. n - 1 \in 0..Len(Legs[t])
    BY <1>1, LegsFinite, 0 \in 0..Len(Legs[t])
  <2>. QED BY <1>1, <2>1, PartNext, PartType
<1>. HIDE DEF here
<1>8. Inserted'
  BY <1>2, <1>5 DEF Accounts, Inserted
<1>9. Locked'
  <2>. SUFFICES ASSUME NEW u \in Txns, NEW w \in Warehouses
                PROVE  /\ rowLock'[w] = u => /\ pc'[u] \in {"leg", "save"}
                                             /\ Whole(pending'[w] - Part(u, w, leg'[u] - 1), w, Committed)
                       /\ pc'[u] \in {"idle", "leg", "save"} /\ rowLock'[w] # u => Part(u, w, leg'[u] - 1) = 0
    BY <1>4 DEF Locked
  <2>1. CASE u = t /\ w = here
    <3>1. Whole(result[t] - Part(t, here, n), here, Committed)
      BY <1>2 DEF Accounts, ToSave, here
    <3>. QED BY <2>1, <3>1, <1>5
  <2>2. CASE u = t /\ w # here
    <3>1. /\ rowLock[w] = t => Whole(pending[w] - Part(t, w, n - 1), w, Committed)
          /\ rowLock[w] # t => Part(t, w, n - 1) = 0
      BY <1>2 DEF Accounts, Locked
    <3>. QED BY <2>2, <3>1, <1>5, <1>6
  <2>3. CASE u # t /\ w = here
    <3>1. rowLock[w] # u /\ rowLock'[w] # u
      BY <2>3, <1>2, <1>5, ConstantsAssumption
    <3>. QED BY <2>3, <3>1, <1>5 DEF Accounts, Locked
  <2>4. CASE u # t /\ w # here
    BY <2>4, <1>5 DEF Accounts, Locked
  <2>. QED BY <2>1, <2>2, <2>3, <2>4
<1>10. ToSave'
  <2>. SUFFICES ASSUME NEW u \in Txns, pc'[u] = "save"
                PROVE  Whole(result[u] - Part(u, Current(u)'.wh, leg'[u]), Current(u)'.wh, Committed)
    BY <1>2, <1>4 DEF ToSave
  <2>1. u # t /\ pc[u] = "save" /\ leg'[u] = leg[u]
    BY <1>5
  <2>2. Current(u)' = Current(u)
    BY <2>1 DEF Current
  <2>. QED BY <2>1, <2>2 DEF Accounts, ToSave
<1>11. Balances' /\ Repairs' /\ LedgerIsCommittedPosts'
  BY <1>2, <1>4 DEF Accounts, Balances, Repairs, LedgerIsCommittedPosts
<1>. QED BY <1>8, <1>9, <1>10, <1>11 DEF Accounts

\* A transaction that ends without committing leaves the committed state alone.
LEMMA RollbackAccounts == ASSUME Inv, Accounts, NEW t \in Txns, pc[t] # "committed", Rollback(t) PROVE Accounts'
<1>1. /\ UNCHANGED <<onHand, ledger, leg, result, moved, view>>
      /\ pc' = [pc EXCEPT ![t] = "aborted"]
      /\ rowLock' = [w \in Warehouses |-> IF w \in Held(t) THEN NoTxn ELSE rowLock[w]]
      /\ pending' = [w \in Warehouses |-> IF w \in Held(t) THEN 0 ELSE pending[w]]
  BY DEF Rollback, End
<1>2. pc \in [Txns -> States]
  BY DEF Inv, Types, PostingTypes
<1>3. Committed' = Committed
  BY <1>1, <1>2 DEF Committed
<1>4. pc'[t] = "aborted" /\ \A u \in Txns \ {t} : pc'[u] = pc[u]
  BY <1>1, <1>2
<1>5. Inserted'
  BY <1>1, <1>4 DEF Accounts, Inserted
<1>6. Locked'
  <2>. SUFFICES ASSUME NEW u \in Txns, NEW w \in Warehouses
                PROVE  /\ rowLock'[w] = u => /\ pc'[u] \in {"leg", "save"}
                                             /\ Whole(pending'[w] - Part(u, w, leg[u] - 1), w, Committed)
                       /\ pc'[u] \in {"idle", "leg", "save"} /\ rowLock'[w] # u => Part(u, w, leg[u] - 1) = 0
    BY <1>1, <1>3 DEF Locked
  <2>1. CASE u = t
    BY <2>1, <1>1, <1>4, ConstantsAssumption DEF Held
  <2>2. CASE u # t
    BY <2>2, <1>1, <1>4, ConstantsAssumption DEF Held, Accounts, Locked
  <2>. QED BY <2>1, <2>2
<1>7. ToSave'
  <2>1. \A u \in Txns : pc'[u] = "save" => pc[u] = "save" /\ Current(u)' = Current(u)
    BY <1>1, <1>4 DEF Current
  <2>. QED BY <2>1, <1>1, <1>3 DEF Accounts, ToSave
<1>8. Balances' /\ Repairs' /\ LedgerIsCommittedPosts'
  BY <1>1, <1>3 DEF Accounts, Balances, Repairs, LedgerIsCommittedPosts
<1>. QED BY <1>5, <1>6, <1>7, <1>8 DEF Accounts

\* A commit adds all of the posting to the rows it holds and to the ledger.
LEMMA CommitAccounts == ASSUME Inv, Accounts, NEW t \in Txns, Commit(t) PROVE Accounts'
<1>1. /\ pc[t] = "leg" /\ leg[t] > Len(Legs[t])
      /\ UNCHANGED <<leg, result, moved, view>>
      /\ pc' = [pc EXCEPT ![t] = "committed"]
      /\ rowLock' = [w \in Warehouses |-> IF w \in Held(t) THEN NoTxn ELSE rowLock[w]]
      /\ pending' = [w \in Warehouses |-> IF w \in Held(t) THEN 0 ELSE pending[w]]
      /\ onHand' = [w \in Warehouses |-> IF w \in Held(t) THEN pending[w] ELSE onHand[w]]
      /\ ledger' = [w \in Warehouses |-> ledger[w] + moved[t][w]]
  BY DEF Commit, End
<1>2. pc \in [Txns -> States] /\ pending \in [Warehouses -> Int]
  BY DEF Inv, Types, PostingTypes, BalanceTypes
<1>3. t \notin Committed /\ Committed' = Committed \cup {t} /\ Committed \in SUBSET Txns
  BY <1>1, <1>2 DEF Committed
<1>4. pc'[t] = "committed" /\ \A u \in Txns \ {t} : pc'[u] = pc[u]
  BY <1>1, <1>2
<1>5. \A w \in Warehouses : moved[t][w] = Net(t, w) /\ Part(t, w, leg[t] - 1) = Net(t, w)
  <2>1. Len(Legs[t]) \in Nat
    BY ConstantsAssumption
  <2>2. leg[t] - 1 = Len(Legs[t])
    BY <1>1, <2>1 DEF Inv, Types, PostingTypes
  <2>. QED BY <1>1, <2>2, PartEnds DEF Accounts, Inserted
<1>6. \A x, w : Whole(x, w, Committed) => Whole(x, w, Committed')
  BY <1>3, WholeGrows
<1>7. Inserted'
  BY <1>1, <1>4 DEF Accounts, Inserted
<1>8. Locked'
  <2>. SUFFICES ASSUME NEW u \in Txns, NEW w \in Warehouses
                PROVE  /\ rowLock'[w] = u => /\ pc'[u] \in {"leg", "save"}
                                             /\ Whole(pending'[w] - Part(u, w, leg[u] - 1), w, Committed')
                       /\ pc'[u] \in {"idle", "leg", "save"} /\ rowLock'[w] # u => Part(u, w, leg[u] - 1) = 0
    BY <1>1 DEF Locked
  <2>1. CASE u = t
    BY <2>1, <1>1, <1>4, ConstantsAssumption DEF Held
  <2>2. CASE u # t
    BY <2>2, <1>1, <1>4, <1>6, ConstantsAssumption DEF Held, Accounts, Locked
  <2>. QED BY <2>1, <2>2
<1>9. ToSave'
  <2>1. \A u \in Txns : pc'[u] = "save" => pc[u] = "save" /\ Current(u)' = Current(u)
    BY <1>1, <1>4 DEF Current
  <2>. QED BY <2>1, <1>1, <1>6 DEF Accounts, ToSave
<1>10. Balances'
  <2>. SUFFICES ASSUME NEW w \in Warehouses PROVE Whole(onHand'[w], w, Committed')
    BY DEF Balances
  <2>1. CASE rowLock[w] = t
    <3>1. PICK S \in SUBSET Committed : pending[w] - Net(t, w) = After(S, w)
      BY <2>1, <1>5 DEF Accounts, Locked, Whole
    <3>2. S \in SUBSET Txns /\ t \notin S /\ S \cup {t} \in SUBSET Committed'
      BY <1>3
    <3>3. After(S \cup {t}, w) = After(S, w) + Net(t, w)
      BY <3>2, AfterOneMore
    <3>4. Net(t, w) \in Int /\ pending[w] \in Int
      BY <1>2, AfterType
    <3>5. onHand'[w] = pending[w]
      BY <2>1, <1>1 DEF Held
    <3>6. onHand'[w] = After(S \cup {t}, w)
      BY <3>1, <3>3, <3>4, <3>5
    <3>. QED BY <3>2, <3>6 DEF Whole
  <2>2. CASE rowLock[w] # t
    BY <2>2, <1>1, <1>6 DEF Held, Accounts, Balances
  <2>. QED BY <2>1, <2>2
<1>11. Repairs'
  BY <1>1, <1>6 DEF Accounts, Repairs
<1>12. LedgerIsCommittedPosts'
  <2>. SUFFICES ASSUME NEW w \in Warehouses PROVE ledger'[w] = After(Committed', w)
    BY DEF LedgerIsCommittedPosts
  <2>1. ledger[w] = After(Committed, w)
    BY DEF Accounts, LedgerIsCommittedPosts
  <2>2. After(Committed \cup {t}, w) = After(Committed, w) + Net(t, w)
    BY <1>3, AfterOneMore
  <2>. QED BY <2>1, <2>2, <1>1, <1>3, <1>5
<1>. QED BY <1>7, <1>8, <1>9, <1>10, <1>11, <1>12 DEF Accounts


\* Every step of a posting keeps the accounts.
LEMMA PostingAccounts ==
  ASSUME Inv, Accounts, NEW t \in Txns, Begin(t) \/ Step(t) \/ Crash(t) PROVE Accounts'
<1>1. CASE Begin(t)
  <2>1. /\ UNCHANGED <<onHand, ledger, rowLock, pending, leg, result, moved, view>>
        /\ pc[t] = "idle" /\ pc' = [pc EXCEPT ![t] = "leg"] /\ pc \in [Txns -> States]
    BY <1>1 DEF Begin, Inv, Types, PostingTypes
  <2>2. Committed' = Committed /\ pc'[t] = "leg" /\ \A u \in Txns \ {t} : pc'[u] = pc[u]
    BY <2>1 DEF Committed
  <2>3. Inserted'
    BY <2>1, <2>2 DEF Accounts, Inserted
  <2>4. Locked'
    BY <2>1, <2>2 DEF Accounts, Locked
  <2>5. ToSave'
    BY <2>1, <2>2 DEF Accounts, ToSave, Current
  <2>6. Balances' /\ Repairs' /\ LedgerIsCommittedPosts'
    BY <2>1, <2>2 DEF Accounts, Balances, Repairs, LedgerIsCommittedPosts
  <2>. QED BY <2>3, <2>4, <2>5, <2>6 DEF Accounts
<1>2. CASE Refuse(t) \/ DeadlockVictim(t) \/ Crash(t)
  <2>1. pc[t] # "committed" /\ Rollback(t)
    BY <1>2 DEF Refuse, DeadlockVictim, Deadlocked, Crash
  <2>. QED BY <2>1, RollbackAccounts
<1>. QED BY <1>1, <1>2, ReadAccounts, SaveAccounts, CommitAccounts DEF Step

\* A page view writes what the ledger said: the whole of what was committed then.
LEMMA ViewAccounts ==
  ASSUME Inv, Accounts, NEW v \in Readers, View(v) \/ ViewLost(v) PROVE Accounts'
<1>1. UNCHANGED <<ledger, rowLock, pending, pc, leg, result, moved>>
  BY DEF View, ViewRead, ViewSum, ViewHeal, ViewLost
<1>2. Committed' = Committed
  BY <1>1 DEF Committed
<1>3. Inserted' /\ Locked' /\ LedgerIsCommittedPosts'
  BY <1>1, <1>2 DEF Accounts, Inserted, Locked, LedgerIsCommittedPosts
<1>4. ToSave'
  BY <1>1, <1>2 DEF Accounts, ToSave, Current
<1>5. onHand \in [Warehouses -> Int] /\ view \in [Readers -> Views]
  BY DEF Inv, Types, BalanceTypes, ViewTypes
<1>6. Balances' /\ Repairs'
  <2>1. ASSUME NEW w \in Warehouses, ViewRead(v, w) PROVE <1>6
    <3>1. /\ onHand' = onHand
          /\ view' = [view EXCEPT ![v] = [pc |-> "sum", wh |-> w, onHand |-> onHand[w]]]
      BY <2>1 DEF ViewRead
    <3>. QED BY <3>1, <1>2, <1>5 DEF Accounts, Balances, Repairs
  <2>2. CASE ViewSum(v)
    <3>1. onHand' = onHand
      BY <2>2 DEF ViewSum
    <3>2. view[v].wh \in Warehouses
      BY <1>5 DEF Views
    <3>3. Whole(ledger[view[v].wh], view[v].wh, Committed)
      BY <3>2 DEF Accounts, LedgerIsCommittedPosts, Whole
    <3>4. view' = [view EXCEPT ![v] =
                     IF view[v].onHand = ledger[view[v].wh] THEN IdleView
                     ELSE [pc |-> "heal", wh |-> view[v].wh, onHand |-> ledger[view[v].wh]]]
      BY <2>2 DEF ViewSum
    <3>5. view'[v].pc = "heal" => Whole(view'[v].onHand, view'[v].wh, Committed)
      BY <3>3, <3>4, <1>5 DEF IdleView
    <3>6. \A r \in Readers \ {v} : view'[r] = view[r]
      BY <3>4, <1>5
    <3>7. Balances'
      BY <3>1, <1>2 DEF Accounts, Balances
    <3>8. Repairs'
      BY <3>5, <3>6, <1>2 DEF Accounts, Repairs
    <3>. QED BY <3>7, <3>8
  <2>3. CASE ViewHeal(v)
    <3>1. /\ view[v].pc = "heal" /\ view' = [view EXCEPT ![v] = IdleView]
          /\ onHand' = [onHand EXCEPT ![view[v].wh] = view[v].onHand]
      BY <2>3 DEF ViewHeal
    <3>2. Whole(view[v].onHand, view[v].wh, Committed) /\ view[v].wh \in Warehouses
      BY <3>1, <1>5 DEF Accounts, Repairs, Views
    <3>3. \A w \in Warehouses : onHand'[w] = IF w = view[v].wh THEN view[v].onHand ELSE onHand[w]
      BY <3>1, <1>5
    <3>4. Balances'
      BY <3>2, <3>3, <1>2 DEF Accounts, Balances
    <3>5. Repairs'
      BY <3>1, <1>2, <1>5 DEF Accounts, Repairs, IdleView
    <3>. QED BY <3>4, <3>5
  <2>4. CASE ViewLost(v)
    <3>1. onHand' = onHand /\ view' = [view EXCEPT ![v] = IdleView]
      BY <2>4 DEF ViewLost
    <3>2. Balances'
      BY <3>1, <1>2 DEF Accounts, Balances
    <3>3. Repairs'
      BY <3>1, <1>2, <1>5 DEF Accounts, Repairs, IdleView
    <3>. QED BY <3>2, <3>3
  <2>. QED BY <2>1, <2>2, <2>3, <2>4 DEF View
<1>. QED BY <1>3, <1>4, <1>6 DEF Accounts

\* Nothing is committed at the start and the balances are the opening stock.
LEMMA InitAccounts == ASSUME Init PROVE Accounts
<1>1. Committed = {}
  BY DEF Init, Committed
<1>2. \A w \in Warehouses : onHand[w] = After({}, w) /\ ledger[w] = After({}, w)
  BY AfterType DEF Init
<1>3. Balances /\ LedgerIsCommittedPosts
  BY <1>1, <1>2 DEF Balances, LedgerIsCommittedPosts, Whole
<1>4. \A t \in Txns, w \in Warehouses : /\ pc[t] = "idle" /\ leg[t] - 1 = 0 /\ rowLock[w] # t
                                        /\ moved[t][w] = 0 /\ Part(t, w, 0) = 0
  BY PartEnds, ConstantsAssumption DEF Init, NothingMoved
<1>5. Inserted /\ Locked
  BY <1>4 DEF Inserted, Locked
<1>6. ToSave /\ Repairs
  BY <1>4 DEF Init, ToSave, Repairs, IdleView
<1>. QED BY <1>3, <1>5, <1>6 DEF Accounts

\* All of it in every behaviour.
THEOREM AccountsInvariant == Spec => []Accounts
<1>1. Inv /\ Accounts /\ [Next]_vars => Accounts'
  <2>. SUFFICES ASSUME Inv, Accounts, [Next]_vars PROVE Accounts'
    OBVIOUS
  <2>1. CASE UNCHANGED vars
    <3>1. UNCHANGED <<onHand, ledger, rowLock, pending, pc, leg, result, moved, view>>
      BY <2>1 DEF vars
    <3>2. Committed' = Committed
      BY <3>1 DEF Committed
    <3>. QED BY <3>1, <3>2 DEF Accounts, Inserted, Locked, ToSave, Current, Balances, Repairs,
                               LedgerIsCommittedPosts
  <2>. QED BY <2>1, PostingAccounts, ViewAccounts DEF Next
<1>. QED BY <1>1, InitAccounts, Invariant, PTL DEF Spec

\* The ledger is the opening stock and the movements of the committed postings, no
\* more and no less, however many fail, crash or lose a deadlock.
THEOREM LedgerCounts == Spec => []LedgerIsCommittedPosts
<1>1. Accounts => LedgerIsCommittedPosts
  BY DEF Accounts
<1>. QED BY <1>1, AccountsInvariant, PTL

\* Lost updates lose whole postings: a balance never shows a part of one, nor one
\* that did not commit.
THEOREM NothingInvented == Spec => []NoInventedStock
<1>1. Accounts => NoInventedStock
  BY DEF Accounts, Balances, Whole, NoInventedStock
<1>. QED BY <1>1, AccountsInvariant, PTL


(***************************************************************************)
(* What keeps postings and page views going: the safety half of            *)
(* PostingEnds and BalancesSettle, for any number of both.                 *)
(***************************************************************************)
Open(t) == pc[t] \in {"leg", "save"}
Waits(t) == pc[t] = "save" /\ rowLock[Current(t).wh] \notin {NoTxn, t}

\* A row is locked by a posting that is still open.
LocksOfOpen == \A w \in Warehouses : rowLock[w] # NoTxn => rowLock[w] \in Txns /\ Open(rowLock[w])

\* Saving locks a row for an open posting; ending one frees what it held.
LEMMA StepLocks == ASSUME Inv, LocksOfOpen, NEW t \in Txns, Begin(t) \/ Step(t) \/ Crash(t)
                   PROVE  LocksOfOpen'
<1>. Types /\ BalanceTypes /\ PostingTypes
  BY DEF Inv, Types
<1>1. CASE Begin(t) \/ Read(t)
  <2>1. rowLock' = rowLock /\ \E to \in {"leg", "save"} : pc' = [pc EXCEPT ![t] = to]
    BY <1>1 DEF Begin, Read
  <2>. QED BY <2>1 DEF LocksOfOpen, Open, PostingTypes
<1>2. CASE Save(t)
  <2>1. rowLock' = [rowLock EXCEPT ![Current(t).wh] = t] /\ pc' = [pc EXCEPT ![t] = "leg"]
    BY <1>2 DEF Save
  <2>. QED BY <2>1 DEF LocksOfOpen, Open, PostingTypes, BalanceTypes
<1>3. CASE Commit(t) \/ Rollback(t)
  <2>1. /\ rowLock' = [w \in Warehouses |-> IF w \in Held(t) THEN NoTxn ELSE rowLock[w]]
        /\ \E outcome \in {"committed", "aborted"} : pc' = [pc EXCEPT ![t] = outcome]
    BY <1>3 DEF Commit, Rollback, End
  <2>2. \A w \in Warehouses : rowLock'[w] # NoTxn => rowLock'[w] = rowLock[w] /\ rowLock[w] # t
    BY <2>1 DEF Held
  <2>3. \A u \in Txns \ {t} : pc'[u] = pc[u]
    BY <2>1 DEF PostingTypes
  <2>. QED BY <2>2, <2>3 DEF LocksOfOpen, Open
<1>. QED BY <1>1, <1>2, <1>3 DEF Step, Refuse, DeadlockVictim, Crash

\* No lock outlives its posting.
THEOREM LocksEndWithPostings == Spec => []LocksOfOpen
<1>1. Init => LocksOfOpen
  BY DEF Init, LocksOfOpen
<1>2. Inv /\ LocksOfOpen /\ [Next]_vars => LocksOfOpen'
  <2>. SUFFICES ASSUME Inv, LocksOfOpen, [Next]_vars PROVE LocksOfOpen'
    OBVIOUS
  <2>1. CASE \E t \in Txns : Begin(t) \/ Step(t) \/ Crash(t)
    BY <2>1, StepLocks
  <2>2. CASE (\E v \in Readers : View(v) \/ ViewLost(v)) \/ UNCHANGED vars
    <3>1. UNCHANGED <<rowLock, pc>>
      BY <2>2 DEF View, ViewRead, ViewSum, ViewHeal, ViewLost, vars
    <3>. QED BY <3>1 DEF LocksOfOpen, Open
  <2>. QED BY <2>1, <2>2 DEF Next
<1>. QED BY <1>1, <1>2, Invariant, PTL DEF Spec

SomebodyMoves ==
  (\E t \in Txns : Open(t)) => \E t \in Txns : Open(t) /\ (~Waits(t) \/ Deadlocked(t))

\* While postings are open, one of them need not wait for a row, or they wait for
\* each other in a circle, of which PostgreSQL makes one fail: a posting never waits
\* for one that has ended.
THEOREM NoStandstill == Spec => []SomebodyMoves
<1>1. ASSUME Inv, LocksOfOpen PROVE SomebodyMoves
  <2> SUFFICES ASSUME NEW t \in Txns, Open(t), \A u \in Txns : Open(u) => Waits(u)
               PROVE  Deadlocked(t)
    BY DEF SomebodyMoves
  <2> DEFINE circle == {u \in Txns : Open(u)}
  <2>1. ASSUME NEW u \in circle
        PROVE  pc[u] = "save" /\ rowLock[Current(u).wh] \in circle \ {u}
    <3>1. u \in Txns /\ Waits(u)
      OBVIOUS
    <3>2. PostingTypes /\ leg[u] <= Len(Legs[u])
      BY <1>1, <3>1 DEF Waits, Inv, Types, PostingTypes
    <3>3. Current(u) \in Movements
      BY <3>1, <3>2, CurrentLeg
    <3>. QED BY <3>1, <3>3, <1>1 DEF Waits, LocksOfOpen, Movements
  <2>2. circle \in SUBSET Txns /\ t \in circle
    OBVIOUS
  <2>. HIDE DEF circle
  <2>. QED BY <2>1, <2>2 DEF Deadlocked
<1>. QED BY <1>1, Invariant, LocksEndWithPostings, PTL

\* All postings have ended, and what page views are about to write is the ledger's
\* value.
Settling ==
  /\ \A t \in Txns : pc[t] \in {"committed", "aborted"}
  /\ \A v \in Readers : view[v].pc = "heal" => view[v].onHand = ledger[view[v].wh]

RepairsLast ==
  [][Settling =>
       /\ Settling'
       /\ \A w \in Warehouses :
            onHand[w] = ledger[w] \/ onHand'[w] # onHand[w] => onHand'[w] = ledger'[w]]_vars

\* From then on a balance changes to the ledger's value only, and one that has it
\* keeps it, however page views overlap or are lost.
THEOREM RepairsAreFinal == Spec => RepairsLast
<1> DEFINE Lasts ==
      Settling =>
        /\ Settling'
        /\ \A w \in Warehouses :
             onHand[w] = ledger[w] \/ onHand'[w] # onHand[w] => onHand'[w] = ledger'[w]
<1>1. ASSUME Inv, Next PROVE Lasts
  <2> SUFFICES ASSUME Settling
               PROVE  /\ Settling'
                      /\ \A w \in Warehouses :
                           onHand[w] = ledger[w] \/ onHand'[w] # onHand[w] =>
                             onHand'[w] = ledger'[w]
    OBVIOUS
  <2>. Types /\ BalanceTypes /\ ViewTypes
    BY <1>1 DEF Inv, Types
  <2>1. ~\E t \in Txns : Begin(t) \/ Step(t) \/ Crash(t)
    <3> SUFFICES ASSUME NEW t \in Txns, Begin(t) \/ Step(t) \/ Crash(t) PROVE FALSE
      OBVIOUS
    <3>1. pc[t] \in {"idle", "leg", "save"}
      BY DEF Begin, Step, Read, Save, Commit, Refuse, DeadlockVictim, Deadlocked, Crash
    <3>. QED BY <3>1 DEF Settling
  <2>2. PICK v \in Readers : View(v) \/ ViewLost(v)
    BY <1>1, <2>1 DEF Next
  <2>3. UNCHANGED <<ledger, pc>>
    BY <2>2 DEF View, ViewRead, ViewSum, ViewHeal, ViewLost
  <2>4. /\ \A u \in Readers \ {v} : view'[u] = view[u]
        /\ view'[v].pc = "heal" => view'[v].onHand = ledger[view'[v].wh]
    <3>1. CASE \E w \in Warehouses : ViewRead(v, w)
      BY <3>1 DEF ViewRead, ViewTypes, Views
    <3>2. CASE ViewSum(v)
      BY <3>2 DEF ViewSum, ViewTypes, Views, IdleView
    <3>3. CASE ViewHeal(v) \/ ViewLost(v)
      BY <3>3 DEF ViewHeal, ViewLost, ViewTypes, Views, IdleView
    <3>. QED BY <2>2, <3>1, <3>2, <3>3 DEF View
  <2>5. Settling'
    BY <2>3, <2>4 DEF Settling
  <2>6. onHand' = onHand \/ onHand' = [onHand EXCEPT ![view[v].wh] = ledger[view[v].wh]]
    BY <2>2 DEF View, ViewRead, ViewSum, ViewHeal, ViewLost, Settling
  <2>7. \A w \in Warehouses :
          onHand[w] = ledger[w] \/ onHand'[w] # onHand[w] => onHand'[w] = ledger[w]
    BY <2>6 DEF BalanceTypes
  <2>. QED BY <2>3, <2>5, <2>7
<1>2. ASSUME UNCHANGED vars PROVE Lasts
  BY <1>2 DEF vars, Settling
<1>3. Inv /\ [Next]_vars => [Lasts]_vars
  BY <1>1, <1>2
<1>. QED BY <1>3, Invariant, PTL DEF Spec, RepairsLast
=================================================================================

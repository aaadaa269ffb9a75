---------------------------- MODULE StockPosting -----------------------------
(***************************************************************************)
(* Stock postings under PostgreSQL's READ COMMITTED isolation: several     *)
(* transactions (the post() of transfers, adjustments, receipts, ...) each *)
(* write ledger rows and change the balance of one item in some            *)
(* warehouses, while page views reconcile the balance table with the       *)
(* ledger.                                                                 *)
(*                                                                         *)
(* The document's own row is locked by its post(), the balance row is not: *)
(* updateBalance() reads it, computes in JavaScript and saves the absolute *)
(* result.  The UPDATE takes the row lock and keeps it to the end of the   *)
(* transaction.                                                            *)
(***************************************************************************)
EXTENDS Integers, Sequences, FiniteSets, Functions

CONSTANTS
  Txns,        \* postings
  Warehouses,
  Legs,        \* Legs[t]: the sequence of movements [wh, qty] of a posting, qty < 0 for OUT
  Opening,     \* opening stock per warehouse, which the ledger records too
  Readers,     \* page views that reconcile balances
  NoTxn

ASSUME ConstantsAssumption ==
  /\ IsFiniteSet(Txns)
  /\ Warehouses # {}
  /\ Legs \in [Txns -> Seq([wh: Warehouses, qty: Int])]
  /\ Opening \in [Warehouses -> Nat]
  /\ NoTxn \notin Txns

VARIABLES
  onHand,   \* inventory_balances.on_hand, as committed
  ledger,   \* net quantity of stock_ledger per warehouse, as committed
  rowLock,  \* the transaction that updated the balance row and is still open
  pending,  \* the value that transaction wrote
  pc,       \* state of each posting
  leg,      \* the movement it is at
  result,   \* the on-hand value updateBalance() computed
  moved,    \* ledger rows it inserted, net per warehouse
  view      \* state of each page view: [pc, wh, onHand]

vars == <<onHand, ledger, rowLock, pending, pc, leg, result, moved, view>>

NothingMoved == [w \in Warehouses |-> 0]
IdleView == [pc |-> "idle", wh |-> CHOOSE w \in Warehouses : TRUE, onHand |-> 0]

Init ==
  /\ onHand = Opening
  /\ ledger = Opening
  /\ rowLock = [w \in Warehouses |-> NoTxn]
  /\ pending = NothingMoved
  /\ pc = [t \in Txns |-> "idle"]
  /\ leg = [t \in Txns |-> 1]
  /\ result = [t \in Txns |-> 0]
  /\ moved = [t \in Txns |-> NothingMoved]
  /\ view = [v \in Readers |-> IdleView]

Current(t) == Legs[t][leg[t]]

\* What transaction t reads of a balance: its own write or the committed value.
Visible(t, w) == IF rowLock[w] = t THEN pending[w] ELSE onHand[w]

Begin(t) ==
  /\ pc[t] = "idle"
  /\ pc' = [pc EXCEPT ![t] = "leg"]
  /\ UNCHANGED <<onHand, ledger, rowLock, pending, leg, result, moved, view>>

\* Mutant: no check of the stock.
CoveredAlways(t) == TRUE

\* ledgerService.create(), then the read and the check of updateBalance().
Covered(t) == Visible(t, Current(t).wh) + Current(t).qty >= 0

\* Mutant: the ledger row is inserted on another connection.
ReadLedgerOutside(t) ==
  /\ pc[t] = "leg"
  /\ leg[t] <= Len(Legs[t])
  /\ Current(t).qty < 0 => Covered(t)
  /\ ledger' = [ledger EXCEPT ![Current(t).wh] = @ + Current(t).qty]
  /\ result' = [result EXCEPT ![t] = Visible(t, Current(t).wh) + Current(t).qty]
  /\ pc' = [pc EXCEPT ![t] = "save"]
  /\ UNCHANGED <<onHand, rowLock, pending, leg, moved, view>>

Read(t) ==
  /\ pc[t] = "leg"
  /\ leg[t] <= Len(Legs[t])
  /\ Current(t).qty < 0 => Covered(t)
  /\ moved' = [moved EXCEPT ![t][Current(t).wh] = @ + Current(t).qty]
  /\ result' = [result EXCEPT ![t] = Visible(t, Current(t).wh) + Current(t).qty]
  /\ pc' = [pc EXCEPT ![t] = "save"]
  /\ UNCHANGED <<onHand, ledger, rowLock, pending, leg, view>>

\* Mutants: the balance is saved on another connection, and the loop skips a leg.
SaveOutside(t) ==
  /\ pc[t] = "save"
  /\ rowLock[Current(t).wh] \in {NoTxn, t}
  /\ onHand' = [onHand EXCEPT ![Current(t).wh] = result[t]]
  /\ leg' = [leg EXCEPT ![t] = @ + 1]
  /\ pc' = [pc EXCEPT ![t] = "leg"]
  /\ UNCHANGED <<ledger, rowLock, pending, result, moved, view>>
SaveSkipping(t) ==
  /\ pc[t] = "save"
  /\ rowLock[Current(t).wh] \in {NoTxn, t}
  /\ rowLock' = [rowLock EXCEPT ![Current(t).wh] = t]
  /\ pending' = [pending EXCEPT ![Current(t).wh] = result[t]]
  /\ leg' = [leg EXCEPT ![t] = @ + 2]
  /\ pc' = [pc EXCEPT ![t] = "leg"]
  /\ UNCHANGED <<onHand, ledger, result, moved, view>>

\* repo.save(balance): waits for the row lock, then writes the absolute value.
Save(t) ==
  /\ pc[t] = "save"
  /\ rowLock[Current(t).wh] \in {NoTxn, t}
  /\ rowLock' = [rowLock EXCEPT ![Current(t).wh] = t]
  /\ pending' = [pending EXCEPT ![Current(t).wh] = result[t]]
  /\ leg' = [leg EXCEPT ![t] = @ + 1]
  /\ pc' = [pc EXCEPT ![t] = "leg"]
  /\ UNCHANGED <<onHand, ledger, result, moved, view>>

Held(t) == {w \in Warehouses : rowLock[w] = t}

\* Mutant: the transaction is left open.
EndLeftOpen(t, outcome) ==
  /\ pc' = [pc EXCEPT ![t] = outcome]
  /\ UNCHANGED <<rowLock, pending, leg, result, moved, view>>

End(t, outcome) ==
  /\ pc' = [pc EXCEPT ![t] = outcome]
  /\ rowLock' = [w \in Warehouses |-> IF w \in Held(t) THEN NoTxn ELSE rowLock[w]]
  /\ pending' = [w \in Warehouses |-> IF w \in Held(t) THEN 0 ELSE pending[w]]
  /\ UNCHANGED <<leg, result, moved, view>>

Commit(t) ==
  /\ pc[t] = "leg"
  /\ leg[t] > Len(Legs[t])
  /\ onHand' = [w \in Warehouses |-> IF w \in Held(t) THEN pending[w] ELSE onHand[w]]
  /\ ledger' = [w \in Warehouses |-> ledger[w] + moved[t][w]]
  /\ End(t, "committed")

Rollback(t) == End(t, "aborted") /\ UNCHANGED <<onHand, ledger>>

\* updateBalance() throws: "Insufficient stock".
Refuse(t) ==
  /\ pc[t] = "leg"
  /\ leg[t] <= Len(Legs[t])
  /\ Current(t).qty < 0 /\ ~Covered(t)
  /\ Rollback(t)

\* Transactions that wait for each other's balance rows in a circle; PostgreSQL
\* notices and makes one of them fail.
Deadlocked(t) ==
  \E circle \in SUBSET Txns :
    /\ t \in circle
    /\ \A u \in circle :
         pc[u] = "save" /\ rowLock[Current(u).wh] \in circle \ {u}
DeadlockVictim(t) == Deadlocked(t) /\ Rollback(t)

\* The process or its connection dies.
Crash(t) == pc[t] \in {"leg", "save"} /\ Rollback(t)

(***************************************************************************)
(* enrichDynamicReservations(): reads the balance, then sums the ledger,   *)
(* and when they differ updates the balance without waiting for the write. *)
(***************************************************************************)
ViewRead(v, w) ==
  /\ view[v].pc = "idle"
  /\ view' = [view EXCEPT ![v] = [pc |-> "sum", wh |-> w, onHand |-> onHand[w]]]
  /\ UNCHANGED <<onHand, ledger, rowLock, pending, pc, leg, result, moved>>

\* Mutant: a difference is shown but not repaired.
ViewSumOnly(v) ==
  /\ view[v].pc = "sum"
  /\ view' = [view EXCEPT ![v] = IdleView]
  /\ UNCHANGED <<onHand, ledger, rowLock, pending, pc, leg, result, moved>>

ViewSum(v) ==
  LET w == view[v].wh
  IN /\ view[v].pc = "sum"
     /\ view' = [view EXCEPT ![v] =
          IF view[v].onHand = ledger[w] THEN IdleView
          ELSE [pc |-> "heal", wh |-> w, onHand |-> ledger[w]]]
     /\ UNCHANGED <<onHand, ledger, rowLock, pending, pc, leg, result, moved>>

ViewHeal(v) ==
  /\ view[v].pc = "heal"
  /\ rowLock[view[v].wh] = NoTxn
  /\ onHand' = [onHand EXCEPT ![view[v].wh] = view[v].onHand]
  /\ view' = [view EXCEPT ![v] = IdleView]
  /\ UNCHANGED <<ledger, rowLock, pending, pc, leg, result, moved>>

\* The un-awaited update fails or the process dies: nobody notices.
ViewLost(v) ==
  /\ view[v].pc = "heal"
  /\ view' = [view EXCEPT ![v] = IdleView]
  /\ UNCHANGED <<onHand, ledger, rowLock, pending, pc, leg, result, moved>>

Step(t) == Read(t) \/ Save(t) \/ Commit(t) \/ Refuse(t) \/ DeadlockVictim(t)
View(v) == (\E w \in Warehouses : ViewRead(v, w)) \/ ViewSum(v) \/ ViewHeal(v)

Next ==
  \/ \E t \in Txns : Begin(t) \/ Step(t) \/ Crash(t)
  \/ \E v \in Readers : View(v) \/ ViewLost(v)

Spec == Init /\ [][Next]_vars

\* Statements are answered and a freed row lock goes to its waiters in turn.
FairPosting == \A t \in Txns : SF_vars(Step(t))

\* Somebody keeps looking at every balance, and his page view completes.
FairViewing ==
  \A v \in Readers :
    /\ \A w \in Warehouses : SF_vars(ViewRead(v, w))
    /\ WF_vars(ViewSum(v))
    /\ SF_vars(ViewHeal(v))

FairSpec == Spec /\ FairPosting /\ FairViewing

(***************************************************************************)
(* Properties.                                                             *)
(***************************************************************************)
TypeOK ==
  /\ onHand \in [Warehouses -> Int]
  /\ ledger \in [Warehouses -> Int]
  /\ rowLock \in [Warehouses -> Txns \cup {NoTxn}]
  /\ pending \in [Warehouses -> Int]
  /\ pc \in [Txns -> {"idle", "leg", "save", "committed", "aborted"}]
  /\ \A t \in Txns : leg[t] \in 1..(Len(Legs[t]) + 1)
  /\ result \in [Txns -> Int]
  /\ moved \in [Txns -> [Warehouses -> Int]]
  /\ view \in [Readers -> [pc: {"idle", "sum", "heal"}, wh: Warehouses, onHand: Int]]

\* What a posting moves in a warehouse when all its legs are done.
Net(t, w) == SumFunctionOnSet([i \in 1..Len(Legs[t]) |-> Legs[t][i].qty],
                              {i \in 1..Len(Legs[t]) : Legs[t][i].wh = w})
After(S, w) == Opening[w] + SumFunctionOnSet([t \in Txns |-> Net(t, w)], S)
Committed == {t \in Txns : pc[t] = "committed"}

\* The ledger holds every movement of the committed postings and nothing of the
\* others, whichever of them failed, crashed or lost a deadlock.
LedgerIsCommittedPosts == \A w \in Warehouses : ledger[w] = After(Committed, w)

\* A balance is the opening stock plus the whole movement of some of the
\* committed postings: updates get lost, but no reader, no reconciliation and
\* no interleaving ever makes half a posting or a rolled back one show.
NoInventedStock ==
  \A w \in Warehouses : \E S \in SUBSET Committed : onHand[w] = After(S, w)

\* Page views may write a negative balance, and a receipt may leave it so; but
\* what a posting that only issues from a warehouse leaves there is never
\* negative, however stale the balance it read.
Receives(t, w) ==
  \E i \in 1..Len(Legs[t]) : Legs[t][i].wh = w /\ Legs[t][i].qty >= 0
PostingNeverOverdraws ==
  [][\A t \in Txns, w \in Warehouses :
       (pc'[t] # pc[t] /\ onHand'[w] # onHand[w] /\ onHand'[w] < 0) => Receives(t, w)]_vars

\* Every posting that began ends, however the row locks cross.
PostingEnds == \A t \in Txns : pc[t] = "leg" ~> pc[t] \in {"committed", "aborted"}

\* As long as somebody looks at the balances, the ones that lost an update are
\* repaired: after the last posting they settle at the ledger's value.
BalancesSettle == <>[](\A w \in Warehouses : onHand[w] = ledger[w])

\* "Pessimistic locking for inventory updates" (docs/architecture/DATABASE.md,
\* 7.3): postings that have ended left the balances the ledger accounts for.
NoLostUpdate ==
  (\A t \in Txns : pc[t] \notin {"leg", "save"}) =>
    \A w \in Warehouses : onHand[w] = ledger[w]
=============================================================================

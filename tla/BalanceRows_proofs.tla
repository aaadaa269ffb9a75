-------------------------- MODULE BalanceRows_proofs ---------------------------
(***************************************************************************)
(* What movements and reservations do to the rows of an item in a          *)
(* warehouse, for any number of batches and any quantities, whatever       *)
(* earlier calls and page views made of the rows.                          *)
(*                                                                         *)
(* The loop of updateBalance() is a fold over a sequence: its turns are    *)
(* numbered (DrainTurns), Turned says what the first n of them leave, and  *)
(* DrainResult follows by induction on n.  LooseIssue adds what is done    *)
(* with the rest.  With these the theorems about InventoryBalance are      *)
(* about one step; its invariant (Inv) is that the rows are typed.         *)
(*                                                                         *)
(* The last part is about InventoryReservation, whose steps save copies of *)
(* rows that others have changed since: its invariant (ReservationInv)     *)
(* bounds every copy still to be saved.                                    *)
(***************************************************************************)
EXTENDS InventoryBalance, InventoryReservation, SumTheorems

(***************************************************************************)
(* The loop over the rows.                                                 *)
(***************************************************************************)
\* The recurrence of the fold in Drain, and the function it chooses.
DrainCase(g, base, order, s) ==
  IF s = {} THEN base ELSE TakeFrom(g[s \ {Max(s)}], order[Max(s)])
DrainIter(base, order) ==
  CHOOSE g : g = [s \in SUBSET DOMAIN order |-> DrainCase(g, base, order, s)]

\* The fold, with its choice of a function spelled out.
LEMMA DrainIsIter ==
  ASSUME NEW rs, NEW order, NEW q
  PROVE  Drain(rs, order, q) = DrainIter([rows |-> rs, rest |-> q], order)[DOMAIN order]
BY DEF Drain, FoldLeft, MapThenFoldSet, DrainIter, DrainCase

\* A set of numbers up to n + 1 without its largest is one of numbers up to n.
LEMMA MaxRemoved ==
  ASSUME NEW n \in Nat, NEW s \in SUBSET (1..(n + 1)), s # {}
  PROVE  s \ {Max(s)} \subseteq 1..n
<1>0. n + 1 \in Nat /\ \A y \in s : y \in Nat /\ 1 <= y /\ y <= n + 1
  OBVIOUS
<1>1. CASE n + 1 \in s
  <2>1. \A y \in s : n + 1 >= y
    BY <1>0
  <2>2. Max(s) \in s /\ \A y \in s : Max(s) >= y
    BY <1>1, <2>1 DEF Max
  <2>3. Max(s) >= n + 1 /\ Max(s) \in Nat /\ Max(s) <= n + 1
    BY <1>0, <1>1, <2>2
  <2>4. Max(s) = n + 1
    BY <2>3
  <2>5. \A y \in s \ {n + 1} : y <= n
    BY <1>0
  <2>. QED BY <1>0, <2>4, <2>5
<1>2. CASE n + 1 \notin s
  <2>1. \A y \in s : y # n + 1
    BY <1>2
  <2>2. s # 1..(n + 1)
    BY <1>0, <1>2
  <2>3. s \subseteq 1..n
    BY <1>0, <2>1
  <2>. QED BY <2>2, <2>3
<1>. QED BY <1>1, <1>2

\* The largest of 1..n is n, and without it 1..n is one shorter.
LEMMA MaxOfInterval ==
  ASSUME NEW n \in Nat, NEW m \in Nat, m + 1 = n
  PROVE  Max(1..n) = n /\ (1..n) \ {Max(1..n)} = 1..m
<1>0. n \in 1..n /\ \A y \in 1..n : n >= y /\ y \in Int
  OBVIOUS
<1>1. Max(1..n) \in 1..n /\ \A y \in 1..n : Max(1..n) >= y
  BY <1>0 DEF Max
<1>2. Max(1..n) = n
  BY <1>0, <1>1
<1>3. (1..n) \ {n} = 1..m
  OBVIOUS
<1>. QED BY <1>2, <1>3

\* The recurrence has a solution, so the fold, which chooses one, satisfies it.
LEMMA DrainIterDef ==
  ASSUME NEW N \in Nat, NEW base, NEW order, DOMAIN order = 1..N
  PROVE  \A s \in SUBSET (1..N) :
           DrainIter(base, order)[s] = DrainCase(DrainIter(base, order), base, order, s)
<1> DEFINE Solves(g, n) ==
             \A s \in SUBSET (1..N) : s \subseteq 1..n => g[s] = DrainCase(g, base, order, s)
           T == {n \in Nat : \E g : Solves(g, n)}
<1>1. 0 \in T
  <2> DEFINE g == [s \in SUBSET (1..N) |-> base]
  <2>1. Solves(g, 0)
    BY DEF DrainCase
  <2>. QED BY <2>1
<1>2. ASSUME NEW n \in Nat, n \in T PROVE n + 1 \in T
  <2>1. PICK g : Solves(g, n)
    BY <1>2
  <2> DEFINE h == [s \in SUBSET (1..N) |-> DrainCase(g, base, order, s)]
  <2>2. ASSUME NEW s \in SUBSET (1..N), s \subseteq 1..(n + 1)
        PROVE  h[s] = DrainCase(h, base, order, s)
    <3>1. CASE s = {}
      BY <3>1 DEF DrainCase
    <3>2. CASE s # {}
      <4> DEFINE rest == s \ {Max(s)}
      <4>1. rest \subseteq 1..n /\ rest \in SUBSET (1..N)
        BY <2>2, <3>2, MaxRemoved
      <4>2. h[rest] = g[rest]
        BY <2>1, <4>1
      <4>3. h[s] = TakeFrom(g[rest], order[Max(s)])
        BY <3>2 DEF DrainCase
      <4>4. DrainCase(h, base, order, s) = TakeFrom(h[rest], order[Max(s)])
        BY <3>2 DEF DrainCase
      <4>. QED BY <4>2, <4>3, <4>4
    <3>. QED BY <3>1, <3>2
  <2> HIDE DEF h
  <2>3. Solves(h, n + 1)
    BY <2>2
  <2> HIDE DEF Solves
  <2>. QED BY <2>3
<1>3. Nat \subseteq T
  <2> HIDE DEF T
  <2>. QED BY <1>1, <1>2, NatSet
<1>4. PICK g : Solves(g, N)
  BY <1>3
<1> DEFINE h == [s \in SUBSET (1..N) |-> g[s]]
<1>5. ASSUME NEW s \in SUBSET (1..N) PROVE h[s] = DrainCase(h, base, order, s)
  <2>1. s \ {Max(s)} \in SUBSET (1..N)
    OBVIOUS
  <2>2. h[s \ {Max(s)}] = g[s \ {Max(s)}]
    BY <2>1
  <2>3. g[s] = DrainCase(g, base, order, s)
    BY <1>4
  <2>. QED BY <2>2, <2>3 DEF DrainCase
<1>6. h = [s \in SUBSET (1..N) |-> DrainCase(h, base, order, s)]
  BY <1>5
<1> HIDE DEF h
<1>7. DrainIter(base, order) =
        [s \in SUBSET (1..N) |-> DrainCase(DrainIter(base, order), base, order, s)]
  BY <1>6 DEF DrainIter
<1>. QED BY <1>7

\* The loop visits the rows in order, one turn each.
LEMMA DrainTurns ==
  ASSUME NEW rs, NEW q, NEW N \in Nat, NEW order, DOMAIN order = 1..N
  PROVE  \E a : /\ a[0] = [rows |-> rs, rest |-> q]
                /\ \A n \in 1..N : a[n] = TakeFrom(a[n - 1], order[n])
                /\ Drain(rs, order, q) = a[N]
<1> DEFINE base == [rows |-> rs, rest |-> q]
           I == DrainIter(base, order)
           a == [n \in 0..N |-> I[1..n]]
<1>0. \A s \in SUBSET (1..N) : I[s] = DrainCase(I, base, order, s)
  BY DrainIterDef
<1>. HIDE DEF I
<1>1. a[0] = base
  <2>1. 1..0 = {} /\ {} \in SUBSET (1..N) /\ 0 \in 0..N
    OBVIOUS
  <2>2. I[{}] = base
    BY <1>0, <2>1 DEF DrainCase
  <2>. QED BY <2>1, <2>2
<1>2. ASSUME NEW n \in 1..N PROVE a[n] = TakeFrom(a[n - 1], order[n])
  <2>1. n - 1 \in Nat /\ n - 1 \in 0..N /\ n \in 0..N /\ (n - 1) + 1 = n
    OBVIOUS
  <2>2. 1..n \in SUBSET (1..N) /\ n \in 1..n
    OBVIOUS
  <2>3. Max(1..n) = n /\ (1..n) \ {Max(1..n)} = 1..(n - 1)
    BY <2>1, MaxOfInterval
  <2>4. I[1..n] = TakeFrom(I[1..(n - 1)], order[n])
    BY <1>0, <2>2, <2>3 DEF DrainCase
  <2>. QED BY <2>1, <2>4
<1>3. Drain(rs, order, q) = a[N]
  <2>1. Drain(rs, order, q) = I[1..N]
    BY DrainIsIter DEF I
  <2>. QED BY <2>1
<1>. HIDE DEF a
<1>. QED BY <1>1, <1>2, <1>3

(***************************************************************************)
(* Rows and their sum.                                                     *)
(***************************************************************************)
\* Rows of some of the item's keys.
IsRows(rs) == DOMAIN rs \subseteq Keys /\ rs \in [DOMAIN rs -> Row]

\* A row that reserves no more than it has and whose available column agrees.
Trimmed(row) ==
  /\ row.reserved \in 0..AtLeast(0, row.onHand)
  /\ row.available = row.onHand - row.reserved

\* A row that gave some of its stock, and kept the rest.
Gave(old, new) == new.onHand \in Nat /\ new.onHand < old.onHand /\ Trimmed(new)

\* There is a row per batch at most, and one without.
LEMMA FiniteRows ==
  ASSUME NEW rs, IsRows(rs)
  PROVE  IsFiniteSet(DOMAIN rs)
<1>1. IsFiniteSet(Keys)
  BY BatchAssumption, FS_AddElement DEF Keys
<1>. QED BY <1>1, FS_Subset DEF IsRows

\* Whole numbers add up to one.
LEMMA TotalType ==
  ASSUME NEW rs, IsRows(rs)
  PROVE  TotalOnHand(rs) \in Int
<1> DEFINE f == [k \in DOMAIN rs |-> rs[k].onHand]
<1>1. f \in [DOMAIN rs -> Int]
  BY DEF IsRows, Row
<1>2. TotalOnHand(rs) = SumFunction(f)
  BY DEF TotalOnHand, SumOf
<1>. HIDE DEF f
<1>. QED BY <1>1, <1>2, SumType, FiniteRows

\* The row of a key, or the new one.
LEMMA RowOfType ==
  ASSUME NEW rs, IsRows(rs), NEW k
  PROVE  RowOf(rs, k) \in Row
BY DEF RowOf, IsRows, EmptyRow, Row

\* Writing a row changes the sum of the rows by what it changes the row.
LEMMA SumWithRow ==
  ASSUME NEW rs, IsRows(rs), NEW k \in Keys, NEW row \in Row
  PROVE  /\ IsRows(WithRow(rs, k, row))
         /\ TotalOnHand(WithRow(rs, k, row)) =
              TotalOnHand(rs) - RowOf(rs, k).onHand + row.onHand
<1> DEFINE new == WithRow(rs, k, row)
           D == DOMAIN rs
           f == [j \in D |-> rs[j].onHand]
           g == [j \in D \cup {k} |-> new[j].onHand]
<1>1. IsRows(new)
  BY DEF IsRows, WithRow
<1>2. DOMAIN new = D \cup {k} /\ new[k] = row /\ \A j \in D \ {k} : new[j] = rs[j]
  BY DEF WithRow
<1>3. TotalOnHand(rs) = SumFunction(f) /\ TotalOnHand(new) = SumFunction(g)
  BY <1>2 DEF TotalOnHand, SumOf
<1>4. f \in [D -> Int] /\ g \in [D \cup {k} -> Int] /\ \A j \in D \ {k} : g[j] = f[j]
  BY <1>1, <1>2 DEF IsRows, Row
<1>5. g[k] = row.onHand /\ (k \in D => f[k] = rs[k].onHand) /\ row.onHand \in Int
  BY <1>2 DEF Row
<1>6. IsFiniteSet(D)
  BY FiniteRows
<1>. HIDE DEF f, g, new
<1>7. CASE k \in D
  <2>1. D \cup {k} = D
    BY <1>7
  <2>2. SumFunction(g) = SumFunction(f) - f[k] + g[k]
    BY <1>4, <1>6, <1>7, <2>1, SumChange
  <2>3. RowOf(rs, k) = rs[k]
    BY <1>7 DEF RowOf
  <2>. QED BY <1>1, <1>3, <1>5, <1>7, <2>2, <2>3 DEF new
<1>8. CASE k \notin D
  <2>1. SumFunction(g) = SumFunction(f) + g[k]
    <3>1. \A j \in D : g[j] = f[j]
      BY <1>4, <1>8
    <3>. QED BY <1>4, <1>6, <1>8, <3>1, SumExtend
  <2>2. RowOf(rs, k).onHand = 0
    BY <1>8 DEF RowOf, EmptyRow
  <2>3. SumFunction(f) \in Int
    BY <1>4, <1>6, SumType
  <2>4. SumFunction(g) = SumFunction(f) - 0 + row.onHand
    BY <1>5, <2>1, <2>3
  <2>. QED BY <1>1, <1>3, <2>2, <2>4 DEF new
<1>. QED BY <1>7, <1>8

\* What an OUT leaves of a row, to any quantity, is trimmed.
LEMMA LeftType ==
  ASSUME NEW row \in Row, NEW n \in Int
  PROVE  Left(row, n) \in Row /\ Left(row, n).onHand = n /\ Trimmed(Left(row, n))
BY DEF Left, Row, Trimmed, Clamp, AtLeast, AtMost

\* Rows without stock add up to no stock.
LEMMA EmptyTotal ==
  ASSUME NEW rs, IsRows(rs), \A k \in DOMAIN rs : rs[k].onHand <= 0
  PROVE  TotalOnHand(rs) <= 0
<1> DEFINE D == DOMAIN rs
           f == [j \in D |-> rs[j].onHand]
           z == [j \in D |-> 0]
<1>1. f \in [D -> Int] /\ z \in [D -> Int] /\ \A j \in D : f[j] <= z[j]
  BY DEF IsRows, Row
<1>2. TotalOnHand(rs) = SumFunction(f)
  BY DEF TotalOnHand, SumOf
<1>3. SumFunction(z) = 0
  BY FiniteRows, SumZero
<1>4. IsFiniteSet(D)
  BY FiniteRows
<1>. HIDE DEF f, z
<1>5. SumFunction(f) <= SumFunction(z)
  BY <1>1, <1>4, SumMonotonic
<1>. QED BY <1>2, <1>3, <1>5

\* One turn of the loop.
LEMMA Turn ==
  ASSUME NEW rs, IsRows(rs), NEW rest \in Nat, NEW k \in DOMAIN rs,
         NEW b, b = TakeFrom([rows |-> rs, rest |-> rest], k)
  PROVE  /\ IsRows(b.rows) /\ DOMAIN b.rows = DOMAIN rs
         /\ b.rest \in Nat /\ b.rest <= rest
         /\ TotalOnHand(b.rows) - b.rest = TotalOnHand(rs) - rest
         /\ \A j \in DOMAIN rs \ {k} : b.rows[j] = rs[j]
         /\ b.rows[k] # rs[k] => Gave(rs[k], b.rows[k]) /\ rest > 0
         /\ b.rest > 0 => b.rows[k].onHand <= 0
<1> DEFINE take == AtMost(rest, AtLeast(0, rs[k].onHand))
           n == rs[k].onHand - take
           row == Left(rs[k], n)
<1>0. k \in Keys /\ rs[k] \in Row /\ rs[k].onHand \in Int /\ RowOf(rs, k) = rs[k]
  BY DEF IsRows, Row, RowOf
<1>1. take \in Nat /\ take <= rest /\ (take > 0 => take <= rs[k].onHand)
      /\ (take = rest \/ rs[k].onHand <= take)
  BY <1>0 DEF AtMost, AtLeast
<1>2. CASE take = 0
  <2>1. b = [rows |-> rs, rest |-> rest]
    BY <1>2 DEF TakeFrom
  <2>2. b.rows = rs /\ b.rest = rest
    BY <2>1
  <2>3. rest > 0 => rs[k].onHand <= 0
    BY <1>0, <1>1, <1>2
  <2>4. TotalOnHand(rs) - rest = TotalOnHand(rs) - rest
    OBVIOUS
  <2>. QED BY <2>2, <2>3
<1>3. CASE take # 0
  <2>1. n \in Int /\ n \in Nat /\ n < rs[k].onHand /\ rest - take \in Nat /\ rest > 0
        /\ (rest - take > 0 => n <= 0)
    BY <1>0, <1>1, <1>3
  <2>2. b = [rows |-> WithRow(rs, k, row), rest |-> rest - take]
    BY <1>3 DEF TakeFrom
  <2>3. b.rest = rest - take /\ b.rows = WithRow(rs, k, row)
    <3>. HIDE DEF take, row
    <3>. QED BY <2>2
  <2>4. row \in Row /\ row.onHand = n /\ Trimmed(row)
    <3>. HIDE DEF n
    <3>. QED BY <1>0, <2>1, LeftType
  <2>. HIDE DEF n, row, take
  <2>5. IsRows(b.rows) /\ TotalOnHand(b.rows) = TotalOnHand(rs) - rs[k].onHand + n
    BY <1>0, <2>3, <2>4, SumWithRow
  <2>6. DOMAIN b.rows = DOMAIN rs /\ b.rows[k] = row /\ \A j \in DOMAIN rs \ {k} : b.rows[j] = rs[j]
    BY <2>3 DEF WithRow
  <2>7. TotalOnHand(rs) \in Int
    BY TotalType
  <2>8. TotalOnHand(b.rows) - b.rest = TotalOnHand(rs) - rest
    <3>1. n = rs[k].onHand - take
      BY DEF n
    <3>. QED BY <1>0, <1>1, <2>3, <2>5, <2>7, <3>1
  <2>9. b.rest \in Nat /\ b.rest <= rest /\ (b.rest > 0 => row.onHand <= 0)
    BY <1>1, <2>1, <2>3, <2>4
  <2>10. Gave(rs[k], row) /\ rest > 0
    BY <2>1, <2>4 DEF Gave
  <2>. QED BY <2>5, <2>6, <2>8, <2>9, <2>10
<1>. QED BY <1>2, <1>3

\* A candidate order visits every row once.
LEMMA OrderIsBijection ==
  ASSUME NEW rs, IsRows(rs), NEW order \in Candidates(rs)
  PROVE  \E N \in Nat :
           /\ order \in [1..N -> DOMAIN rs]
           /\ \A i, j \in 1..N : i # j => order[i] # order[j]
           /\ \A k \in DOMAIN rs : \E i \in 1..N : order[i] = k
           /\ \A i, j \in 1..N : i < j => Before(rs, order[i], order[j])
<1> DEFINE D == DOMAIN rs
           N == Cardinality(D)
           I == 1..N
<1>1. IsFiniteSet(D) /\ N \in Nat
  BY FiniteRows, FS_CardinalityType
<1>2. order \in [I -> D] /\ \A i, j \in I : i # j => order[i] # order[j]
  BY DEF Candidates, SetToSeqs
<1>3. Cardinality(I) = N
  BY <1>1, FS_Interval
<1>4. order \in Surjection(I, D)
  <2>1. order \in Injection(I, D)
    <3>. HIDE DEF I, D
    <3>. QED BY <1>2 DEF Injection, IsInjective
  <2>. QED BY <1>1, <1>3, <2>1, FS_Injection
<1>5. \A k \in D : \E i \in I : order[i] = k
  <2>. HIDE DEF I, D
  <2>. QED BY <1>4 DEF Surjection
<1>6. \A i, j \in I : i < j => Before(rs, order[i], order[j])
  <2>1. DOMAIN order = I
    BY <1>2
  <2>2. \A i, j \in DOMAIN order : i < j => Before(rs, order[i], order[j])
    BY DEF Candidates
  <2>. QED BY <2>1, <2>2
<1>. QED BY <1>1, <1>2, <1>5, <1>6

\* What the loop has done to rows rs after its first n turns, q being asked.
Turned(rs, order, q, N, n, acc) ==
  /\ IsRows(acc.rows) /\ DOMAIN acc.rows = DOMAIN rs
  /\ acc.rest \in Nat
  /\ TotalOnHand(acc.rows) - acc.rest = TotalOnHand(rs) - q
  /\ \A k \in DOMAIN rs : acc.rows[k] = rs[k] \/ Gave(rs[k], acc.rows[k])
  /\ \A i \in 1..N : n < i => acc.rows[order[i]] = rs[order[i]]
  /\ acc.rest > 0 => \A i \in 1..n : acc.rows[order[i]].onHand <= 0
  /\ \A i \in 1..n : acc.rows[order[i]] # rs[order[i]] =>
       \A h \in 1..n : h < i => acc.rows[order[h]].onHand <= 0

\* One more turn keeps what the turns before it left.
LEMMA TurnedOnce ==
  ASSUME NEW rs, IsRows(rs), NEW q \in Nat, NEW N \in Nat,
         NEW order \in [1..N -> DOMAIN rs],
         \A i, j \in 1..N : i # j => order[i] # order[j],
         NEW n \in 1..N, NEW a, IsRows(a.rows), a = [rows |-> a.rows, rest |-> a.rest],
         Turned(rs, order, q, N, n - 1, a),
         NEW b, b = TakeFrom(a, order[n])
  PROVE  Turned(rs, order, q, N, n, b)
<1> DEFINE k == order[n]
           D == DOMAIN rs
<1>1. k \in D /\ \A i \in 1..N : order[i] \in D /\ (i # n => order[i] \in D \ {k})
  OBVIOUS
<1>2. IsRows(a.rows) /\ DOMAIN a.rows = D /\ a.rest \in Nat
      /\ TotalOnHand(a.rows) - a.rest = TotalOnHand(rs) - q
  BY DEF Turned
<1>3. /\ \A j \in D : a.rows[j] = rs[j] \/ Gave(rs[j], a.rows[j])
      /\ \A i \in 1..N : n - 1 < i => a.rows[order[i]] = rs[order[i]]
      /\ a.rest > 0 => \A i \in 1..(n - 1) : a.rows[order[i]].onHand <= 0
      /\ \A i \in 1..(n - 1) : a.rows[order[i]] # rs[order[i]] =>
           \A h \in 1..(n - 1) : h < i => a.rows[order[h]].onHand <= 0
  BY DEF Turned
<1>. HIDE DEF k, D
<1>4. /\ IsRows(b.rows) /\ DOMAIN b.rows = D
      /\ b.rest \in Nat /\ b.rest <= a.rest
      /\ TotalOnHand(b.rows) - b.rest = TotalOnHand(a.rows) - a.rest
      /\ \A j \in D \ {k} : b.rows[j] = a.rows[j]
      /\ b.rows[k] # a.rows[k] => Gave(a.rows[k], b.rows[k]) /\ a.rest > 0
      /\ b.rest > 0 => b.rows[k].onHand <= 0
  <2>1. b = TakeFrom([rows |-> a.rows, rest |-> a.rest], k) /\ k \in DOMAIN a.rows
    BY <1>1, <1>2 DEF k
  <2>. QED BY <1>2, <2>1, Turn
<1>5. \A i \in 1..N : i # n => b.rows[order[i]] = a.rows[order[i]]
  BY <1>1, <1>4
<1>6. a.rows[k] = rs[k]
  BY <1>3 DEF k
<1>7. \A j \in D : b.rows[j] = rs[j] \/ Gave(rs[j], b.rows[j])
  BY <1>1, <1>3, <1>4, <1>6
<1>8. \A i \in 1..N : n < i => b.rows[order[i]] = rs[order[i]]
  BY <1>3, <1>5
<1>9. ASSUME b.rest > 0, NEW i \in 1..n PROVE b.rows[order[i]].onHand <= 0
  <2>1. CASE i = n
    BY <1>4, <1>9, <2>1 DEF k
  <2>2. CASE i # n
    <3>1. i \in 1..(n - 1) /\ i \in 1..N /\ a.rest > 0
      BY <1>2, <1>4, <1>9, <2>2
    <3>. QED BY <1>3, <1>5, <2>2, <3>1
  <2>. QED BY <2>1, <2>2
<1>10. ASSUME NEW i \in 1..n, b.rows[order[i]] # rs[order[i]], NEW h \in 1..n, h < i
       PROVE  b.rows[order[h]].onHand <= 0
  <2>1. h \in 1..(n - 1) /\ h \in 1..N /\ h # n /\ i \in 1..N
    BY <1>10
  <2>2. b.rows[order[h]] = a.rows[order[h]]
    BY <1>5, <2>1
  <2>3. CASE i = n
    <3>1. a.rest > 0
      BY <1>4, <1>6, <1>10, <2>3 DEF k
    <3>. QED BY <1>3, <2>1, <2>2, <3>1
  <2>4. CASE i # n
    <3>1. i \in 1..(n - 1) /\ a.rows[order[i]] # rs[order[i]]
      BY <1>5, <1>10, <2>1, <2>4
    <3>. QED BY <1>3, <1>10, <2>1, <2>2, <3>1
  <2>. QED BY <2>3, <2>4
<1>11. TotalOnHand(b.rows) - b.rest = TotalOnHand(rs) - q
  BY <1>2, <1>4
<1>. QED BY <1>4, <1>7, <1>8, <1>9, <1>10, <1>11 DEF Turned, D

\* What an issue without a batch has taken from the rows when its loop ends.
LEMMA DrainResult ==
  ASSUME NEW rs, IsRows(rs), NEW q \in Nat, NEW order \in Candidates(rs)
  PROVE  \E N \in Nat :
           /\ order \in [1..N -> DOMAIN rs]
           /\ \A k \in DOMAIN rs : \E i \in 1..N : order[i] = k
           /\ \A i, j \in 1..N : i < j => Before(rs, order[i], order[j])
           /\ Turned(rs, order, q, N, N, Drain(rs, order, q))
<1>1. PICK N \in Nat :
           /\ order \in [1..N -> DOMAIN rs]
           /\ \A i, j \in 1..N : i # j => order[i] # order[j]
           /\ \A k \in DOMAIN rs : \E i \in 1..N : order[i] = k
           /\ \A i, j \in 1..N : i < j => Before(rs, order[i], order[j])
  BY OrderIsBijection
<1>2. PICK a : /\ a[0] = [rows |-> rs, rest |-> q]
               /\ \A n \in 1..N : a[n] = TakeFrom(a[n - 1], order[n])
               /\ Drain(rs, order, q) = a[N]
  <2>1. DOMAIN order = 1..N
    BY <1>1
  <2>. QED BY SMTT(30), <2>1, DrainTurns
<1> DEFINE Pair(acc) == acc = [rows |-> acc.rows, rest |-> acc.rest]
           T == {n \in Nat : n <= N => Pair(a[n]) /\ Turned(rs, order, q, N, n, a[n])}
<1>3. 0 \in T
  <2>1. Pair(a[0]) /\ a[0].rows = rs /\ a[0].rest = q
    BY <1>2
  <2>2. Turned(rs, order, q, N, 0, a[0])
    BY <2>1 DEF Turned
  <2>. QED BY <2>1, <2>2
<1>4. ASSUME NEW n \in Nat, n \in T PROVE n + 1 \in T
  <2> SUFFICES ASSUME n + 1 <= N
               PROVE  Pair(a[n + 1]) /\ Turned(rs, order, q, N, n + 1, a[n + 1])
    OBVIOUS
  <2>1. n + 1 \in 1..N /\ (n + 1) - 1 = n /\ n <= N
    OBVIOUS
  <2>2. Pair(a[n]) /\ Turned(rs, order, q, N, n, a[n])
    BY <1>4, <2>1
  <2>3. a[n + 1] = TakeFrom(a[n], order[n + 1])
    BY <1>2, <2>1
  <2>4. IsRows(a[n].rows)
    BY <2>2 DEF Turned
  <2>5. Turned(rs, order, q, N, n + 1, a[n + 1])
    <3> DEFINE m == n + 1
    <3>1. m \in 1..N /\ m - 1 = n
      BY <2>1
    <3>. HIDE DEF m
    <3>2. a[m] = TakeFrom(a[n], order[m])
      BY <2>3 DEF m
    <3>3. Turned(rs, order, q, N, m - 1, a[n])
      BY <2>2, <3>1
    <3>4. Turned(rs, order, q, N, m, a[m])
      BY <1>1, <2>2, <2>4, <3>1, <3>2, <3>3, TurnedOnce
    <3>. QED BY <3>4 DEF m
  <2>6. Pair(a[n + 1])
    BY <2>2, <2>3 DEF TakeFrom
  <2>. QED BY <2>5, <2>6
<1>5. N \in T
  <2>. HIDE DEF T
  <2>1. Nat \subseteq T
    BY <1>3, <1>4, NatSet
  <2>. QED BY <2>1
<1>6. Turned(rs, order, q, N, N, Drain(rs, order, q))
  BY <1>2, <1>5
<1>. HIDE DEF T
<1>. QED BY <1>1, <1>6

\* What an issue without a batch does: it takes q in all; every row it touched is
\* trimmed; and either the rows had less than q and none has anything left, or
\* rows only gave what they had, each after every row that comes before it.
LEMMA LooseIssue ==
  ASSUME NEW rs, IsRows(rs), NEW q \in Nat, NEW order \in Candidates(rs),
         NEW new, new = IssueLoose(rs, order, q)
  PROVE  /\ IsRows(new)
         /\ TotalOnHand(new) = TotalOnHand(rs) - q
         /\ \A k \in DOMAIN new : new[k] # RowOf(rs, k) => Trimmed(new[k])
         /\ \/ /\ q > TotalOnHand(rs) /\ DOMAIN rs \subseteq DOMAIN new
               /\ \A k \in DOMAIN new : new[k].onHand <= 0
            \/ /\ DOMAIN new = DOMAIN rs
               /\ \A k \in DOMAIN rs : new[k] = rs[k] \/ Gave(rs[k], new[k])
               /\ \A j, k \in DOMAIN rs :
                    new[k] # rs[k] /\ j # k /\ ~Before(rs, k, j) => new[j].onHand <= 0
<1> DEFINE d == Drain(rs, order, q)
           D == DOMAIN rs
<1>1. PICK N \in Nat :
           /\ order \in [1..N -> DOMAIN rs]
           /\ \A k \in DOMAIN rs : \E i \in 1..N : order[i] = k
           /\ \A i, j \in 1..N : i < j => Before(rs, order[i], order[j])
           /\ Turned(rs, order, q, N, N, Drain(rs, order, q))
  BY DrainResult
<1>. HIDE DEF d
<1>2. /\ IsRows(d.rows) /\ DOMAIN d.rows = D
      /\ d.rest \in Nat
      /\ TotalOnHand(d.rows) - d.rest = TotalOnHand(rs) - q
      /\ \A k \in D : d.rows[k] = rs[k] \/ Gave(rs[k], d.rows[k])
      /\ d.rest > 0 => \A i \in 1..N : d.rows[order[i]].onHand <= 0
      /\ \A i \in 1..N : d.rows[order[i]] # rs[order[i]] =>
           \A h \in 1..N : h < i => d.rows[order[h]].onHand <= 0
  BY <1>1 DEF Turned, d
<1>3. TotalOnHand(d.rows) \in Int /\ TotalOnHand(rs) \in Int
  BY <1>2, TotalType
<1>4. \A k \in D : RowOf(rs, k) = rs[k] /\ (d.rows[k] # rs[k] => Trimmed(d.rows[k]))
  BY <1>2 DEF RowOf, Gave
<1>5. CASE d.rest = 0
  <2>1. new = d.rows
    BY <1>5 DEF IssueLoose, d
  <2>2. TotalOnHand(new) = TotalOnHand(rs) - q
    BY <1>2, <1>3, <1>5, <2>1
  <2>3. ASSUME NEW j \in D, NEW k \in D, new[k] # rs[k], j # k, ~Before(rs, k, j)
        PROVE  new[j].onHand <= 0
    <3>1. PICK i \in 1..N : order[i] = k
      BY <1>1
    <3>2. PICK h \in 1..N : order[h] = j
      BY <1>1
    <3>3. ~(i < h)
      BY <1>1, <2>3, <3>1, <3>2
    <3>4. i # h
      BY <2>3, <3>1, <3>2
    <3>5. h < i
      BY <3>3, <3>4
    <3>. QED BY <1>2, <2>1, <2>3, <3>1, <3>2, <3>5
  <2>. QED BY <1>2, <1>4, <2>1, <2>2, <2>3
<1>6. CASE d.rest # 0
  <2> DEFINE k == Debtor(rs, order)
             old == RowOf(d.rows, k)
             row == Left(old, old.onHand - d.rest)
  <2>1. \A j \in D : d.rows[j].onHand <= 0
    BY <1>1, <1>2, <1>6
  <2>2. q > TotalOnHand(rs)
    <3>1. TotalOnHand(d.rows) <= 0
      BY <1>2, <2>1, EmptyTotal
    <3>. QED BY <1>2, <1>3, <1>6, <3>1
  <2>3. k \in Keys
    <3>1. CASE NoBatch \in DOMAIN rs \/ order = <<>>
      BY <3>1 DEF Debtor, Keys
    <3>2. CASE NoBatch \notin DOMAIN rs /\ order # <<>>
      <4>1. N # 0
        <5>1. N = 0 => order = <<>>
          BY <1>1
        <5>. QED BY <3>2, <5>1
      <4>2. order[1] \in DOMAIN rs
        BY <1>1, <4>1
      <4>. QED BY <3>2, <4>2 DEF Debtor, IsRows
    <3>. QED BY <3>1, <3>2
  <2>. HIDE DEF k
  <2>4. old \in Row /\ old.onHand \in Int /\ old.onHand <= 0
    <3>1. old \in Row
      BY <1>2, RowOfType
    <3>2. old.onHand <= 0
      BY <1>2, <2>1 DEF RowOf, EmptyRow
    <3>. QED BY <3>1, <3>2 DEF Row
  <2>5. new = WithRow(d.rows, k, row)
    BY <1>6 DEF IssueLoose, d, k
  <2>. HIDE DEF old
  <2>6. row \in Row /\ row.onHand = old.onHand - d.rest /\ Trimmed(row)
    <3>1. old.onHand - d.rest \in Int
      BY <1>2, <2>4
    <3>. QED BY <2>4, <3>1, LeftType
  <2>. HIDE DEF row
  <2>7. IsRows(new) /\ TotalOnHand(new) = TotalOnHand(d.rows) - old.onHand + row.onHand
    BY <1>2, <2>3, <2>5, <2>6, SumWithRow DEF old
  <2>8. TotalOnHand(new) = TotalOnHand(rs) - q
    BY <1>2, <1>3, <2>4, <2>6, <2>7
  <2>9. DOMAIN new = D \cup {k} /\ new[k] = row /\ \A j \in D \ {k} : new[j] = d.rows[j]
    BY <1>2, <2>5 DEF WithRow
  <2>10. row.onHand <= 0
    BY <1>2, <2>4, <2>6
  <2>11. \A j \in DOMAIN new : new[j].onHand <= 0
    BY <2>1, <2>9, <2>10
  <2>12. \A j \in DOMAIN new : new[j] # RowOf(rs, j) => Trimmed(new[j])
    BY <1>4, <2>6, <2>9
  <2>. QED BY <2>2, <2>7, <2>8, <2>9, <2>11, <2>12
<1>. QED BY <1>5, <1>6

\* What an issue of a batch does: it changes that row alone, by all of q.
LEMMA BatchIssue ==
  ASSUME NEW rs, IsRows(rs), NEW q \in Nat, NEW k \in Keys,
         NEW new, new = IssueBatch(rs, k, q)
  PROVE  /\ IsRows(new)
         /\ TotalOnHand(new) = TotalOnHand(rs) - q
         /\ \A j \in DOMAIN new : new[j] # RowOf(rs, j) => j = k /\ Trimmed(new[j])
         /\ k \in DOMAIN new /\ new[k].onHand = RowOf(rs, k).onHand - q
<1> DEFINE old == RowOf(rs, k)
           row == Left(old, old.onHand - q)
<1>1. old \in Row /\ old.onHand \in Int /\ old.onHand - q \in Int
  <2>1. old \in Row
    BY RowOfType
  <2>. QED BY <2>1 DEF Row
<1>2. new = WithRow(rs, k, row)
  BY DEF IssueBatch
<1>. HIDE DEF old
<1>3. row \in Row /\ row.onHand = old.onHand - q /\ Trimmed(row)
  BY <1>1, LeftType
<1>. HIDE DEF row
<1>4. IsRows(new) /\ TotalOnHand(new) = TotalOnHand(rs) - old.onHand + row.onHand
  BY <1>2, <1>3, SumWithRow DEF old
<1>5. TotalOnHand(rs) \in Int
  BY TotalType
<1>6. DOMAIN new = DOMAIN rs \cup {k} /\ new[k] = row
      /\ \A j \in DOMAIN rs \ {k} : new[j] = rs[j] /\ RowOf(rs, j) = rs[j]
  BY <1>2 DEF WithRow, RowOf
<1>. QED BY <1>1, <1>3, <1>4, <1>5, <1>6 DEF old

\* A receipt of a row.
LEMMA ReceiveType ==
  ASSUME NEW row \in Row, NEW q \in Nat
  PROVE  Receive(row, q) \in Row /\ Receive(row, q).onHand = row.onHand + q
<1>1. row.onHand + q \in Int /\ row.onHand + q - row.reserved \in Int
  BY DEF Row
<1>. QED BY <1>1 DEF Receive, Row

\* A receipt changes the sum by what is received.
LEMMA Receipt ==
  ASSUME NEW rs, IsRows(rs), NEW q \in Nat, NEW k \in Keys,
         NEW new, new = WithRow(rs, k, Receive(RowOf(rs, k), q))
  PROVE  IsRows(new) /\ TotalOnHand(new) = TotalOnHand(rs) + q
<1> DEFINE old == RowOf(rs, k)
           row == Receive(old, q)
<1>1. old \in Row /\ old.onHand \in Int
  <2>1. old \in Row
    BY RowOfType
  <2>. QED BY <2>1 DEF Row
<1>. HIDE DEF old
<1>2. row \in Row /\ row.onHand = old.onHand + q
  BY <1>1, ReceiveType
<1>3. new = WithRow(rs, k, row)
  BY DEF old
<1>. HIDE DEF row
<1>4. IsRows(new) /\ TotalOnHand(new) = TotalOnHand(rs) - old.onHand + row.onHand
  BY <1>2, <1>3, SumWithRow DEF old
<1>5. TotalOnHand(rs) \in Int
  BY TotalType
<1>. QED BY <1>1, <1>2, <1>4, <1>5

(***************************************************************************)
(* Calls one at a time: InventoryBalance.                                  *)
(***************************************************************************)
Inv == TypeOK /\ IsRows(rows)

\* The parts of the invariant that are enough.
LEMMA RowsTyped ==
  ASSUME IsRows(rows), ledger \in Int, policy \in BOOLEAN, loose \in BOOLEAN,
         receipts \in 0..MaxReceipts
  PROVE  Inv
BY DEF IsRows, Inv, TypeOK

\* There is no row at first.
LEMMA InitInv == Init => Inv
<1> SUFFICES ASSUME Init PROVE Inv
  OBVIOUS
<1>1. IsRows(rows)
  <2>1. DOMAIN rows = {} /\ rows \in [{} -> Row]
    BY DEF Init
  <2>. QED BY <2>1 DEF IsRows
<1>2. ledger \in Int /\ receipts \in 0..MaxReceipts
  BY ConstantsAssumption DEF Init
<1>3. policy \in BOOLEAN /\ loose \in BOOLEAN
  BY DEF Init
<1>. QED BY <1>1, <1>2, <1>3, RowsTyped

\* The types of what a step assigns.
LEMMA StepTypes ==
  ASSUME Inv, IsRows(rows)', ledger' \in Int, UNCHANGED policy, loose' \in BOOLEAN,
         receipts' \in 0..MaxReceipts
  PROVE  Inv'
<1>1. policy' \in BOOLEAN
  BY DEF Inv, TypeOK
<1>2. \A k \in DOMAIN rows' : rows'[k] \in Row
  BY DEF IsRows
<1>. QED BY <1>1, <1>2 DEF Inv, TypeOK, IsRows

\* Every receipt.
LEMMA InStep ==
  ASSUME Inv, NEW k \in Keys, NEW q \in Quantities, In(k, q)
  PROVE  Inv' /\ TotalOnHand(rows') = TotalOnHand(rows) + q /\ ledger' > ledger
<1>1. q \in Nat /\ q > 0 /\ MaxReceipts \in Nat
  BY ConstantsAssumption, QuantityAssumption
<1>2. IsRows(rows') /\ TotalOnHand(rows') = TotalOnHand(rows) + q
  BY <1>1, Receipt DEF In, Inv
<1>3. ledger \in Int /\ receipts \in 0..MaxReceipts
  BY DEF Inv, TypeOK
<1>4. ledger' \in Int /\ ledger' > ledger /\ receipts' \in 0..MaxReceipts
  BY <1>1, <1>3 DEF In
<1>5. Inv'
  BY <1>2, <1>4, StepTypes DEF In
<1>. QED BY <1>2, <1>4, <1>5

\* Every issue of a batch; it is covered unless the policy allows debt.
LEMMA OutBatchStep ==
  ASSUME Inv, NEW k \in Keys, NEW q \in Quantities, OutBatch(k, q)
  PROVE  /\ Inv' /\ TotalOnHand(rows') = TotalOnHand(rows) - q /\ ~loose'
         /\ \A j \in DOMAIN rows' : rows'[j] # RowOf(rows, j) => Trimmed(rows'[j])
         /\ ~policy => \A j \in DOMAIN rows' :
              rows'[j].onHand < RowOf(rows, j).onHand => rows'[j].onHand >= 0
<1>1. q \in Nat /\ q > 0 /\ rows' = IssueBatch(rows, k, q) /\ IsRows(rows)
  BY QuantityAssumption DEF OutBatch, Inv
<1>2. /\ IsRows(rows')
      /\ TotalOnHand(rows') = TotalOnHand(rows) - q
      /\ \A j \in DOMAIN rows' : rows'[j] # RowOf(rows, j) => j = k /\ Trimmed(rows'[j])
      /\ k \in DOMAIN rows' /\ rows'[k].onHand = RowOf(rows, k).onHand - q
  BY <1>1, BatchIssue
<1>3. RowOf(rows, k).onHand \in Int
  BY <1>1, RowOfType DEF Row
<1>4. ~policy => rows'[k].onHand >= 0
  BY <1>1, <1>2, <1>3 DEF OutBatch, Covered
<1>5. ASSUME ~policy, NEW j \in DOMAIN rows', rows'[j].onHand < RowOf(rows, j).onHand
      PROVE  rows'[j].onHand >= 0
  <2>1. rows'[j] # RowOf(rows, j)
    <3>1. rows'[j] \in Row /\ rows'[j].onHand \in Int
      BY <1>2 DEF IsRows, Row
    <3>. QED BY <1>5, <3>1
  <2>. QED BY <1>2, <1>4, <1>5, <2>1
<1>6. ledger' \in Int /\ receipts' \in 0..MaxReceipts
  BY <1>1 DEF OutBatch, Inv, TypeOK
<1>7. Inv' /\ ~loose'
  BY <1>2, <1>6, StepTypes DEF OutBatch
<1>. QED BY <1>2, <1>5, <1>7

\* Every issue without a batch; it finds less than it takes only under a policy.
LEMMA OutLooseStep ==
  ASSUME Inv, NEW q \in Quantities, OutLoose(q)
  PROVE  /\ Inv' /\ TotalOnHand(rows') = TotalOnHand(rows) - q
         /\ \A j \in DOMAIN rows' : rows'[j] # RowOf(rows, j) => Trimmed(rows'[j])
         /\ \/ /\ q > TotalOnHand(rows) /\ policy /\ DOMAIN rows \subseteq DOMAIN rows'
               /\ \A k \in DOMAIN rows' : rows'[k].onHand <= 0
            \/ /\ DOMAIN rows' = DOMAIN rows
               /\ \A k \in DOMAIN rows : rows'[k] = rows[k] \/ Gave(rows[k], rows'[k])
               /\ \A j, k \in DOMAIN rows :
                    rows'[k] # rows[k] /\ j # k /\ ~Before(rows, k, j) => rows'[j].onHand <= 0
<1>1. PICK order \in Candidates(rows) : rows' = IssueLoose(rows, order, q)
  BY DEF OutLoose
<1>2. q \in Nat /\ IsRows(rows)
  BY QuantityAssumption DEF Inv
<1>3. /\ IsRows(rows')
      /\ TotalOnHand(rows') = TotalOnHand(rows) - q
      /\ \A k \in DOMAIN rows' : rows'[k] # RowOf(rows, k) => Trimmed(rows'[k])
      /\ \/ /\ q > TotalOnHand(rows) /\ DOMAIN rows \subseteq DOMAIN rows'
            /\ \A k \in DOMAIN rows' : rows'[k].onHand <= 0
         \/ /\ DOMAIN rows' = DOMAIN rows
            /\ \A k \in DOMAIN rows : rows'[k] = rows[k] \/ Gave(rows[k], rows'[k])
            /\ \A j, k \in DOMAIN rows :
                 rows'[k] # rows[k] /\ j # k /\ ~Before(rows, k, j) => rows'[j].onHand <= 0
  BY <1>1, <1>2, LooseIssue
<1>4. TotalOnHand(rows) \in Int
  BY <1>2, TotalType
<1>5. q > TotalOnHand(rows) => policy
  BY <1>2, <1>4 DEF OutLoose, Covered, Inv, TypeOK
<1>6. ledger' \in Int /\ receipts' \in 0..MaxReceipts
  BY <1>2 DEF OutLoose, Inv, TypeOK
<1>7. Inv'
  BY <1>3, <1>6, StepTypes DEF OutLoose
<1>. QED BY <1>3, <1>5, <1>7

\* Reserving keeps whole numbers, ...
LEMMA ReservedType ==
  ASSUME NEW row \in Row, NEW q \in Nat
  PROVE  Reserved(row, q) \in Row
<1>1. row.reserved + q \in Int /\ row.available - q \in Int
  BY DEF Row
<1>. QED BY <1>1 DEF Reserved, Row

\* ... and so does releasing, which concatenates digits.
LEMMA ReleasedType ==
  ASSUME NEW row \in Row, NEW q \in Nat
  PROVE  Released(row, q) \in Row
<1>1. row.reserved - q \in Int /\ Concat(row.available, q) \in Int
  BY DEF Row, Concat
<1>. HIDE DEF Concat
<1>. QED BY <1>1 DEF Released, Row

\* What findByItemWarehouse() returns is a row.
LEMMA FoundHasRow ==
  ASSUME NEW rs, IsRows(rs), NEW k, NEW j \in Found(rs, k)
  PROVE  j \in DOMAIN rs /\ j \in Keys /\ rs[j] \in Row
BY DEF Found, IsRows

\* Reserving moves nothing.
LEMMA ReserveStep ==
  ASSUME Inv, NEW k \in Keys, NEW q \in Quantities, Reserve(k, q)
  PROVE  Inv' /\ UNCHANGED ledger /\ ~loose'
<1>1. PICK j \in Found(rows, k) : rows' = WithRow(rows, j, Reserved(rows[j], q))
  BY DEF Reserve
<1>2. q \in Nat /\ IsRows(rows) /\ j \in Keys /\ rows[j] \in Row
  BY QuantityAssumption, FoundHasRow DEF Inv
<1>3. IsRows(rows)'
  BY <1>1, <1>2, ReservedType, SumWithRow
<1>. QED BY <1>3, StepTypes DEF Reserve, Inv, TypeOK

\* Neither does releasing.
LEMMA ReleaseStep ==
  ASSUME Inv, NEW k \in Keys, NEW q \in Quantities, Release(k, q)
  PROVE  Inv' /\ UNCHANGED ledger /\ ~loose'
<1>1. PICK j \in Found(rows, k) : rows' = WithRow(rows, j, Released(rows[j], q))
  BY DEF Release
<1>2. q \in Nat /\ IsRows(rows) /\ j \in Keys /\ rows[j] \in Row
  BY QuantityAssumption, FoundHasRow DEF Inv
<1>3. IsRows(rows)'
  BY <1>1, <1>2, ReleasedType, SumWithRow
<1>. QED BY <1>3, StepTypes DEF Release, Inv, TypeOK

\* A page view rewrites quantities, but is no movement.
LEMMA ViewStep ==
  ASSUME Inv, NEW page \in SUBSET (DOMAIN rows), View(page)
  PROVE  Inv' /\ UNCHANGED ledger /\ ~loose'
<1>1. ledger \in Int /\ IsRows(rows)
  BY DEF Inv, TypeOK
<1>2. \A k \in DOMAIN rows : [rows[k] EXCEPT !.onHand = ledger] \in Row
  BY <1>1 DEF IsRows, Row
<1>3. IsRows(rows)'
  BY <1>1, <1>2 DEF View, Reconciled, IsRows
<1>. QED BY <1>1, <1>3, StepTypes DEF View, Inv, TypeOK

\* Stuttering keeps the invariant.
LEMMA Unchanged == ASSUME Inv, UNCHANGED vars PROVE Inv'
BY DEF Inv, TypeOK, IsRows, vars

\* Every step of the service, and what each may do to the rows and the ledger.
LEMMA Cases ==
  ASSUME Inv, Next
  PROVE  \/ \E k \in Keys, q \in Quantities : In(k, q)
         \/ \E k \in Keys, q \in Quantities : OutBatch(k, q)
         \/ \E q \in Quantities : OutLoose(q)
         \/ Inv' /\ UNCHANGED ledger /\ ~loose'
BY ReserveStep, ReleaseStep, ViewStep DEF Next

\* Every step keeps it.
LEMMA NextInv == ASSUME Inv, [Next]_vars PROVE Inv'
<1>1. CASE UNCHANGED vars
  BY <1>1, Unchanged
<1>2. CASE Next
  BY <1>2, Cases, InStep, OutBatchStep, OutLooseStep
<1>. QED BY <1>1, <1>2

\* The rows are rows of the item's keys, with whole numbers in every column,
\* whatever movements, reservations, releases and page views came before.
THEOREM TypeCorrect == Spec => []TypeOK
<1>1. Spec => []Inv
  BY InitInv, NextInv, PTL DEF Spec
<1>2. Inv => TypeOK
  BY DEF Inv
<1>. QED BY <1>1, <1>2, PTL

\* It holds in every behaviour.
LEMMA InvAlways == Spec => []Inv
BY InitInv, NextInv, PTL DEF Spec

\* The sum of the rows and the ledger are whole numbers.
LEMMA Totals == ASSUME Inv PROVE TotalOnHand(rows) \in Int /\ ledger \in Int /\ IsRows(rows)
BY TotalType DEF Inv, TypeOK

\* However a movement is spread over rows, their sum changes by what it writes to
\* the ledger (updateBalance()).
THEOREM MovesWithLedger == Spec => RowsMoveWithLedger
<1> DEFINE Moves == ledger' # ledger =>
                      TotalOnHand(rows') - TotalOnHand(rows) = ledger' - ledger
<1>1. ASSUME Inv, [Next]_vars PROVE [Moves]_vars
  <2> SUFFICES ASSUME ledger' # ledger, Next
               PROVE  TotalOnHand(rows') - TotalOnHand(rows) = ledger' - ledger
    BY <1>1 DEF vars
  <2>1. TotalOnHand(rows) \in Int /\ ledger \in Int
    BY <1>1, Totals
  <2>2. CASE \E k \in Keys, q \in Quantities : In(k, q)
    <3>1. PICK k \in Keys, q \in Quantities : In(k, q)
      BY <2>2
    <3>2. TotalOnHand(rows') = TotalOnHand(rows) + q
      BY <1>1, <3>1, InStep
    <3>3. ledger' = ledger + q /\ q \in Int
      BY <3>1, QuantityAssumption DEF In
    <3>. QED BY <2>1, <3>2, <3>3
  <2>3. CASE \E k \in Keys, q \in Quantities : OutBatch(k, q)
    <3>1. PICK k \in Keys, q \in Quantities : OutBatch(k, q)
      BY <2>3
    <3>2. TotalOnHand(rows') = TotalOnHand(rows) - q
      BY <1>1, <3>1, OutBatchStep
    <3>3. ledger' = ledger - q /\ q \in Int
      BY <3>1, QuantityAssumption DEF OutBatch
    <3>. QED BY <2>1, <3>2, <3>3
  <2>4. CASE \E q \in Quantities : OutLoose(q)
    <3>1. PICK q \in Quantities : OutLoose(q)
      BY <2>4
    <3>2. TotalOnHand(rows') = TotalOnHand(rows) - q
      BY <1>1, <3>1, OutLooseStep
    <3>3. ledger' = ledger - q /\ q \in Int
      BY <3>1, QuantityAssumption DEF OutLoose
    <3>. QED BY <2>1, <3>2, <3>3
  <2>. QED BY <1>1, <2>2, <2>3, <2>4, Cases
<1>2. Spec => [][Moves]_vars
  BY <1>1, InvAlways, PTL DEF Spec
<1>. QED BY <1>2 DEF RowsMoveWithLedger

\* What an issue did to the rows it touched, when the ledger went down.
LEMMA IssueStep ==
  ASSUME Inv, Next, ledger' < ledger
  PROVE  /\ \A k \in DOMAIN rows' : rows'[k] # RowOf(rows, k) => Trimmed(rows'[k])
         /\ ~policy => \A k \in DOMAIN rows' :
              rows'[k].onHand < RowOf(rows, k).onHand => rows'[k].onHand >= 0
<1>1. ledger \in Int /\ IsRows(rows)
  BY Totals
<1>2. ASSUME NEW k \in Keys, NEW q \in Quantities, In(k, q) PROVE FALSE
  <2>1. ledger' > ledger
    BY <1>2, InStep
  <2>2. ledger' = ledger + q /\ q \in Int
    BY <1>2, QuantityAssumption DEF In
  <2>. QED BY <1>1, <2>1, <2>2
<1>3. ASSUME NEW q \in Quantities, OutLoose(q), ~policy, NEW k \in DOMAIN rows',
             rows'[k].onHand < RowOf(rows, k).onHand
      PROVE  rows'[k].onHand >= 0
  <2>1. DOMAIN rows' = DOMAIN rows /\ (rows'[k] = rows[k] \/ Gave(rows[k], rows'[k]))
    BY <1>3, OutLooseStep
  <2>2. rows[k].onHand \in Int /\ RowOf(rows, k) = rows[k]
    BY <1>1, <2>1 DEF RowOf, IsRows, Row
  <2>3. Gave(rows[k], rows'[k])
    BY <1>3, <2>1, <2>2
  <2>. QED BY <2>3 DEF Gave
<1>4. ~UNCHANGED ledger
  BY <1>1
<1>. QED BY <1>2, <1>3, <1>4, Cases, OutBatchStep, OutLooseStep

\* Issues leave sound rows: none that gave goes below zero unless the policy of the
\* warehouse allows it, and none reserves more than is left (updateBalance()).
THEOREM SoundRows == Spec => IssuesLeaveSoundRows
<1> DEFINE Overdraws == ledger' < ledger /\ ~policy =>
                 \A k \in DOMAIN rows' :
                   rows'[k].onHand < RowOf(rows, k).onHand => rows'[k].onHand >= 0
           Trims == ledger' < ledger =>
                 \A k \in DOMAIN rows' : rows'[k] # RowOf(rows, k) =>
                   /\ rows'[k].reserved \in 0..AtLeast(0, rows'[k].onHand)
                   /\ rows'[k].available = rows'[k].onHand - rows'[k].reserved
<1>1. ASSUME Inv, [Next]_vars PROVE [Overdraws]_vars /\ [Trims]_vars
  BY <1>1, IssueStep DEF Trimmed
<1>2. Spec => [][Overdraws]_vars /\ [][Trims]_vars
  BY <1>1, InvAlways, PTL DEF Spec
<1>. QED BY <1>2 DEF IssuesLeaveSoundRows, IssueNeverOverdraws, IssueTrimsReservations

\* Only an issue without a batch is a loose one.
LEMMA LooseStep ==
  ASSUME Inv, Next, loose'
  PROVE  \E q \in Quantities : OutLoose(q)
<1>1. \A k \in Keys, q \in Quantities : In(k, q) => ~loose'
  BY DEF In
<1>2. \A k \in Keys, q \in Quantities : OutBatch(k, q) => ~loose'
  BY DEF OutBatch
<1>. QED BY <1>1, <1>2, Cases

\* A batch with stock comes after the unbatched row that has any, and after the
\* batches that have more.
LEMMA BatchComesAfter ==
  ASSUME NEW rs, IsRows(rs), NEW k \in Batches \cap DOMAIN rs, rs[k].onHand > 0,
         NEW j \in DOMAIN rs \ {k}, rs[j].onHand > rs[k].onHand \/ (j = NoBatch /\ rs[j].onHand > 0)
  PROVE  ~Before(rs, k, j)
<1>1. rs[k].onHand \in Int /\ rs[j].onHand \in Int /\ k # NoBatch
  BY BatchAssumption DEF IsRows, Row
<1>. QED BY <1>1 DEF Before

\* An issue without a batch takes from a batch only what the unbatched row does not
\* have, from a smaller batch only when the larger are empty, and leaves debt only
\* when nothing is left anywhere (updateBalance()'s ranking of the rows).
THEOREM LooseInOrder == Spec => LooseIssuesInOrder
<1> DEFINE LastResort == loose' =>
             \A k \in Batches \cap DOMAIN rows : rows'[k].onHand < rows[k].onHand =>
               \A j \in DOMAIN rows \ {k} :
                 rows[j].onHand > rows[k].onHand \/ j = NoBatch => rows'[j].onHand <= 0
           WhenEmpty == loose' =>
             \A k \in DOMAIN rows' :
               rows'[k].onHand < 0 /\ rows'[k] # RowOf(rows, k) =>
                 \A j \in DOMAIN rows' : rows'[j].onHand <= 0
<1>1. ASSUME Inv, Next, loose'
      PROVE  LastResort /\ WhenEmpty
  <2>1. PICK q \in Quantities : OutLoose(q)
    BY <1>1, LooseStep
  <2>2. IsRows(rows) /\ IsRows(rows)'
    <3>1. Inv'
      BY <1>1, <2>1, OutLooseStep
    <3>. QED BY <1>1, <3>1 DEF Inv
  <2>3. CASE /\ DOMAIN rows \subseteq DOMAIN rows'
             /\ \A k \in DOMAIN rows' : rows'[k].onHand <= 0
    BY <2>3
  <2>4. CASE /\ DOMAIN rows' = DOMAIN rows
             /\ \A k \in DOMAIN rows : rows'[k] = rows[k] \/ Gave(rows[k], rows'[k])
             /\ \A j, k \in DOMAIN rows :
                  rows'[k] # rows[k] /\ j # k /\ ~Before(rows, k, j) => rows'[j].onHand <= 0
    <3>1. \A k \in DOMAIN rows : rows[k].onHand \in Int /\ RowOf(rows, k) = rows[k]
      BY <2>2 DEF IsRows, Row, RowOf
    <3>2. ASSUME NEW k \in DOMAIN rows, rows'[k].onHand < rows[k].onHand
          PROVE  rows'[k] # rows[k] /\ rows[k].onHand > 0
      <4>1. Gave(rows[k], rows'[k])
        BY <2>4, <3>1, <3>2
      <4>. QED BY <3>1, <4>1 DEF Gave
    <3>3. ASSUME NEW k \in Batches \cap DOMAIN rows, rows'[k].onHand < rows[k].onHand,
                 NEW j \in DOMAIN rows \ {k}, rows[j].onHand > rows[k].onHand \/ j = NoBatch
          PROVE  rows'[j].onHand <= 0
      <4>1. CASE rows[j].onHand > rows[k].onHand \/ (j = NoBatch /\ rows[j].onHand > 0)
        <5>1. ~Before(rows, k, j)
          BY <2>2, <3>2, <3>3, <4>1, BatchComesAfter
        <5>. QED BY <2>4, <3>2, <3>3, <5>1
      <4>2. CASE ~(rows[j].onHand > 0)
        <5>1. rows'[j] = rows[j] \/ Gave(rows[j], rows'[j])
          BY <2>4
        <5>. QED BY <3>1, <4>2, <5>1 DEF Gave
      <4>. QED BY <3>3, <4>1, <4>2
    <3>4. ASSUME NEW k \in DOMAIN rows', rows'[k].onHand < 0, rows'[k] # RowOf(rows, k)
          PROVE  FALSE
      <4>1. Gave(rows[k], rows'[k])
        BY <2>4, <3>1, <3>4
      <4>. QED BY <3>4, <4>1 DEF Gave
    <3>. QED BY <3>3, <3>4
  <2>. QED BY <1>1, <2>1, <2>3, <2>4, OutLooseStep
<1>2. ASSUME Inv, [Next]_vars PROVE [LastResort]_vars /\ [WhenEmpty]_vars
  BY <1>1, <1>2
<1>3. Spec => [][LastResort]_vars /\ [][WhenEmpty]_vars
  BY <1>2, InvAlways, PTL DEF Spec
<1>. QED BY <1>3 DEF LooseIssuesInOrder, BatchesAreLastResort, DebtOnlyWhenEmpty


(***************************************************************************)
(* Reservations beside movements: InventoryReservation.                    *)
(***************************************************************************)
\* A copy of a row holds no more than was put on that row, nor less than nothing.
Within(copy, put) == copy.row.onHand \in 0..(Opening[copy.key] + put[copy.key])

\* The rows are bounded, and so is every copy a session has still to save, for a
\* save may put a stale on hand back; a session that saves has a copy left.
ReservationInv ==
  /\ ReservationTypeOK
  /\ StockWithinReceipts
  /\ \A s \in Sessions : pc[s] \in {"select", "write"} => todo[s] # <<>>
  /\ \A s \in Sessions : \A n \in DOMAIN todo[s] : Within(todo[s][n], received)

Places == {"idle", "insert", "reserve", "end", "unreserve", "select", "write"}
Reservations ==
  [status: {"NONE", "ACTIVE", "RELEASED", "CANCELLED"}, batch: Keys,
   qty: Quantities \cup {0}]
Args ==
  [op: {"none", "create", "release", "cancel"}, id: Ids, batch: Keys,
   qty: Quantities \cup {0}]

\* The types, part by part.
LEMMA ReservationParts ==
  ReservationTypeOK <=>
    /\ rows \in [Keys -> Row]
    /\ res \in [Ids -> Reservations]
    /\ received \in [Keys -> 0..MaxReceived]
    /\ issued \in 0..MaxIssued
    /\ pc \in [Sessions -> Places]
    /\ arg \in [Sessions -> Args]
    /\ todo \in [Sessions -> Seq(Copies)]
    /\ dirty \in [Sessions -> SUBSET Columns]
BY DEF ReservationTypeOK, Reservations, Places, Args

\* Nothing to work on is something to work on.
LEMMA NothingTyped == NoArg \in Args /\ NoReservation \in Reservations /\ <<>> \in Seq(Copies)
<1>1. (CHOOSE i \in Ids : TRUE) \in Ids
  BY ReservationAssumption
<1>2. NoBatch \in Keys
  BY DEF Keys
<1>. QED BY <1>1, <1>2 DEF NoArg, NoReservation, Args, Reservations

\* Every row has its opening stock at first.
LEMMA ReservationInitInv == ReservationInit => ReservationInv
<1> SUFFICES ASSUME ReservationInit PROVE ReservationInv
  OBVIOUS
<1>1. \A k \in Keys : Opening[k] \in Nat /\ rows[k] \in Row /\ rows[k].onHand = Opening[k]
  BY ReservationAssumption DEF ReservationInit, Row
<1>2. rows \in [Keys -> Row]
  BY <1>1 DEF ReservationInit
<1>3. received \in [Keys -> 0..MaxReceived] /\ issued \in 0..MaxIssued
  BY ReservationAssumption DEF ReservationInit
<1>4. /\ res \in [Ids -> Reservations]
      /\ arg \in [Sessions -> Args]
      /\ todo \in [Sessions -> Seq(Copies)]
  BY NothingTyped DEF ReservationInit
<1>5. pc \in [Sessions -> Places] /\ dirty \in [Sessions -> SUBSET Columns]
  BY DEF ReservationInit, Places
<1>6. StockWithinReceipts
  BY <1>1 DEF ReservationInit, StockWithinReceipts
<1>7. /\ \A s \in Sessions : pc[s] \notin {"select", "write"}
      /\ \A s \in Sessions : todo[s] = <<>>
  BY DEF ReservationInit
<1>8. ReservationTypeOK
  BY <1>2, <1>3, <1>4, <1>5, ReservationParts
<1>. QED BY <1>6, <1>7, <1>8 DEF ReservationInv

\* What each kind of step leaves alone: rows and receipts.
LEMMA OtherStep ==
  ASSUME ReservationInv, NEW s \in Sessions, NEW to \in Places,
         UNCHANGED <<rows, received, issued>>,
         res' \in [Ids -> Reservations], arg' \in [Sessions -> Args],
         dirty' \in [Sessions -> SUBSET Columns],
         Goto(s, to),
         \/ UNCHANGED todo /\ (to \in {"select", "write"} => todo[s] # <<>>)
         \/ todo' = [todo EXCEPT ![s] = <<>>] /\ to \notin {"select", "write"}
  PROVE  ReservationInv'
<1>1. /\ rows \in [Keys -> Row] /\ received \in [Keys -> 0..MaxReceived]
      /\ issued \in 0..MaxIssued
      /\ pc \in [Sessions -> Places] /\ todo \in [Sessions -> Seq(Copies)]
  BY ReservationParts DEF ReservationInv
<1>2. pc' \in [Sessions -> Places] /\ pc'[s] = to /\ \A t \in Sessions \ {s} : pc'[t] = pc[t]
  BY <1>1 DEF Goto
<1>3. /\ todo' \in [Sessions -> Seq(Copies)]
      /\ \A t \in Sessions \ {s} : todo'[t] = todo[t]
      /\ todo'[s] = todo[s] \/ todo'[s] = <<>>
      /\ to \in {"select", "write"} => todo'[s] # <<>>
  BY <1>1, NothingTyped
<1>4. ReservationTypeOK'
  <2>1. rows' \in [Keys -> Row] /\ received' \in [Keys -> 0..MaxReceived] /\ issued' \in 0..MaxIssued
    BY <1>1
  <2>. QED BY <1>2, <1>3, <2>1 DEF ReservationTypeOK, Reservations, Places, Args
<1>5. StockWithinReceipts'
  BY DEF ReservationInv, StockWithinReceipts
<1>6. \A t \in Sessions : pc'[t] \in {"select", "write"} => todo'[t] # <<>>
  BY <1>2, <1>3 DEF ReservationInv
<1>7. \A t \in Sessions : \A n \in DOMAIN todo'[t] : Within(todo'[t][n], received')
  <2> TAKE t \in Sessions
  <2>1. \A n \in DOMAIN todo[t] : Within(todo[t][n], received')
    BY DEF ReservationInv
  <2>2. CASE todo'[t] = todo[t]
    BY <2>1, <2>2
  <2>3. CASE todo'[t] = <<>>
    BY <2>3
  <2>. QED BY <1>3, <2>2, <2>3
<1>. QED BY <1>4, <1>5, <1>6, <1>7 DEF ReservationInv


\* What is counted as received only grows, so what was within it stays.
LEMMA StaysWithin ==
  ASSUME ReservationInv, received' \in [Keys -> 0..MaxReceived],
         \A k \in Keys : received[k] <= received'[k],
         NEW copy \in Copies, Within(copy, received)
  PROVE  Within(copy, received')
<1>1. copy.key \in Keys /\ copy.row.onHand \in Int
  BY DEF Copies, Row
<1>2. /\ Opening[copy.key] \in Nat /\ received[copy.key] \in Int /\ received'[copy.key] \in Int
      /\ received[copy.key] <= received'[copy.key]
  <2>1. received \in [Keys -> 0..MaxReceived]
    BY ReservationParts DEF ReservationInv
  <2>. QED BY <1>1, <2>1, ReservationAssumption
<1>. QED BY <1>1, <1>2 DEF Within

\* A session takes copies of rows to save that are within what was received.
LEMMA HoldStep ==
  ASSUME ReservationInv, NEW s \in Sessions, NEW copies \in Seq(Copies), copies # <<>>,
         Hold(s, copies),
         received' \in [Keys -> 0..MaxReceived], issued' \in 0..MaxIssued,
         \A k \in Keys : received[k] <= received'[k],
         \A n \in DOMAIN copies : Within(copies[n], received')
  PROVE  ReservationInv'
<1>1. /\ rows \in [Keys -> Row] /\ res \in [Ids -> Reservations]
      /\ received \in [Keys -> 0..MaxReceived]
      /\ pc \in [Sessions -> Places] /\ arg \in [Sessions -> Args]
      /\ todo \in [Sessions -> Seq(Copies)] /\ dirty \in [Sessions -> SUBSET Columns]
  BY ReservationParts DEF ReservationInv
<1>2. /\ pc' \in [Sessions -> Places]
      /\ \A t \in Sessions \ {s} : pc'[t] = pc[t]
  BY <1>1 DEF Hold, Goto, Places
<1>3. /\ todo' \in [Sessions -> Seq(Copies)] /\ todo'[s] = copies
      /\ \A t \in Sessions \ {s} : todo'[t] = todo[t]
  BY <1>1 DEF Hold
<1>4. ReservationTypeOK'
  <2>1. /\ rows' \in [Keys -> Row] /\ res' \in [Ids -> Reservations]
        /\ arg' \in [Sessions -> Args] /\ dirty' \in [Sessions -> SUBSET Columns]
    BY <1>1 DEF Hold
  <2>. QED BY <1>2, <1>3, <2>1 DEF ReservationTypeOK, Reservations, Places, Args
<1>5. ASSUME NEW k \in Keys PROVE rows'[k].onHand \in 0..(Opening[k] + received'[k])
  <2>1. rows'[k] = rows[k] /\ rows[k].onHand \in 0..(Opening[k] + received[k])
    BY DEF Hold, ReservationInv, StockWithinReceipts
  <2>2. Opening[k] \in Nat /\ received[k] \in Int /\ received'[k] \in Int
    BY <1>1, ReservationAssumption
  <2>. QED BY <2>1, <2>2
<1>6. \A t \in Sessions : pc'[t] \in {"select", "write"} => todo'[t] # <<>>
  BY <1>2, <1>3 DEF ReservationInv
<1>7. ASSUME NEW t \in Sessions, NEW n \in DOMAIN todo'[t]
      PROVE  Within(todo'[t][n], received')
  <2>1. CASE t = s
    BY <1>3, <2>1
  <2>2. CASE t # s
    <3>1. todo'[t] = todo[t] /\ todo[t] \in Seq(Copies) /\ n \in DOMAIN todo[t]
      BY <1>1, <1>3, <1>7, <2>2
    <3>2. todo[t][n] \in Copies
      BY <3>1
    <3>3. Within(todo[t][n], received)
      BY <3>1 DEF ReservationInv
    <3>. QED BY <3>1, <3>2, <3>3, StaysWithin
  <2>. QED BY <2>1, <2>2
<1>. QED BY <1>4, <1>5, <1>6, <1>7 DEF ReservationInv, StockWithinReceipts

\* One copy, of a row that has its key.
LEMMA OneCopy ==
  ASSUME NEW k \in Keys, NEW row \in Row, NEW set \in SUBSET Columns
  PROVE  /\ <<Copy(k, row, set)>> \in Seq(Copies) /\ <<Copy(k, row, set)>> # <<>>
         /\ \A n \in DOMAIN <<Copy(k, row, set)>> :
              <<Copy(k, row, set)>>[n] = Copy(k, row, set)
         /\ Copy(k, row, set).row = row /\ Copy(k, row, set).key = k
BY DEF Copy, Copies

\* A session holds one copy of a row it read.
LEMMA HoldOne ==
  ASSUME ReservationInv, NEW s \in Sessions, NEW k \in Keys, NEW row \in Row,
         NEW set \in SUBSET Columns, Hold(s, <<Copy(k, row, set)>>),
         received' \in [Keys -> 0..MaxReceived], issued' \in 0..MaxIssued,
         \A j \in Keys : received[j] <= received'[j],
         row.onHand \in 0..(Opening[k] + received'[k])
  PROVE  ReservationInv'
<1> DEFINE copies == <<Copy(k, row, set)>>
<1>1. /\ copies \in Seq(Copies) /\ copies # <<>>
      /\ \A n \in DOMAIN copies : copies[n] = Copy(k, row, set)
      /\ Copy(k, row, set).row = row /\ Copy(k, row, set).key = k
  BY OneCopy
<1>2. Hold(s, copies)
  OBVIOUS
<1>. HIDE DEF copies
<1>3. \A n \in DOMAIN copies : Within(copies[n], received')
  BY <1>1 DEF Within
<1>. QED BY <1>1, <1>2, <1>3, HoldStep

\* What the invariant says of the rows.
LEMMA RowsWithin ==
  ASSUME ReservationInv
  PROVE  /\ IsRows(rows) /\ DOMAIN rows = Keys
         /\ received \in [Keys -> 0..MaxReceived] /\ issued \in 0..MaxIssued
         /\ \A k \in Keys :
              /\ rows[k] \in Row /\ rows[k].onHand \in 0..(Opening[k] + received[k])
              /\ Opening[k] \in Nat /\ received[k] \in Nat
<1>1. rows \in [Keys -> Row] /\ received \in [Keys -> 0..MaxReceived] /\ issued \in 0..MaxIssued
  BY ReservationParts DEF ReservationInv
<1>2. IsRows(rows) /\ DOMAIN rows = Keys
  BY <1>1 DEF IsRows
<1>3. \A k \in Keys : Opening[k] \in Nat /\ received[k] \in Nat /\ rows[k] \in Row
  BY <1>1, ReservationAssumption
<1>. QED BY <1>1, <1>2, <1>3 DEF ReservationInv, StockWithinReceipts


\* Reserving and releasing compute a row with the same stock.
LEMMA CountsOnly ==
  ASSUME NEW row \in Row, NEW q \in Nat
  PROVE  /\ Reserved(row, q) \in Row /\ Reserved(row, q).onHand = row.onHand
         /\ Released(row, q) \in Row /\ Released(row, q).onHand = row.onHand
<1>1. Reserved(row, q) \in Row /\ Released(row, q) \in Row
  BY ReservedType, ReleasedType
<1>2. Reserved(row, q).onHand = row.onHand /\ Released(row, q).onHand = row.onHand
  <2>. HIDE DEF Concat
  <2>. QED BY DEF Reserved, Released, Row
<1>. QED BY <1>1, <1>2

\* reserveStock() and releaseReservation() hold the row they found.
LEMMA ReadRowStep ==
  ASSUME ReservationInv, NEW s \in Sessions, ReserveRow(s) \/ Unreserve(s)
  PROVE  ReservationInv'
<1>1. UNCHANGED <<received, issued>>
  BY DEF ReserveRow, Unreserve
<1>2. /\ received' \in [Keys -> 0..MaxReceived] /\ issued' \in 0..MaxIssued
      /\ \A j \in Keys : received[j] <= received'[j]
  BY <1>1, RowsWithin
<1>3. arg[s].qty \in Nat
  <2>1. arg[s] \in Args
    BY ReservationParts DEF ReservationInv
  <2>2. arg[s].qty \in Quantities \cup {0}
    BY <2>1 DEF Args
  <2>3. \A q \in Quantities : q \in Nat
    BY QuantityAssumption
  <2>. QED BY <2>2, <2>3
<1>4. PICK k \in Found(rows, arg[s].batch) :
        \/ Hold(s, <<Copy(k, Reserved(rows[k], arg[s].qty), Counts)>>)
        \/ Hold(s, <<Copy(k, Released(rows[k], arg[s].qty), Counts)>>)
  BY DEF ReserveRow, Unreserve
<1>5. k \in Keys /\ rows[k] \in Row /\ rows[k].onHand \in 0..(Opening[k] + received[k])
  BY RowsWithin, FoundHasRow
<1>6. PICK row \in Row : Hold(s, <<Copy(k, row, Counts)>>) /\ row.onHand = rows[k].onHand
  BY <1>3, <1>4, <1>5, CountsOnly
<1>7. Counts \in SUBSET Columns /\ row.onHand \in 0..(Opening[k] + received'[k])
  BY <1>1, <1>5, <1>6 DEF Counts, Columns
<1>. QED BY <1>2, <1>5, <1>6, <1>7, HoldOne

\* A receipt is counted before the row that has it is saved.
LEMMA ReceiveStep ==
  ASSUME ReservationInv, NEW s \in Sessions, NEW k \in Keys, NEW q \in Quantities,
         ReceiveStock(s, k, q)
  PROVE  ReservationInv'
<1>1. q \in Nat /\ MaxReceived \in Nat
  BY QuantityAssumption, ReservationAssumption
<1>2. /\ received \in [Keys -> 0..MaxReceived] /\ issued \in 0..MaxIssued
      /\ \A j \in Keys : received[j] \in Nat
      /\ rows[k] \in Row /\ rows[k].onHand \in 0..(Opening[k] + received[k])
      /\ Opening[k] \in Nat
  BY RowsWithin
<1>3. received' = [received EXCEPT ![k] = received[k] + q] /\ received[k] + q <= MaxReceived
  BY DEF ReceiveStock
<1>4. received[k] + q \in 0..MaxReceived
  BY <1>1, <1>2, <1>3
<1>5. received' \in [Keys -> 0..MaxReceived] /\ received'[k] = received[k] + q
  BY <1>2, <1>3, <1>4
<1>6. \A j \in Keys : received[j] <= received'[j]
  BY <1>1, <1>2, <1>3
<1>7. issued' \in 0..MaxIssued
  BY <1>2 DEF ReceiveStock
<1> DEFINE row == Receive(rows[k], q)
<1>8. row \in Row /\ row.onHand = rows[k].onHand + q
  BY <1>1, <1>2, ReceiveType
<1>9. Hold(s, <<Copy(k, row, {"onHand", "available"})>>)
  BY DEF ReceiveStock
<1>. HIDE DEF row
<1>10. row.onHand \in 0..(Opening[k] + received'[k])
  BY <1>1, <1>2, <1>5, <1>8
<1>11. {"onHand", "available"} \in SUBSET Columns
  BY DEF Columns
<1>. QED BY <1>5, <1>6, <1>7, <1>8, <1>9, <1>10, <1>11, HoldOne

\* A step that only issues counts nothing as received.
LEMMA IssueCounts ==
  ASSUME ReservationInv, NEW s \in Sessions, NEW k \in Keys, NEW q \in Quantities,
         IssueStock(s, k, q)
  PROVE  /\ q \in Nat /\ q > 0
         /\ received' = received /\ received' \in [Keys -> 0..MaxReceived]
         /\ issued' \in 0..MaxIssued
         /\ \A j \in Keys : received[j] <= received'[j]
<1>1. q \in Nat /\ q > 0 /\ MaxIssued \in Nat
  BY QuantityAssumption, ReservationAssumption
<1>2. /\ received \in [Keys -> 0..MaxReceived] /\ issued \in 0..MaxIssued
      /\ \A j \in Keys : received[j] \in Nat
  BY RowsWithin
<1>3. received' = received /\ issued' = issued + q /\ issued + q <= MaxIssued
  BY DEF IssueStock
<1>4. issued' \in 0..MaxIssued
  BY <1>1, <1>2, <1>3
<1>. QED BY <1>1, <1>2, <1>3, <1>4

\* An issue of a batch holds that row, with less stock but enough.
LEMMA IssueBatchStep ==
  ASSUME ReservationInv, NEW s \in Sessions, NEW k \in Keys, NEW q \in Quantities,
         IssueStock(s, k, q), k # NoBatch
  PROVE  ReservationInv'
<1>1. /\ q \in Nat /\ q > 0
      /\ received' = received /\ received' \in [Keys -> 0..MaxReceived]
      /\ issued' \in 0..MaxIssued
      /\ \A j \in Keys : received[j] <= received'[j]
  BY IssueCounts
<1>2. /\ IsRows(rows) /\ DOMAIN rows = Keys
      /\ rows[k] \in Row /\ rows[k].onHand \in 0..(Opening[k] + received[k])
      /\ Opening[k] \in Nat /\ received[k] \in Nat
  BY RowsWithin
<1> DEFINE new == IssueBatch(rows, k, q)
<1>3. IsRows(new) /\ k \in DOMAIN new /\ new[k].onHand = RowOf(rows, k).onHand - q
  <2>1. new = IssueBatch(rows, k, q) /\ q \in Nat /\ IsRows(rows)
    BY <1>1, <1>2
  <2>. HIDE DEF new
  <2>. QED BY <2>1, BatchIssue
<1>4. q <= rows[k].onHand /\ Hold(s, <<Copy(k, new[k], Columns)>>)
  BY DEF IssueStock, Covered
<1>. HIDE DEF new
<1>5. new[k] \in Row /\ new[k].onHand = rows[k].onHand - q
  BY <1>2, <1>3 DEF IsRows, RowOf
<1> DEFINE row == new[k]
<1>6. row \in Row /\ row.onHand \in 0..(Opening[k] + received'[k])
  BY <1>1, <1>2, <1>4, <1>5
<1>7. Hold(s, <<Copy(k, row, Columns)>>) /\ Columns \in SUBSET Columns
  BY <1>4
<1>. HIDE DEF row
<1>. QED BY <1>1, <1>6, <1>7, HoldOne


\* When the rows cover an issue without a batch, its loop takes all of it.
LEMMA LoopTakesAll ==
  ASSUME NEW rs, IsRows(rs), NEW q \in Nat, q <= TotalOnHand(rs),
         NEW order \in Candidates(rs)
  PROVE  \E N \in Nat :
           /\ order \in [1..N -> DOMAIN rs]
           /\ \A i, j \in 1..N : i # j => order[i] # order[j]
           /\ \A k \in DOMAIN rs : \E i \in 1..N : order[i] = k
           /\ \A i, j \in 1..N : i < j => Before(rs, order[i], order[j])
           /\ Turned(rs, order, q, N, N, [rows |-> IssueLoose(rs, order, q), rest |-> 0])
<1> DEFINE d == Drain(rs, order, q)
<1>1. PICK N \in Nat :
           /\ order \in [1..N -> DOMAIN rs]
           /\ \A k \in DOMAIN rs : \E i \in 1..N : order[i] = k
           /\ \A i, j \in 1..N : i < j => Before(rs, order[i], order[j])
           /\ Turned(rs, order, q, N, N, d)
  BY DrainResult
<1>2. \A i, j \in 1..N : i # j => order[i] # order[j]
  <2>1. DOMAIN order = 1..N
    BY <1>1
  <2>2. \A i, j \in DOMAIN order : i # j => order[i] # order[j]
    BY OrderIsBijection
  <2>. QED BY <2>1, <2>2
<1>3. /\ IsRows(d.rows) /\ DOMAIN d.rows = DOMAIN rs /\ d.rest \in Nat
      /\ TotalOnHand(d.rows) - d.rest = TotalOnHand(rs) - q
      /\ d.rest > 0 => \A i \in 1..N : d.rows[order[i]].onHand <= 0
  BY <1>1 DEF Turned
<1>. HIDE DEF d
<1>4. TotalOnHand(d.rows) \in Int /\ TotalOnHand(rs) \in Int
  BY <1>3, TotalType
<1>5. d.rest = 0
  <2> SUFFICES ASSUME d.rest > 0 PROVE FALSE
    BY <1>3
  <2>1. \A k \in DOMAIN d.rows : d.rows[k].onHand <= 0
    BY <1>1, <1>3
  <2>2. TotalOnHand(d.rows) <= 0
    BY <1>3, <2>1, EmptyTotal
  <2>. QED BY <1>3, <1>4, <2>2
<1>6. IssueLoose(rs, order, q) = d.rows
  BY <1>5 DEF IssueLoose, d
<1> DEFINE e == [rows |-> IssueLoose(rs, order, q), rest |-> 0]
<1>7. e.rows = d.rows /\ e.rest = d.rest
  BY <1>5, <1>6
<1>. HIDE DEF e
<1>8. Turned(rs, order, q, N, N, e)
  BY <1>1, <1>7 DEF Turned
<1>. QED BY <1>1, <1>2, <1>8 DEF e

\* A row that gave comes after rows with stock only, ...
LEMMA BeforeHasStock ==
  ASSUME NEW rs, IsRows(rs), NEW j \in DOMAIN rs, NEW k \in DOMAIN rs,
         Before(rs, j, k), rs[k].onHand > 0
  PROVE  rs[j].onHand > 0
<1>1. rs[j].onHand \in Int
  BY DEF IsRows, Row
<1>. QED BY <1>1 DEF Before

\* ... which gave too: a covered issue takes from the first rows of its order.
LEMMA TouchedFirst ==
  ASSUME NEW rs, IsRows(rs), NEW q \in Nat, q <= TotalOnHand(rs),
         NEW order \in Candidates(rs), NEW new, new = IssueLoose(rs, order, q),
         NEW h \in DOMAIN order, NEW i \in DOMAIN order, h < i,
         new[order[i]] # rs[order[i]]
  PROVE  new[order[h]] # rs[order[h]]
<1>1. PICK N \in Nat :
           /\ order \in [1..N -> DOMAIN rs]
           /\ \A m, n \in 1..N : m < n => Before(rs, order[m], order[n])
           /\ Turned(rs, order, q, N, N, [rows |-> new, rest |-> 0])
  BY LoopTakesAll
<1>2. /\ IsRows(new)
      /\ \A k \in DOMAIN rs : new[k] = rs[k] \/ Gave(rs[k], new[k])
      /\ \A m \in 1..N : new[order[m]] # rs[order[m]] =>
           \A n \in 1..N : n < m => new[order[n]].onHand <= 0
  BY <1>1 DEF Turned
<1> DEFINE j == order[h]
           k == order[i]
<1>3. h \in 1..N /\ i \in 1..N /\ j \in DOMAIN rs /\ k \in DOMAIN rs /\ Before(rs, j, k)
  BY <1>1
<1>4. Gave(rs[k], new[k]) /\ new[j].onHand <= 0
  BY <1>2, <1>3
<1>5. rs[k].onHand > 0
  <2>1. rs[k].onHand \in Int
    BY <1>3 DEF IsRows, Row
  <2>. QED BY <1>4, <2>1 DEF Gave
<1>. HIDE DEF j, k
<1>6. rs[j].onHand > 0
  BY <1>3, <1>5, BeforeHasStock
<1>7. rs[j].onHand \in Int
  BY <1>3 DEF IsRows, Row
<1>8. new[j] # rs[j]
  BY <1>4, <1>6, <1>7
<1>. QED BY <1>8 DEF j

\* A set of the first numbers up to N that has every number before one of its own
\* is that of the numbers up to some m.
LEMMA FirstNumbers ==
  ASSUME NEW N \in Nat, NEW T \in SUBSET (1..N),
         \A i \in T : \A h \in 1..N : h < i => h \in T
  PROVE  \E m \in 0..N : T = 1..m
<1> DEFINE S == {n \in Nat : n <= N => \E m \in 0..n : T \cap (1..n) = 1..m}
<1>1. 0 \in S
  <2>1. T \cap (1..0) = 1..0 /\ 0 \in 0..0
    OBVIOUS
  <2>. QED BY <2>1
<1>2. ASSUME NEW n \in Nat, n \in S PROVE n + 1 \in S
  <2> SUFFICES ASSUME n + 1 <= N PROVE \E m \in 0..(n + 1) : T \cap (1..(n + 1)) = 1..m
    OBVIOUS
  <2>1. PICK m \in 0..n : T \cap (1..n) = 1..m
    BY <1>2
  <2>2. CASE n + 1 \in T
    <3>1. \A h \in 1..(n + 1) : h \in T
      BY <2>2
    <3>2. T \cap (1..(n + 1)) = 1..(n + 1) /\ n + 1 \in 0..(n + 1)
      BY <3>1
    <3>. QED BY <3>2
  <2>3. CASE n + 1 \notin T
    <3>1. T \cap (1..(n + 1)) = T \cap (1..n)
      BY <2>3
    <3>2. m \in 0..(n + 1)
      BY <2>1
    <3>. QED BY <2>1, <3>1, <3>2
  <2>. QED BY <2>2, <2>3
<1>3. N \in S
  <2>. HIDE DEF S
  <2>1. Nat \subseteq S
    BY <1>1, <1>2, NatSet
  <2>. QED BY <2>1
<1>4. PICK m \in 0..N : T \cap (1..N) = 1..m
  BY <1>3
<1>. QED BY <1>4

\* The rows an issue changed.
Touched(rs, new) == {j \in DOMAIN rs : new[j] # rs[j]}

\* So the copies a covered issue has to save are those of the rows it changed, each
\* once, in the order of the loop.
LEMMA CopiesAreTouched ==
  ASSUME NEW rs, IsRows(rs), NEW q \in Nat, q <= TotalOnHand(rs),
         NEW order \in Candidates(rs), NEW new, new = IssueLoose(rs, order, q),
         NEW n, n = Cardinality(Touched(rs, new))
  PROVE  /\ n \in Nat /\ 1..n \subseteq DOMAIN order
         /\ Touched(rs, new) = {order[i] : i \in 1..n}
<1>1. PICK N \in Nat :
           /\ order \in [1..N -> DOMAIN rs]
           /\ \A i, j \in 1..N : i # j => order[i] # order[j]
           /\ \A k \in DOMAIN rs : \E i \in 1..N : order[i] = k
  BY OrderIsBijection
<1> DEFINE touched == Touched(rs, new)
           T == {i \in 1..N : new[order[i]] # rs[order[i]]}
<1>2. ASSUME NEW i \in T, NEW h \in 1..N, h < i PROVE h \in T
  <2>1. i \in DOMAIN order /\ h \in DOMAIN order /\ new[order[i]] # rs[order[i]]
    BY <1>1
  <2>. QED BY <1>2, <2>1, TouchedFirst
<1>3. PICK m \in 0..N : T = 1..m
  <2>1. T \in SUBSET (1..N)
    OBVIOUS
  <2>. HIDE DEF T
  <2>. QED BY <1>2, <2>1, FirstNumbers
<1>4. touched = {order[i] : i \in 1..m}
  <2>1. \A k \in touched : \E i \in 1..m : order[i] = k
    BY <1>1, <1>3 DEF Touched
  <2>2. \A i \in 1..m : order[i] \in touched
    <3> TAKE i \in 1..m
    <3>1. i \in T
      BY <1>3
    <3>. QED BY <1>1, <3>1 DEF Touched
  <2>. QED BY <2>1, <2>2
<1>5. Cardinality(touched) = m
  <2> DEFINE f == [i \in 1..m |-> order[i]]
  <2>1. m \in Nat /\ 1..m \subseteq 1..N
    OBVIOUS
  <2>2. \A i \in 1..m : f[i] \in touched
    BY <1>4
  <2>3. f \in [1..m -> touched] /\ \A i, j \in 1..m : f[i] = f[j] => i = j
    BY <1>1, <2>1, <2>2
  <2>4. \A k \in touched : \E i \in 1..m : f[i] = k
    BY <1>4
  <2>. HIDE DEF f, touched
  <2>5. f \in Bijection(1..m, touched)
    BY <2>3, <2>4 DEF Bijection, Injection, Surjection, IsInjective
  <2>6. ExistsBijection(1..m, touched)
    BY <2>5 DEF ExistsBijection
  <2>. QED BY <2>1, <2>6, FS_CountingElements
<1>6. m \in Nat /\ 1..m \subseteq DOMAIN order
  BY <1>1
<1>. HIDE DEF T, touched
<1>7. touched = Touched(rs, new)
  BY DEF touched
<1>. QED BY <1>4, <1>5, <1>6, <1>7


\* An issue without a batch holds what the loop computed of the rows it changed.
LEMMA IssueLooseStep ==
  ASSUME ReservationInv, NEW s \in Sessions, NEW k \in Keys, NEW q \in Quantities,
         IssueStock(s, k, q), k = NoBatch
  PROVE  ReservationInv'
<1>1. /\ q \in Nat /\ q > 0
      /\ received' = received /\ received' \in [Keys -> 0..MaxReceived]
      /\ issued' \in 0..MaxIssued
      /\ \A j \in Keys : received[j] <= received'[j]
  BY IssueCounts
<1>2. /\ IsRows(rows) /\ DOMAIN rows = Keys
      /\ \A j \in Keys :
           /\ rows[j] \in Row /\ rows[j].onHand \in 0..(Opening[j] + received[j])
           /\ Opening[j] \in Nat /\ received[j] \in Nat
  BY RowsWithin
<1>3. TotalOnHand(rows) \in Int
  BY <1>2, TotalType
<1>4. q <= TotalOnHand(rows)
  BY DEF IssueStock, Covered
<1>5. PICK order \in Candidates(rows) :
        Hold(s, FirstCopies(order, IssueLoose(rows, order, q),
                  Cardinality({j \in Keys : IssueLoose(rows, order, q)[j] # rows[j]})))
  BY DEF IssueStock
<1>6. PICK new : new = IssueLoose(rows, order, q)
  OBVIOUS
<1>7. Touched(rows, new) = {j \in Keys : new[j] # rows[j]}
  BY <1>2 DEF Touched
<1>8. PICK n : n = Cardinality(Touched(rows, new))
  OBVIOUS
<1>9. Hold(s, FirstCopies(order, new, n))
  BY <1>5, <1>6, <1>7, <1>8
<1>10. /\ IsRows(new) /\ TotalOnHand(new) = TotalOnHand(rows) - q /\ DOMAIN new = Keys
       /\ \A j \in Keys : new[j] = rows[j] \/ Gave(rows[j], new[j])
  <2>1. /\ IsRows(new) /\ TotalOnHand(new) = TotalOnHand(rows) - q
        /\ \/ q > TotalOnHand(rows)
           \/ /\ DOMAIN new = DOMAIN rows
              /\ \A j \in DOMAIN rows : new[j] = rows[j] \/ Gave(rows[j], new[j])
    BY <1>1, <1>2, <1>6, LooseIssue
  <2>. QED BY <1>1, <1>2, <1>3, <1>4, <2>1
<1>11. /\ n \in Nat /\ 1..n \subseteq DOMAIN order
       /\ Touched(rows, new) = {order[i] : i \in 1..n}
  <2>1. q \in Nat /\ IsRows(rows) /\ order \in Candidates(rows)
    BY <1>1, <1>2, <1>5
  <2>. QED BY <1>4, <1>6, <1>8, <2>1, CopiesAreTouched
<1>12. n > 0
  <2> SUFFICES ASSUME n = 0 PROVE FALSE
    BY <1>11
  <2>1. \A j \in Keys : new[j] = rows[j]
    BY <1>7, <1>11
  <2>2. new = rows
    BY <1>2, <1>10, <2>1 DEF IsRows
  <2>. QED BY <1>1, <1>3, <1>10, <2>2
<1>13. ASSUME NEW j \in Keys
       PROVE  new[j] \in Row /\ new[j].onHand \in 0..(Opening[j] + received'[j])
  <2>1. new[j] \in Row /\ new[j].onHand \in Int
    BY <1>10 DEF IsRows, Row
  <2>2. CASE new[j] = rows[j]
    BY <1>1, <1>2, <2>1, <2>2
  <2>3. CASE Gave(rows[j], new[j])
    BY <1>1, <1>2, <2>1, <2>3 DEF Gave
  <2>. QED BY <1>10, <2>2, <2>3
<1> DEFINE copies == FirstCopies(order, new, n)
<1>14. DOMAIN copies = 1..n /\ \A i \in 1..n : copies[i] = Copy(order[i], new[order[i]], Columns)
  BY DEF FirstCopies
<1>. HIDE DEF copies
<1>15. ASSUME NEW i \in 1..n
       PROVE  copies[i] \in Copies /\ Within(copies[i], received')
  <2>1. order[i] \in Keys
    BY <1>7, <1>11
  <2> DEFINE j == order[i]
             row == new[j]
  <2>2. j \in Keys /\ row \in Row /\ row.onHand \in 0..(Opening[j] + received'[j])
    BY <1>13, <2>1
  <2>3. copies[i] = Copy(j, row, Columns)
    BY <1>14
  <2>. HIDE DEF j, row
  <2>. QED BY <2>2, <2>3 DEF Copy, Copies, Within
<1>16. copies \in Seq(Copies) /\ copies # <<>>
  <2>1. copies \in [1..n -> Copies]
    <3>1. copies = [i \in 1..n |-> copies[i]]
      BY <1>14 DEF FirstCopies, copies
    <3>. QED BY <1>15, <3>1
  <2>2. copies \in Seq(Copies) /\ Len(copies) = n
    BY <1>11, <2>1
  <2>. QED BY <1>12, <2>2
<1>17. Hold(s, copies)
  BY <1>9 DEF copies
<1>18. \A i \in DOMAIN copies : Within(copies[i], received')
  BY <1>14, <1>15
<1>. QED BY <1>1, <1>16, <1>17, <1>18, HoldStep


\* The row after a save that writes some columns of a copy.
Saved(old, row, columns) == [c \in Columns |-> IF c \in columns THEN row[c] ELSE old[c]]

\* The columns a save writes are those of the copy, the others stay: on hand is the
\* row's or the copy's.
LEMMA SavedRow ==
  ASSUME NEW old \in Row, NEW row \in Row, NEW columns \in SUBSET Columns,
         NEW new, new = Saved(old, row, columns)
  PROVE  new \in Row /\ (new.onHand = old.onHand \/ new.onHand = row.onHand)
BY DEF Saved, Row, Columns

\* After the save the session has the rest of its copies, or has ended.
LEMMA SaveWriteStep ==
  ASSUME ReservationInv, NEW s \in Sessions, SaveWrite(s)
  PROVE  ReservationInv'
<1>1. /\ rows \in [Keys -> Row] /\ res \in [Ids -> Reservations]
      /\ received \in [Keys -> 0..MaxReceived] /\ issued \in 0..MaxIssued
      /\ pc \in [Sessions -> Places] /\ arg \in [Sessions -> Args]
      /\ todo \in [Sessions -> Seq(Copies)] /\ dirty \in [Sessions -> SUBSET Columns]
  BY ReservationParts DEF ReservationInv
<1> DEFINE copy == Head(todo[s])
           old == rows[copy.key]
           new == Saved(old, copy.row, dirty[s])
<1>2. pc[s] = "write" /\ todo[s] \in Seq(Copies) /\ todo[s] # <<>>
  BY <1>1 DEF SaveWrite, ReservationInv
<1>3. copy \in Copies /\ Within(copy, received)
  <2>1. Head(todo[s]) = todo[s][1] /\ 1 \in DOMAIN todo[s] /\ todo[s][1] \in Copies
    BY <1>2
  <2>. QED BY <2>1 DEF ReservationInv
<1>4. rows' = [rows EXCEPT ![copy.key] = new]
  BY DEF SaveWrite, Saved
<1>5. copy.key \in Keys /\ copy.row \in Row /\ old \in Row
  BY <1>1, <1>3 DEF Copies
<1>6. dirty[s] \in SUBSET Columns
  BY <1>1
<1>. HIDE DEF copy
<1>7. new \in Row /\ (new.onHand = old.onHand \/ new.onHand = copy.row.onHand)
  <2>1. new = Saved(old, copy.row, dirty[s])
    OBVIOUS
  <2>. HIDE DEF new, old
  <2>. QED BY <1>5, <1>6, <2>1, SavedRow
<1>8. new.onHand \in 0..(Opening[copy.key] + received[copy.key])
  <2>1. old.onHand \in 0..(Opening[copy.key] + received[copy.key])
    BY <1>5 DEF ReservationInv, StockWithinReceipts
  <2>2. copy.row.onHand \in 0..(Opening[copy.key] + received[copy.key])
    BY <1>3 DEF Within
  <2>. HIDE DEF new, old
  <2>. QED BY <1>7, <2>1, <2>2
<1>. HIDE DEF new
<1>9. rows' \in [Keys -> Row] /\ StockWithinReceipts'
  <2>1. rows' \in [Keys -> Row]
    BY <1>1, <1>4, <1>7
  <2>2. UNCHANGED received
    BY DEF SaveWrite
  <2>3. \A k \in Keys : rows'[k].onHand \in 0..(Opening[k] + received[k])
    BY <1>1, <1>4, <1>5, <1>8 DEF ReservationInv, StockWithinReceipts
  <2>. QED BY <2>1, <2>2, <2>3 DEF StockWithinReceipts
<1>10. /\ res' \in [Ids -> Reservations] /\ received' = received
       /\ received' \in [Keys -> 0..MaxReceived] /\ issued' \in 0..MaxIssued
  BY <1>1 DEF SaveWrite
<1>11. /\ pc' \in [Sessions -> Places]
       /\ arg' \in [Sessions -> Args] /\ dirty' \in [Sessions -> SUBSET Columns]
       /\ \A t \in Sessions \ {s} : pc'[t] = pc[t]
  <2>1. CASE Len(todo[s]) = 1
    BY <1>1, <2>1, NothingTyped DEF SaveWrite, End, Goto, Places
  <2>2. CASE Len(todo[s]) # 1
    BY <1>1, <2>2 DEF SaveWrite, Goto, Places
  <2>. QED BY <2>1, <2>2
<1>12. /\ todo' \in [Sessions -> Seq(Copies)]
       /\ \A t \in Sessions \ {s} : todo'[t] = todo[t]
       /\ \/ todo'[s] = <<>> /\ pc'[s] = "idle"
          \/ todo'[s] = Tail(todo[s]) /\ Tail(todo[s]) # <<>>
  <2>1. CASE Len(todo[s]) = 1
    BY <1>1, <2>1, NothingTyped DEF SaveWrite, End, Goto
  <2>2. CASE Len(todo[s]) # 1
    <3>1. todo' = [todo EXCEPT ![s] = Tail(todo[s])]
      BY <2>2 DEF SaveWrite
    <3>2. Tail(todo[s]) \in Seq(Copies) /\ Len(Tail(todo[s])) = Len(todo[s]) - 1
          /\ Len(todo[s]) \in Nat /\ Len(todo[s]) # 0
      BY <1>2
    <3>3. Len(Tail(todo[s])) # 0
      BY <2>2, <3>2
    <3>4. \A rest \in Seq(Copies) : Len(rest) # 0 => rest # <<>>
      OBVIOUS
    <3>5. Tail(todo[s]) # <<>>
      BY <3>2, <3>3, <3>4
    <3>. QED BY <1>1, <3>1, <3>2, <3>5
  <2>. QED BY <2>1, <2>2
<1>13. \A t \in Sessions : pc'[t] \in {"select", "write"} => todo'[t] # <<>>
  BY <1>11, <1>12 DEF ReservationInv
<1>14. ASSUME NEW t \in Sessions, NEW n \in DOMAIN todo'[t]
       PROVE  Within(todo'[t][n], received')
  <2>1. CASE todo'[t] = todo[t]
    BY <1>10, <1>14, <2>1 DEF ReservationInv
  <2>2. CASE todo'[t] = <<>>
    BY <1>14, <2>2
  <2>3. CASE t = s /\ todo'[t] = Tail(todo[s])
    <3>1. n + 1 \in DOMAIN todo[s] /\ Tail(todo[s])[n] = todo[s][n + 1]
      BY <1>2, <1>14, <2>3
    <3>2. Within(todo[s][n + 1], received)
      BY <3>1 DEF ReservationInv
    <3>. QED BY <1>10, <2>3, <3>1, <3>2
  <2>. QED BY <1>12, <2>1, <2>2, <2>3
<1>15. ReservationTypeOK'
  BY <1>9, <1>10, <1>11, <1>12 DEF ReservationTypeOK, Reservations, Places, Args
<1>. QED BY <1>9, <1>13, <1>14, <1>15 DEF ReservationInv


\* A request begins with an argument of the right kind.
LEMMA BeginStep ==
  ASSUME ReservationInv, NEW s \in Sessions, NEW a \in Args,
         NEW to \in {"insert", "end"}, Begin(s, a, to)
  PROVE  ReservationInv'
<1>1. /\ UNCHANGED <<rows, received, issued>> /\ UNCHANGED todo /\ Goto(s, to)
      /\ res' = res /\ dirty' = dirty /\ arg' = [arg EXCEPT ![s] = a]
      /\ to \notin {"select", "write"} /\ to \in Places
  BY DEF Begin, Places
<1>2. /\ res \in [Ids -> Reservations] /\ arg \in [Sessions -> Args]
      /\ dirty \in [Sessions -> SUBSET Columns]
  BY ReservationParts DEF ReservationInv
<1>3. /\ res' \in [Ids -> Reservations] /\ arg' \in [Sessions -> Args]
      /\ dirty' \in [Sessions -> SUBSET Columns]
  BY <1>1, <1>2
<1>. QED BY <1>1, <1>3, OtherStep

\* create() begins with what is asked, release() and cancel() with the reservation.
LEMMA StartsTyped ==
  ASSUME ReservationInv, NEW s \in Sessions,
         \/ \E i \in Ids, k \in Keys, q \in Quantities : Create(s, i, k, q)
         \/ \E i \in Ids : BeginRelease(s, i)
  PROVE  ReservationInv'
<1>1. CASE \E i \in Ids, k \in Keys, q \in Quantities : Create(s, i, k, q)
  <2>1. PICK i \in Ids, k \in Keys, q \in Quantities : Create(s, i, k, q)
    BY <1>1
  <2> DEFINE a == [op |-> "create", id |-> i, batch |-> k, qty |-> q]
  <2>2. a \in Args /\ Begin(s, a, "insert")
    BY <2>1 DEF Args, Create
  <2>. HIDE DEF a
  <2>. QED BY <2>2, BeginStep
<1>2. CASE \E i \in Ids : BeginRelease(s, i)
  <2>1. PICK i \in Ids : BeginRelease(s, i)
    BY <1>2
  <2>2. res[i] \in Reservations
    BY ReservationParts DEF ReservationInv
  <2>3. PICK op \in {"release", "cancel"} :
          Begin(s, [op |-> op, id |-> i, batch |-> res[i].batch, qty |-> res[i].qty], "end")
    BY <2>1 DEF BeginRelease
  <2> DEFINE a == [op |-> op, id |-> i, batch |-> res[i].batch, qty |-> res[i].qty]
  <2>4. a \in Args /\ Begin(s, a, "end")
    BY <2>2, <2>3 DEF Args, Reservations
  <2>. HIDE DEF a
  <2>. QED BY <2>4, BeginStep
<1>. QED BY <1>1, <1>2

\* The saves of a reservation.
LEMMA ReservationSaved ==
  ASSUME ReservationInv, NEW s \in Sessions, Insert(s) \/ EndReservation(s)
  PROVE  ReservationInv'
<1>1. /\ res \in [Ids -> Reservations] /\ arg \in [Sessions -> Args]
      /\ dirty \in [Sessions -> SUBSET Columns]
  BY ReservationParts DEF ReservationInv
<1>2. /\ UNCHANGED <<rows, received, issued>> /\ UNCHANGED todo
      /\ arg' = arg /\ dirty' = dirty
  BY DEF Insert, EndReservation
<1>3. \E to \in Places : to \notin {"select", "write"} /\ Goto(s, to)
  BY DEF Insert, EndReservation, Places
<1>4. res' \in [Ids -> Reservations]
  <2>1. arg[s].id \in Ids /\ arg[s].batch \in Keys /\ arg[s].qty \in Quantities \cup {0}
    BY <1>1 DEF Args
  <2>2. CASE Insert(s)
    <3> DEFINE new == [status |-> "ACTIVE", batch |-> arg[s].batch, qty |-> arg[s].qty]
    <3>1. new \in Reservations /\ res' = [res EXCEPT ![arg[s].id] = new]
      BY <2>1, <2>2 DEF Insert, Reservations
    <3>. HIDE DEF new
    <3>. QED BY <1>1, <3>1
  <2>3. CASE EndReservation(s)
    <3>1. PICK status \in {"RELEASED", "CANCELLED"} :
            res' = [res EXCEPT ![arg[s].id].status = status]
      BY <2>3 DEF EndReservation
    <3>2. res[arg[s].id] \in Reservations
      BY <1>1, <2>1
    <3>3. [res[arg[s].id] EXCEPT !.status = status] \in Reservations
      BY <3>2 DEF Reservations
    <3>. QED BY <1>1, <3>1, <3>3
  <2>. QED BY <2>2, <2>3
<1>5. PICK to \in Places : to \notin {"select", "write"} /\ Goto(s, to)
  BY <1>3
<1>6. arg' \in [Sessions -> Args] /\ dirty' \in [Sessions -> SUBSET Columns]
  BY <1>1, <1>2
<1>. QED BY <1>2, <1>4, <1>5, <1>6, OtherStep

\* A save that selects its row, a refusal and a death move nothing.
LEMMA NothingMoves ==
  ASSUME ReservationInv, NEW s \in Sessions, SaveSelect(s) \/ Refuse(s) \/ Fail(s)
  PROVE  ReservationInv'
<1>1. /\ res \in [Ids -> Reservations] /\ arg \in [Sessions -> Args]
      /\ dirty \in [Sessions -> SUBSET Columns]
  BY ReservationParts DEF ReservationInv
<1>2. CASE SaveSelect(s)
  <2>1. /\ UNCHANGED <<rows, received, issued>> /\ UNCHANGED todo
        /\ res' = res /\ arg' = arg /\ Goto(s, "write") /\ todo[s] # <<>>
    BY <1>2 DEF SaveSelect, ReservationInv
  <2>2. Head(todo[s]).set \subseteq Columns
    <3>1. todo[s] \in Seq(Copies)
      BY ReservationParts DEF ReservationInv
    <3>2. Head(todo[s]) \in Copies
      BY <2>1, <3>1
    <3>. QED BY <3>2 DEF Copies
  <2>3. \E columns \in SUBSET Columns : dirty' = [dirty EXCEPT ![s] = columns]
    BY <1>2, <2>2 DEF SaveSelect
  <2>4. /\ res' \in [Ids -> Reservations] /\ arg' \in [Sessions -> Args]
        /\ dirty' \in [Sessions -> SUBSET Columns] /\ "write" \in Places
    BY <1>1, <2>1, <2>3 DEF Places
  <2>. QED BY <2>1, <2>4, OtherStep
<1>3. CASE Refuse(s) \/ Fail(s)
  <2>1. /\ UNCHANGED <<rows, received, issued>> /\ res' = res /\ Goto(s, "idle")
        /\ arg' = [arg EXCEPT ![s] = NoArg] /\ todo' = [todo EXCEPT ![s] = <<>>]
        /\ dirty' = [dirty EXCEPT ![s] = {}]
    BY <1>3 DEF Refuse, Fail, End
  <2>2. /\ res' \in [Ids -> Reservations] /\ arg' \in [Sessions -> Args]
        /\ dirty' \in [Sessions -> SUBSET Columns] /\ "idle" \in Places
    BY <1>1, <2>1, NothingTyped DEF Places
  <2>. QED BY <2>1, <2>2, OtherStep
<1>. QED BY <1>2, <1>3

\* Every step keeps the invariant.
LEMMA ReservationNextInv ==
  ASSUME ReservationInv, [ReservationNext]_reservationVars
  PROVE  ReservationInv'
<1>1. CASE ReservationNext
  <2>1. PICK s \in Sessions : Start(s) \/ Continue(s) \/ Fail(s)
    BY <1>1 DEF ReservationNext
  <2>2. CASE Start(s)
    <3>1. CASE \/ \E i \in Ids, k \in Keys, q \in Quantities : Create(s, i, k, q)
               \/ \E i \in Ids : BeginRelease(s, i)
      BY <3>1, StartsTyped
    <3>2. CASE \E k \in Keys, q \in Quantities : ReceiveStock(s, k, q)
      BY <3>2, ReceiveStep
    <3>3. CASE \E k \in Keys, q \in Quantities : IssueStock(s, k, q)
      BY <3>3, IssueBatchStep, IssueLooseStep
    <3>. QED BY <2>2, <3>1, <3>2, <3>3 DEF Start
  <2>3. CASE Continue(s)
    BY <2>3, ReservationSaved, ReadRowStep, NothingMoves, SaveWriteStep DEF Continue
  <2>4. CASE Fail(s)
    BY <2>4, NothingMoves
  <2>. QED BY <2>1, <2>2, <2>3, <2>4
<1>2. CASE UNCHANGED reservationVars
  BY <1>2 DEF reservationVars, ReservationInv, ReservationTypeOK, StockWithinReceipts, Within
<1>. QED BY <1>1, <1>2

\* Types hold of every state the requests reach, and so do the bounds on the rows and
\* on every copy, stale ones included, that create(), release(), cancel() and
\* updateBalance() have still to save.
THEOREM CopiesStayWithin == ReservationSpec => []ReservationInv
BY ReservationInitInv, ReservationNextInv, PTL DEF ReservationSpec

\* However many sessions reserve, release, receive and issue without a transaction,
\* saving stale rows over one another and dying anywhere, no row of the table goes
\* below zero or above what was put on it.
THEOREM NeverMoreThanPut == ReservationSpec => []StockWithinReceipts
<1>1. ReservationInv => StockWithinReceipts
  BY DEF ReservationInv
<1>. QED BY <1>1, CopiesStayWithin, PTL
=================================================================================

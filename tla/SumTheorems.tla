------------------------------ MODULE SumTheorems ------------------------------
(***************************************************************************)
(* SumFunction of the community modules adds up the values of a function   *)
(* over a finite set by folding. These lemmas say what it returns, for     *)
(* every finite set: the fold satisfies its recurrence (IterDef), does not *)
(* depend on the order in which the elements are taken (IterRemove), and   *)
(* so the sum has a type, grows with its summands and changes by what one  *)
(* summand changes (SumType, SumMonotonic, SumChange, SumZero, SumNat).    *)
(* Induction over the set is a set of numbers closed under successor       *)
(* (NatSet), since a set, unlike an operator, can be instantiated.         *)
(***************************************************************************)
EXTENDS Functions, FiniteSetTheorems, TLAPS

\* Induction over the natural numbers, for a set in place of a predicate: what lacks
\* some number lacks a least one.
LEMMA NatSet ==
  ASSUME NEW T, 0 \in T, \A n \in Nat : n \in T => n + 1 \in T
  PROVE  Nat \subseteq T
<1> DEFINE Bad == Nat \ T
<1> SUFFICES ASSUME Bad # {} PROVE FALSE
  OBVIOUS
<1>1. \E x \in Bad : \A y \in Bad : ~(<<y, x>> \in OpToRel(<, Nat))
  BY NatLessThanWellFounded, WFMin, Bad \subseteq Nat
<1>2. PICK x \in Bad : \A y \in Bad : ~(y < x)
  BY <1>1 DEF OpToRel
<1>3. x - 1 \in Bad
  <2>1. x # 0
    OBVIOUS
  <2>2. x \in Nat /\ x - 1 \in Nat
    BY <2>1
  <2>3. (x - 1) + 1 = x
    BY <2>2
  <2> QED
    BY <2>2, <2>3
<1>4. QED
  BY <1>2, <1>3

\* The fold's recurrence, and the function the fold defines by it.
SumStep(f, g, s) ==
  IF s = {} THEN 0 ELSE f[CHOOSE x \in s : TRUE] + g[s \ {CHOOSE x \in s : TRUE}]
SumIter(f, S) == CHOOSE g : g = [s \in SUBSET S |-> SumStep(f, g, s)]

\* SumFunction is the value at its domain of the function its fold defines.
LEMMA SumIsIter ==
  ASSUME NEW f
  PROVE  SumFunction(f) = SumIter(f, DOMAIN f)[DOMAIN f]
BY DEF SumFunction, SumFunctionOnSet, FoldFunctionOnSet, MapThenFoldSet, SumIter, SumStep

\* g satisfies the recurrence on sets of at most n elements.
SumSolves(f, g, S, n) ==
  \A s \in SUBSET S : Cardinality(s) <= n => g[s] = SumStep(f, g, s)

\* What satisfies the recurrence up to n elements can be continued to n + 1.
LEMMA SolvesMore ==
  ASSUME NEW f, NEW S, IsFiniteSet(S), NEW n \in Nat, NEW g, SumSolves(f, g, S, n)
  PROVE  SumSolves(f, [s \in SUBSET S |-> SumStep(f, g, s)], S, n + 1)
<1> DEFINE h == [s \in SUBSET S |-> SumStep(f, g, s)]
<1> SUFFICES ASSUME NEW s \in SUBSET S, Cardinality(s) <= n + 1
             PROVE  h[s] = SumStep(f, h, s)
  BY DEF SumSolves
<1>1. CASE s = {}
  BY <1>1 DEF SumStep
<1>2. CASE s # {}
  <2> DEFINE x == CHOOSE y \in s : TRUE
             rest == s \ {x}
  <2>1. x \in s
    BY <1>2
  <2>2. IsFiniteSet(s) /\ Cardinality(rest) = Cardinality(s) - 1 /\ Cardinality(s) \in Nat
    BY <2>1, FS_Subset, FS_RemoveElement, FS_CardinalityType
  <2>3. rest \in SUBSET S /\ Cardinality(rest) <= n
    BY <2>2
  <2>4. h[rest] = g[rest]
    BY <2>3 DEF SumSolves
  <2> HIDE DEF x
  <2>5. h[s] = f[x] + g[rest] /\ SumStep(f, h, s) = f[x] + h[rest]
    BY <1>2 DEF SumStep, x
  <2> QED
    BY <2>4, <2>5
<1> QED
  BY <1>1, <1>2

\* The recurrence has a solution, so the fold, which chooses one, satisfies it.
LEMMA IterDef ==
  ASSUME NEW f, NEW S, IsFiniteSet(S)
  PROVE  \A s \in SUBSET S : SumIter(f, S)[s] = SumStep(f, SumIter(f, S), s)
<1> DEFINE T == {n \in Nat : \E g : SumSolves(f, g, S, n)}
<1>1. 0 \in T
  <2> DEFINE g == [s \in SUBSET S |-> 0]
  <2>1. ASSUME NEW s \in SUBSET S, Cardinality(s) <= 0
        PROVE  s = {}
    BY <2>1, FS_Subset, FS_CardinalityType, FS_EmptySet
  <2>2. SumSolves(f, g, S, 0)
    BY <2>1 DEF SumSolves, SumStep
  <2> QED
    BY <2>2
<1>2. ASSUME NEW n \in Nat, n \in T
      PROVE  n + 1 \in T
  <2>1. PICK g : SumSolves(f, g, S, n)
    BY <1>2
  <2> DEFINE h == [s \in SUBSET S |-> SumStep(f, g, s)]
  <2>2. SumSolves(f, h, S, n + 1)
    BY <2>1, SolvesMore
  <2> HIDE DEF h
  <2> QED
    BY <2>2
<1>3. Nat \subseteq T
  <2> HIDE DEF T
  <2> QED BY <1>1, <1>2, NatSet
<1>4. Cardinality(S) \in T
  BY <1>3, FS_CardinalityType
<1>5. PICK g : SumSolves(f, g, S, Cardinality(S))
  BY <1>4
<1> DEFINE h == [s \in SUBSET S |-> g[s]]
<1>6. \A s \in SUBSET S : g[s] = SumStep(f, g, s)
  <2>1. \A s \in SUBSET S : Cardinality(s) <= Cardinality(S)
    BY FS_Subset
  <2> QED
    BY <1>5, <2>1 DEF SumSolves
<1>7. ASSUME NEW s \in SUBSET S
      PROVE  SumStep(f, g, s) = SumStep(f, h, s)
  <2>1. s \ {CHOOSE x \in s : TRUE} \in SUBSET S
    OBVIOUS
  <2>2. h[s \ {CHOOSE x \in s : TRUE}] = g[s \ {CHOOSE x \in s : TRUE}]
    BY <2>1
  <2> QED
    BY <2>2 DEF SumStep
<1>8. h = [s \in SUBSET S |-> SumStep(f, h, s)]
  BY <1>6, <1>7
<1> HIDE DEF h
<1>9. SumIter(f, S) = [s \in SUBSET S |-> SumStep(f, SumIter(f, S), s)]
  BY <1>8 DEF SumIter
<1> QED
  BY <1>9

\* The recurrence without its CHOOSE.
LEMMA IterCases ==
  ASSUME NEW f, NEW S, IsFiniteSet(S)
  PROVE  /\ SumIter(f, S)[{}] = 0
         /\ \A s \in SUBSET S : s # {} =>
              \E x \in s : SumIter(f, S)[s] = f[x] + SumIter(f, S)[s \ {x}]
<1>1. SumIter(f, S)[{}] = 0
  BY IterDef DEF SumStep
<1>2. ASSUME NEW s \in SUBSET S, s # {}
      PROVE  \E x \in s : SumIter(f, S)[s] = f[x] + SumIter(f, S)[s \ {x}]
  <2> DEFINE x == CHOOSE y \in s : TRUE
  <2>1. x \in s
    BY <1>2
  <2>2. SumIter(f, S)[s] = f[x] + SumIter(f, S)[s \ {x}]
    BY <1>2, IterDef DEF SumStep
  <2> HIDE DEF x
  <2> QED
    BY <2>1, <2>2
<1> QED
  BY <1>1, <1>2

\* Induction over the subsets of a finite set.
LEMMA SubsetInduction ==
  ASSUME NEW S, IsFiniteSet(S), NEW G, {} \in G,
         \A s \in SUBSET S : s # {} /\ (\A x \in s : s \ {x} \in G) => s \in G
  PROVE  SUBSET S \subseteq G
<1> DEFINE T == {n \in Nat : \A s \in SUBSET S : Cardinality(s) = n => s \in G}
<1>1. ASSUME NEW s \in SUBSET S
      PROVE  /\ IsFiniteSet(s) /\ Cardinality(s) \in Nat
             /\ Cardinality(s) = 0 <=> s = {}
             /\ \A x \in s : Cardinality(s \ {x}) = Cardinality(s) - 1
  BY FS_Subset, FS_CardinalityType, FS_EmptySet, FS_RemoveElement
<1>2. 0 \in T
  BY <1>1
<1>3. ASSUME NEW n \in Nat, n \in T
      PROVE  n + 1 \in T
  <2> SUFFICES ASSUME NEW s \in SUBSET S, Cardinality(s) = n + 1
               PROVE  s \in G
    OBVIOUS
  <2>1. s # {}
    BY <1>1
  <2>2. ASSUME NEW x \in s
        PROVE  s \ {x} \in G
    <3>1. s \ {x} \in SUBSET S /\ Cardinality(s \ {x}) = n
      BY <1>1
    <3> QED
      BY <1>3, <3>1
  <2> QED
    BY <2>1, <2>2
<1>4. Nat \subseteq T
  <2> HIDE DEF T
  <2> QED BY <1>2, <1>3, NatSet
<1> QED
  BY <1>1, <1>4

\* Integers add up to an integer.
LEMMA IterType ==
  ASSUME NEW S, IsFiniteSet(S), NEW f, \A x \in S : f[x] \in Int
  PROVE  \A s \in SUBSET S : SumIter(f, S)[s] \in Int
<1> DEFINE G == {s \in SUBSET S : SumIter(f, S)[s] \in Int}
<1>1. {} \in G
  BY IterCases
<1>2. ASSUME NEW s \in SUBSET S, s # {}, \A x \in s : s \ {x} \in G
      PROVE  s \in G
  <2>1. PICK x \in s : SumIter(f, S)[s] = f[x] + SumIter(f, S)[s \ {x}]
    BY <1>2, IterCases
  <2>2. SumIter(f, S)[s \ {x}] \in Int
    BY <1>2
  <2>3. f[x] \in Int
    OBVIOUS
  <2> QED
    BY <2>1, <2>2, <2>3
<1>3. SUBSET S \subseteq G
  <2> HIDE DEF G
  <2> QED BY <1>1, <1>2, SubsetInduction
<1> QED
  BY <1>3

\* Any element may be taken first: addition commutes.
LEMMA IterRemove ==
  ASSUME NEW S, IsFiniteSet(S), NEW f, \A x \in S : f[x] \in Int
  PROVE  \A s \in SUBSET S : \A x \in s : SumIter(f, S)[s] = f[x] + SumIter(f, S)[s \ {x}]
<1> DEFINE I == SumIter(f, S)
           G == {s \in SUBSET S : \A x \in s : I[s] = f[x] + I[s \ {x}]}
<1>1. {} \in G
  OBVIOUS
<1>2. ASSUME NEW s \in SUBSET S, s # {}, \A x \in s : s \ {x} \in G
      PROVE  s \in G
  <2> SUFFICES ASSUME NEW x \in s
               PROVE  I[s] = f[x] + I[s \ {x}]
    OBVIOUS
  <2>1. PICK y \in s : I[s] = f[y] + I[s \ {y}]
    BY <1>2, IterCases
  <2>2. CASE x = y
    BY <2>1, <2>2
  <2>3. CASE x # y
    <3> DEFINE rest == (s \ {x}) \ {y}
    <3>1. rest = (s \ {y}) \ {x} /\ x \in s \ {y} /\ y \in s \ {x} /\ rest \in SUBSET S
      BY <2>3
    <3>2. I[s \ {y}] = f[x] + I[rest]
      BY <1>2, <3>1
    <3>3. I[s \ {x}] = f[y] + I[rest]
      BY <1>2, <3>1
    <3>4. I[rest] \in Int /\ f[x] \in Int /\ f[y] \in Int
      BY <3>1, IterType
    <3> HIDE DEF rest, I
    <3> QED
      BY <2>1, <3>2, <3>3, <3>4
  <2> QED
    BY <2>2, <2>3
<1>3. SUBSET S \subseteq G
  <2> HIDE DEF G
  <2> QED BY <1>1, <1>2, SubsetInduction
<1> QED
  BY <1>3

\* A sum of no lesser values is no lesser.
LEMMA IterMonotonic ==
  ASSUME NEW S, IsFiniteSet(S),
         NEW f, \A x \in S : f[x] \in Int, NEW g, \A x \in S : g[x] \in Int
  PROVE  \A s \in SUBSET S :
           (\A x \in s : f[x] <= g[x]) => SumIter(f, S)[s] <= SumIter(g, S)[s]
<1> DEFINE G == {s \in SUBSET S : (\A x \in s : f[x] <= g[x]) => SumIter(f, S)[s] <= SumIter(g, S)[s]}
<1>1. {} \in G
  BY IterCases
<1>2. ASSUME NEW s \in SUBSET S, s # {}, \A x \in s : s \ {x} \in G
      PROVE  s \in G
  <2> SUFFICES ASSUME \A x \in s : f[x] <= g[x]
               PROVE  SumIter(f, S)[s] <= SumIter(g, S)[s]
    OBVIOUS
  <2>1. PICK x : x \in s
    BY <1>2
  <2>2. SumIter(f, S)[s \ {x}] <= SumIter(g, S)[s \ {x}]
    BY <1>2, <2>1
  <2>3. SumIter(f, S)[s] = f[x] + SumIter(f, S)[s \ {x}] /\ SumIter(g, S)[s] = g[x] + SumIter(g, S)[s \ {x}]
    BY <2>1, IterRemove
  <2>4. SumIter(f, S)[s \ {x}] \in Int /\ SumIter(g, S)[s \ {x}] \in Int
    <3>1. s \ {x} \in SUBSET S
      OBVIOUS
    <3> QED
      BY <3>1, IterType
  <2>5. f[x] \in Int /\ g[x] \in Int /\ f[x] <= g[x]
    BY <2>1
  <2> QED
    BY <2>2, <2>3, <2>4, <2>5
<1>3. SUBSET S \subseteq G
  <2> HIDE DEF G
  <2> QED BY <1>1, <1>2, SubsetInduction
<1> QED
  BY <1>3

\* Integers add up to an integer.
LEMMA SumType ==
  ASSUME NEW S, IsFiniteSet(S), NEW f \in [S -> Int]
  PROVE  SumFunction(f) \in Int
<1>1. SumFunction(f) = SumIter(f, S)[S]
  BY SumIsIter
<1>2. S \in SUBSET S /\ \A x \in S : f[x] \in Int
  OBVIOUS
<1> QED
  BY <1>1, <1>2, IterType

\* A sum of no lesser values is no lesser.
LEMMA SumMonotonic ==
  ASSUME NEW S, IsFiniteSet(S), NEW f \in [S -> Int], NEW g \in [S -> Int],
         \A x \in S : f[x] <= g[x]
  PROVE  SumFunction(f) <= SumFunction(g)
<1>1. SumFunction(f) = SumIter(f, S)[S] /\ SumFunction(g) = SumIter(g, S)[S]
  BY SumIsIter
<1>2. S \in SUBSET S /\ (\A x \in S : f[x] \in Int) /\ (\A x \in S : g[x] \in Int)
  OBVIOUS
<1> QED
  BY <1>1, <1>2, IterMonotonic

\* Where one value changes, the sum changes by as much.
LEMMA SumChange ==
  ASSUME NEW S, IsFiniteSet(S), NEW f \in [S -> Int], NEW g \in [S -> Int],
         NEW d \in S, \A x \in S \ {d} : g[x] = f[x]
  PROVE  SumFunction(g) = SumFunction(f) - f[d] + g[d]
<1> DEFINE rest == S \ {d}
<1>1. SumFunction(f) = SumIter(f, S)[S] /\ SumFunction(g) = SumIter(g, S)[S]
  BY SumIsIter
<1>2. /\ S \in SUBSET S /\ rest \in SUBSET S
      /\ \A x \in S : f[x] \in Int /\ g[x] \in Int
      /\ \A x \in rest : f[x] <= g[x] /\ g[x] <= f[x]
  OBVIOUS
<1>3. SumIter(f, S)[S] = f[d] + SumIter(f, S)[rest] /\ SumIter(g, S)[S] = g[d] + SumIter(g, S)[rest]
  <2>1. \A x \in S : SumIter(f, S)[S] = f[x] + SumIter(f, S)[S \ {x}]
    BY <1>2, IterRemove
  <2>2. \A x \in S : SumIter(g, S)[S] = g[x] + SumIter(g, S)[S \ {x}]
    BY <1>2, IterRemove
  <2> QED
    BY <2>1, <2>2
<1>4. SumIter(f, S)[rest] \in Int /\ SumIter(g, S)[rest] \in Int
  BY <1>2, IterType
<1>5. SumIter(f, S)[rest] <= SumIter(g, S)[rest]
  BY <1>2, IterMonotonic
<1>6. SumIter(g, S)[rest] <= SumIter(f, S)[rest]
  BY <1>2, IterMonotonic
<1> HIDE DEF rest
<1> QED
  BY <1>1, <1>2, <1>3, <1>4, <1>5, <1>6

\* Zeros add up to zero.
LEMMA SumZero ==
  ASSUME NEW S, IsFiniteSet(S)
  PROVE  SumFunction([x \in S |-> 0]) = 0
<1> DEFINE z == [x \in S |-> 0]
           G == {s \in SUBSET S : SumIter(z, S)[s] = 0}
<1>1. {} \in G
  BY IterCases
<1>2. ASSUME NEW s \in SUBSET S, s # {}, \A x \in s : s \ {x} \in G
      PROVE  s \in G
  <2>1. PICK x \in s : SumIter(z, S)[s] = z[x] + SumIter(z, S)[s \ {x}]
    BY <1>2, IterCases
  <2>2. SumIter(z, S)[s \ {x}] = 0
    BY <1>2
  <2>3. z[x] = 0
    OBVIOUS
  <2> QED
    BY <2>1, <2>2, <2>3
<1>3. SUBSET S \subseteq G
  <2> HIDE DEF G
  <2> QED BY <1>1, <1>2, SubsetInduction
<1>4. SumFunction(z) = SumIter(z, S)[S]
  <2>1. DOMAIN z = S
    OBVIOUS
  <2> HIDE DEF z
  <2> QED
    BY <2>1, SumIsIter
<1> QED
  BY <1>3, <1>4

\* Natural numbers add up to one that is no less than any of them.
LEMMA SumNat ==
  ASSUME NEW S, IsFiniteSet(S), NEW f \in [S -> Nat]
  PROVE  /\ SumFunction(f) \in Nat
         /\ \A d \in S : f[d] <= SumFunction(f)
<1>1. f \in [S -> Int] /\ \A x \in S : f[x] \in Nat
  OBVIOUS
<1>2. SumFunction(f) \in Int
  BY <1>1, SumType
<1>3. SumFunction(f) >= 0
  <2> DEFINE z == [x \in S |-> 0]
  <2>1. z \in [S -> Int] /\ \A x \in S : z[x] <= f[x]
    BY <1>1
  <2>2. SumFunction(z) = 0
    BY SumZero
  <2> HIDE DEF z
  <2>3. SumFunction(z) <= SumFunction(f)
    BY <1>1, <2>1, SumMonotonic
  <2> QED
    BY <1>2, <2>2, <2>3
<1>4. ASSUME NEW d \in S
      PROVE  f[d] <= SumFunction(f)
  <2> DEFINE z == [x \in S |-> 0]
             one == [x \in S |-> IF x = d THEN f[d] ELSE 0]
  <2>1. /\ z \in [S -> Int] /\ one \in [S -> Int] /\ one[d] = f[d] /\ z[d] = 0
        /\ \A x \in S \ {d} : one[x] = z[x]
        /\ \A x \in S : one[x] <= f[x]
    BY <1>1
  <2>2. SumFunction(z) = 0
    BY SumZero
  <2> HIDE DEF z, one
  <2>3. SumFunction(one) = 0 - 0 + f[d]
    BY <2>1, <2>2, SumChange
  <2>4. SumFunction(one) <= SumFunction(f)
    BY <1>1, <2>1, SumMonotonic
  <2> QED
    BY <1>1, <2>3, <2>4
<1> QED
  BY <1>2, <1>3, <1>4


\* The fold over a set gives its subsets the sums the fold over them gives.
LEMMA IterLocal ==
  ASSUME NEW f, NEW T, IsFiniteSet(T), NEW S \in SUBSET T
  PROVE  \A s \in SUBSET S : SumIter(f, T)[s] = SumIter(f, S)[s]
<1> DEFINE G == {s \in SUBSET S : SumIter(f, T)[s] = SumIter(f, S)[s]}
<1>1. IsFiniteSet(S) /\ SUBSET S \subseteq SUBSET T
  BY FS_Subset
<1>2. {} \in G
  BY <1>1, IterCases
<1>3. ASSUME NEW s \in SUBSET S, s # {}, \A x \in s : s \ {x} \in G
      PROVE  s \in G
  <2> DEFINE x == CHOOSE y \in s : TRUE
  <2>1. x \in s
    BY <1>3
  <2>2. SumIter(f, T)[s] = SumStep(f, SumIter(f, T), s) /\ SumIter(f, S)[s] = SumStep(f, SumIter(f, S), s)
    BY <1>1, <1>3, IterDef
  <2>3. SumIter(f, T)[s] = f[x] + SumIter(f, T)[s \ {x}] /\ SumIter(f, S)[s] = f[x] + SumIter(f, S)[s \ {x}]
    BY <1>3, <2>2 DEF SumStep
  <2> HIDE DEF x
  <2>4. SumIter(f, T)[s \ {x}] = SumIter(f, S)[s \ {x}]
    BY <1>3, <2>1
  <2> QED
    BY <2>3, <2>4
<1>4. SUBSET S \subseteq G
  <2> HIDE DEF G
  <2> QED BY <1>1, <1>2, <1>3, SubsetInduction
<1> QED
  BY <1>4

\* SumFunctionOnSet is the fold's value at the set.
LEMMA SumOnIsIter ==
  ASSUME NEW f, NEW S
  PROVE  SumFunctionOnSet(f, S) = SumIter(f, S)[S]
BY DEF SumFunctionOnSet, FoldFunctionOnSet, MapThenFoldSet, SumIter, SumStep

\* Over a set of indices: the empty sum, the type, and what one more index adds.
LEMMA SumOnEmpty == ASSUME NEW f PROVE SumFunctionOnSet(f, {}) = 0
BY SumOnIsIter, IterCases, FS_EmptySet

\* Integers add up to an integer.
LEMMA SumOnType ==
  ASSUME NEW S, IsFiniteSet(S), NEW f, \A x \in S : f[x] \in Int
  PROVE  SumFunctionOnSet(f, S) \in Int
<1>1. S \in SUBSET S
  OBVIOUS
<1>. QED BY <1>1, SumOnIsIter, IterType

\* Any index may be taken first.
LEMMA SumOnRemove ==
  ASSUME NEW S, IsFiniteSet(S), NEW f, \A x \in S : f[x] \in Int, NEW d \in S
  PROVE  SumFunctionOnSet(f, S) = f[d] + SumFunctionOnSet(f, S \ {d})
<1>1. S \in SUBSET S /\ \A x \in S : f[x] \in Int
  OBVIOUS
<1>2. S \ {d} \in SUBSET S /\ S \ {d} \in SUBSET (S \ {d})
  OBVIOUS
<1>3. SumIter(f, S)[S] = f[d] + SumIter(f, S)[S \ {d}]
  BY <1>1, IterRemove
<1>4. SumIter(f, S)[S \ {d}] = SumIter(f, S \ {d})[S \ {d}]
  BY <1>2, IterLocal
<1>5. SumFunctionOnSet(f, S) = SumIter(f, S)[S] /\ SumFunctionOnSet(f, S \ {d}) = SumIter(f, S \ {d})[S \ {d}]
  BY SumOnIsIter
<1>. QED BY <1>3, <1>4, <1>5

\* One index more adds its value.
LEMMA SumOnInsert ==
  ASSUME NEW S, IsFiniteSet(S), NEW d, d \notin S, NEW f, \A x \in S \cup {d} : f[x] \in Int
  PROVE  SumFunctionOnSet(f, S \cup {d}) = f[d] + SumFunctionOnSet(f, S)
<1> DEFINE T == S \cup {d}
<1>1. IsFiniteSet(T) /\ d \in T /\ T \ {d} = S /\ \A x \in T : f[x] \in Int
  BY FS_AddElement
<1> HIDE DEF T
<1>2. SumFunctionOnSet(f, T) = f[d] + SumFunctionOnSet(f, T \ {d})
  BY <1>1, SumOnRemove
<1>. QED BY <1>1, <1>2 DEF T


\* A sum depends on the values over its indices only.
LEMMA SumOnSame ==
  ASSUME NEW S, IsFiniteSet(S), NEW f, NEW g, \A x \in S : f[x] \in Int /\ g[x] = f[x]
  PROVE  SumFunctionOnSet(f, S) = SumFunctionOnSet(g, S)
<1>1. /\ S \in SUBSET S
      /\ (\A x \in S : f[x] \in Int) /\ (\A x \in S : g[x] \in Int)
      /\ \A x \in S : f[x] <= g[x] /\ g[x] <= f[x]
  OBVIOUS
<1>2. SumIter(f, S)[S] <= SumIter(g, S)[S]
  BY <1>1, IterMonotonic
<1>3. SumIter(g, S)[S] <= SumIter(f, S)[S]
  BY <1>1, IterMonotonic
<1>4. SumIter(f, S)[S] \in Int /\ SumIter(g, S)[S] \in Int
  BY <1>1, IterType
<1>. QED BY <1>2, <1>3, <1>4, SumOnIsIter

\* A function defined on one element more adds its value there.
LEMMA SumExtend ==
  ASSUME NEW S, IsFiniteSet(S), NEW d, d \notin S,
         NEW f \in [S -> Int], NEW g \in [S \cup {d} -> Int], \A x \in S : g[x] = f[x]
  PROVE  SumFunction(g) = SumFunction(f) + g[d]
<1>1. /\ \A x \in S \cup {d} : g[x] \in Int
      /\ \A x \in S : f[x] \in Int /\ g[x] = f[x]
      /\ DOMAIN f = S /\ DOMAIN g = S \cup {d}
  OBVIOUS
<1>2. SumFunction(f) = SumFunctionOnSet(f, S) /\ SumFunction(g) = SumFunctionOnSet(g, S \cup {d})
  BY <1>1 DEF SumFunction
<1>3. SumFunctionOnSet(g, S \cup {d}) = g[d] + SumFunctionOnSet(g, S)
  BY <1>1, SumOnInsert
<1>4. SumFunctionOnSet(f, S) = SumFunctionOnSet(g, S)
  BY <1>1, SumOnSame
<1>5. SumFunctionOnSet(f, S) \in Int
  BY <1>1, SumOnType
<1>6. g[d] \in Int
  BY <1>1
<1>. QED BY <1>2, <1>3, <1>4, <1>5, <1>6
=================================================================================

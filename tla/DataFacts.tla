------------------------------ MODULE DataFacts -----------------------------
(***************************************************************************)
(* Facts about the data the other modules compute with.                    *)
(*                                                                         *)
(* Numbers: a set of natural numbers has a least element, from which       *)
(* induction follows, and that a loop computes what it is written to.      *)
(*                                                                         *)
(* Sums over a finite set, the _sum of an aggregate query and the reduce   *)
(* of a loop over rows: a sum is a number, it does not depend on the order *)
(* of the rows, and a row that comes, goes or changes moves it by that     *)
(* row's figure. A sum is a fold, that is a recursive function over the    *)
(* subsets of its set; what holds of every subset is shown by taking a     *)
(* smallest set for which it would fail.                                   *)
(***************************************************************************)
EXTENDS Sums, FiniteSetTheorems, TLAPS

\* Of some natural numbers, one is the least.
LEMMA LeastNatural ==
  ASSUME NEW S \in SUBSET Nat, S # {}
  PROVE  \E n \in S : \A m \in S : n <= m
<1>1. PICK n \in S : \A m \in S : <<m, n>> \notin OpToRel(<, Nat)
  BY NatLessThanWellFounded, WFMin, Zenon
<1>2. \A m \in S : ~(m < n)
  BY <1>1 DEF OpToRel
<1>3. QED
  BY <1>2

\* Induction over the natural numbers: were one not Good, a least one would be.
LEMMA NumberInduction ==
  ASSUME NEW Good, 0 \in Good, \A n \in Nat : n \in Good => n + 1 \in Good
  PROVE  Nat \subseteq Good
<1> SUFFICES ASSUME Nat \ Good # {} PROVE FALSE
  OBVIOUS
<1>1. PICK n \in Nat \ Good : \A m \in Nat \ Good : n <= m
  BY LeastNatural
<1>2. n - 1 \in Nat /\ n - 1 \in Good /\ n = (n - 1) + 1
  BY <1>1
<1>3. QED
  BY <1>1, <1>2

\* The smallest of some natural numbers, as Math.min finds it.
LEMMA MinOfNaturals ==
  ASSUME NEW S \in SUBSET Nat, S # {}
  PROVE  Min(S) \in S /\ \A m \in S : Min(S) <= m
BY LeastNatural DEF Min

\* What a loop computes step by step exists: a function recursive on 0 .. n.
LEMMA LoopExists ==
  ASSUME NEW X, NEW start \in X, NEW n \in Nat, NEW next \in [1 .. n -> [X -> X]]
  PROVE  \E f \in [0 .. n -> X] :
           f[0] = start /\ \A k \in 1 .. n : f[k] = next[k][f[k - 1]]
<1> DEFINE UpTo(m, f) == f[0] = start /\ \A k \in 1 .. m : f[k] = next[k][f[k - 1]]
           Good == {m \in Nat : m <= n => \E f \in [0 .. m -> X] : UpTo(m, f)}
<1>1. 0 \in Good
  <2>1. [k \in 0 .. 0 |-> start] \in [0 .. 0 -> X] /\ UpTo(0, [k \in 0 .. 0 |-> start])
    OBVIOUS
  <2>2. QED
    BY <2>1
<1>2. ASSUME NEW m \in Nat, m \in Good PROVE m + 1 \in Good
  <2> SUFFICES ASSUME m + 1 <= n PROVE \E f \in [0 .. m + 1 -> X] : UpTo(m + 1, f)
    OBVIOUS
  <2>1. PICK f \in [0 .. m -> X] : UpTo(m, f)
    BY <1>2
  <2> DEFINE g == [k \in 0 .. m + 1 |-> IF k = m + 1 THEN next[m + 1][f[m]] ELSE f[k]]
  <2>2. f[m] \in X /\ m + 1 \in 1 .. n
    OBVIOUS
  <2>3. next[m + 1][f[m]] \in X
    BY <2>2
  <2>4. g \in [0 .. m + 1 -> X]
    BY <2>3
  <2>5. \A k \in 0 .. m : g[k] = f[k]
    OBVIOUS
  <2>6. g[m + 1] = next[m + 1][f[m]]
    OBVIOUS
  <2> HIDE DEF g
  <2>7. ASSUME NEW k \in 1 .. m + 1 PROVE g[k] = next[k][g[k - 1]]
    <3>1. CASE k = m + 1
      BY <2>5, <2>6, <3>1
    <3>2. CASE k # m + 1
      <4>1. k \in 1 .. m /\ k \in 0 .. m /\ k - 1 \in 0 .. m
        BY <3>2
      <4>2. QED
        BY <2>1, <2>5, <4>1
    <3>3. QED
      BY <3>1, <3>2
  <2>8. g[0] = start
    BY <2>1, <2>5
  <2>9. QED
    BY <2>4, <2>7, <2>8
<1> HIDE DEF Good
<1>3. n \in Good
  BY <1>1, <1>2, NumberInduction
<1>4. QED
  BY <1>3 DEF Good
-----------------------------------------------------------------------------
\* The row the fold takes first.
Chosen(s) == CHOOSE x \in s : TRUE

\* g is the table of partial sums over the subsets of S.
Table(S, f, g) ==
  g = [s \in SUBSET S |-> IF s = {} THEN 0 ELSE f[Chosen(s)] + g[s \ {Chosen(s)}]]

\* A sum is the last entry of the table of partial sums.
LEMMA SumChosen ==
  ASSUME NEW S, NEW f
  PROVE  SumOf(S, f) = (CHOOSE g : Table(S, f, g))[S]
BY DEF SumOf, MapThenSumSet, MapThenFoldSet, Table, Chosen

\* The chosen row is one of the rows.
LEMMA ChosenIn == ASSUME NEW s, s # {} PROVE Chosen(s) \in s
BY DEF Chosen

\* Induction over the subsets of a finite set: were one not Good, a smallest
\* one of these would be, since all smaller ones are.
LEMMA SubsetInduction ==
  ASSUME NEW S, IsFiniteSet(S), NEW Good,
         \A T \in SUBSET S : (\A U \in (SUBSET T) \ {T} : U \in Good) => T \in Good
  PROVE  S \in Good
<1> DEFINE Bad == {T \in SUBSET S : T \notin Good}
<1> SUFFICES ASSUME Bad # {} PROVE FALSE
  OBVIOUS
<1>1. IsWellFoundedOn(StrictSubsetOrdering(S), SUBSET S)
  <2>1. FiniteSubsetsOf(S) = SUBSET S
    BY FS_FiniteSubsetsOfFinite
  <2>2. IsWellFoundedOn(StrictSubsetOrdering(S), FiniteSubsetsOf(S))
    BY FS_StrictSubsetOrderingWellFounded
  <2>3. QED
    BY <2>1, <2>2, Zenon
<1>2. PICK T \in Bad : \A U \in Bad : <<U, T>> \notin StrictSubsetOrdering(S)
  <2>1. Bad \subseteq SUBSET S
    OBVIOUS
  <2> HIDE DEF Bad
  <2>2. QED
    BY <1>1, <2>1, WFMin
<1>3. ASSUME NEW U \in (SUBSET T) \ {T} PROVE U \in Good
  BY <1>2 DEF StrictSubsetOrdering
<1>4. QED
  BY <1>3

\* Two tables agree on the rows both are about.
LEMMA TablesAgree ==
  ASSUME NEW S, IsFiniteSet(S), NEW f, NEW A, NEW B, S \subseteq A, S \subseteq B,
         NEW g, Table(A, f, g), NEW h, Table(B, f, h)
  PROVE  g[S] = h[S]
<1> DEFINE Good == {T \in SUBSET S : g[T] = h[T]}
<1>1. ASSUME NEW T \in SUBSET S, \A U \in (SUBSET T) \ {T} : U \in Good
      PROVE  T \in Good
  <2>1. T \in SUBSET A /\ T \in SUBSET B
    OBVIOUS
  <2>2. CASE T = {}
    <3>1. g[T] = 0 /\ h[T] = 0
      BY <2>1, <2>2 DEF Table
    <3>2. QED
      BY <3>1
  <2>3. CASE T # {}
    <3>1. T \ {Chosen(T)} \in (SUBSET T) \ {T}
      BY <2>3, ChosenIn
    <3>2. g[T] = f[Chosen(T)] + g[T \ {Chosen(T)}] /\ h[T] = f[Chosen(T)] + h[T \ {Chosen(T)}]
      BY <2>1, <2>3 DEF Table
    <3>3. g[T \ {Chosen(T)}] = h[T \ {Chosen(T)}]
      BY <1>1, <3>1
    <3>4. QED
      BY <3>2, <3>3
  <2>4. QED
    BY <2>2, <2>3
<1> HIDE DEF Good
<1>2. S \in Good
  BY <1>1, SubsetInduction
<1>3. QED
  BY <1>2 DEF Good

\* Every finite set of rows has its table of partial sums.
LEMMA TableExists ==
  ASSUME NEW S, IsFiniteSet(S), NEW f
  PROVE  \E g : Table(S, f, g)
<1> DEFINE Good == {T \in SUBSET S : \E g : Table(T, f, g)}
<1>1. ASSUME NEW T \in SUBSET S, \A U \in (SUBSET T) \ {T} : U \in Good
      PROVE  T \in Good
  <2> DEFINE h == [s \in SUBSET T |-> IF s = {} THEN 0
                                      ELSE f[Chosen(s)] + SumOf(s \ {Chosen(s)}, f)]
  <2>1. ASSUME NEW s \in SUBSET T, s # {}
        PROVE  h[s \ {Chosen(s)}] = SumOf(s \ {Chosen(s)}, f)
    <3> DEFINE u == s \ {Chosen(s)}
    <3>1. u \in (SUBSET T) \ {T} /\ IsFiniteSet(u) /\ u \in SUBSET T
      BY <2>1, ChosenIn, FS_Subset
    <3> SUFFICES h[u] = SumOf(u, f)
      OBVIOUS
    <3> HIDE DEF u
    <3>2. PICK g : Table(u, f, g) /\ SumOf(u, f) = g[u]
      BY <1>1, <3>1, SumChosen
    <3>3. CASE u = {}
      BY <3>1, <3>2, <3>3 DEF Table
    <3>4. CASE u # {}
      <4> DEFINE v == u \ {Chosen(u)}
      <4>1. v \in (SUBSET T) \ {T} /\ IsFiniteSet(v) /\ v \subseteq u
        BY <3>1, <3>4, ChosenIn, FS_Subset
      <4> HIDE DEF v
      <4>2. PICK k : Table(v, f, k) /\ SumOf(v, f) = k[v]
        BY <1>1, <4>1, SumChosen
      <4>3. g[v] = k[v]
        BY <3>2, <4>1, <4>2, TablesAgree
      <4>4. g[u] = f[Chosen(u)] + g[v]
        BY <3>2, <3>4 DEF Table, v
      <4>5. h[u] = f[Chosen(u)] + SumOf(v, f)
        BY <3>1, <3>4 DEF v
      <4>6. QED
        BY <3>2, <4>2, <4>3, <4>4, <4>5
    <3>5. QED
      BY <3>3, <3>4
  <2>2. Table(T, f, h)
    BY <2>1 DEF Table
  <2>3. QED
    BY <2>2
<1> HIDE DEF Good
<1>2. S \in Good
  BY <1>1, SubsetInduction
<1>3. QED
  BY <1>2 DEF Good
-----------------------------------------------------------------------------
\* The sum as a recursion: nothing, or the chosen row and the sum of the others.
LEMMA SumUnfold ==
  ASSUME NEW S, IsFiniteSet(S), NEW f
  PROVE  SumOf(S, f) = IF S = {} THEN 0 ELSE f[Chosen(S)] + SumOf(S \ {Chosen(S)}, f)
<1> DEFINE c == Chosen(S)
<1>1. PICK g : Table(S, f, g) /\ SumOf(S, f) = g[S]
  BY TableExists, SumChosen
<1>2. CASE S = {}
  BY <1>1, <1>2 DEF Table
<1>3. CASE S # {}
  <2> DEFINE R == S \ {c}
  <2>1. IsFiniteSet(R) /\ R \subseteq S
    BY FS_Subset
  <2> HIDE DEF R
  <2>2. PICK h : Table(R, f, h) /\ SumOf(R, f) = h[R]
    BY <2>1, TableExists, SumChosen
  <2>3. g[R] = h[R]
    BY <1>1, <2>1, <2>2, TablesAgree
  <2>4. g[S] = f[c] + g[R]
    BY <1>1, <1>3 DEF Table, R
  <2>5. QED
    BY <1>1, <1>3, <2>2, <2>3, <2>4 DEF R
<1>4. QED
  BY <1>2, <1>3

\* No rows, no sum: the "?? 0" of an aggregate over nothing.
LEMMA SumEmpty == ASSUME NEW f PROVE SumOf({}, f) = 0
BY SumUnfold, FS_EmptySet

\* Sums of members of a set of numbers closed under addition.
LEMMA SumClosed ==
  ASSUME NEW S, IsFiniteSet(S), NEW f, NEW N, 0 \in N, \A m, n \in N : m + n \in N,
         \A x \in S : f[x] \in N
  PROVE  SumOf(S, f) \in N
<1> DEFINE Good == {T \in SUBSET S : SumOf(T, f) \in N}
<1>1. ASSUME NEW T \in SUBSET S, \A U \in (SUBSET T) \ {T} : U \in Good
      PROVE  T \in Good
  <2>1. IsFiniteSet(T)
    BY FS_Subset
  <2>2. CASE T = {}
    BY <2>2, SumEmpty
  <2>3. CASE T # {}
    <3>1. Chosen(T) \in S /\ T \ {Chosen(T)} \in (SUBSET T) \ {T}
      BY <2>3, ChosenIn
    <3>2. SumOf(T, f) = f[Chosen(T)] + SumOf(T \ {Chosen(T)}, f)
      BY <2>1, <2>3, SumUnfold
    <3>3. QED
      BY <1>1, <3>1, <3>2
  <2>4. QED
    BY <2>2, <2>3
<1> HIDE DEF Good
<1>2. S \in Good
  BY <1>1, SubsetInduction
<1>3. QED
  BY <1>2 DEF Good

\* Quantities, which are natural numbers, add up to a natural number.
LEMMA SumNat ==
  ASSUME NEW S, IsFiniteSet(S), NEW f, \A x \in S : f[x] \in Nat
  PROVE  SumOf(S, f) \in Nat
<1>1. 0 \in Nat /\ \A m, n \in Nat : m + n \in Nat
  OBVIOUS
<1>2. QED
  BY <1>1, SumClosed

\* Whole numbers add up to a whole number.
LEMMA SumInt ==
  ASSUME NEW S, IsFiniteSet(S), NEW f, \A x \in S : f[x] \in Int
  PROVE  SumOf(S, f) \in Int
<1>1. 0 \in Int /\ \A m, n \in Int : m + n \in Int
  OBVIOUS
<1>2. QED
  BY <1>1, SumClosed

\* Figures that are all nothing add up to nothing.
LEMMA SumZero ==
  ASSUME NEW S, IsFiniteSet(S), NEW f, \A x \in S : f[x] = 0
  PROVE  SumOf(S, f) = 0
<1>1. 0 \in {0} /\ (\A m, n \in {0} : m + n \in {0}) /\ \A x \in S : f[x] \in {0}
  OBVIOUS
<1>2. SumOf(S, f) \in {0}
  BY <1>1, SumClosed
<1>3. QED
  BY <1>2

\* Any row can be taken out first: the order of the rows does not matter.
LEMMA SumRemove ==
  ASSUME NEW S, IsFiniteSet(S), NEW f, \A x \in S : f[x] \in Int, NEW a \in S
  PROVE  SumOf(S, f) = f[a] + SumOf(S \ {a}, f)
<1> DEFINE Good == {T \in SUBSET S : \A b \in T : SumOf(T, f) = f[b] + SumOf(T \ {b}, f)}
<1>1. ASSUME NEW T \in SUBSET S, \A U \in (SUBSET T) \ {T} : U \in Good, NEW b \in T
      PROVE  SumOf(T, f) = f[b] + SumOf(T \ {b}, f)
  <2> DEFINE c == Chosen(T)
             C == T \ {c}
             B == T \ {b}
             D == T \ {b, c}
  <2>1. c \in T /\ IsFiniteSet(T) /\ C \in SUBSET S /\ B \in SUBSET S /\ D \in SUBSET S
    BY ChosenIn, FS_Subset
  <2>2. IsFiniteSet(C) /\ IsFiniteSet(B) /\ IsFiniteSet(D)
    BY <2>1, FS_Subset
  <2>3. SumOf(T, f) = f[c] + SumOf(C, f)
    BY <2>1, SumUnfold
  <2>4. CASE b = c
    BY <2>3, <2>4
  <2>5. CASE b # c
    <3>1. C \in Good /\ B \in Good
      BY <1>1, <2>1
    <3>2. b \in C /\ c \in B /\ C \ {b} = D /\ B \ {c} = D
      BY <2>1, <2>5
    <3>3. SumOf(C, f) = f[b] + SumOf(D, f) /\ SumOf(B, f) = f[c] + SumOf(D, f)
      BY <3>1, <3>2
    <3>4. f[b] \in Int /\ f[c] \in Int
      BY <2>1
    <3>5. SumOf(D, f) \in Int
      BY <2>1, <2>2, SumInt
    <3> HIDE DEF B, C, D, c
    <3>6. SumOf(T, f) = f[b] + SumOf(B, f)
      BY <2>3, <3>3, <3>4, <3>5
    <3>7. QED
      BY <3>6 DEF B
  <2>6. QED
    BY <2>4, <2>5
<1>2. \A T \in SUBSET S : (\A U \in (SUBSET T) \ {T} : U \in Good) => T \in Good
  BY <1>1
<1> HIDE DEF Good
<1>3. S \in Good
  BY <1>2, SubsetInduction
<1>4. QED
  BY <1>3 DEF Good

\* A new row adds its figure.
LEMMA SumAdd ==
  ASSUME NEW S, IsFiniteSet(S), NEW a, a \notin S, NEW f,
         \A x \in S \cup {a} : f[x] \in Int
  PROVE  SumOf(S \cup {a}, f) = f[a] + SumOf(S, f)
<1>1. IsFiniteSet(S \cup {a}) /\ (S \cup {a}) \ {a} = S
  BY FS_AddElement
<1>2. QED
  BY <1>1, SumRemove

\* Only the figures of the rows that are added matter.
LEMMA SumSame ==
  ASSUME NEW S, IsFiniteSet(S), NEW f, NEW g, \A x \in S : f[x] = g[x]
  PROVE  SumOf(S, f) = SumOf(S, g)
<1> DEFINE Good == {T \in SUBSET S : SumOf(T, f) = SumOf(T, g)}
<1>1. ASSUME NEW T \in SUBSET S, \A U \in (SUBSET T) \ {T} : U \in Good
      PROVE  T \in Good
  <2>1. IsFiniteSet(T)
    BY FS_Subset
  <2>2. CASE T = {}
    BY <2>2, SumEmpty
  <2>3. CASE T # {}
    <3>1. Chosen(T) \in S /\ T \ {Chosen(T)} \in (SUBSET T) \ {T}
      BY <2>3, ChosenIn
    <3>2. /\ SumOf(T, f) = f[Chosen(T)] + SumOf(T \ {Chosen(T)}, f)
          /\ SumOf(T, g) = g[Chosen(T)] + SumOf(T \ {Chosen(T)}, g)
      BY <2>1, <2>3, SumUnfold
    <3>3. QED
      BY <1>1, <3>1, <3>2
  <2>4. QED
    BY <2>2, <2>3
<1> HIDE DEF Good
<1>2. S \in Good
  BY <1>1, SubsetInduction
<1>3. QED
  BY <1>2 DEF Good

\* A row whose figure changes moves the sum by the difference.
LEMMA SumChange ==
  ASSUME NEW S, IsFiniteSet(S), NEW a \in S, NEW f, NEW g,
         \A x \in S : f[x] \in Int /\ g[x] \in Int,
         \A x \in S \ {a} : f[x] = g[x]
  PROVE  SumOf(S, g) = SumOf(S, f) + g[a] - f[a]
<1>1. IsFiniteSet(S \ {a})
  BY FS_Subset
<1>2. SumOf(S \ {a}, f) = SumOf(S \ {a}, g) /\ SumOf(S \ {a}, f) \in Int
  BY <1>1, SumSame, SumInt
<1>3. SumOf(S, f) = f[a] + SumOf(S \ {a}, f) /\ SumOf(S, g) = g[a] + SumOf(S \ {a}, g)
  BY SumRemove
<1>4. QED
  BY <1>2, <1>3
=============================================================================

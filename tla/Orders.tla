------------------------------- MODULE Orders -------------------------------
(***************************************************************************)
(* Numbers and orders, for the proofs: the least number of a set,          *)
(* induction, the values of a function that is defined from one number to  *)
(* the next, and the first elements of a finite set that is ordered.  Each *)
(* is stated of sets and functions, so that it can be cited of any.        *)
(***************************************************************************)
EXTENDS Naturals, FiniteSets, FiniteSetTheorems, WellFoundedInduction, TLAPS

\* A set of numbers that is not empty has a least one: Min, where a loop takes the
\* first row of a set, is one of them.
LEMMA LeastNumber ==
    ASSUME NEW S \in SUBSET Nat, S # {}
    PROVE  \E n \in S : \A m \in S : n <= m
<1> DEFINE R == OpToRel(<, Nat)
<1>1. IsWellFoundedOn(R, Nat)
  BY NatLessThanWellFounded
<1>2. \A x, y \in Nat : <<x, y>> \in R <=> x < y
  BY DEF OpToRel
<1> HIDE DEF R
<1>3. \E n \in S : \A m \in S : <<m, n>> \notin R
  BY <1>1, WFMin
<1>4. \A n, m \in S : <<m, n>> \notin R => ~(m < n)
  BY <1>2
<1>5. \A n, m \in S : ~(m < n) => n <= m
  OBVIOUS
<1> QED
  BY <1>3, <1>4, <1>5, Zenon

\* A set has 0, and with a number below m the next one.
Inductive(S, m) == 0 \in S /\ \A n \in Nat : n < m /\ n \in S => n + 1 \in S

LEMMA InductionUpTo ==
    ASSUME NEW m \in Nat, NEW S, Inductive(S, m)
    PROVE  0..m \subseteq S
<1> DEFINE T == {n \in 0..m : n \notin S}
<1> SUFFICES ASSUME T # {} PROVE FALSE
  OBVIOUS
<1>1. PICK n \in T : \A k \in T : n <= k
  <2>1. T \in SUBSET Nat
    OBVIOUS
  <2> HIDE DEF T
  <2> QED
    BY <2>1, LeastNumber
<1>2. n \in Nat /\ n # 0 /\ n <= m /\ n \notin S
  BY DEF Inductive
<1>3. n - 1 \in Nat /\ n - 1 < m /\ n - 1 \notin T
  BY <1>1, <1>2
<1>4. n - 1 \in S
  BY <1>3
<1> QED
  BY <1>2, <1>3, <1>4 DEF Inductive

\* A function on the numbers up to m starts at x and goes on by the functions F.
Iterates(f, m, X, x, F) ==
    f \in [0..m -> X] /\ f[0] = x /\ \A n \in 1..m : f[n] = F[n][f[n - 1]]

Steps(F, m, X) == F \in [1..m -> [X -> X]]

\* There is such a function.
LEMMA Iteration ==
    ASSUME NEW m \in Nat, NEW X, NEW x \in X, NEW F, Steps(F, m, X)
    PROVE  \E f : Iterates(f, m, X, x, F)
<1> DEFINE S == {k \in 0..m : \E f : Iterates(f, k, X, x, F)}
<1>1. 0 \in S
  <2>1. Iterates([n \in 0..0 |-> x], 0, X, x, F)
    BY DEF Iterates
  <2> QED
    BY <2>1
<1>2. ASSUME NEW k \in Nat, k < m, k \in S PROVE k + 1 \in S
  <2>1. PICK f : Iterates(f, k, X, x, F)
    BY <1>2
  <2>2. k + 1 \in 1..m /\ f[k] \in X
    BY <1>2, <2>1 DEF Iterates
  <2> DEFINE next == F[k + 1][f[k]]
             g == [n \in 0..(k + 1) |-> IF n = k + 1 THEN next ELSE f[n]]
  <2>3. next \in X
    BY <2>2 DEF Steps
  <2> HIDE DEF next
  <2>4. g \in [0..(k + 1) -> X] /\ g[0] = x /\ g[k] = f[k] /\ g[k + 1] = next
    BY <2>1, <2>3 DEF Iterates
  <2>5. ASSUME NEW n \in 1..k PROVE g[n] = F[n][g[n - 1]]
    BY <2>1 DEF Iterates
  <2> HIDE DEF g
  <2>6. ASSUME NEW n \in 1..(k + 1) PROVE g[n] = F[n][g[n - 1]]
    <3>1. CASE n = k + 1
      <4>1. n - 1 = k
        BY <3>1
      <4> QED
        BY <3>1, <4>1, <2>4, Zenon DEF next
    <3> QED
      BY <2>5, <3>1
  <2>7. Iterates(g, k + 1, X, x, F)
    BY <2>4, <2>6 DEF Iterates
  <2> QED
    BY <2>2, <2>7
<1>3. m \in S
  <2> HIDE DEF S
  <2>1. Inductive(S, m)
    BY <1>1, <1>2 DEF Inductive
  <2> QED
    BY <2>1, InductionUpTo
<1> QED
  BY <1>3

-----------------------------------------------------------------------------
\* R is a strict total order of S.
OrderOn(R, S) ==
    /\ \A x \in S : <<x, x>> \notin R
    /\ \A x, y, z \in S : <<x, y>> \in R /\ <<y, z>> \in R => <<x, z>> \in R
    /\ \A x, y \in S : x = y \/ <<x, y>> \in R \/ <<y, x>> \in R

Before(R, S, x) == {y \in S : <<y, x>> \in R}

\* The first elements of S.
FirstOf(R, S, n) == {x \in S : Cardinality(Before(R, S, x)) < n}

\* None of the others comes before one of F.
Leading(F, R, S) == F \subseteq S /\ \A x \in F, y \in S \ F : <<x, y>> \in R

\* What comes later has more before it.
LEMMA MoreBefore ==
    ASSUME NEW S, IsFiniteSet(S), NEW R, OrderOn(R, S), NEW x \in S, NEW y \in S,
           <<x, y>> \in R
    PROVE  /\ Cardinality(Before(R, S, x)) \in Nat
           /\ Cardinality(Before(R, S, y)) \in Nat
           /\ Cardinality(Before(R, S, x)) < Cardinality(Before(R, S, y))
<1> DEFINE A == Before(R, S, x)
           B == Before(R, S, y)
<1>1. A \cup {x} \subseteq B /\ x \notin A /\ B \subseteq S /\ A \subseteq B
  BY DEF OrderOn, Before
<1> HIDE DEF A, B
<1>2. IsFiniteSet(B)
  BY <1>1, FS_Subset
<1>3. IsFiniteSet(A) /\ IsFiniteSet(A \cup {x}) /\ Cardinality(A \cup {x}) <= Cardinality(B)
  BY <1>1, <1>2, FS_Subset
<1>4. Cardinality(A \cup {x}) = Cardinality(A) + 1
  BY <1>1, <1>3, FS_AddElement
<1>5. Cardinality(A) \in Nat /\ Cardinality(B) \in Nat
  BY <1>2, <1>3, FS_CardinalityType
<1>6. Cardinality(A) < Cardinality(B)
  BY <1>3, <1>4, <1>5
<1> QED
  BY <1>5, <1>6 DEF A, B

\* A finite set that is not empty has a first element.
LEMMA FirstElement ==
    ASSUME NEW S, IsFiniteSet(S), NEW R, OrderOn(R, S), NEW T \in SUBSET S, T # {}
    PROVE  \E m \in T : \A x \in T \ {m} : <<m, x>> \in R
<1> DEFINE rank(x) == Cardinality(Before(R, S, x))
           ranks == {rank(x) : x \in T}
<1>1. ASSUME NEW x \in T PROVE rank(x) \in Nat
  <2>1. Before(R, S, x) \subseteq S
    BY DEF Before
  <2>2. IsFiniteSet(Before(R, S, x))
    BY <2>1, FS_Subset
  <2> QED
    BY <2>2, FS_CardinalityType
<1>2. PICK n \in ranks : \A k \in ranks : n <= k
  <2>1. ranks \in SUBSET Nat /\ ranks # {}
    BY <1>1
  <2> HIDE DEF ranks
  <2> QED
    BY <2>1, LeastNumber
<1>3. PICK m \in T : n = rank(m)
  BY <1>2
<1>4. ASSUME NEW x \in T \ {m} PROVE <<m, x>> \in R
  <2>1. rank(m) <= rank(x)
    BY <1>2, <1>3
  <2>2. <<x, m>> \in R => rank(x) < rank(m)
    BY MoreBefore
  <2>3. rank(m) \in Nat /\ rank(x) \in Nat
    BY <1>1
  <2>4. <<x, m>> \notin R
    <3> HIDE DEF rank
    <3> QED
      BY <2>1, <2>2, <2>3
  <2> QED
    BY <2>4 DEF OrderOn
<1> QED
  BY <1>4

\* And a last one.
LEMMA LastElement ==
    ASSUME NEW S, IsFiniteSet(S), NEW R, OrderOn(R, S), NEW T \in SUBSET S, T # {}
    PROVE  \E m \in T : \A x \in T \ {m} : <<x, m>> \in R
<1> DEFINE Q == {e \in S \X S : <<e[2], e[1]>> \in R}
<1>1. \A x, y \in S : <<x, y>> \in Q <=> <<y, x>> \in R
  OBVIOUS
<1> HIDE DEF Q
<1>2. OrderOn(Q, S)
  BY <1>1 DEF OrderOn
<1>3. PICK m \in T : \A x \in T \ {m} : <<m, x>> \in Q
  BY <1>2, FirstElement
<1> QED
  BY <1>1, <1>3

\* The first n: none of the others comes before them, and there are n of them, or
\* all there are.
LEMMA FirstAreLeading ==
    ASSUME NEW S, IsFiniteSet(S), NEW R, OrderOn(R, S), NEW n \in Nat
    PROVE  Leading(FirstOf(R, S, n), R, S)
<1> SUFFICES ASSUME NEW x \in FirstOf(R, S, n), NEW y \in S \ FirstOf(R, S, n)
             PROVE  <<x, y>> \in R
  BY DEF Leading, FirstOf
<1> DEFINE a == Cardinality(Before(R, S, x))
           b == Cardinality(Before(R, S, y))
<1>1. x \in S /\ y \in S /\ a < n /\ ~(b < n) /\ x # y
  BY DEF FirstOf
<1>2. <<y, x>> \in R => a \in Nat /\ b \in Nat /\ b < a
  BY <1>1, MoreBefore
<1>3. <<y, x>> \notin R
  <2> HIDE DEF a, b
  <2> QED
    BY <1>1, <1>2
<1> QED
  BY <1>1, <1>3 DEF OrderOn

LEMMA FirstCounted ==
    ASSUME NEW S, IsFiniteSet(S), NEW R, OrderOn(R, S), NEW n \in Nat
    PROVE  Cardinality(FirstOf(R, S, n)) = IF n <= Cardinality(S) THEN n ELSE Cardinality(S)
<1> DEFINE F(k) == FirstOf(R, S, k)
           rank(x) == Cardinality(Before(R, S, x))
           size == Cardinality(S)
           N == {k \in Nat : k <= size => Cardinality(F(k)) = k}
<1>1. size \in Nat
  BY FS_CardinalityType
<1>2. ASSUME NEW x \in S
      PROVE  /\ Before(R, S, x) \subseteq S \ {x} /\ IsFiniteSet(Before(R, S, x))
             /\ rank(x) \in Nat /\ rank(x) < size
  <2>1. Before(R, S, x) \subseteq S \ {x}
    BY DEF Before, OrderOn
  <2>2. IsFiniteSet(S \ {x}) /\ Cardinality(S \ {x}) = size - 1
    BY FS_RemoveElement
  <2>3. IsFiniteSet(Before(R, S, x)) /\ rank(x) <= size - 1
    BY <2>1, <2>2, FS_Subset
  <2>4. rank(x) \in Nat
    BY <2>3, FS_CardinalityType
  <2> HIDE DEF rank, size
  <2> QED
    BY <1>1, <2>1, <2>3, <2>4
<1>3. ASSUME NEW k \in Nat PROVE F(k) \subseteq S /\ IsFiniteSet(F(k))
  <2>1. F(k) \subseteq S
    BY DEF FirstOf
  <2> QED
    BY <2>1, FS_Subset
<1>4. 0 \in N
  <2>1. F(0) = {}
    BY <1>2 DEF FirstOf
  <2> QED
    BY <2>1, FS_EmptySet
<1>5. ASSUME NEW k \in Nat, k < n, k \in N PROVE k + 1 \in N
  <2> SUFFICES ASSUME k + 1 <= size PROVE Cardinality(F(k + 1)) = k + 1
    OBVIOUS
  <2>1. Cardinality(F(k)) = k
    BY <1>1, <1>5
  <2>2. S \ F(k) # {}
    <3>1. F(k) # S
      <4> HIDE DEF F
      <4> QED
        BY <1>1, <2>1
    <3>2. F(k) \subseteq S
      BY <1>3
    <3> HIDE DEF F
    <3> QED
      BY <3>1, <3>2
  <2>3. PICK m \in S \ F(k) : \A x \in (S \ F(k)) \ {m} : <<m, x>> \in R
    <3> DEFINE T == S \ F(k)
    <3>1. T \in SUBSET S /\ T # {}
      BY <2>2
    <3> HIDE DEF F, T
    <3>2. \E m \in T : \A x \in T \ {m} : <<m, x>> \in R
      BY <3>1, FirstElement
    <3> QED
      BY <3>2 DEF T
  <2>4. Leading(F(k), R, S)
    BY FirstAreLeading
  <2>5. Before(R, S, m) = F(k)
    BY <1>3, <2>3, <2>4 DEF Before, Leading, OrderOn
  <2>6. rank(m) = k
    BY <2>1, <2>5
  <2>7. ASSUME NEW x \in (S \ F(k)) \ {m} PROVE ~(rank(x) < k + 1)
    <3>1. rank(m) < rank(x)
      BY <2>3, <2>7, MoreBefore
    <3>2. rank(x) \in Nat
      BY <1>2
    <3> HIDE DEF rank
    <3> QED
      BY <2>6, <3>1, <3>2
  <2>8. ASSUME NEW x \in F(k) PROVE rank(x) < k + 1
    <3>1. rank(x) \in Nat /\ rank(x) < k
      BY <1>2, <1>3, <2>8 DEF FirstOf
    <3> HIDE DEF rank
    <3> QED
      BY <3>1
  <2>9. F(k + 1) = F(k) \cup {m}
    <3>1. \A x \in S : rank(x) < k + 1 <=> x \in F(k) \cup {m}
      BY <2>3, <2>6, <2>7, <2>8
    <3>2. F(k + 1) = {x \in S : rank(x) < k + 1}
      BY DEF FirstOf
    <3> HIDE DEF rank, F
    <3> QED
      BY <1>3, <2>3, <3>1, <3>2
  <2> QED
    BY <1>3, <2>1, <2>3, <2>9, FS_AddElement
<1>6. n \in N
  <2>1. Inductive(N, n)
    <3> HIDE DEF N
    <3> QED
      BY <1>4, <1>5 DEF Inductive
  <2> HIDE DEF N
  <2> QED
    BY <2>1, InductionUpTo
<1>7. CASE n <= size
  BY <1>6, <1>7
<1>8. CASE ~(n <= size)
  <2>1. F(n) = S
    <3>1. \A x \in S : rank(x) < n
      <4> HIDE DEF rank, size
      <4> QED
        BY <1>1, <1>2, <1>8
    <3> QED
      BY <3>1 DEF FirstOf
  <2> QED
    BY <1>8, <2>1
<1> QED
  BY <1>7, <1>8

-----------------------------------------------------------------------------
\* The rows beyond the cursor, which is a set of one row, or empty.
Beyond(R, rows, cursor) == {i \in rows : \A c \in cursor : <<c, i>> \in R}

\* What a walk keeps from page to page: a row that must be shown is shown, or still
\* to come; what was shown does not come back.
Walked(R, S, listed, cursor, shown, steady) ==
    /\ steady \subseteq shown \cup Beyond(R, listed, cursor)
    /\ shown \cap Beyond(R, S, cursor) = {}

\* A page that another one follows.
LEMMA PageWalked ==
    ASSUME NEW S, NEW R, OrderOn(R, S), NEW listed \in SUBSET S, NEW shown \in SUBSET S,
           NEW cursor, NEW steady,
           shown = {} \/ \E c \in S : cursor = {c},
           shown # {} => shown \cap Beyond(R, S, cursor) = {},
           steady \subseteq shown \cup Beyond(R, listed, cursor),
           NEW page, Leading(page, R, Beyond(R, listed, cursor)),
           NEW l \in page, \A j \in page \ {l} : <<j, l>> \in R
    PROVE  Walked(R, S, listed, {l}, shown \cup page, steady)
<1> DEFINE rest == Beyond(R, listed, cursor)
<1>1. /\ page \subseteq rest /\ rest \subseteq listed /\ l \in S
      /\ \A x \in page, y \in rest \ page : <<x, y>> \in R
  BY DEF Leading, Beyond
<1>2. ASSUME NEW i \in steady, i \notin shown \cup page PROVE i \in Beyond(R, listed, {l})
  <2>1. i \in rest \ page
    BY <1>2
  <2> QED
    BY <1>1, <2>1 DEF Beyond
<1>3. ASSUME NEW x \in shown \cup page PROVE <<l, x>> \notin R
  <2>1. x \in S
    BY <1>1
  <2>2. CASE x \in page
    BY <1>1, <2>1, <2>2 DEF OrderOn
  <2>3. CASE x \in shown
    <3>1. PICK c \in S : cursor = {c}
      BY <2>3
    <3>2. <<c, l>> \in R /\ <<c, x>> \notin R
      BY <1>1, <2>1, <2>3, <3>1 DEF Beyond
    <3>3. x = c \/ <<x, c>> \in R
      BY <2>1, <3>1, <3>2 DEF OrderOn
    <3>4. <<x, l>> \in R
      BY <1>1, <2>1, <3>1, <3>2, <3>3 DEF OrderOn
    <3> QED
      BY <1>1, <2>1, <3>4 DEF OrderOn
  <2> QED
    BY <1>3, <2>2, <2>3
<1>4. (shown \cup page) \cap Beyond(R, S, {l}) = {}
  BY <1>3 DEF Beyond
<1>5. steady \subseteq (shown \cup page) \cup Beyond(R, listed, {l})
  BY <1>2
<1> QED
  BY <1>4, <1>5 DEF Walked

=============================================================================

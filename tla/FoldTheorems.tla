---------------------------- MODULE FoldTheorems ----------------------------
(***************************************************************************)
(* Facts about least elements, folds over sequences, functions defined by  *)
(* recursion and remainders, for the proofs about the components.  The     *)
(* prover cannot take an operator as the parameter of a fact, so induction *)
(* is done by the least counterexample, and a fold is described by the     *)
(* function its definition chooses.                                        *)
(***************************************************************************)
EXTENDS Integers, FiniteSetsExt, FiniteSetTheorems, WellFoundedInduction, TLAPS

(* A set of natural numbers that is not empty has a least element.         *)
LEMMA MinOf ==
  ASSUME NEW S \in SUBSET Nat, S # {}
  PROVE  Min(S) \in S /\ \A x \in S : Min(S) =< x
<1> DEFINE T == {0..(n-1) : n \in S}
<1>1. T \subseteq FiniteSubsetsOf(Nat) /\ T # {}
  <2>1. ASSUME NEW n \in S
        PROVE  0..(n-1) \in FiniteSubsetsOf(Nat)
    <3>1. 0..(n-1) \in SUBSET Nat /\ \A i \in 0..(n-1) : i <= n
      OBVIOUS
    <3>2. IsFiniteSet(0..(n-1))
      BY <3>1, FS_BoundedSetOfNaturals
    <3> QED
      BY <3>1, <3>2 DEF FiniteSubsetsOf
  <2> QED
    BY <2>1
<1>2. PICK t \in T : \A u \in T : ~(<<u, t>> \in StrictSubsetOrdering(Nat))
  <2> HIDE DEF T
  <2> QED
    BY <1>1, FS_StrictSubsetOrderingWellFounded, WFMin
<1>3. PICK m \in S : t = 0..(m-1)
  OBVIOUS
<1>4. ASSUME NEW n \in S, n < m
      PROVE  FALSE
  <2>1. /\ 0..(n-1) \subseteq 0..(m-1) /\ 0..(n-1) # 0..(m-1)
        /\ 0..(n-1) \in SUBSET Nat /\ 0..(m-1) \in SUBSET Nat
    <3>1. n \in 0..(m-1) /\ n \notin 0..(n-1)
      BY <1>4
    <3> QED
      BY <1>4, <3>1
  <2>2. <<0..(n-1), t>> \in StrictSubsetOrdering(Nat)
    BY <1>3, <2>1 DEF StrictSubsetOrdering
  <2> QED
    BY <1>2, <2>2
<1>5. \A x \in S : m =< x
  BY <1>4
<1> QED
  BY <1>5 DEF Min

(* The greatest of the first n numbers, and what is left without it.       *)
LEMMA MaxOfInterval ==
  ASSUME NEW n \in Nat
  PROVE  /\ \A S \in SUBSET (1..n) : n \in S => Max(S) = n
         /\ n > 0 => Max(1..n) = n /\ (1..n) \ {n} = 1..(n-1)
<1>1. ASSUME NEW S \in SUBSET (1..n), n \in S
      PROVE  Max(S) = n
  <2>1. \A y \in S : n >= y
    OBVIOUS
  <2>2. \A x \in S : (\A y \in S : x >= y) => x = n
    BY <1>1
  <2> QED
    BY <1>1, <2>1, <2>2 DEF Max
<1> QED
  BY <1>1

(* A set of numbers up to n that is not empty has a greatest element.      *)
LEMMA MaxOf ==
  ASSUME NEW n \in Nat, NEW S \in SUBSET (1..n), S # {}
  PROVE  Max(S) \in S
<1> DEFINE T == {n - x : x \in S}
<1>1. T \in SUBSET Nat /\ T # {}
  <2>1. \A x \in S : n - x \in Nat
    OBVIOUS
  <2>2. PICK x \in S : TRUE
    OBVIOUS
  <2>3. n - x \in T
    OBVIOUS
  <2> QED
    BY <2>1, <2>3
<1>2. Min(T) \in T /\ \A t \in T : Min(T) =< t
  <2> HIDE DEF T
  <2> QED
    BY <1>1, MinOf
<1>3. PICK m \in S : n - m = Min(T)
  BY <1>2
<1>4. ASSUME NEW y \in S
      PROVE  m >= y
  <2>1. n - y \in T /\ m \in 1..n /\ y \in 1..n
    OBVIOUS
  <2>2. n - m =< n - y
    BY <1>2, <1>3, <2>1
  <2> QED
    BY <2>1, <2>2
<1> QED
  BY <1>4 DEF Max

(* A choice function takes an element of every set of the first n numbers  *)
(* that is not empty, and leaves a smaller set.                            *)
Choosing(C, n) == \A S \in SUBSET (1..n) : S # {} => C[S] \in S

(* The size of a set of the first n numbers, and without one of them.      *)
LEMMA SmallerSet ==
  ASSUME NEW n \in Nat, NEW S \in SUBSET (1..n)
  PROVE  /\ Cardinality(S) \in 0..n
         /\ \A x \in S : /\ S \ {x} \in SUBSET (1..n)
                         /\ Cardinality(S \ {x}) = Cardinality(S) - 1
         /\ Cardinality(S) = 0 <=> S = {}
<1>1. IsFiniteSet(1..n) /\ Cardinality(1..n) = n
  BY FS_Interval
<1>2. IsFiniteSet(S) /\ Cardinality(S) =< n /\ Cardinality(S) \in Nat
  BY <1>1, FS_Subset, FS_CardinalityType
<1>3. ASSUME NEW x \in S
      PROVE  Cardinality(S \ {x}) = Cardinality(S) - 1
  BY <1>2, FS_RemoveElement
<1>4. Cardinality(S) = 0 <=> S = {}
  BY <1>2, FS_EmptySet
<1> QED
  BY <1>2, <1>3, <1>4

(* What holds of the empty set, and of a set if it does without the        *)
(* element that is chosen, holds of every set.                             *)
LEMMA FoldStays ==
  ASSUME NEW n \in Nat, NEW State, NEW f, NEW C, Choosing(C, n), f[{}] \in State,
         \A S \in SUBSET (1..n) : S # {} /\ f[S \ {C[S]}] \in State => f[S] \in State
  PROVE  \A S \in SUBSET (1..n) : f[S] \in State
<1> DEFINE Bad == {Cardinality(S) : S \in {T \in SUBSET (1..n) : f[T] \notin State}}
<1>1. SUFFICES ASSUME NEW R \in SUBSET (1..n), f[R] \notin State
               PROVE  FALSE
  OBVIOUS
<1>2. Bad \in SUBSET Nat /\ Bad # {}
  BY <1>1, SmallerSet
<1>3. Min(Bad) \in Bad /\ \A x \in Bad : Min(Bad) =< x
  <2> HIDE DEF Bad
  <2> QED
    BY <1>2, MinOf
<1>4. PICK S \in SUBSET (1..n) : f[S] \notin State /\ Cardinality(S) = Min(Bad)
  BY <1>3
<1>5. S # {} /\ C[S] \in S
  BY <1>4 DEF Choosing
<1>6. /\ S \ {C[S]} \in SUBSET (1..n) /\ Cardinality(S \ {C[S]}) = Cardinality(S) - 1
      /\ Cardinality(S) \in Nat
  <2>1. \A x \in S : S \ {x} \in SUBSET (1..n) /\ Cardinality(S \ {x}) = Cardinality(S) - 1
    BY SmallerSet
  <2>2. Cardinality(S) \in 0..n
    BY SmallerSet
  <2>3. S \ {C[S]} \in SUBSET (1..n) /\ Cardinality(S \ {C[S]}) = Cardinality(S) - 1
    BY <1>5, <2>1, Zenon
  <2> QED
    BY <2>2, <2>3
<1>7. f[S \ {C[S]}] \notin State
  BY <1>4, <1>5
<1>8. Cardinality(S \ {C[S]}) \in Bad
  BY <1>6, <1>7
<1> HIDE DEF Bad
<1> QED
  BY <1>3, <1>4, <1>6, <1>8

(* A fold over n elements is computed, in whatever order they are chosen:  *)
(* there is the function, from the elements folded so far, that folds      *)
(* choose.                                                                 *)
FoldingBy(C, g, n, base, h) ==
  g = [S \in SUBSET (1..n) |-> IF S = {} THEN base ELSE h[<<g[S \ {C[S]}], C[S]>>]]

(* For any base, operation and order there is the function that computes   *)
(* the fold, and its values are of the type of the base.                   *)
LEMMA FoldByExists ==
  ASSUME NEW n \in Nat, NEW State, NEW base \in State, NEW h \in [State \X (1..n) -> State],
         NEW C, Choosing(C, n)
  PROVE  \E g \in [SUBSET (1..n) -> State] : FoldingBy(C, g, n, base, h)
<1> DEFINE Sets(m) == {S \in SUBSET (1..n) : Cardinality(S) =< m}
           Has(m) == \E g \in [Sets(m) -> State] :
                       \A S \in Sets(m) : g[S] = IF S = {} THEN base ELSE h[<<g[S \ {C[S]}], C[S]>>]
           Bad == {m \in 0..n : ~Has(m)}
<1>1. ASSUME NEW m \in 0..n, NEW S \in Sets(m), S # {}
      PROVE  /\ m # 0 /\ C[S] \in S /\ C[S] \in 1..n
             /\ S \ {C[S]} \in Sets(m-1) /\ S \ {C[S]} \in Sets(m)
  <2>1. C[S] \in S /\ S \in SUBSET (1..n) /\ Cardinality(S) =< m
    BY <1>1 DEF Choosing
  <2>2. /\ Cardinality(S) \in 0..n /\ Cardinality(S) # 0
        /\ \A x \in S : S \ {x} \in SUBSET (1..n) /\ Cardinality(S \ {x}) = Cardinality(S) - 1
    BY <1>1, <2>1, SmallerSet
  <2>3. S \ {C[S]} \in SUBSET (1..n) /\ Cardinality(S \ {C[S]}) = Cardinality(S) - 1
    BY <2>1, <2>2, Zenon
  <2>4. m # 0 /\ Cardinality(S) - 1 =< m - 1 /\ Cardinality(S) - 1 =< m
    BY <2>1, <2>2
  <2> QED
    BY <2>1, <2>3, <2>4
<1>2. Has(0)
  <2> DEFINE g == [S \in Sets(0) |-> base]
  <2>1. \A S \in Sets(0) : S = {}
    <3>1. 0 \in 0..n
      OBVIOUS
    <3> HIDE DEF Sets
    <3> QED
      BY <1>1, <3>1
  <2>2. g \in [Sets(0) -> State] /\ \A S \in Sets(0) : g[S] = base
    OBVIOUS
  <2> HIDE DEF g, Sets
  <2>3. \A S \in Sets(0) : g[S] = IF S = {} THEN base ELSE h[<<g[S \ {C[S]}], C[S]>>]
    BY <2>1, <2>2
  <2> QED
    BY <2>2, <2>3
<1>3. ASSUME NEW m \in 1..n, Has(m-1)
      PROVE  Has(m)
  <2>1. PICK g \in [Sets(m-1) -> State] :
          \A S \in Sets(m-1) : g[S] = IF S = {} THEN base ELSE h[<<g[S \ {C[S]}], C[S]>>]
    BY <1>3
  <2> DEFINE f == [S \in Sets(m) |-> IF S = {} THEN base ELSE h[<<g[S \ {C[S]}], C[S]>>]]
  <2>2. \A S \in Sets(m-1) : S \in Sets(m) /\ f[S] = g[S]
    <3>1. \A S \in Sets(m-1) : S \in Sets(m)
      <4>1. \A S \in SUBSET (1..n) : Cardinality(S) \in 0..n
        BY SmallerSet
      <4> QED
        BY <4>1
    <3> HIDE DEF Sets
    <3> QED
      BY <2>1, <3>1
  <2>3. ASSUME NEW S \in Sets(m)
        PROVE  f[S] \in State /\ f[S] = IF S = {} THEN base ELSE h[<<f[S \ {C[S]}], C[S]>>]
    <3>0. f[S] = IF S = {} THEN base ELSE h[<<g[S \ {C[S]}], C[S]>>]
      OBVIOUS
    <3>1. CASE S = {}
      <4> HIDE DEF f, Sets
      <4>1. f[S] = base
        BY <3>0, <3>1
      <4> QED
        BY <3>1, <4>1, Zenon
    <3>2. CASE S # {}
      <4>1. C[S] \in 1..n /\ S \ {C[S]} \in Sets(m-1)
        <5>1. m \in 0..n
          OBVIOUS
        <5> HIDE DEF f, Sets
        <5> QED
          BY <1>1, <3>2, <5>1
      <4>2. g[S \ {C[S]}] \in State /\ f[S \ {C[S]}] = g[S \ {C[S]}]
        BY <2>1, <2>2, <4>1
      <4>3. f[S] = h[<<g[S \ {C[S]}], C[S]>>]
        BY <3>2
      <4> HIDE DEF f, Sets
      <4> QED
        BY <3>2, <4>1, <4>2, <4>3
    <3> QED
      BY <3>1, <3>2
  <2>4. f \in [Sets(m) -> State]
    <3>1. f = [S \in Sets(m) |-> f[S]]
      OBVIOUS
    <3> HIDE DEF f, Sets
    <3> QED
      BY <2>3, <3>1
  <2> HIDE DEF f, Sets
  <2> QED
    BY <2>3, <2>4
<1>4. Has(n)
  <2> HIDE DEF Has
  <2>1. SUFFICES ASSUME Bad # {} PROVE FALSE
    OBVIOUS
  <2> DEFINE m == Min(Bad)
  <2>2. m \in Bad /\ \A x \in Bad : m =< x
    BY <2>1, MinOf
  <2>3. m \in 1..n /\ m-1 \in 0..n /\ m-1 \notin Bad
    BY <1>2, <2>2
  <2> HIDE DEF m
  <2> QED
    BY <1>3, <2>2, <2>3
<1>5. Sets(n) = SUBSET (1..n)
  BY SmallerSet
<1>6. PICK g \in [SUBSET (1..n) -> State] :
        \A S \in SUBSET (1..n) : g[S] = IF S = {} THEN base ELSE h[<<g[S \ {C[S]}], C[S]>>]
  <2> HIDE DEF Sets
  <2> QED
    BY <1>4, <1>5
<1>7. g = [S \in SUBSET (1..n) |-> IF S = {} THEN base ELSE h[<<g[S \ {C[S]}], C[S]>>]]
  BY <1>6
<1> QED
  BY <1>7 DEF FoldingBy

(* The order of FoldLeft, which leaves the last element to the end.        *)
Folding(g, n, State, base, h) ==
  g = [S \in SUBSET (1..n) |-> IF S = {} THEN base ELSE h[<<g[S \ {Max(S)}], Max(S)>>]]

(* So it is for the order of FoldLeft.                                     *)
LEMMA FoldExists ==
  ASSUME NEW N \in Nat, NEW State, NEW base \in State, NEW h \in [State \X (1..N) -> State]
  PROVE  \E g \in [SUBSET (1..N) -> State] : Folding(g, N, State, base, h)
<1> DEFINE C == [S \in SUBSET (1..N) |-> Max(S)]
<1>1. Choosing(C, N)
  BY MaxOf DEF Choosing
<1>2. \A S \in SUBSET (1..N) : C[S] = Max(S)
  OBVIOUS
<1> HIDE DEF C
<1>3. PICK g \in [SUBSET (1..N) -> State] : FoldingBy(C, g, N, base, h)
  BY <1>1, FoldByExists
<1>4. Folding(g, N, State, base, h)
  BY <1>2, <1>3 DEF FoldingBy, Folding
<1> QED
  BY <1>4

(* Two different values make a set of two.                                 *)
LEMMA TwoElements ==
  ASSUME NEW a, NEW b, a # b
  PROVE  Cardinality({a, b}) = 2
<1>1. IsFiniteSet({a}) /\ Cardinality({a}) = 1 /\ b \notin {a}
  BY FS_Singleton
<1>2. Cardinality({a} \cup {b}) = Cardinality({a}) + 1
  BY <1>1, FS_AddElement
<1>3. {a} \cup {b} = {a, b}
  OBVIOUS
<1> QED
  BY <1>1, <1>2, <1>3

(* g is defined by its value at zero and a step from every value to the    *)
(* next, which h makes of the value and the number it leads to.            *)
Recursion(g, N, base, h) == g[0] = base /\ \A n \in 1..N : g[n] = h[<<g[n - 1], n>>]

(* A function that is defined by its value at zero and a step from every   *)
(* value to the next exists.                                               *)
LEMMA RecursionExists ==
  ASSUME NEW N \in Nat, NEW State, NEW base \in State, NEW h \in [State \X (1..N) -> State]
  PROVE  \E g \in [0..N -> State] :
           Recursion(g, N, base, h)
<1> DEFINE Has(m) == \E g \in [0..m -> State] :
                       /\ g[0] = base
                       /\ \A n \in 1..m : g[n] = h[<<g[n - 1], n>>]
           Bad == {m \in 0..N : ~Has(m)}
<1>1. Has(0)
  <2> DEFINE g == [n \in 0..0 |-> base]
  <2>1. g \in [0..0 -> State] /\ g[0] = base /\ \A n \in 1..0 : g[n] = h[<<g[n - 1], n>>]
    OBVIOUS
  <2> QED
    BY <2>1
<1>2. ASSUME NEW m \in 1..N, Has(m - 1)
      PROVE  Has(m)
  <2>1. PICK g \in [0..(m-1) -> State] :
          g[0] = base /\ \A n \in 1..(m-1) : g[n] = h[<<g[n - 1], n>>]
    BY <1>2
  <2> DEFINE f == [n \in 0..m |-> IF n = m THEN h[<<g[m - 1], m>>] ELSE g[n]]
  <2>2. m \in Nat /\ m >= 1 /\ g[m - 1] \in State /\ h[<<g[m - 1], m>>] \in State
    OBVIOUS
  <2>3. \A n \in 0..(m - 1) : f[n] = g[n]
    BY <2>2
  <2>4. f[m] = h[<<g[m - 1], m>>]
    BY <2>2
  <2>5. f \in [0..m -> State]
    BY <2>2
  <2> HIDE DEF f
  <2>6. f[0] = base
    BY <2>1, <2>2, <2>3
  <2>7. ASSUME NEW n \in 1..m
        PROVE  f[n] = h[<<f[n - 1], n>>]
    <3>1. n - 1 \in 0..(m - 1) /\ f[n - 1] = g[n - 1]
      BY <2>2, <2>3
    <3>2. CASE n = m
      BY <2>4, <3>1, <3>2
    <3>3. CASE n # m
      <4>1. n \in 1..(m - 1) /\ n \in 0..(m - 1)
        BY <2>2, <3>3
      <4> QED
        BY <2>1, <2>3, <3>1, <4>1
    <3> QED
      BY <3>2, <3>3
  <2> QED
    BY <2>5, <2>6, <2>7
<1>3. Has(N)
  <2> HIDE DEF Has
  <2>1. SUFFICES ASSUME Bad # {} PROVE FALSE
    OBVIOUS
  <2> DEFINE m == Min(Bad)
  <2>2. m \in Bad /\ \A x \in Bad : m =< x
    BY <2>1, MinOf
  <2>3. m \in 1..N /\ m-1 \in 0..N /\ m-1 \notin Bad
    BY <1>1, <2>2
  <2> HIDE DEF m
  <2> QED
    BY <1>2, <2>2, <2>3
<1> QED
  BY <1>3 DEF Recursion

(* A remainder is in the range of its divisor, is the number itself when   *)
(* that is in the range, and is the same for all multiples added.          *)
LEMMA Remainder ==
  ASSUME NEW m \in Nat \ {0}, NEW x \in Int
  PROVE  /\ x % m \in 0..(m - 1)
         /\ x \in 0..(m - 1) => x % m = x
         /\ \A j \in Int : (x + m * j) % m = x % m
<1>1. x % m \in 0..(m - 1)
  OBVIOUS
<1>2. ASSUME x \in 0..(m - 1)
      PROVE  x % m = x
  BY <1>2
<1>3. ASSUME NEW j \in Int
      PROVE  (x + m * j) % m = x % m
  <2>1. x = (x \div m) * m + (x % m) /\ x \div m \in Int
    OBVIOUS
  <2> DEFINE q == x \div m
             r == x % m
             y == x + m * j
  <2>2. q \in Int /\ r \in 0..(m - 1) /\ x = q * m + r
    BY <1>1, <2>1
  <2>3. y \in Int /\ m * j \in Int
    OBVIOUS
  <2> HIDE DEF q, r
  <2>4. y = m * (q + j) + r
    BY <2>2
  <2> HIDE DEF y
  <2>5. \A p \in Int : y = m * p + r => y % m = r
    BY <2>2, <2>3
  <2>6. y % m = r
    BY <2>2, <2>4, <2>5
  <2> QED
    BY <2>6 DEF y, r
<1> QED
  BY <1>1, <1>2, <1>3
=============================================================================

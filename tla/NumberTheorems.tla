--------------------------- MODULE NumberTheorems ---------------------------
(***************************************************************************)
(* What the proofs about the components need to know of sets of natural     *)
(* numbers, of functions that are defined by recursion over them, and of    *)
(* the places in a finite ordered set.  Inductions are about a set of       *)
(* numbers, the smallest that is not in it being the counterexample.        *)
(***************************************************************************)
EXTENDS FiniteSetsExt, FiniteSetTheorems, WellFoundedInduction, TLAPS

\* A set of natural numbers has a least element.
LEMMA LeastNumber ==
    ASSUME NEW S \in SUBSET Nat, S # {}
    PROVE  \E x \in S : \A y \in S : x <= y
<1>1. \E x \in S : \A y \in S : ~ (<<y, x>> \in OpToRel(<, Nat))
  BY NatLessThanWellFounded, WFMin, Zenon
<1>2. \A x, y \in Nat : <<y, x>> \in OpToRel(<, Nat) <=> y < x
  BY Zenon DEF OpToRel
<1>3. \E x \in S : \A y \in S : ~ (y < x)
  BY <1>1, <1>2, Zenon
<1> QED
  BY <1>3

\* The maximum of positions in a sequence is one of them.
LEMMA MaxMember ==
    ASSUME NEW n \in Nat, NEW S \in SUBSET (1 .. n), S # {}
    PROVE  Max(S) \in S
<1> DEFINE T == {n - x : x \in S}
<1>1. T \subseteq Nat /\ T # {}
  <2>1. \A x \in S : n - x \in Nat
    OBVIOUS
  <2> QED
    BY <2>1, Zenon
<1>2. PICK m \in T : \A y \in T : m <= y
  BY <1>1, LeastNumber
<1>3. PICK x \in S : m = n - x
  OBVIOUS
<1>4. \A y \in S : x >= y
  <2> TAKE y \in S
  <2>1. n - y \in T
    OBVIOUS
  <2>2. m <= n - y
    BY <1>2, <2>1
  <2> QED
    BY <1>3, <2>2
<1> QED
  BY <1>4 DEF Max

\* A bound in a set of numbers is its maximum, or its minimum.
LEMMA MaxIs ==
    ASSUME NEW S \in SUBSET Nat, NEW b \in S, \A c \in S : c <= b
    PROVE  Max(S) = b
  <1>1. \E x \in S : \A y \in S : x >= y
    OBVIOUS
  <1>2. Max(S) \in S /\ \A y \in S : Max(S) >= y
    BY <1>1, Zenon DEF Max
  <1>3. Max(S) \in Nat /\ b \in Nat /\ b <= Max(S) /\ Max(S) <= b
    BY <1>2
  <1> QED  BY <1>3

LEMMA MinIs ==
    ASSUME NEW S \in SUBSET Nat, NEW b \in S, \A c \in S : b <= c
    PROVE  b = Min(S)
  <1>1. \E x \in S : \A y \in S : x <= y
    OBVIOUS
  <1>2. Min(S) \in S /\ \A y \in S : Min(S) <= y
    BY <1>1, Zenon DEF Min
  <1>3. Min(S) \in Nat /\ b \in Nat /\ b <= Min(S) /\ Min(S) <= b
    BY <1>2
  <1> QED  BY <1>3

\* Induction up to a number; the hypothesis is about membership of a set.
LEMMA UpTo ==
    ASSUME NEW N \in Nat, NEW Good, 0 \in Good,
           \A k \in 1 .. N : k - 1 \in Good => k \in Good
    PROVE  0 .. N \subseteq Good
<1> DEFINE Bad == (0 .. N) \ Good
<1> SUFFICES ASSUME Bad # {} PROVE FALSE
  OBVIOUS
<1>1. Bad \in SUBSET Nat
  OBVIOUS
<1> HIDE DEF Bad
<1>2. PICK m \in Bad : \A n \in Bad : m <= n
  BY <1>1, LeastNumber
<1>3. m \in 1 .. N /\ m \notin Good
  BY <1>2 DEF Bad
<1>4. m - 1 \in Good
  BY <1>2, <1>3 DEF Bad
<1> QED
  BY <1>3, <1>4

\* There is a function that is defined by recursion.
Recurses(V, base, N, step) ==
    \E f \in [0 .. N -> V] :
        \A k \in 0 .. N : f[k] = IF k = 0 THEN base ELSE step[k][f[k - 1]]

LEMMA RecursionExists ==
    ASSUME NEW V, NEW base \in V, NEW N \in Nat, NEW step \in [1 .. N -> [V -> V]]
    PROVE  Recurses(V, base, N, step)
  <1> DEFINE Partly(m, f) ==
                 /\ f \in [0 .. m -> V]
                 /\ \A k \in 0 .. m : f[k] = IF k = 0 THEN base ELSE step[k][f[k - 1]]
             Good == {m \in 0 .. N : \E f : Partly(m, f)}
  <1>1. 0 \in Good
    <2>1. Partly(0, [k \in {0} |-> base])
      OBVIOUS
    <2> HIDE DEF Partly
    <2> QED  BY <2>1
  <1>2. ASSUME NEW m \in 1 .. N, m - 1 \in Good PROVE m \in Good
    <2>1. PICK f : Partly(m - 1, f)
      BY <1>2
    <2> DEFINE g == [k \in 0 .. m |-> IF k = m THEN step[m][f[m - 1]] ELSE f[k]]
    <2>2. f[m - 1] \in V /\ step[m][f[m - 1]] \in V
      BY <2>1
    <2>3. g \in [0 .. m -> V]
      <3>1. \A k \in 0 .. m : k # m => k \in 0 .. m - 1
        OBVIOUS
      <3> QED  BY <2>1, <2>2, <3>1
    <2>4. ASSUME NEW k \in 0 .. m
          PROVE  g[k] = IF k = 0 THEN base ELSE step[k][g[k - 1]]
      <3>1. CASE k = m
        <4>1. g[m - 1] = f[m - 1] /\ g[m] = step[m][f[m - 1]] /\ m # 0
          OBVIOUS
        <4> QED  BY <3>1, <4>1
      <3>2. CASE k # m
        <4>1. k \in 0 .. m - 1 /\ g[k] = f[k] /\ (k # 0 => g[k - 1] = f[k - 1])
          BY <3>2
        <4> QED  BY <2>1, <4>1
      <3> QED  BY <3>1, <3>2
    <2>5. Partly(m, g)
      BY <2>3, <2>4
    <2> HIDE DEF Partly, g
    <2> QED  BY <2>5
  <1> HIDE DEF Good
  <1>3. 0 .. N \subseteq Good
    BY <1>1, <1>2, UpTo
  <1>4. N \in Good
    BY <1>3
  <1> QED  BY <1>4 DEF Good, Recurses

-----------------------------------------------------------------------------
(* A finite set with a total order.                                         *)

\* What comes before x, Order being a set of pairs.
Preceding(Order, S, x) == {y \in S : <<y, x>> \in Order}

TotalOrder(Order, S) ==
    /\ \A x \in S : <<x, x>> \notin Order
    /\ \A x, y \in S : x # y => <<x, y>> \in Order \/ <<y, x>> \in Order
    /\ \A x, y, z \in S : <<x, y>> \in Order /\ <<y, z>> \in Order => <<x, z>> \in Order

\* Each of n elements has a place of its own, and every place from 0 to n - 1 is taken.
LEMMA Ranks ==
    ASSUME NEW S, IsFiniteSet(S), NEW Order, TotalOrder(Order, S)
    PROVE  /\ \A x \in S : Cardinality(Preceding(Order, S, x)) \in 0 .. Cardinality(S) - 1
           /\ \A x, y \in S : Cardinality(Preceding(Order, S, x))
                                  = Cardinality(Preceding(Order, S, y)) => x = y
           /\ \A r \in 0 .. Cardinality(S) - 1 :
                  \E x \in S : Cardinality(Preceding(Order, S, x)) = r
<1> DEFINE P(x) == Preceding(Order, S, x)
           rank == [x \in S |-> Cardinality(P(x))]
           Places == 0 .. Cardinality(S) - 1
<1>1. Cardinality(S) \in Nat
  BY FS_CardinalityType
<1>2. ASSUME NEW x \in S
      PROVE  P(x) \in SUBSET S /\ IsFiniteSet(P(x)) /\ Cardinality(P(x)) \in Places
  <2>1. P(x) \in SUBSET S /\ x \notin P(x)
    BY DEF Preceding, TotalOrder
  <2> HIDE DEF P
  <2>2. IsFiniteSet(P(x)) /\ Cardinality(P(x)) <= Cardinality(S)
        /\ Cardinality(P(x)) # Cardinality(S)
    BY <2>1, FS_Subset
  <2>3. Cardinality(P(x)) \in Nat
    BY <2>2, FS_CardinalityType
  <2> QED
    BY <1>1, <2>1, <2>2, <2>3
<1>3. ASSUME NEW x \in S, NEW y \in S, <<x, y>> \in Order
      PROVE  Cardinality(P(x)) # Cardinality(P(y))
  <2>1. P(x) \in SUBSET P(y) /\ x \in P(y) /\ x \notin P(x)
    BY <1>3 DEF Preceding, TotalOrder
  <2>2. IsFiniteSet(P(y))
    BY <1>2
  <2> HIDE DEF P
  <2> QED
    BY <2>1, <2>2, FS_Subset
<1>4. \A x, y \in S : Cardinality(P(x)) = Cardinality(P(y)) => x = y
  BY <1>3 DEF TotalOrder
<1> HIDE DEF P
<1>5. rank \in Injection(S, Places)
  BY <1>2, <1>4 DEF Injection, IsInjective
<1>6. IsFiniteSet(Places) /\ Cardinality(Places) = Cardinality(S)
  <2>1. 0 \in Int /\ Cardinality(S) - 1 \in Int
    BY <1>1
  <2>2. /\ IsFiniteSet(Places)
        /\ Cardinality(Places) = IF 0 > Cardinality(S) - 1 THEN 0
                                 ELSE Cardinality(S) - 1 - 0 + 1
    BY <2>1, FS_Interval
  <2> QED
    BY <1>1, <2>2
<1> HIDE DEF Places, rank
<1>7. rank \in Surjection(S, Places)
  BY <1>5, <1>6, FS_Injection
<1>8. \A r \in Places : \E x \in S : Cardinality(P(x)) = r
  BY <1>7 DEF Surjection, rank
<1> QED
  BY <1>2, <1>4, <1>8 DEF P, Places

\* A finite set of numbers has a maximum: the element that none is above.
LEMMA HasFirst ==
    ASSUME NEW S, IsFiniteSet(S), S # {}, NEW Order, TotalOrder(Order, S)
    PROVE  \E x \in S : \A y \in S : <<y, x>> \notin Order
<1>1. 0 \in 0 .. Cardinality(S) - 1
  <2>1. Cardinality(S) \in Nat /\ Cardinality(S) # 0
    BY FS_CardinalityType, FS_EmptySet
  <2> QED
    BY <2>1
<1>2. PICK x \in S : Cardinality(Preceding(Order, S, x)) = 0
  BY <1>1, Ranks
<1>3. Preceding(Order, S, x) = {}
  <2>1. Preceding(Order, S, x) \in SUBSET S
    BY DEF Preceding
  <2>2. IsFiniteSet(Preceding(Order, S, x))
    BY <2>1, FS_Subset
  <2> QED
    BY <1>2, <2>2, FS_EmptySet
<1> QED
  BY <1>3 DEF Preceding

LEMMA MaxOfFinite ==
    ASSUME NEW S \in SUBSET Nat, IsFiniteSet(S), S # {}
    PROVE  Max(S) \in S
<1> DEFINE Above == {p \in S \X S : p[1] > p[2]}
<1>1. TotalOrder(Above, S)
  BY DEF TotalOrder
<1>2. \A x, y \in S : <<y, x>> \in Above <=> y > x
  OBVIOUS
<1> HIDE DEF Above
<1>3. PICK x \in S : \A y \in S : ~(y > x)
  BY <1>1, <1>2, HasFirst
<1>4. \A y \in S : y <= x
  BY <1>3
<1> QED
  BY <1>4, MaxIs
=============================================================================

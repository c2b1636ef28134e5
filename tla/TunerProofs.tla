----------------------------- MODULE TunerProofs -----------------------------
(***************************************************************************)
(* Proofs about Tuner and TunerBand, for every spectrum, number of decoders *)
(* and choice of the thresholds.  What is found is positive and listed once *)
(* (0 stands for no station), however streaks are joined, so that the       *)
(* strongest stations have different places; and the assignment gives each  *)
(* of them one decoder.                                                     *)
(***************************************************************************)
EXTENDS TunerBand, NumberTheorems

Bins == 1 .. (Length - 1)

\* The indices in the order in which the stations are found.
Ascending(list) ==
    /\ list \in Seq(Bins)
    /\ \A m, n \in 1 .. Len(list) : m < n => list[m] < list[n]

LEMMA LengthIs == Length \in Nat /\ Length > 0
  BY TunerAssumption DEF Length

LEMMA AscendingIs ==
    ASSUME NEW list, Ascending(list)
    PROVE  /\ Len(list) \in Nat
           /\ \A n \in 1 .. Len(list) : list[n] \in Bins /\ list[n] \in Int
  <1>1. list \in Seq(Bins)
    BY DEF Ascending
  <1>2. Len(list) \in Nat /\ \A n \in 1 .. Len(list) : list[n] \in Bins
    BY <1>1
  <1>3. Bins \subseteq Int
    BY DEF Bins
  <1> QED  BY <1>2, <1>3

LEMMA AscendingMore ==
    ASSUME NEW list, Ascending(list), NEW b \in Bins,
           \A n \in 1 .. Len(list) : list[n] < b
    PROVE  /\ Ascending(Append(list, b)) /\ Len(Append(list, b)) = Len(list) + 1
           /\ \A n \in 1 .. Len(list) : Append(list, b)[n] = list[n]
           /\ Append(list, b)[Len(list) + 1] = b
  <1>1. /\ Append(list, b) \in Seq(Bins) /\ Len(Append(list, b)) = Len(list) + 1
        /\ \A n \in 1 .. Len(list) : Append(list, b)[n] = list[n]
        /\ Append(list, b)[Len(list) + 1] = b
    BY DEF Ascending
  <1>2. ASSUME NEW m \in 1 .. Len(list) + 1, NEW n \in 1 .. Len(list) + 1, m < n
        PROVE  Append(list, b)[m] < Append(list, b)[n]
    <2>1. m \in 1 .. Len(list) /\ (n \in 1 .. Len(list) \/ n = Len(list) + 1)
      BY <1>2 DEF Ascending
    <2> QED  BY <1>1, <1>2, <2>1 DEF Ascending
  <1> QED  BY <1>1, <1>2 DEF Ascending

-----------------------------------------------------------------------------
(* Streaks.                                                                 *)

Streak == [last : Int, count : Int, reached : BOOLEAN, centres : Seq(Int)]

\* The streak begins at or above 0, after all centres so far, and is long enough if
\* it is said to be.
StreakOK(s) ==
    /\ s.last \in Indices /\ s.count \in 1 .. (s.last + 1)
    /\ s.reached => s.count >= min_consec_max
    /\ Ascending(s.centres)
    /\ \A n \in 1 .. Len(s.centres) : s.centres[n] <= s.last - s.count

LEMMA CentreIs ==
    ASSUME NEW s \in Streak, StreakOK(s), s.reached
    PROVE  /\ s.last - s.count \div 2 \in Bins
           /\ s.last - s.count \div 2 < s.last
           /\ \A n \in 1 .. Len(s.centres) : s.centres[n] < s.last - s.count \div 2
  <1> DEFINE c == s.count
             l == s.last
  <1>1. l \in 0 .. (Length - 1) /\ c \in Nat /\ c >= 3 /\ c <= l + 1 /\ Length \in Nat
    <2>1. l \in 0 .. (Length - 1) /\ c \in 1 .. (l + 1) /\ c >= min_consec_max
      BY DEF StreakOK, Indices
    <2>2. min_consec_max \in Int /\ min_consec_max >= 3 /\ Length \in Nat
      BY TunerAssumption, LengthIs
    <2> HIDE DEF c, l
    <2> QED  BY <2>1, <2>2
  <1>a. \A n \in 1 .. Len(s.centres) : s.centres[n] <= l - c /\ s.centres[n] \in Int
    BY AscendingIs DEF StreakOK
  <1> HIDE DEF c, l
  <1>2. c \div 2 \in Nat /\ c \div 2 >= 1 /\ c \div 2 <= c - 2
    BY <1>1
  <1>3. l - c \div 2 >= l - c + 2 /\ l - c \div 2 < l /\ l - c \div 2 \in Int
    BY <1>1, <1>2
  <1>4. l - c \div 2 \in Bins
    BY <1>1, <1>3 DEF Bins
  <1>5. \A n \in 1 .. Len(s.centres) : s.centres[n] < l - c \div 2
    BY <1>1, <1>a, <1>3
  <1> QED  BY <1>3, <1>4, <1>5 DEF c, l

LEMMA StreakStepType ==
    ASSUME NEW s \in Streak, NEW i \in Int
    PROVE  StreakStep(s, i) \in Streak
  <1>1. s.last \in Int /\ s.count \in Int /\ s.reached \in BOOLEAN
        /\ s.centres \in Seq(Int)
    BY DEF Streak
  <1>2. Count(s, i) \in Int
    BY <1>1 DEF Count
  <1>3. s.last - s.count \div 2 \in Int
    BY <1>1
  <1>4. Append(s.centres, s.last - s.count \div 2) \in Seq(Int)
    BY <1>1, <1>3
  <1> QED  BY <1>1, <1>2, <1>4 DEF StreakStep, Streak

\* Whatever index comes next, the centres are ascending.
LEMMA StreakStepCentres ==
    ASSUME NEW s \in Streak, StreakOK(s), NEW i \in Int
    PROVE  /\ Ascending(StreakStep(s, i).centres)
           /\ \A n \in 1 .. Len(StreakStep(s, i).centres) :
                  StreakStep(s, i).centres[n] < s.last
           /\ AbsDiff(i, s.last) <= fuzzyness => StreakStep(s, i).centres = s.centres
  <1> DEFINE b == s.last - s.count \div 2
  <1>0. /\ s.last \in Int /\ s.count \in Int /\ s.count >= 1
        /\ \A n \in 1 .. Len(s.centres) : s.centres[n] \in Int
        /\ \A n \in 1 .. Len(s.centres) : s.centres[n] <= s.last - s.count
    BY AscendingIs DEF StreakOK, Indices
  <1>1. CASE StreakStep(s, i).centres = s.centres
    <2>1. \A n \in 1 .. Len(s.centres) : s.centres[n] < s.last
      BY <1>0
    <2> QED  BY <1>1, <2>1 DEF StreakOK
  <1>2. CASE /\ StreakStep(s, i).centres = Append(s.centres, b) /\ s.reached
             /\ ~(AbsDiff(i, s.last) <= fuzzyness)
    <2>1. /\ b \in Bins /\ b < s.last
          /\ \A n \in 1 .. Len(s.centres) : s.centres[n] < b
      BY <1>2, CentreIs
    <2> HIDE DEF b
    <2>2. /\ Ascending(Append(s.centres, b))
          /\ Len(Append(s.centres, b)) = Len(s.centres) + 1
          /\ \A n \in 1 .. Len(s.centres) : Append(s.centres, b)[n] = s.centres[n]
          /\ Append(s.centres, b)[Len(s.centres) + 1] = b
      BY <2>1, AscendingMore DEF StreakOK
    <2>3. Len(s.centres) \in Nat
      BY DEF StreakOK, Ascending
    <2>4. ASSUME NEW n \in 1 .. Len(s.centres) + 1
          PROVE  Append(s.centres, b)[n] < s.last
      <3>1. n \in 1 .. Len(s.centres) \/ n = Len(s.centres) + 1
        BY <2>3
      <3>2. CASE n \in 1 .. Len(s.centres)
        <4>1. s.centres[n] < b /\ s.centres[n] \in Int /\ b \in Int
          BY <1>0, <2>1, <3>2 DEF Bins
        <4> QED  BY <1>0, <2>1, <2>2, <3>2, <4>1
      <3> QED  BY <2>1, <2>2, <3>1, <3>2
    <2> QED  BY <1>2, <2>2, <2>4
  <1>3. \/ StreakStep(s, i).centres = s.centres
        \/ /\ StreakStep(s, i).centres = Append(s.centres, b) /\ s.reached
           /\ ~(AbsDiff(i, s.last) <= fuzzyness)
    BY DEF StreakStep
  <1> QED  BY <1>1, <1>2, <1>3

LEMMA StreakStepOK ==
    ASSUME NEW s \in Streak, StreakOK(s), NEW i \in Indices, s.last <= i
    PROVE  StreakOK(StreakStep(s, i))
  <1> PICK t : t = StreakStep(s, i)
    OBVIOUS
  <1>1. /\ i \in Int /\ i >= 0 /\ s.last \in Int /\ s.count \in Int
        /\ s.count >= 1 /\ s.count <= s.last + 1 /\ fuzzyness \in Nat
        /\ AbsDiff(i, s.last) = i - s.last
    BY TunerAssumption DEF StreakOK, Indices, AbsDiff
  <1>2. /\ t.last = i /\ t.count = Count(s, i)
        /\ t.reached => \/ AbsDiff(i, s.last) <= fuzzyness /\ s.reached
                        \/ t.count >= min_consec_max
    BY DEF StreakStep, Streak
  <1>3. Ascending(t.centres) /\ \A n \in 1 .. Len(t.centres) : t.centres[n] < s.last
    BY <1>1, StreakStepCentres
  <1>4. \A n \in 1 .. Len(t.centres) : t.centres[n] \in Int
    BY <1>3, AscendingIs
  <1>5. CASE i - s.last <= fuzzyness
    <2>1. t.count = s.count + (i - s.last) /\ t.centres = s.centres
      BY <1>1, <1>2, <1>5, StreakStepCentres DEF Count
    <2>2. t.count \in 1 .. (t.last + 1) /\ t.last - t.count = s.last - s.count
      BY <1>1, <1>2, <2>1
    <2>3. t.reached => t.count >= min_consec_max
      <3>1. t.reached => s.reached \/ t.count >= min_consec_max
        BY <1>2
      <3>2. s.reached => s.count >= min_consec_max
        BY DEF StreakOK
      <3>3. min_consec_max \in Int /\ t.count >= s.count /\ t.count \in Int
        BY TunerAssumption, <1>1, <2>1
      <3> QED  BY <1>1, <3>1, <3>2, <3>3
    <2> QED  BY <1>2, <1>3, <2>1, <2>2, <2>3 DEF StreakOK
  <1>6. CASE ~(i - s.last <= fuzzyness)
    <2>1. t.count = 1
      BY <1>1, <1>2, <1>6 DEF Count
    <2>2. t.count \in 1 .. (t.last + 1)
      BY <1>1, <1>2, <2>1
    <2>3. t.reached => t.count >= min_consec_max
      BY <1>1, <1>2, <1>6
    <2>4. \A n \in 1 .. Len(t.centres) : t.centres[n] <= t.last - t.count
      BY <1>1, <1>2, <1>3, <1>4, <2>1
    <2> QED  BY <1>2, <1>3, <2>2, <2>3, <2>4 DEF StreakOK
  <1> QED  BY <1>5, <1>6

LEMMA FirstIs ==
    ASSUME NEW M \in SUBSET Indices, M # {}
    PROVE  Min(M) \in M /\ \A m \in M : Min(M) <= m
  <1>1. M \in SUBSET Nat
    BY DEF Indices
  <1>2. PICK b \in M : \A m \in M : b <= m
    BY <1>1, LeastNumber
  <1> QED  BY <1>1, <1>2, MinIs

\* The streak that StationIndices starts with, and what it does with each index.
StreakFirst(M) ==
    [last |-> IF M = {} THEN 0 ELSE Min(M), count |-> 1, reached |-> FALSE,
     centres |-> <<>>]

StreakBefore(M, f) ==
    /\ DOMAIN f = 0 .. Length
    /\ f[0] = StreakFirst(M)
    /\ \A k \in 1 .. Length :
           f[k] = IF k - 1 \in M THEN StreakStep(f[k - 1], k - 1) ELSE f[k - 1]

\* The same, from each of the indices to the next one.
Before(M, k) == {i \in M : i < k}
StreakAfter(M, f) ==
    f = [k \in 0 .. Length |->
            IF Before(M, k) = {} THEN StreakFirst(M)
            ELSE StreakStep(f[Max(Before(M, k))], Max(Before(M, k)))]

LEMMA StreakFirstType ==
    ASSUME NEW M \in SUBSET Indices
    PROVE  StreakFirst(M) \in Streak
  <1> DEFINE first == IF M = {} THEN 0 ELSE Min(M)
  <1>1. first \in Int
    <2>1. CASE M = {}
      BY <2>1
    <2>2. CASE M # {}
      <3>1. Min(M) \in Indices
        BY <2>2, FirstIs
      <3> QED  BY <2>2, <3>1 DEF Indices
    <2> QED  BY <2>1, <2>2
  <1> HIDE DEF first
  <1>2. <<>> \in Seq(Int)
    OBVIOUS
  <1>3. StreakFirst(M) = [last |-> first, count |-> 1, reached |-> FALSE, centres |-> <<>>]
    BY DEF StreakFirst, first
  <1> QED  BY <1>1, <1>2, <1>3 DEF Streak

LEMMA NothingBefore ==
    ASSUME NEW M \in SUBSET Indices
    PROVE  Before(M, 0) = {}
  <1>1. \A i \in M : ~(i < 0)
    BY LengthIs DEF Indices
  <1> QED  BY <1>1 DEF Before

\* The last index before k + 1 is k, if it is one, and otherwise that before k.
LEMMA BeforeNext ==
    ASSUME NEW M \in SUBSET Indices, NEW k \in 1 .. Length
    PROVE  /\ k - 1 \in M => Before(M, k) # {} /\ Max(Before(M, k)) = k - 1
           /\ k - 1 \notin M => Before(M, k) = Before(M, k - 1)
  <1>1. Length \in Nat /\ k \in Nat /\ \A i \in M : i \in Nat
    BY LengthIs DEF Indices
  <1>2. CASE k - 1 \in M
    <2>1. k - 1 \in Before(M, k) /\ Before(M, k) \in SUBSET Nat
      BY <1>1, <1>2 DEF Before
    <2>2. \A c \in Before(M, k) : c <= k - 1
      BY <1>1 DEF Before
    <2>3. Max(Before(M, k)) = k - 1
      BY <2>1, <2>2, MaxIs
    <2> QED  BY <1>2, <2>1, <2>3
  <1>3. CASE k - 1 \notin M
    <2>1. \A i \in M : i < k <=> i < k - 1
      BY <1>1, <1>3
    <2> QED  BY <1>3, <2>1 DEF Before
  <1> QED  BY <1>2, <1>3

\* What goes from index to index also goes step by step.
LEMMA AfterIsBefore ==
    ASSUME NEW M \in SUBSET Indices, NEW f, StreakAfter(M, f)
    PROVE  StreakBefore(M, f)
  <1>1. Length \in Nat
    BY LengthIs
  <1>2. \A k \in 0 .. Length :
            f[k] = IF Before(M, k) = {} THEN StreakFirst(M)
                   ELSE StreakStep(f[Max(Before(M, k))], Max(Before(M, k)))
    BY DEF StreakAfter
  <1>3. f[0] = StreakFirst(M)
    <2>1. Before(M, 0) = {}
      BY NothingBefore
    <2> QED  BY <1>1, <1>2, <2>1
  <1>4. ASSUME NEW k \in 1 .. Length
        PROVE  f[k] = IF k - 1 \in M THEN StreakStep(f[k - 1], k - 1) ELSE f[k - 1]
    <2>1. k \in 0 .. Length /\ k - 1 \in 0 .. Length
      BY <1>1
    <2>2. CASE k - 1 \in M
      BY <1>2, <2>1, <2>2, BeforeNext
    <2>3. CASE k - 1 \notin M
      <3>1. Before(M, k) = Before(M, k - 1)
        BY <2>3, BeforeNext
      <3>2. f[k] = f[k - 1]
        BY <1>2, <2>1, <3>1
      <3> QED  BY <2>3, <3>2
    <2> QED  BY <2>2, <2>3
  <1>5. DOMAIN f = 0 .. Length
    BY DEF StreakAfter
  <1> QED  BY <1>3, <1>4, <1>5 DEF StreakBefore

LEMMA BeforeIsAfter ==
    ASSUME NEW M \in SUBSET Indices, NEW f \in [0 .. Length -> Streak],
           StreakBefore(M, f)
    PROVE  StreakAfter(M, f)
  <1> DEFINE After(k) == f[k] = IF Before(M, k) = {} THEN StreakFirst(M)
                                ELSE StreakStep(f[Max(Before(M, k))], Max(Before(M, k)))
             Good == {k \in 0 .. Length : After(k)}
  <1>1. Length \in Nat
    BY LengthIs
  <1>2. After(0)
    <2>1. Before(M, 0) = {}
      BY NothingBefore
    <2> QED  BY <2>1 DEF StreakBefore
  <1>3. ASSUME NEW k \in 1 .. Length, After(k - 1) PROVE After(k)
    <2>1. f[k] = IF k - 1 \in M THEN StreakStep(f[k - 1], k - 1) ELSE f[k - 1]
      BY DEF StreakBefore
    <2>2. CASE k - 1 \in M
      BY <2>1, <2>2, BeforeNext
    <2>3. CASE k - 1 \notin M
      <3>1. Before(M, k) = Before(M, k - 1)
        BY <2>3, BeforeNext
      <3> QED  BY <1>3, <2>1, <2>3, <3>1
    <2> QED  BY <2>2, <2>3
  <1> HIDE DEF After
  <1>4. 0 \in Good
    BY <1>1, <1>2
  <1>5. \A k \in 1 .. Length : k - 1 \in Good => k \in Good
    BY <1>1, <1>3
  <1> HIDE DEF Good
  <1>6. 0 .. Length \subseteq Good
    BY <1>1, <1>4, <1>5, UpTo
  <1>7. \A k \in 0 .. Length : After(k)
    BY <1>6 DEF Good
  <1> QED  BY <1>7 DEF After, StreakAfter

\* The stations are the centres after the last streak.
LEMMA StreaksExist ==
    ASSUME NEW M \in SUBSET Indices
    PROVE  \E f : StreakBefore(M, f) /\ StationIndices(M) = StreakStep(f[Length], 0).centres
  <1> DEFINE step == [k \in 1 .. Length |-> [s \in Streak |->
                          IF k - 1 \in M THEN StreakStep(s, k - 1) ELSE s]]
  <1>1. Length \in Nat /\ StreakFirst(M) \in Streak
    BY LengthIs, StreakFirstType
  <1>2. ASSUME NEW k \in 1 .. Length, NEW s \in Streak
        PROVE  (IF k - 1 \in M THEN StreakStep(s, k - 1) ELSE s) \in Streak
    BY StreakStepType
  <1>3. step \in [1 .. Length -> [Streak -> Streak]]
    BY <1>2
  <1>4. \A k \in 1 .. Length, s \in Streak :
            step[k][s] = IF k - 1 \in M THEN StreakStep(s, k - 1) ELSE s
    OBVIOUS
  <1> HIDE DEF step
  <1>5. PICK f \in [0 .. Length -> Streak] :
            \A k \in 0 .. Length : f[k] = IF k = 0 THEN StreakFirst(M)
                                          ELSE step[k][f[k - 1]]
    <2>1. Recurses(Streak, StreakFirst(M), Length, step)
      BY <1>1, <1>3, RecursionExists
    <2> QED  BY <2>1 DEF Recurses
  <1>6. StreakBefore(M, f)
    <2>1. ASSUME NEW k \in 1 .. Length
          PROVE  f[k] = IF k - 1 \in M THEN StreakStep(f[k - 1], k - 1) ELSE f[k - 1]
      <3>1. k \in 0 .. Length /\ k # 0 /\ f[k - 1] \in Streak
        BY <1>1
      <3> QED  BY <1>4, <1>5, <3>1
    <2>2. f[0] = StreakFirst(M) /\ DOMAIN f = 0 .. Length
      BY <1>1, <1>5
    <2> QED  BY <2>1, <2>2 DEF StreakBefore
  <1>7. StreakAfter(M, f)
    BY <1>6, BeforeIsAfter
  <1> DEFINE h == CHOOSE g : StreakAfter(M, g)
  <1>8. StreakAfter(M, h)
    BY <1>7, Zenon
  <1>9. StationIndices(M) = StreakStep(h[Length], 0).centres
    BY Zenon DEF StationIndices, StreakAfter, Before, StreakFirst
  <1> QED  BY <1>8, <1>9, AfterIsBefore

\* After each index the streak is well-formed, and not above the next index of M.
LEMMA StreaksOK ==
    ASSUME NEW M \in SUBSET Indices, NEW f, StreakBefore(M, f)
    PROVE  f[Length] \in Streak /\ StreakOK(f[Length])
  <1> DEFINE OK(k) == /\ f[k] \in Streak /\ StreakOK(f[k])
                      /\ \A m \in M : k <= m => f[k].last <= m
             Good == {k \in 0 .. Length : OK(k)}
  <1>0. Length \in Nat /\ Length > 0
    BY LengthIs
  <1>1. OK(0)
    <2> PICK first : first = IF M = {} THEN 0 ELSE Min(M)
      OBVIOUS
    <2>1. first \in Indices /\ \A m \in M : first <= m
      <3>1. CASE M = {}
        BY <1>0, <3>1 DEF Indices
      <3>2. CASE M # {}
        BY <3>2, FirstIs
      <3> QED  BY <3>1, <3>2
    <2>2. f[0] = [last |-> first, count |-> 1, reached |-> FALSE, centres |-> <<>>]
      BY DEF StreakBefore, StreakFirst
    <2>3. first \in Nat
      BY <2>1 DEF Indices
    <2>4. <<>> \in Seq(Int) /\ Ascending(<<>>)
      BY DEF Ascending
    <2>5. f[0] \in Streak
      BY <2>2, <2>3, <2>4 DEF Streak
    <2>6. StreakOK(f[0])
      <3>1. 1 \in 1 .. (first + 1)
        BY <2>3
      <3> QED  BY <2>1, <2>2, <2>4, <3>1 DEF StreakOK
    <2> QED  BY <2>1, <2>2, <2>5, <2>6
  <1>2. ASSUME NEW k \in 1 .. Length, OK(k - 1) PROVE OK(k)
    <2>1. CASE k - 1 \in M
      <3>1. f[k] = StreakStep(f[k - 1], k - 1)
        BY <2>1 DEF StreakBefore
      <3>2. k - 1 \in Indices /\ k - 1 \in Int /\ f[k - 1].last <= k - 1
        BY <1>0, <1>2, <2>1 DEF Indices
      <3>3. f[k] \in Streak /\ StreakOK(f[k])
        BY <1>2, <3>1, <3>2, StreakStepType, StreakStepOK
      <3>4. f[k].last = k - 1
        BY <3>1 DEF StreakStep
      <3>5. \A m \in M : k <= m => f[k].last <= m
        <4>1. \A m \in M : m \in Int
          BY DEF Indices
        <4> QED  BY <3>4, <4>1
      <3> QED  BY <3>3, <3>5
    <2>2. CASE k - 1 \notin M
      <3>1. f[k] = f[k - 1]
        BY <2>2 DEF StreakBefore
      <3>2. \A m \in M : k <= m => k - 1 <= m
        BY DEF Indices
      <3> QED  BY <1>2, <3>1, <3>2
    <2> QED  BY <2>1, <2>2
  <1> HIDE DEF OK
  <1>3. 0 \in Good
    BY <1>0, <1>1
  <1>4. \A k \in 1 .. Length : k - 1 \in Good => k \in Good
    BY <1>0, <1>2
  <1> HIDE DEF Good
  <1>5. 0 .. Length \subseteq Good
    BY <1>0, <1>3, <1>4, UpTo
  <1>6. OK(Length)
    BY <1>0, <1>5 DEF Good
  <1> QED  BY <1>6 DEF OK

LEMMA StationIndicesAscend ==
    ASSUME NEW M \in SUBSET Indices
    PROVE  Ascending(StationIndices(M))
  <1>1. PICK f : /\ StreakBefore(M, f)
                 /\ StationIndices(M) = StreakStep(f[Length], 0).centres
    BY StreaksExist
  <1>2. f[Length] \in Streak /\ StreakOK(f[Length])
    BY <1>1, StreaksOK
  <1> QED  BY <1>1, <1>2, StreakStepCentres

-----------------------------------------------------------------------------
(* Groups.                                                                  *)

LEMMA ProductGrows ==
    ASSUME NEW a \in Nat, NEW b \in Nat, a <= b, NEW c \in Nat
    PROVE  a * c <= b * c /\ a * c \in Nat /\ b * c \in Nat
  <1>1. (b - a) \in Nat /\ b = a + (b - a)
    OBVIOUS
  <1>2. (b - a) * c \in Nat
    BY <1>1
  <1>3. b * c = a * c + (b - a) * c
    BY <1>1
  <1> QED  BY <1>2, <1>3

\* The mean is not below a lower bound, and not above an upper one.
LEMMA MeanBetween ==
    ASSUME NEW sum \in Nat, NEW size \in Nat, size > 0, NEW low \in Nat, NEW high \in Nat,
           low * size <= sum, sum <= high * size
    PROVE  sum \div size \in low .. high
  <1> PICK q : q = sum \div size
    OBVIOUS
  <1>1. q \in Nat /\ q * size <= sum /\ sum < q * size + size
    OBVIOUS
  <1>2. low <= q
    <2> SUFFICES ASSUME q + 1 <= low PROVE FALSE
      BY <1>1
    <2>1. (q + 1) * size <= low * size
      BY <1>1, ProductGrows
    <2>2. (q + 1) * size = q * size + size
      BY <1>1
    <2> QED  BY <1>1, <2>1, <2>2
  <1>3. q <= high
    <2> SUFFICES ASSUME high + 1 <= q PROVE FALSE
      BY <1>1
    <2>1. (high + 1) * size <= q * size
      BY <1>1, ProductGrows
    <2>2. (high + 1) * size = high * size + size
      OBVIOUS
    <2> QED  BY <1>1, <2>1, <2>2
  <1> QED  BY <1>1, <1>2, <1>3

Group == [sum : Int, size : Int, last : Int, means : Seq(Int)]

\* The open group goes from index low to index last, and all means are below.
Spans(g, low) ==
    /\ g.size \in Nat /\ g.size > 0 /\ g.sum \in Nat /\ g.last \in Bins
    /\ low \in Bins /\ low <= g.last
    /\ low * g.size <= g.sum /\ g.sum <= g.last * g.size
    /\ Ascending(g.means) /\ \A n \in 1 .. Len(g.means) : g.means[n] < low
GroupOK(g) == \E low : Spans(g, low)

LEMMA GroupStepType ==
    ASSUME NEW g \in Group, NEW idx \in Int
    PROVE  GroupStep(g, idx) \in Group
  <1>1. g.sum \in Int /\ g.size \in Int /\ g.last \in Int /\ g.means \in Seq(Int)
    BY DEF Group
  <1>2. CASE g.size > 0 /\ idx - g.last >= SameStation
    <2>1. g.sum \div g.size \in Int
      BY <1>1, <1>2
    <2>2. Append(g.means, g.sum \div g.size) \in Seq(Int)
      BY <1>1, <2>1
    <2> QED  BY <1>2, <2>2 DEF GroupStep, Group
  <1>3. CASE ~(g.size > 0 /\ idx - g.last >= SameStation)
    <2>1. g.sum + idx \in Int /\ g.size + 1 \in Int
      BY <1>1
    <2>2. GroupStep(g, idx) = [g EXCEPT !.sum = @ + idx, !.size = @ + 1, !.last = idx]
      BY <1>3 DEF GroupStep
    <2> QED  BY <2>1, <2>2 DEF Group
  <1> QED  BY <1>2, <1>3

LEMMA GroupStepOK ==
    ASSUME NEW g \in Group, NEW idx \in Bins, GroupOK(g), g.last < idx
    PROVE  GroupOK(GroupStep(g, idx))
  <1> PICK low : Spans(g, low)
    BY DEF GroupOK
  <1> PICK h : h = GroupStep(g, idx)
    OBVIOUS
  <1>1. /\ g.size \in Nat /\ g.size > 0 /\ g.sum \in Nat /\ g.last \in Nat
        /\ low \in Nat /\ low <= g.last /\ low * g.size <= g.sum
        /\ g.sum <= g.last * g.size /\ idx \in Nat /\ low \in Bins
        /\ Ascending(g.means) /\ \A n \in 1 .. Len(g.means) : g.means[n] < low
    BY DEF Spans, Bins
  <1>a. /\ g.last \in Bins /\ g.last \in Nat /\ idx \in Nat /\ g.last < idx
        /\ low \in Nat /\ low \in Bins /\ Ascending(g.means) /\ Len(g.means) \in Nat
    BY <1>1, AscendingIs DEF Spans
  <1>2. CASE idx - g.last >= SameStation
    <2> PICK mean : mean = g.sum \div g.size
      OBVIOUS
    <2>1. h = [sum |-> idx, size |-> 1, last |-> idx, means |-> Append(g.means, mean)]
      BY <1>1, <1>2 DEF GroupStep
    <2>2. mean \in low .. g.last
      BY <1>1, MeanBetween
    <2>3. mean \in Bins /\ mean < idx
      BY <1>a, <2>2, LengthIs DEF Bins
    <2>4. \A n \in 1 .. Len(g.means) : g.means[n] < mean
      BY <1>1, <2>2, AscendingIs
    <2>5. /\ Ascending(Append(g.means, mean))
          /\ Len(Append(g.means, mean)) = Len(g.means) + 1
          /\ \A n \in 1 .. Len(g.means) : Append(g.means, mean)[n] = g.means[n]
          /\ Append(g.means, mean)[Len(g.means) + 1] = mean
      BY <1>1, <2>3, <2>4, AscendingMore
    <2>6. ASSUME NEW n \in 1 .. Len(g.means) + 1
          PROVE  Append(g.means, mean)[n] < idx
      <3>1. n \in 1 .. Len(g.means) \/ n = Len(g.means) + 1
        BY <1>a
      <3>2. CASE n \in 1 .. Len(g.means)
        <4>1. g.means[n] \in Int /\ g.means[n] < mean /\ mean \in Int
          BY <1>1, <2>2, <2>4, <3>2, AscendingIs
        <4> QED  BY <1>1, <2>3, <2>5, <3>2, <4>1
      <3> QED  BY <2>3, <2>5, <3>1, <3>2
    <2>7. idx * 1 <= idx
      BY <1>1
    <2>8. Spans(h, idx)
      BY <1>1, <2>1, <2>5, <2>6, <2>7 DEF Spans
    <2> QED  BY <2>8 DEF GroupOK
  <1>3. CASE ~(idx - g.last >= SameStation)
    <2>1. h = [g EXCEPT !.sum = @ + idx, !.size = @ + 1, !.last = idx]
      BY <1>3 DEF GroupStep
    <2>2. /\ h.sum = g.sum + idx /\ h.size = g.size + 1 /\ h.last = idx
          /\ h.means = g.means
      BY <2>1 DEF Group
    <2>3. low * (g.size + 1) <= g.sum + idx
      <3>1. low * (g.size + 1) = low * g.size + low
        BY <1>1
      <3>2. low * g.size \in Nat
        BY <1>1, ProductGrows
      <3> QED  BY <1>1, <3>1, <3>2
    <2>4. g.sum + idx <= idx * (g.size + 1)
      <3>1. idx * (g.size + 1) = idx * g.size + idx
        BY <1>1
      <3>2. g.last \in Nat /\ idx \in Nat /\ g.last <= idx /\ g.size \in Nat
        BY <1>1, <1>a DEF Bins
      <3>3. /\ g.last * g.size <= idx * g.size
            /\ g.last * g.size \in Nat /\ idx * g.size \in Nat
        BY <3>2, ProductGrows, Zenon
      <3>4. g.sum \in Nat /\ g.sum <= g.last * g.size
        BY <1>1, <1>a
      <3> QED  BY <3>1, <3>2, <3>3, <3>4
    <2>5. low * h.size <= h.sum /\ h.sum <= h.last * h.size
      BY <2>2, <2>3, <2>4, Zenon
    <2>6. h.size \in Nat /\ h.size > 0 /\ h.sum \in Nat /\ low <= h.last
      <3>1. g.size \in Nat /\ g.sum \in Nat /\ low <= g.last
        BY <1>1
      <3> QED  BY <1>a, <2>2, <3>1
    <2>7. Ascending(h.means) /\ \A n \in 1 .. Len(h.means) : h.means[n] < low
      BY <1>1, <2>2, Zenon
    <2>8. h.last \in Bins /\ low \in Bins
      BY <1>a, <2>2
    <2> QED  BY <2>5, <2>6, <2>7, <2>8 DEF Spans, GroupOK
  <1> QED  BY <1>2, <1>3

\* The means after the last group; the groups before it are those after each index.
GroupBefore(list, f) ==
    /\ DOMAIN f = 0 .. Len(list)
    /\ f[0] = [sum |-> 0, size |-> 0, last |-> 0, means |-> <<>>]
    /\ \A k \in 1 .. Len(list) : f[k] = GroupStep(f[k - 1], list[k])

LEMMA GroupsExist ==
    ASSUME NEW list, Ascending(list)
    PROVE  \E f : GroupBefore(list, f) /\ Grouped(list) = f[Len(list)].means
  <1> DEFINE N == Len(list)
             base == [sum |-> 0, size |-> 0, last |-> 0, means |-> <<>>]
             step == [k \in 1 .. N |-> [g \in Group |-> GroupStep(g, list[k])]]
  <1>1. N \in Nat /\ \A k \in 1 .. N : list[k] \in Int
    BY AscendingIs
  <1>2. base \in Group
    BY DEF Group
  <1>3. step \in [1 .. N -> [Group -> Group]]
    BY <1>1, GroupStepType
  <1>4. \A k \in 1 .. N, g \in Group : step[k][g] = GroupStep(g, list[k])
    OBVIOUS
  <1> HIDE DEF step, base, N
  <1>5. PICK f \in [0 .. N -> Group] :
            \A k \in 0 .. N : f[k] = IF k = 0 THEN base ELSE step[k][f[k - 1]]
    <2>1. Recurses(Group, base, N, step)
      BY <1>1, <1>2, <1>3, RecursionExists
    <2> QED  BY <2>1 DEF Recurses
  <1>6. ASSUME NEW k \in 0 .. N
        PROVE  f[k] = IF k = 0 THEN base ELSE GroupStep(f[k - 1], list[k])
    <2>1. CASE k # 0
      <3>1. k \in 1 .. N /\ f[k - 1] \in Group
        BY <1>1, <2>1
      <3> QED  BY <1>4, <1>5, <2>1, <3>1
    <2> QED  BY <1>5, <2>1
  <1>7. f = [k \in 0 .. N |-> IF k = 0 THEN base ELSE GroupStep(f[k - 1], list[k])]
    BY <1>6
  <1> DEFINE Eq(g) == g = [k \in 0 .. N |->
                              IF k = 0 THEN base ELSE GroupStep(g[k - 1], list[k])]
             h == CHOOSE g : Eq(g)
  <1>8. Grouped(list) = h[N].means
    BY Zenon DEF Grouped, base, N
  <1>9. Eq(h)
    <2>1. \E g : Eq(g)
      BY <1>7
    <2> HIDE DEF Eq
    <2> QED  BY <2>1, Zenon
  <1> HIDE DEF h
  <1>10. GroupBefore(list, h)
    <2>1. \A k \in 0 .. N :
              h[k] = IF k = 0 THEN base ELSE GroupStep(h[k - 1], list[k])
      BY <1>9
    <2>2. DOMAIN h = 0 .. N
      BY <1>9
    <2>3. 0 \in 0 .. N /\ \A k \in 1 .. N : k \in 0 .. N /\ k # 0
      BY <1>1
    <2>4. h[0] = base /\ \A k \in 1 .. N : h[k] = GroupStep(h[k - 1], list[k])
      BY <2>1, <2>3
    <2> QED  BY <2>2, <2>4 DEF GroupBefore, base, N
  <1> QED  BY <1>8, <1>10 DEF N

LEMMA GroupedAscend ==
    ASSUME NEW list, Ascending(list)
    PROVE  Ascending(Grouped(list))
  <1>1. PICK f : GroupBefore(list, f) /\ Grouped(list) = f[Len(list)].means
    BY GroupsExist
  <1> DEFINE N == Len(list)
             OK(k) == /\ f[k] \in Group
                      /\ IF k = 0 THEN f[k].size = 0 /\ f[k].means = <<>> /\ f[k].sum = 0
                         ELSE GroupOK(f[k]) /\ f[k].last = list[k]
             Good == {k \in 0 .. N : OK(k)}
  <1>2. N \in Nat /\ \A k \in 1 .. N : list[k] \in Bins /\ list[k] \in Nat
    BY AscendingIs DEF Bins
  <1>3. OK(0)
    <2>1. f[0] = [sum |-> 0, size |-> 0, last |-> 0, means |-> <<>>]
      BY <1>1 DEF GroupBefore
    <2> QED  BY <2>1 DEF Group
  <1>4. ASSUME NEW k \in 1 .. N, OK(k - 1) PROVE OK(k)
    <2> PICK idx : idx = list[k]
      OBVIOUS
    <2> PICK g : g = f[k - 1]
      OBVIOUS
    <2>1. /\ f[k] = GroupStep(g, idx) /\ idx \in Bins /\ idx \in Nat /\ g \in Group
          /\ k \in Nat /\ k # 0 /\ k - 1 \in Nat
      BY <1>1, <1>2, <1>4 DEF GroupBefore
    <2>2. f[k] \in Group /\ f[k].last = idx
      <3>1. f[k] \in Group
        BY <2>1, GroupStepType
      <3> QED  BY <2>1, <3>1 DEF GroupStep, Group
    <2>3. CASE k - 1 = 0
      <3>1. g.size = 0 /\ g.means = <<>> /\ g.sum = 0
        BY <1>4, <2>3
      <3>2. f[k] = [g EXCEPT !.sum = @ + idx, !.size = @ + 1, !.last = idx]
        BY <2>1, <3>1 DEF GroupStep
      <3>3. f[k].sum = idx /\ f[k].size = 1 /\ f[k].means = <<>>
        BY <2>1, <3>1, <3>2 DEF Group
      <3>4. Ascending(<<>>) /\ Len(<<>>) = 0
        BY DEF Ascending
      <3>5. idx * 1 = idx
        BY <2>1
      <3>6. Spans(f[k], idx)
        BY <2>1, <2>2, <3>3, <3>4, <3>5 DEF Spans
      <3> QED  BY <2>1, <2>2, <3>6 DEF GroupOK
    <2>4. CASE k - 1 # 0
      <3>1. GroupOK(g) /\ g.last = list[k - 1]
        BY <1>4, <2>4
      <3>2. list[k - 1] < list[k]
        BY <1>2, <2>1, <2>4 DEF Ascending
      <3>3. GroupOK(f[k])
        BY <2>1, <3>1, <3>2, GroupStepOK
      <3> QED  BY <2>1, <2>2, <3>3
    <2> QED  BY <2>3, <2>4
  <1> HIDE DEF OK
  <1>5. 0 \in Good /\ \A k \in 1 .. N : k - 1 \in Good => k \in Good
    BY <1>2, <1>3, <1>4
  <1> HIDE DEF Good
  <1>6. 0 .. N \subseteq Good
    BY <1>2, <1>5, UpTo
  <1>7. OK(N)
    BY <1>2, <1>6 DEF Good
  <1>8. Ascending(<<>>)
    BY DEF Ascending
  <1> QED  BY <1>1, <1>7, <1>8 DEF OK, GroupOK, Spans

-----------------------------------------------------------------------------
(* The strongest stations.                                                  *)

LEMMA FoundAre ==
    ASSUME NEW numbers
    PROVE  FoundStations(numbers) \in SUBSET Bins /\ IsFiniteSet(FoundStations(numbers))
  <1> DEFINE M == MaxIndices(numbers)
             list == Grouped(StationIndices(M))
  <1>1. M \in SUBSET Indices
    BY DEF MaxIndices
  <1> HIDE DEF M
  <1>2. Ascending(list)
    BY <1>1, StationIndicesAscend, GroupedAscend
  <1> HIDE DEF list
  <1>3. Range(list) \in SUBSET Bins
    BY <1>2 DEF Ascending, Range
  <1>4. IsFiniteSet(Bins)
    BY LengthIs, FS_Interval DEF Bins
  <1>5. FoundStations(numbers) = Range(list)
    BY DEF FoundStations, list, M
  <1> QED  BY <1>3, <1>4, <1>5, FS_Subset

\* Different stations are listed, no more than there are decoders.
Listing(list) ==
    /\ \E N \in 0 .. num_decoders : list \in [1 .. N -> Bins]
    /\ \A m, n \in DOMAIN list : list[m] = list[n] => m = n

LEMMA StrongestListed ==
    ASSUME NEW numbers \in [Indices -> Int]
    PROVE  Listing(Strongest(numbers))
  <1> DEFINE F == FoundStations(numbers)
             Order == {p \in F \X F : IsBefore(numbers, p[1], p[2])}
             Place(i) == Cardinality({j \in F : IsBefore(numbers, j, i)})
             N == Min({Cardinality(F), num_decoders})
  <1>1. F \in SUBSET Bins /\ IsFiniteSet(F)
    BY FoundAre
  <1>2. Cardinality(F) \in Nat /\ num_decoders \in Nat
    BY <1>1, FS_CardinalityType, TunerAssumption
  <1>3. N \in Nat /\ N <= Cardinality(F) /\ N <= num_decoders
    <2> DEFINE both == {Cardinality(F), num_decoders}
    <2>1. both \in SUBSET Nat
      BY <1>2
    <2>2. CASE Cardinality(F) <= num_decoders
      <3>1. Cardinality(F) \in both /\ \A c \in both : Cardinality(F) <= c
        BY <1>2, <2>2
      <3> HIDE DEF both
      <3>2. Cardinality(F) = Min(both)
        BY <2>1, <3>1, MinIs
      <3> QED  BY <1>2, <2>2, <3>2 DEF both
    <2>3. CASE num_decoders <= Cardinality(F)
      <3>1. num_decoders \in both /\ \A c \in both : num_decoders <= c
        BY <1>2, <2>3
      <3> HIDE DEF both
      <3>2. num_decoders = Min(both)
        BY <2>1, <3>1, MinIs
      <3> QED  BY <1>2, <2>3, <3>2 DEF both
    <2> QED  BY <1>2, <2>2, <2>3
  <1>4. Strongest(numbers) = [n \in 1 .. N |-> CHOOSE i \in F : Place(i) = n - 1]
    BY DEF Strongest
  <1> HIDE DEF F, N
  <1>5. \A i \in F : i \in Int /\ numbers[i] \in Int
    <2>1. Bins \subseteq Indices /\ Bins \subseteq Int
      BY DEF Bins, Indices
    <2> QED  BY <1>1, <2>1
  <1>6. \A i, j \in F : <<i, j>> \in Order <=> IsBefore(numbers, i, j)
    OBVIOUS
  <1> HIDE DEF Order
  <1>7. TotalOrder(Order, F)
    <2>1. \A i \in F : <<i, i>> \notin Order
      BY <1>5, <1>6 DEF IsBefore
    <2>2. \A i, j \in F : i # j => <<i, j>> \in Order \/ <<j, i>> \in Order
      BY <1>5, <1>6 DEF IsBefore
    <2>3. \A i, j, k \in F : <<i, j>> \in Order /\ <<j, k>> \in Order => <<i, k>> \in Order
      BY <1>5, <1>6 DEF IsBefore
    <2> QED  BY <2>1, <2>2, <2>3 DEF TotalOrder
  <1>8. \A i \in F : Place(i) = Cardinality(Preceding(Order, F, i))
    <2>1. \A i \in F : {j \in F : IsBefore(numbers, j, i)} = Preceding(Order, F, i)
      BY <1>6 DEF Preceding
    <2> QED  BY <2>1
  <1> HIDE DEF Place
  <1>9. ASSUME NEW n \in 1 .. N PROVE \E i \in F : Place(i) = n - 1
    <2>1. n - 1 \in 0 .. Cardinality(F) - 1
      BY <1>2, <1>3
    <2> QED  BY <1>1, <1>7, <1>8, <2>1, Ranks
  <1>10. ASSUME NEW n \in 1 .. N
         PROVE  Strongest(numbers)[n] \in F /\ Place(Strongest(numbers)[n]) = n - 1
    <2>1. Strongest(numbers)[n] = CHOOSE i \in F : Place(i) = n - 1
      BY <1>4
    <2> QED  BY <1>9, <2>1
  <1>11. Strongest(numbers) \in [1 .. N -> Bins]
    BY <1>1, <1>4, <1>10
  <1>12. ASSUME NEW m \in 1 .. N, NEW n \in 1 .. N,
                Strongest(numbers)[m] = Strongest(numbers)[n]
         PROVE  m = n
    <2>1. m - 1 = n - 1
      BY <1>10, <1>12
    <2> QED  BY <1>3, <2>1
  <1>13. DOMAIN Strongest(numbers) = 1 .. N /\ N \in 0 .. num_decoders
    BY <1>2, <1>3, <1>4
  <1> QED  BY <1>11, <1>12, <1>13 DEF Listing

-----------------------------------------------------------------------------
(* The assignment.                                                          *)

LEMMA AtMostOne ==
    ASSUME NEW S, IsFiniteSet(S), Cardinality(S) <= 1, NEW x \in S, NEW y \in S
    PROVE  x = y
  <1>1. Cardinality(S) \in Nat /\ Cardinality(S) # 0
    BY FS_CardinalityType, FS_EmptySet
  <1>2. Cardinality(S) = 1
    BY <1>1
  <1>3. \E z : S = {z}
    BY <1>2, FS_Singleton
  <1> QED  BY <1>3

\* A station is near at most one slot, and a slot is near at most one station.
LEMMA Distinguished ==
    ASSUME NEW list, Listing(list), Distinguishable(Range(list))
    PROVE  /\ \A n \in DOMAIN list : \A s, t \in Slots :
                  Near(s, list[n]) /\ Near(t, list[n]) => s = t
           /\ \A s \in Slots : \A m, n \in DOMAIN list :
                  Near(s, list[m]) /\ Near(s, list[n]) => m = n
  <1>1. IsFiniteSet(Slots)
    BY TunerAssumption, FS_Interval DEF Slots
  <1>2. IsFiniteSet(Range(list))
    <2>1. IsFiniteSet(Bins)
      BY LengthIs, FS_Interval DEF Bins
    <2>2. Range(list) \in SUBSET Bins
      BY DEF Listing, Range
    <2> QED  BY <2>1, <2>2, FS_Subset
  <1>3. ASSUME NEW n \in DOMAIN list, NEW s \in Slots, NEW t \in Slots,
               Near(s, list[n]), Near(t, list[n])
        PROVE  s = t
    <2> PICK p : p = list[n]
      OBVIOUS
    <2> DEFINE near == {slot \in Slots : Near(slot, p)}
    <2>1. Cardinality(near) <= 1
      BY DEF Distinguishable, Range
    <2>2. IsFiniteSet(near) /\ s \in near /\ t \in near
      BY <1>1, <1>3, FS_Subset
    <2> HIDE DEF near
    <2> QED  BY <2>1, <2>2, AtMostOne
  <1>4. ASSUME NEW s \in Slots, NEW m \in DOMAIN list, NEW n \in DOMAIN list,
               Near(s, list[m]), Near(s, list[n])
        PROVE  m = n
    <2> DEFINE near == {p \in Range(list) : Near(s, p)}
    <2>1. Cardinality(near) <= 1
      BY DEF Distinguishable
    <2>2. list[m] \in near /\ list[n] \in near
      BY <1>4 DEF Range
    <2>3. IsFiniteSet(near)
      BY <1>2, FS_Subset
    <2> HIDE DEF near
    <2>4. list[m] = list[n]
      BY <2>1, <2>2, <2>3, AtMostOne
    <2> QED  BY <2>4 DEF Listing
  <1> QED  BY <1>3, <1>4

\* A slot keeps the station that it is near, and the others keep nothing.
LEMMA KeptIs ==
    ASSUME NEW list, Listing(list), Distinguishable(Range(list)), NEW slot \in Slots
    PROVE  /\ \A n \in DOMAIN list : Near(slot, list[n]) => Kept(list, slot) = list[n]
           /\ \/ Kept(list, slot) = 0 /\ \A n \in DOMAIN list : ~Near(slot, list[n])
              \/ \E n \in DOMAIN list : Near(slot, list[n]) /\ Kept(list, slot) = list[n]
           /\ \A n \in DOMAIN list : list[n] # 0
  <1> DEFINE near == {n \in DOMAIN list : Near(slot, list[n])}
  <1>1. DOMAIN list \subseteq Nat /\ \A n \in DOMAIN list : list[n] # 0
    BY DEF Listing, Bins
  <1>2. ASSUME NEW n \in DOMAIN list, Near(slot, list[n]) PROVE Kept(list, slot) = list[n]
    <2>1. near = {n}
      BY <1>2, Distinguished
    <2>2. Kept(list, slot) = IF near = {} THEN 0 ELSE list[Max(near)]
      BY DEF Kept
    <2> HIDE DEF near
    <2>3. near \in SUBSET Nat /\ n \in near /\ \A m \in near : m <= n
      BY <1>1, <2>1
    <2>4. Max(near) = n
      BY <2>3, MaxIs
    <2> QED  BY <2>2, <2>3, <2>4
  <1>3. ASSUME \A n \in DOMAIN list : ~Near(slot, list[n]) PROVE Kept(list, slot) = 0
    BY <1>3 DEF Kept
  <1> QED  BY <1>1, <1>2, <1>3

\* There is a free slot for every new station: the stations that are not new are
\* as many as the slots that keep one.
LEMMA EnoughSlots ==
    ASSUME NEW list, Listing(list), Distinguishable(Range(list)),
           NEW free, free = {slot \in Slots : Kept(list, slot) = 0}
    PROVE  /\ IsFiniteSet(free) /\ IsFiniteSet(NewStations(list))
           /\ Cardinality(NewStations(list)) <= Cardinality(free)
  <1> DEFINE new == NewStations(list)
             D == DOMAIN list
             taken == Slots \ free
             old == D \ new
             of == [slot \in taken |-> CHOOSE n \in D : Near(slot, list[n])]
  <1>1. IsFiniteSet(Slots) /\ Cardinality(Slots) = num_decoders /\ num_decoders \in Nat
    <2>1. num_decoders \in Nat /\ num_decoders > 0
      BY TunerAssumption
    <2>2. /\ IsFiniteSet(Slots)
          /\ Cardinality(Slots) = IF 0 > num_decoders - 1 THEN 0
                                  ELSE num_decoders - 1 - 0 + 1
      BY <2>1, FS_Interval DEF Slots
    <2> QED  BY <2>1, <2>2
  <1>2. IsFiniteSet(D) /\ Cardinality(D) <= num_decoders /\ Cardinality(D) \in Nat
    <2>1. PICK N \in 0 .. num_decoders : D = 1 .. N
      BY DEF Listing
    <2>2. N \in Int /\ N >= 0 /\ N <= num_decoders
      BY <1>1, <2>1
    <2>3. IsFiniteSet(1 .. N) /\ Cardinality(1 .. N) = IF 1 > N THEN 0 ELSE N - 1 + 1
      BY <2>2, FS_Interval
    <2> QED  BY <1>1, <2>1, <2>2, <2>3
  <1>3. new \in SUBSET D /\ free \in SUBSET Slots
    BY DEF NewStations
  <1>4. \A slot \in taken : \E n \in D : Near(slot, list[n])
    BY KeptIs
  <1>5. \A slot \in taken : of[slot] \in D /\ Near(slot, list[of[slot]])
    BY <1>4
  <1>6. \A slot \in taken : of[slot] \in old
    BY <1>3, <1>5 DEF NewStations
  <1>7. \A s, t \in taken : of[s] = of[t] => s = t
    BY <1>5, Distinguished
  <1>8. of \in Injection(taken, old)
    BY <1>6, <1>7 DEF Injection, IsInjective
  <1> HIDE DEF of, taken, old, new, D
  <1>9. IsFiniteSet(old) /\ Cardinality(old) = Cardinality(D) - Cardinality(D \cap new)
    BY <1>2, FS_Difference DEF old
  <1>10. Cardinality(taken) = Cardinality(Slots) - Cardinality(Slots \cap free)
    BY <1>1, FS_Difference DEF taken
  <1>11. D \cap new = new /\ Slots \cap free = free
    BY <1>3
  <1>12. Cardinality(taken) <= Cardinality(old)
    BY <1>8, <1>9, FS_Injection
  <1>13. IsFiniteSet(new) /\ IsFiniteSet(free)
    BY <1>1, <1>2, <1>3, FS_Subset
  <1>14. Cardinality(new) \in Nat /\ Cardinality(free) \in Nat
    BY <1>13, FS_CardinalityType
  <1>15. num_decoders - Cardinality(free) <= Cardinality(D) - Cardinality(new)
    BY <1>1, <1>9, <1>10, <1>11, <1>12
  <1>16. Cardinality(new) <= Cardinality(free)
    BY <1>1, <1>2, <1>14, <1>15
  <1> QED  BY <1>13, <1>16 DEF new

\* Every station that can be decoded is assigned to one slot, to the one that is
\* near it if there is one.
LEMMA AssignedOnce ==
    ASSUME NEW list, Listing(list), Distinguishable(Range(list)), NEW n \in DOMAIN list
    PROVE  /\ \E s \in Slots : \A t \in Slots : Assigned(list)[t] = list[n] <=> t = s
           /\ \A slot \in Slots : Near(slot, list[n]) => Assigned(list)[slot] = list[n]
  <1> DEFINE new == NewStations(list)
             free == {slot \in Slots : Kept(list, slot) = 0}
             After(m) == Cardinality({k \in new : k > m})
             Ahead(s) == Cardinality({t \in free : t < s})
             For(s) == {m \in new : After(m) = Ahead(s)}
             Stations == {p \in new \X new : p[1] > p[2]}
             Places == {p \in free \X free : p[1] < p[2]}
  <1>1. new \in SUBSET DOMAIN list /\ free \in SUBSET Slots
    BY DEF NewStations
  <1>2. new \in SUBSET Int /\ free \in SUBSET Int
    BY <1>1 DEF Listing, Slots
  <1>3. \A slot \in Slots :
            Assigned(list)[slot] = IF slot \in free /\ For(slot) # {}
                                   THEN list[CHOOSE m \in For(slot) : TRUE]
                                   ELSE Kept(list, slot)
    BY DEF Assigned
  <1>4. \A slot \in Slots : slot \in free <=> Kept(list, slot) = 0
    OBVIOUS
  <1>5. /\ IsFiniteSet(free) /\ IsFiniteSet(new)
        /\ Cardinality(new) <= Cardinality(free)
    BY EnoughSlots
  <1>6. Cardinality(free) \in Nat /\ Cardinality(new) \in Nat
    BY <1>5, FS_CardinalityType
  <1>7. \A m \in new : m \in DOMAIN list /\ \A slot \in Slots : ~Near(slot, list[m])
    BY DEF NewStations
  <1>8. \A m \in DOMAIN list :
            m \notin new => \E slot \in Slots : Near(slot, list[m])
    BY DEF NewStations
  <1> HIDE DEF new, free
  <1>9. \A m \in new : After(m) = Cardinality(Preceding(Stations, new, m))
    <2>1. \A m \in new : {k \in new : k > m} = Preceding(Stations, new, m)
      BY DEF Preceding
    <2> QED  BY <2>1
  <1>10. \A s \in free : Ahead(s) = Cardinality(Preceding(Places, free, s))
    <2>1. \A s \in free : {t \in free : t < s} = Preceding(Places, free, s)
      BY DEF Preceding
    <2> QED  BY <2>1
  <1>11. TotalOrder(Stations, new) /\ TotalOrder(Places, free)
    <2>1. TotalOrder(Stations, new)
      BY <1>2 DEF TotalOrder
    <2>2. TotalOrder(Places, free)
      BY <1>2 DEF TotalOrder
    <2> QED  BY <2>1, <2>2
  <1> HIDE DEF After, Ahead, Stations, Places
  <1>12. \A k, m \in new : After(k) = After(m) => k = m
    BY <1>5, <1>9, <1>11, Ranks
  <1>13. \A s, t \in free : Ahead(s) = Ahead(t) => s = t
    BY <1>5, <1>10, <1>11, Ranks
  <1>14. \A m \in new : \E s \in free : Ahead(s) = After(m)
    <2> TAKE m \in new
    <2>1. After(m) \in 0 .. Cardinality(new) - 1
      BY <1>5, <1>9, <1>11, Ranks
    <2>2. After(m) \in 0 .. Cardinality(free) - 1
      BY <1>5, <1>6, <2>1
    <2> QED  BY <1>5, <1>10, <1>11, <2>2, Ranks
  <1>15. \A s \in free : \A m \in new :
             After(m) = Ahead(s) => Assigned(list)[s] = list[m]
    <2> TAKE s \in free
    <2> TAKE m \in new
    <2> HAVE After(m) = Ahead(s)
    <2>1. For(s) = {m}
      BY <1>12
    <2> HIDE DEF For
    <2> QED  BY <1>1, <1>3, <2>1
  \* What a slot was assigned: a new station of its place, or what it kept.
  <1>16. ASSUME NEW t \in Slots, NEW m \in DOMAIN list, Assigned(list)[t] = list[m]
         PROVE  \/ t \in free /\ m \in new /\ After(m) = Ahead(t)
                \/ Near(t, list[m])
    <2>1. CASE \E k \in For(t) : t \in free
      <3>1. PICK k \in For(t) : t \in free
        BY <2>1
      <3>2. Assigned(list)[t] = list[k] /\ k \in new /\ After(k) = Ahead(t)
        BY <1>15, <3>1
      <3>3. k = m
        BY <1>7, <1>16, <3>2 DEF Listing
      <3> QED  BY <3>1, <3>2, <3>3
    <2>2. CASE ~ \E k \in For(t) : t \in free
      <3>1. Kept(list, t) = list[m]
        BY <1>3, <1>16, <2>2
      <3>2. list[m] # 0
        BY KeptIs
      <3>3. PICK k \in DOMAIN list : Near(t, list[k]) /\ Kept(list, t) = list[k]
        BY <3>1, <3>2, KeptIs
      <3>4. k = m
        BY <3>1, <3>3 DEF Listing
      <3> QED  BY <3>3, <3>4
    <2> QED  BY <2>1, <2>2
  <1>17. ASSUME NEW slot \in Slots, Near(slot, list[n])
         PROVE  Assigned(list)[slot] = list[n]
    <2>1. Kept(list, slot) = list[n] /\ list[n] # 0
      BY <1>17, KeptIs
    <2>2. slot \notin free
      BY <1>4, <2>1
    <2> QED  BY <1>3, <2>1, <2>2
  <1>18. CASE n \in new
    <2>1. PICK s \in free : Ahead(s) = After(n)
      BY <1>14, <1>18
    <2>2. Assigned(list)[s] = list[n] /\ s \in Slots
      BY <1>1, <1>15, <1>18, <2>1
    <2>3. ASSUME NEW t \in Slots, Assigned(list)[t] = list[n] PROVE t = s
      <3>1. t \in free /\ After(n) = Ahead(t)
        BY <1>7, <1>16, <1>18, <2>3
      <3> QED  BY <1>13, <2>1, <3>1
    <2> QED  BY <1>17, <2>2, <2>3
  <1>19. CASE n \notin new
    <2>1. PICK s \in Slots : Near(s, list[n])
      BY <1>8, <1>19
    <2>2. ASSUME NEW t \in Slots, Assigned(list)[t] = list[n] PROVE t = s
      <3>1. Near(t, list[n])
        BY <1>16, <1>19, <2>2
      <3> QED  BY <2>1, <3>1, Distinguished
    <2> QED  BY <1>17, <2>1, <2>2
  <1> QED  BY <1>18, <1>19

\* A slot that is near a listed station keeps one that it is near; if it is given
\* nothing, every new station is assigned to a slot before it.
LEMMA StaysOrHelpsIs ==
    ASSUME NEW list, Listing(list), NEW slot \in Slots
    PROVE  /\ (\E n \in DOMAIN list : Near(slot, list[n])) =>
                  \E n \in DOMAIN list : Near(slot, list[n])
                                            /\ Assigned(list)[slot] = list[n]
           /\ Assigned(list)[slot] = 0 =>
                  \A n \in NewStations(list) : \E s \in Slots :
                      Assigned(list)[s] = list[n]
  <1> DEFINE new == NewStations(list)
             free == {s \in Slots : Kept(list, s) = 0}
             near == {n \in DOMAIN list : Near(slot, list[n])}
             After(m) == Cardinality({k \in new : k > m})
             Ahead(s) == Cardinality({t \in free : t < s})
             For(s) == {m \in new : After(m) = Ahead(s)}
             Stations == {p \in new \X new : p[1] > p[2]}
             Places == {p \in free \X free : p[1] < p[2]}
  <1>1. new \in SUBSET DOMAIN list /\ free \in SUBSET Slots
    BY DEF NewStations
  <1>2. /\ DOMAIN list \in SUBSET Nat /\ IsFiniteSet(DOMAIN list)
        /\ \A n \in DOMAIN list : list[n] # 0
    <2>1. PICK N \in 0 .. num_decoders : list \in [1 .. N -> Bins]
      BY DEF Listing
    <2>2. num_decoders \in Nat /\ N \in Int
      BY <2>1, TunerAssumption
    <2>3. IsFiniteSet(1 .. N)
      BY <2>2, FS_Interval
    <2> QED  BY <2>1, <2>2, <2>3 DEF Bins
  <1>3. IsFiniteSet(Slots) /\ Slots \in SUBSET Int
    <2>1. num_decoders \in Nat
      BY TunerAssumption
    <2> QED  BY <2>1, FS_Interval DEF Slots
  <1>4. \A s \in Slots :
            Assigned(list)[s] = IF s \in free /\ For(s) # {}
                                THEN list[CHOOSE m \in For(s) : TRUE]
                                ELSE Kept(list, s)
    BY DEF Assigned
  <1>5. \A s \in Slots : s \in free <=> Kept(list, s) = 0
    OBVIOUS
  <1>6. IsFiniteSet(new) /\ IsFiniteSet(free)
    BY <1>1, <1>2, <1>3, FS_Subset
  <1>7. Kept(list, slot) = IF near = {} THEN 0 ELSE list[Max(near)]
    BY DEF Kept
  <1>8. near \in SUBSET DOMAIN list /\ \A n \in near : Near(slot, list[n])
    OBVIOUS
  <1>9. \A n \in DOMAIN list : Near(slot, list[n]) => n \in near
    OBVIOUS
  <1> HIDE DEF new, free, near
  <1>10. ASSUME near # {}
         PROVE  \E n \in DOMAIN list : Near(slot, list[n]) /\ Assigned(list)[slot] = list[n]
    <2>1. IsFiniteSet(near) /\ near \in SUBSET Nat
      BY <1>2, <1>8, FS_Subset
    <2>2. Max(near) \in near
      BY <1>10, <2>1, MaxOfFinite
    <2>3. Kept(list, slot) = list[Max(near)] /\ list[Max(near)] # 0
      BY <1>2, <1>7, <1>8, <1>10, <2>2
    <2>4. Assigned(list)[slot] = list[Max(near)]
      BY <1>4, <1>5, <2>3
    <2> QED  BY <1>8, <2>2, <2>4
  <1>11. ASSUME Assigned(list)[slot] = 0, NEW n \in new
         PROVE  \E s \in Slots : Assigned(list)[s] = list[n]
    <2>1. \A m \in new : After(m) = Cardinality(Preceding(Stations, new, m))
      <3>1. \A m \in new : {k \in new : k > m} = Preceding(Stations, new, m)
        BY DEF Preceding
      <3> QED  BY <3>1
    <2>2. \A s \in free : Ahead(s) = Cardinality(Preceding(Places, free, s))
      <3>1. \A s \in free : {t \in free : t < s} = Preceding(Places, free, s)
        BY DEF Preceding
      <3> QED  BY <3>1
    <2>3. TotalOrder(Stations, new) /\ TotalOrder(Places, free)
      <3>1. new \in SUBSET Int /\ free \in SUBSET Int
        BY <1>1, <1>2, <1>3
      <3>2. TotalOrder(Stations, new)
        BY <3>1 DEF TotalOrder
      <3>3. TotalOrder(Places, free)
        BY <3>1 DEF TotalOrder
      <3> QED  BY <3>2, <3>3
    <2> HIDE DEF After, Ahead, Stations, Places
    <2>4. Cardinality(free) \in Nat /\ Cardinality(new) \in Nat
      BY <1>6, FS_CardinalityType
    <2>5. slot \in free /\ For(slot) = {}
      <3>1. CASE slot \in free /\ For(slot) # {}
        <4>1. PICK m \in For(slot) : Assigned(list)[slot] = list[m]
          BY <1>4, <3>1
        <4>2. m \in DOMAIN list
          BY <1>1, <4>1
        <4> QED  BY <1>2, <1>11, <4>1, <4>2
      <3>2. CASE ~(slot \in free /\ For(slot) # {})
        <4>1. Kept(list, slot) = 0
          BY <1>4, <1>11, <3>2
        <4> QED  BY <1>5, <3>2, <4>1
      <3> QED  BY <3>1, <3>2
    <2>6. Ahead(slot) \in 0 .. Cardinality(free) - 1
      BY <1>6, <2>2, <2>3, <2>5, Ranks
    <2>7. Ahead(slot) \notin 0 .. Cardinality(new) - 1
      <3>1. ASSUME Ahead(slot) \in 0 .. Cardinality(new) - 1 PROVE FALSE
        <4>1. PICK m \in new : After(m) = Ahead(slot)
          BY <1>6, <2>1, <2>3, <3>1, Ranks
        <4> QED  BY <2>5, <4>1
      <3> QED  BY <3>1
    <2>8. After(n) \in 0 .. Cardinality(new) - 1
      BY <1>6, <1>11, <2>1, <2>3, Ranks
    <2>9. After(n) \in 0 .. Cardinality(free) - 1
      BY <2>4, <2>6, <2>7, <2>8
    <2>10. PICK s \in free : Ahead(s) = After(n)
      BY <1>6, <2>2, <2>3, <2>9, Ranks
    <2>11. s \in Slots /\ For(s) # {}
      BY <1>1, <1>11, <2>10
    <2>12. Assigned(list)[s] = list[CHOOSE m \in For(s) : TRUE]
      BY <1>4, <2>10, <2>11
    <2>13. (CHOOSE m \in For(s) : TRUE) = n
      <3>1. \A k, m \in new : After(k) = After(m) => k = m
        BY <1>6, <2>1, <2>3, Ranks
      <3>2. For(s) = {n}
        BY <1>11, <2>10, <3>1
      <3> HIDE DEF For
      <3> QED  BY <3>2
    <2> QED  BY <2>11, <2>12, <2>13
  <1> QED  BY <1>9, <1>10, <1>11 DEF new

-----------------------------------------------------------------------------
(* A call of work().                                                        *)

\* The spectrum of a band consists of numbers.
LEMMA NumbersAre ==
    ASSUME NEW strength \in Airs, NEW c
    PROVE  Numbers(Spectrum(strength, c)) \in [Indices -> Int]
  <1>1. strength \in [Transmitters -> Nat] /\ IsFiniteSet(Transmitters)
    BY BandAssumption
  <1> DEFINE at(b) == {g \in Transmitters : b \in Fills(g, c)}
             heard(b) == {0} \cup {strength[f] : f \in at(b)}
  <1>2. ASSUME NEW b PROVE Max(heard(b)) \in Int
    <2> DEFINE seen == {strength[f] : f \in at(b)}
    <2>1. IsFiniteSet(at(b))
      BY <1>1, FS_Subset
    <2>2. at(b) \in SUBSET Transmitters
      OBVIOUS
    <2>3. IsFiniteSet(seen)
      <3> DEFINE strengths == [f \in at(b) |-> strength[f]]
      <3>1. strengths \in Surjection(at(b), seen)
        BY DEF Surjection, seen
      <3> QED  BY <2>1, <3>1, FS_Surjection
    <2>4. seen \in SUBSET Nat
      BY <1>1, <2>2
    <2> HIDE DEF seen, at
    <2>5. IsFiniteSet({0} \cup seen) /\ {0} \cup seen \in SUBSET Nat
      <3>1. IsFiniteSet({0})
        BY FS_Singleton
      <3>2. IsFiniteSet({0} \cup seen)
        BY <2>3, <3>1, FS_Union
      <3> QED  BY <2>4, <3>2
    <2>6. Max({0} \cup seen) \in {0} \cup seen
      BY <2>5, MaxOfFinite
    <2> QED  BY <2>4, <2>6 DEF seen, heard
  <1> HIDE DEF heard
  <1>3. \A b \in 0 .. (fft_len - 1) : Spectrum(strength, c)[b] \in Int
    <2>1. \A b \in 0 .. (fft_len - 1) : Spectrum(strength, c)[b] = Max(heard(b))
      BY DEF Spectrum, heard
    <2> QED  BY <1>2, <2>1
  <1>4. \A i \in Indices : BinOf(i) \in 0 .. (fft_len - 1)
    BY TunerAssumption DEF Indices, Length, BinOf, carrier
  <1> QED  BY <1>3, <1>4 DEF Numbers

\* In every call of work(), whatever the spectrum: a decoder that is near one of the
\* strongest stations stays near where it is and receives one of them, and no decoder
\* is left without a station while a new one is not received.  And if no station is
\* near the old indices of two decoders and no decoder near two stations, each of
\* the strongest stations is received by exactly one decoder, by the one that is
\* there already if there is one; with new stations assigned from the weakest one on.
THEOREM StrongestReceived == BandSpec => DecodableReceived
  <1>1. ASSUME [BandNext]_bandVars
        PROVE  [Assigns => StaysOrHelps /\ ReceivedOnce]_bandVars
    <2> SUFFICES ASSUME BandNext, Assigns PROVE StaysOrHelps /\ ReceivedOnce
      BY <1>1
    <2>1. Tune
      <3>1. ~working /\ working'
        BY DEF Assigns
      <3>2. ~Proceed
        BY <3>1 DEF Proceed, IndexToFreq, Publish
      <3>3. ~UserChooses
        BY <3>1 DEF UserChooses, tunerVars
      <3>4. ~BlockFollows
        BY <3>1 DEF BlockFollows, set_center_freq
      <3>5. ~SpectrumFollows
        BY <3>1 DEF SpectrumFollows, tunerVars
      <3> QED  BY <3>2, <3>3, <3>4, <3>5 DEF BandNext
    <2>2. PICK strength \in Airs, c \in Centers :
              /\ Assign(Strongest(Numbers(Spectrum(strength, c))))
              /\ decodable' = Range(Strongest(Numbers(Spectrum(strength, c))))
      BY <2>1 DEF Tune, Heard
    <2> DEFINE list == Strongest(Numbers(Spectrum(strength, c)))
    <2>3. Listing(list)
      <3>1. Numbers(Spectrum(strength, c)) \in [Indices -> Int]
        BY NumbersAre
      <3> QED  BY <3>1, StrongestListed
    <2>4. last_station_indices' = Assigned(list) /\ decodable' = Range(list)
      BY <2>2 DEF Assign
    <2> HIDE DEF list
    <2>5. StaysOrHelps
      <3> SUFFICES ASSUME NEW slot \in Slots
                   PROVE  /\ (\E p \in Range(list) : Near(slot, p)) =>
                                 \E p \in Range(list) :
                                     Near(slot, p) /\ Assigned(list)[slot] = p
                          /\ Assigned(list)[slot] = 0 =>
                                 \A p \in Range(list) : \E s \in Slots :
                                     Near(s, p) \/ Assigned(list)[s] = p
        BY <2>4 DEF StaysOrHelps
      <3>1. \A p : p \in Range(list) <=> \E n \in DOMAIN list : p = list[n]
        BY DEF Range
      <3>2. ASSUME NEW p \in Range(list), Near(slot, p)
            PROVE  \E q \in Range(list) : Near(slot, q) /\ Assigned(list)[slot] = q
        BY <2>3, <3>1, <3>2, StaysOrHelpsIs
      <3>3. ASSUME Assigned(list)[slot] = 0, NEW p \in Range(list),
                   \A s \in Slots : ~Near(s, p)
            PROVE  \E s \in Slots : Assigned(list)[s] = p
        <4>1. PICK n \in DOMAIN list : p = list[n]
          BY <3>1
        <4>2. n \in NewStations(list)
          BY <3>3, <4>1 DEF NewStations
        <4> QED  BY <2>3, <3>3, <4>1, <4>2, StaysOrHelpsIs
      <3> QED  BY <3>2, <3>3
    <2>6. ReceivedOnce
      <3> SUFFICES ASSUME Distinguishable(Range(list)), NEW p \in Range(list)
                   PROVE  /\ Cardinality({slot \in Slots :
                                              last_station_indices'[slot] = p}) = 1
                          /\ \A slot \in Slots :
                                 Near(slot, p) => last_station_indices'[slot] = p
        BY <2>4 DEF ReceivedOnce
      <3>1. PICK n \in DOMAIN list : p = list[n]
        BY DEF Range
      <3>2. PICK s \in Slots : \A t \in Slots : Assigned(list)[t] = list[n] <=> t = s
        BY <2>3, AssignedOnce
      <3>3. {slot \in Slots : last_station_indices'[slot] = p} = {s}
        BY <2>4, <3>1, <3>2
      <3>4. \A slot \in Slots : Near(slot, p) => last_station_indices'[slot] = p
        BY <2>3, <2>4, <3>1, AssignedOnce
      <3> QED  BY <3>3, <3>4, FS_Singleton
    <2> QED  BY <2>5, <2>6
  <1> QED  BY <1>1, PTL DEF BandSpec, DecodableReceived
=============================================================================

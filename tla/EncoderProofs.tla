---------------------------- MODULE EncoderProofs ----------------------------
(***************************************************************************)
(* Proofs about RdsEncoder, for any numbers of segments, group types and    *)
(* texts, and every interleaving of the two threads.                        *)
(*                                                                         *)
(* The buffers are allocated from one listing of the groups and filled from *)
(* another one.  That the two agree (ListingsAgree) is shown by induction   *)
(* over the kinds of groups.                                                *)
(***************************************************************************)
EXTENDS RdsEncoder, NumberTheorems

KindSet == Range(Kinds)
TextSet == Texts \cup {Blank}

\* What a thread may be doing.
Writing(c) ==
    /\ c \in [does : {"write"}, what : {"PS", "RT"}, text : Texts, next : Nat,
              blank : BOOLEAN, rebuilds : 1 .. 2]
    /\ c.next < Segments(c.what)
Asking(c) == \E r \in 1 .. 2 : c = Rebuild(r)
Building(c) ==
    \E r \in 1 .. 2 : c = Build(SubSeq(Cycle, d_current_buffer + 1, Len(Cycle)), r)

ParametersOK ==
    /\ PS \in [0 .. PSSegments - 1 -> TextSet]
    /\ radiotext \in [0 .. RTSegments - 1 -> TextSet]
    /\ settings \in Settings
    /\ d_buffer_bit_counter \in 0 .. 3
    /\ d_g0_counter \in 0 .. PSSegments - 1
    /\ d_g2_counter \in 0 .. RTSegments - 1
    /\ count3a \in 0 .. 1

\* Who holds the mutex is the one that builds, and has the rest of the cycle left.
ThreadsOK ==
    /\ d_mutex \in Threads \cup {"free"}
    /\ \A th \in Threads :
           IF d_mutex = th THEN Building(call[th])
           ELSE call[th] = Idle \/ Writing(call[th]) \/ Asking(call[th])
    /\ DOMAIN call = Threads

\* The buffers before the current one are prepared, and all of them when the
\* mutex is free.
BuffersOK ==
    /\ nbuffers = Len(Cycle) /\ nbuffers > 0
    /\ DOMAIN buffer = 0 .. nbuffers - 1
    /\ d_current_buffer \in 0 .. nbuffers
    /\ d_mutex = "free" => d_current_buffer < nbuffers
    /\ \A n \in DOMAIN buffer :
           \/ buffer[n] \in Contents /\ buffer[n].kind = Cycle[n + 1]
           \/ buffer[n] = Empty /\ d_mutex # "free" /\ n >= d_current_buffer

\* A buffer that is not up to date will be prepared again.
Fresh(b) == /\ b.set = settings
            /\ b.kind = "0A" => b.text = PS[b.adr]
            /\ b.kind = "2A" => b.text = radiotext[b.adr]
Renewed(n) == \/ d_mutex # "free" /\ n >= d_current_buffer
              \/ \E th \in Threads : call[th].does \in {"write", "rebuild"}
              \/ Fresh(buffer[n])

EncoderInv ==
    /\ ParametersOK /\ ThreadsOK /\ BuffersOK
    /\ \A n \in DOMAIN buffer : Renewed(n)
    /\ sent.of # Empty

-----------------------------------------------------------------------------
(* The two listings of the groups.                                           *)

LEMMA KindsAre ==
    /\ KindSet \subseteq {"0A", "1A", "2A", "3A", "4A", "8A", "11A"}
    /\ Len(Kinds) \in Nat \ {0} /\ \A k \in 1 .. Len(Kinds) : Kinds[k] \in KindSet
    /\ \A k, l \in 1 .. Len(Kinds) : Kinds[k] = Kinds[l] => k = l
    /\ \A kind \in KindSet : CreateCalls(kind) \in Nat \ {0}
                             /\ Counted(kind) = CreateCalls(kind)
  <1>1. KindSet \subseteq {"0A", "1A", "2A", "3A", "4A", "8A", "11A"}
    BY EncoderAssumption DEF KindSet, Range
  <1>2. Len(Kinds) \in Nat \ {0} /\ \A k \in 1 .. Len(Kinds) : Kinds[k] \in KindSet
    BY EncoderAssumption DEF KindSet, Range
  <1>3. \A k, l \in 1 .. Len(Kinds) : Kinds[k] = Kinds[l] => k = l
    BY EncoderAssumption DEF IsInjective
  <1>4. \A kind \in KindSet : CreateCalls(kind) \in Nat \ {0}
                              /\ Counted(kind) = CreateCalls(kind)
    BY <1>1, EncoderAssumption DEF CreateCalls, Counted
  <1> QED  BY <1>1, <1>2, <1>3, <1>4

\* The groups of the k-th kind.
Run(k) == [n \in 1 .. CreateCalls(Kinds[k]) |-> Kinds[k]]

LEMMA CreatedIs ==
    \A k \in 0 .. Len(Kinds) :
        created[k] = IF k = 0 THEN <<>> ELSE created[k - 1] \o Run(k)
  <1> DEFINE N == Len(Kinds)
             V == Seq(KindSet)
             step == [k \in 1 .. N |-> [list \in V |-> list \o Run(k)]]
  <1>1. N \in Nat
    BY KindsAre
  <1>7. ASSUME NEW k \in 1 .. N PROVE Run(k) \in V
    <2>1. Kinds[k] \in KindSet
      BY KindsAre
    <2>2. CreateCalls(Kinds[k]) \in Nat
      BY <2>1, KindsAre
    <2> QED  BY <2>1, <2>2 DEF Run
  <1>2. <<>> \in V /\ step \in [1 .. N -> [V -> V]]
    BY <1>1, <1>7
  <1>8. \A k \in 1 .. N, list \in V : step[k][list] = list \o Run(k)
    OBVIOUS
  <1> HIDE DEF step, V, N
  <1>3. PICK f \in [0 .. N -> V] :
            \A k \in 0 .. N : f[k] = IF k = 0 THEN <<>> ELSE step[k][f[k - 1]]
    <2>1. Recurses(V, <<>>, N, step)
      BY <1>1, <1>2, RecursionExists
    <2> QED  BY <2>1 DEF Recurses
  <1>4. ASSUME NEW k \in 0 .. N
        PROVE  f[k] = IF k = 0 THEN <<>> ELSE f[k - 1] \o Run(k)
    <2>1. CASE k # 0
      <3>1. k \in 1 .. N /\ f[k - 1] \in V
        BY <1>1, <2>1
      <3>2. step[k][f[k - 1]] = f[k - 1] \o Run(k)
        BY <1>8, <3>1
      <3> QED  BY <1>3, <2>1, <3>2
    <2> QED  BY <1>3, <2>1
  <1>5. f = [k \in 0 .. N |-> IF k = 0 THEN <<>> ELSE f[k - 1] \o Run(k)]
    BY <1>4
  <1>6. created = [k \in 0 .. N |-> IF k = 0 THEN <<>> ELSE created[k - 1] \o Run(k)]
    BY <1>5, Zenon DEF created, Run, N
  <1> QED  BY <1>6 DEF N

LEMMA CountedIs ==
    \A k \in 0 .. Len(Kinds) :
        counted[k] = IF k = 0 THEN 0 ELSE counted[k - 1] + Counted(Kinds[k])
  <1> DEFINE N == Len(Kinds)
             V == Nat
             zero == 0
             step == [k \in 1 .. N |-> [n \in V |-> n + Counted(Kinds[k])]]
  <1>1. N \in Nat /\ \A k \in 1 .. N : Counted(Kinds[k]) \in Nat
    BY KindsAre
  <1>2. zero \in V /\ step \in [1 .. N -> [V -> V]]
    BY <1>1
  <1>8. \A k \in 1 .. N, n \in V : step[k][n] = n + Counted(Kinds[k])
    OBVIOUS
  <1> HIDE DEF step, V, N, zero
  <1>3. PICK f \in [0 .. N -> V] :
            \A k \in 0 .. N : f[k] = IF k = 0 THEN zero ELSE step[k][f[k - 1]]
    <2>1. N \in Nat
      BY <1>1
    <2>2. Recurses(V, zero, N, step)
      BY <1>2, <2>1, RecursionExists
    <2> QED  BY <2>2 DEF Recurses
  <1>4. ASSUME NEW k \in 0 .. N
        PROVE  f[k] = IF k = 0 THEN zero ELSE f[k - 1] + Counted(Kinds[k])
    <2>1. CASE k # 0
      <3>1. k \in 1 .. N /\ f[k - 1] \in V
        BY <1>1, <2>1
      <3>2. step[k][f[k - 1]] = f[k - 1] + Counted(Kinds[k])
        BY <1>8, <3>1
      <3> QED  BY <1>3, <2>1, <3>2
    <2> QED  BY <1>3, <2>1
  <1>5. f = [k \in 0 .. N |-> IF k = 0 THEN zero ELSE f[k - 1] + Counted(Kinds[k])]
    BY <1>4
  <1>6. counted = [k \in 0 .. N |->
                       IF k = 0 THEN 0 ELSE counted[k - 1] + Counted(Kinds[k])]
    BY <1>5, Zenon DEF counted, N, zero
  <1> QED  BY <1>6 DEF N

\* The groups before group n of a listing that are of its kind.
Earlier(list, n) == {i \in 1 .. n - 1 : list[i] = list[n]}

\* A listing of the groups of the first k kinds.
Lists(list, k) ==
    /\ list \in Seq(KindSet)
    /\ Len(list) = counted[k]
    /\ k > 0 => Len(list) > 0
    /\ \A n \in 1 .. Len(list) :
           /\ \E l \in 1 .. k : list[n] = Kinds[l]
           /\ Cardinality(Earlier(list, n)) \in 0 .. CreateCalls(list[n]) - 1

LEMMA Joined ==
    ASSUME NEW S, NEW s \in Seq(S), NEW t \in Seq(S)
    PROVE  /\ s \o t \in Seq(S) /\ Len(s \o t) = Len(s) + Len(t)
           /\ \A n \in 1 .. Len(s) : (s \o t)[n] = s[n]
           /\ \A n \in 1 .. Len(t) : (s \o t)[Len(s) + n] = t[n]
  OBVIOUS

LEMMA ListedOneMore ==
    ASSUME NEW k \in 1 .. Len(Kinds), NEW old, Lists(old, k - 1),
           NEW list, list = old \o Run(k)
    PROVE  Lists(list, k)
  <1> DEFINE kind == Kinds[k]
             c == CreateCalls(kind)
             len == Len(old)
  <1>1. /\ k \in Nat /\ k >= 1 /\ k - 1 \in 0 .. Len(Kinds) /\ Len(Kinds) \in Nat
        /\ kind \in KindSet /\ c \in Nat /\ c > 0 /\ Counted(kind) = c
    <2>1. Len(Kinds) \in Nat /\ Len(Kinds) > 0
      BY KindsAre
    <2>2. k \in Nat /\ k >= 1 /\ k - 1 \in 0 .. Len(Kinds) /\ k \in 1 .. Len(Kinds)
      BY <2>1
    <2>3. kind \in KindSet
      BY <2>2, KindsAre
    <2> HIDE DEF kind
    <2>4. c \in Nat \ {0} /\ Counted(kind) = c
      BY <2>3, KindsAre
    <2> QED  BY <2>1, <2>2, <2>3, <2>4
  <1>2. old \in Seq(KindSet) /\ len \in Nat /\ len = counted[k - 1]
    BY DEF Lists
  <1>3. Run(k) \in Seq(KindSet) /\ Len(Run(k)) = c /\ \A n \in 1 .. c : Run(k)[n] = kind
    <2> HIDE DEF kind, c
    <2>1. Run(k) = [n \in 1 .. c |-> kind]
      BY DEF Run, kind, c
    <2> QED  BY <1>1, <2>1
  <1> HIDE DEF kind, c, len
  <1>4. /\ list \in Seq(KindSet) /\ Len(list) = len + c
        /\ \A n \in 1 .. len : list[n] = old[n]
        /\ \A n \in len + 1 .. len + c : list[n] = kind
    <2>1. /\ list \in Seq(KindSet) /\ Len(list) = len + Len(Run(k))
          /\ \A n \in 1 .. len : list[n] = old[n]
          /\ \A n \in 1 .. Len(Run(k)) : list[len + n] = Run(k)[n]
      <3>1. old \in Seq(KindSet) /\ Run(k) \in Seq(KindSet) /\ len = Len(old)
        BY <1>2, <1>3 DEF len
      <3> QED  BY <3>1, Joined
    <2>2. ASSUME NEW n \in len + 1 .. len + c PROVE list[n] = kind
      <3>1. n - len \in 1 .. c /\ len + (n - len) = n
        BY <1>1, <1>2
      <3> QED  BY <1>3, <2>1, <3>1
    <2> QED  BY <1>3, <2>1, <2>2
  <1>5. Len(list) = counted[k]
    BY <1>1, <1>2, <1>4, CountedIs DEF kind
  <1>6. ASSUME NEW n \in 1 .. Len(list)
        PROVE  /\ \E l \in 1 .. k : list[n] = Kinds[l]
               /\ Cardinality(Earlier(list, n)) \in 0 .. CreateCalls(list[n]) - 1
    <2>1. CASE n \in 1 .. len
      <3>0. \A i \in 1 .. n - 1 : i \in 1 .. len
        BY <1>2, <2>1
      <3>1. list[n] = old[n] /\ Earlier(list, n) = Earlier(old, n)
        BY <1>4, <2>1, <3>0 DEF Earlier
      <3>2. /\ \E l \in 1 .. k - 1 : old[n] = Kinds[l]
            /\ Cardinality(Earlier(old, n)) \in 0 .. CreateCalls(old[n]) - 1
        BY <2>1 DEF Lists, len
      <3> QED  BY <1>1, <3>1, <3>2
    <2>2. CASE n \in len + 1 .. len + c
      <3>1. list[n] = kind
        BY <1>4, <2>2
      <3>2. \A i \in 1 .. len : list[i] # kind
        <4> SUFFICES ASSUME NEW i \in 1 .. len PROVE list[i] # kind
          OBVIOUS
        <4>1. PICK l \in 1 .. k - 1 : old[i] = Kinds[l]
          BY DEF Lists, len
        <4>2. l \in 1 .. Len(Kinds) /\ l # k /\ k \in 1 .. Len(Kinds)
          BY <1>1
        <4>3. Kinds[l] # Kinds[k]
          BY <4>2, KindsAre
        <4> QED  BY <1>4, <4>1, <4>3 DEF kind
      <3>3. Earlier(list, n) = len + 1 .. n - 1
        <4>0. len \in Nat /\ c \in Nat /\ n \in len + 1 .. len + c
          BY <1>1, <1>2, <2>2
        <4>1. 1 .. n - 1 = (1 .. len) \cup (len + 1 .. n - 1)
          BY ONLY <4>0
        <4>2. \A i \in len + 1 .. n - 1 : i \in len + 1 .. len + c
          BY ONLY <4>0
        <4>3. \A i \in len + 1 .. n - 1 : list[i] = kind
          BY <1>4, <4>2
        <4> QED  BY <3>1, <3>2, <4>1, <4>3 DEF Earlier
      <3>4. Cardinality(len + 1 .. n - 1) = n - 1 - len
        <4>1. len \in Nat /\ n \in Int /\ len + 1 <= n
          BY <1>1, <1>2, <2>2
        <4>2. len + 1 \in Int /\ n - 1 \in Int
          BY <4>1
        <4>3. Cardinality(len + 1 .. n - 1) =
                  IF len + 1 > n - 1 THEN 0 ELSE n - 1 - (len + 1) + 1
          BY <4>2, FS_Interval
        <4>4. (IF len + 1 > n - 1 THEN 0 ELSE n - 1 - (len + 1) + 1)
                  = n - 1 - len
          BY ONLY <4>1
        <4> QED  BY <4>3, <4>4
      <3>5. n - 1 - len \in 0 .. c - 1
        <4>1. len \in Nat /\ c \in Nat /\ n \in len + 1 .. len + c
          BY <1>1, <1>2, <2>2
        <4> QED  BY ONLY <4>1
      <3>6. CreateCalls(list[n]) = c /\ list[n] = Kinds[k] /\ k \in 1 .. k
        BY <1>1, <3>1 DEF kind, c
      <3> QED  BY <3>3, <3>4, <3>5, <3>6
    <2>3. n \in 1 .. len \/ n \in len + 1 .. len + c
      BY <1>1, <1>2, <1>4
    <2> QED  BY <2>1, <2>2, <2>3
  <1>7. Len(list) > 0
    BY <1>1, <1>2, <1>4
  <1> QED  BY <1>4, <1>5, <1>6, <1>7 DEF Lists

LEMMA CreatedLists == \A k \in 0 .. Len(Kinds) : Lists(created[k], k)
  <1> DEFINE N == Len(Kinds)
             Good == {k \in 0 .. N : Lists(created[k], k)}
  <1>1. N \in Nat
    BY KindsAre
  <1>2. 0 \in Good
    <2>1. created[0] = <<>> /\ counted[0] = 0
      BY <1>1, CreatedIs, CountedIs
    <2>2. Lists(<<>>, 0)
      <3>1. <<>> \in Seq(KindSet) /\ Len(<<>>) = 0 /\ ~(0 > 0)
            /\ \A n \in 1 .. 0 : FALSE
        OBVIOUS
      <3> QED  BY <2>1, <3>1 DEF Lists
    <2>3. 0 \in 0 .. N
      BY <1>1
    <2> QED  BY <2>1, <2>2, <2>3
  <1>3. ASSUME NEW k \in 1 .. N, k - 1 \in Good PROVE k \in Good
    <2>1. Lists(created[k - 1], k - 1) /\ k \in 0 .. N /\ k # 0
      BY <1>1, <1>3
    <2>2. created[k] = created[k - 1] \o Run(k)
      BY <2>1, CreatedIs
    <2> QED  BY <2>1, <2>2, ListedOneMore
  <1> HIDE DEF Good
  <1>4. 0 .. N \subseteq Good
    BY <1>1, <1>2, <1>3, UpTo
  <1> QED  BY <1>4 DEF Good

\* The buffers are allocated from one listing of the groups and filled from the
\* other one (count_groups and rebuild): the two agree, whatever group types are
\* set, and each kind is created as often as its segments are counted.
LEMMA CycleIs ==
    /\ KindSet \subseteq {"0A", "1A", "2A", "3A", "4A", "8A", "11A"}
    /\ Cycle \in Seq(KindSet) /\ Len(Cycle) \in Nat /\ Len(Cycle) > 0
    /\ DOMAIN Cycle = 1 .. Len(Cycle)
    /\ \A n \in 0 .. Len(Cycle) - 1 : Cycle[n + 1] \in KindSet
    /\ \A n \in DOMAIN Cycle : Before(n) \in 0 .. CreateCalls(Cycle[n]) - 1
  <1>1. Len(Kinds) \in Nat \ {0}
    BY KindsAre
  <1>2. Lists(Cycle, Len(Kinds))
    BY <1>1, CreatedLists DEF Cycle
  <1>3. Cycle \in Seq(KindSet) /\ Len(Cycle) \in Nat /\ Len(Cycle) > 0
        /\ DOMAIN Cycle = 1 .. Len(Cycle)
    BY <1>1, <1>2 DEF Lists
  <1>4. \A n \in DOMAIN Cycle : Before(n) \in 0 .. CreateCalls(Cycle[n]) - 1
    BY <1>2, <1>3 DEF Lists, Earlier, Before
  <1> QED  BY <1>3, <1>4, KindsAre

\* count_groups(), whose result is the number of buffers, and rebuild(), which
\* creates the groups, list them twice; the two listings have the same length, so
\* that no buffer is missing and none is left without a group.
THEOREM ListingsAgree == count_groups = Len(Cycle)
  <1>1. Lists(Cycle, Len(Kinds))
    BY CreatedLists, KindsAre DEF Cycle
  <1> QED  BY <1>1 DEF Lists, count_groups

LEMMA SegmentsAre ==
    /\ PSSegments \in Nat /\ PSSegments > 0 /\ RTSegments \in Nat /\ RTSegments > 0
    /\ \A what \in {"PS", "RT"} : Segments(what) \in Nat /\ Segments(what) > 0
    /\ \A what \in {"PS", "RT"}, text \in Texts :
           Filled(what, text) \in 1 .. Segments(what)
  BY EncoderAssumption DEF Segments, Filled

\* What is prepared from the parameters is a content, and up to date.
LEMMA ContentIs ==
    ASSUME NEW kind \in KindSet, ParametersOK,
           NEW a0 \in 0 .. PSSegments - 1, NEW a2 \in 0 .. RTSegments - 1,
           NEW c \in 0 .. 1
    PROVE  LET b == Content(kind, PS, radiotext, settings, a0, a2, c)
           IN  b \in Contents /\ b.kind = kind /\ Fresh(b)
  <1>1. /\ settings \in Settings /\ PS[a0] \in TextSet /\ radiotext[a2] \in TextSet
        /\ kind \in Range(Kinds)
    BY DEF ParametersOK, KindSet
  <1>2. CASE kind = "0A"
    BY <1>1, <1>2 DEF Content, Contents, TextSet, Fresh
  <1>3. CASE kind = "2A"
    BY <1>1, <1>3 DEF Content, Contents, TextSet, Fresh
  <1>4. CASE kind = "3A"
    BY <1>1, <1>4 DEF Content, Contents, TextSet, Fresh
  <1>5. CASE kind \notin {"0A", "2A", "3A"}
    BY <1>1, <1>5 DEF Content, Contents, TextSet, Fresh
  <1> QED  BY <1>2, <1>3, <1>4, <1>5

LEMMA ContentsPrepared ==
    \A b \in Contents : b # Empty /\ b.kind \in KindSet
  BY CycleIs DEF Contents, Empty, KindSet

LEMMA EncoderInitially ==
    ASSUME EncoderInit
    PROVE  EncoderInv
  <1> DEFINE len == Len(Cycle)
  <1>0. len \in Nat /\ len > 0
    BY CycleIs
  <1>1. ParametersOK
    BY SegmentsAre, EncoderAssumption DEF EncoderInit, ParametersOK, TextSet
  <1>2. ThreadsOK
    BY DEF EncoderInit, ThreadsOK, Threads
  <1>3. /\ nbuffers = len /\ d_current_buffer = 0 /\ d_mutex = "free"
        /\ buffer = [n \in 0 .. nbuffers - 1 |->
                         Content(Cycle[n + 1], PS, radiotext, settings, Before(n + 1),
                                 Before(n + 1), Before(n + 1))]
    BY ListingsAgree DEF EncoderInit
  <1>4. ASSUME NEW n \in DOMAIN buffer
        PROVE  /\ buffer[n] \in Contents /\ buffer[n].kind = Cycle[n + 1]
               /\ Fresh(buffer[n])
    <2>k. PICK kind : kind = Cycle[n + 1]
      OBVIOUS
    <2>b. PICK k : k = Before(n + 1)
      OBVIOUS
    <2>1. n \in 0 .. len - 1 /\ n + 1 \in DOMAIN Cycle /\ kind \in KindSet
      BY <1>0, <1>3, <1>4, <2>k, CycleIs
    <2>2. k \in 0 .. CreateCalls(kind) - 1
      BY <2>1, <2>k, <2>b, CycleIs
    <2>3. buffer[n] = Content(kind, PS, radiotext, settings, k, k, k)
      BY <1>3, <1>4, <2>k, <2>b
    <2>4. 0 \in 0 .. PSSegments - 1 /\ 0 \in 0 .. RTSegments - 1
      BY SegmentsAre
    <2>5. CASE kind = "0A"
      <3>1. /\ k \in 0 .. PSSegments - 1
            /\ buffer[n] = Content(kind, PS, radiotext, settings, k, 0, 0)
        BY <2>2, <2>3, <2>5 DEF CreateCalls, Content
      <3> QED  BY <1>1, <2>1, <2>4, <2>k, <3>1, ContentIs
    <2>6. CASE kind = "2A"
      <3>1. /\ k \in 0 .. RTSegments - 1
            /\ buffer[n] = Content(kind, PS, radiotext, settings, 0, k, 0)
        BY <2>2, <2>3, <2>6 DEF CreateCalls, Content
      <3> QED  BY <1>1, <2>1, <2>4, <2>k, <3>1, ContentIs
    <2>7. CASE kind \notin {"0A", "2A"}
      <3>1. /\ k \in 0 .. 1
            /\ buffer[n] = Content(kind, PS, radiotext, settings, 0, 0, k)
        BY <2>2, <2>3, <2>7 DEF CreateCalls, Content
      <3> QED  BY <1>1, <2>1, <2>4, <2>k, <3>1, ContentIs
    <2> QED  BY <2>5, <2>6, <2>7
  <1>5. BuffersOK
    BY <1>0, <1>3, <1>4 DEF BuffersOK
  <1>6. sent.of # Empty
    BY DEF EncoderInit, Nothing, Empty
  <1> QED  BY <1>1, <1>2, <1>4, <1>5, <1>6 DEF EncoderInv, Renewed

-----------------------------------------------------------------------------
(* The steps of the commands.                                               *)

LEMMA ThreadIs ==
    ASSUME ThreadsOK, NEW th \in Threads
    PROVE  /\ (call[th].does = "build") <=> d_mutex = th
           /\ call[th].does = "build" => Building(call[th])
           /\ call[th].does = "write" => Writing(call[th])
           /\ call[th].does = "rebuild" => Asking(call[th])
           /\ d_mutex # th =>
                  (call[th].does \in {"write", "rebuild"} <=> call[th] # Idle)
           /\ th # "free"
  <1>1. ASSUME NEW c, Building(c) PROVE c.does = "build"
    BY <1>1 DEF Building, Build
  <1>2. ASSUME NEW c, Writing(c) PROVE c.does = "write"
    BY <1>2 DEF Writing
  <1>3. ASSUME NEW c, Asking(c) PROVE c.does = "rebuild"
    BY <1>3 DEF Asking, Rebuild
  <1>4. Idle.does = "nothing"
    BY DEF Idle
  <1>5. CASE d_mutex = th
    <2>1. Building(call[th])
      BY <1>5 DEF ThreadsOK
    <2> QED  BY <1>1, <1>4, <1>5, <2>1 DEF Threads
  <1>6. CASE d_mutex # th
    <2>1. call[th] = Idle \/ Writing(call[th]) \/ Asking(call[th])
      BY <1>6 DEF ThreadsOK
    <2> QED  BY <1>2, <1>3, <1>4, <1>6, <2>1 DEF Threads
  <1> QED  BY <1>5, <1>6

LEMMA WriteIs ==
    ASSUME NEW what \in {"PS", "RT"}, NEW text \in Texts, NEW r \in 1 .. 2
    PROVE  Writing(Write(what, text, r))
  BY SegmentsAre DEF Writing, Write

\* A step of a thread that does not build leaves the buffers alone, and begins or
\* carries on a write or a rebuild when it changes a parameter.
LEMMA CommandKeeps ==
    ASSUME EncoderInv, NEW th \in Threads, d_mutex # th, ParametersOK',
           UNCHANGED <<buffer, nbuffers, d_current_buffer, d_mutex>>,
           NEW c, call' = [call EXCEPT ![th] = c], Writing(c) \/ Asking(c),
           sent' = Nothing
    PROVE  EncoderInv'
  <1>1. call'[th] = c /\ c.does \in {"write", "rebuild"} /\ DOMAIN call' = Threads
        /\ \A t \in Threads : t # th => call'[t] = call[t]
    BY DEF EncoderInv, ThreadsOK, Writing, Asking, Rebuild
  <1>2. ThreadsOK'
    <2>1. ASSUME NEW t \in Threads
          PROVE  IF d_mutex' = t THEN Building(call[t])'
                 ELSE call'[t] = Idle \/ Writing(call'[t]) \/ Asking(call'[t])
      BY <1>1 DEF EncoderInv, ThreadsOK, Building
    <2> QED  BY <1>1, <2>1 DEF EncoderInv, ThreadsOK
  <1>3. BuffersOK'
    BY DEF EncoderInv, BuffersOK
  <1>4. \A n \in DOMAIN buffer' : Renewed(n)'
    BY <1>1 DEF Renewed
  <1>5. sent'.of # Empty
    BY DEF Nothing, Empty
  <1> QED  BY <1>2, <1>3, <1>4, <1>5 DEF EncoderInv

LEMMA CommandsKeep ==
    ASSUME EncoderInv, Commands
    PROVE  EncoderInv'
  <1>1. ASSUME NEW text \in Texts, SetPsCalled(text) PROVE EncoderInv'
    <2> DEFINE c == Write("PS", text, 1)
    <2>1. Writing(c)
      BY WriteIs
    <2>2. "ui" \in Threads /\ d_mutex # "ui" /\ ParametersOK'
      BY <1>1, ThreadIs DEF EncoderInv, SetPsCalled, Threads, Idle, ParametersOK,
                            parameters, counters, buffers
    <2> HIDE DEF c
    <2>3. call' = [call EXCEPT !["ui"] = c] /\ sent' = Nothing
          /\ UNCHANGED <<buffer, nbuffers, d_current_buffer, d_mutex>>
      BY <1>1 DEF SetPsCalled, buffers, c
    <2> QED  BY <2>1, <2>2, <2>3, CommandKeeps
  <1>2. ASSUME NEW what \in {"PS", "RT"}, NEW text \in Texts, RdsInText(what, text)
        PROVE  EncoderInv'
    <2> DEFINE c == Write(what, text, IF what = "PS" THEN 2 ELSE 1)
    <2>1. Writing(c)
      BY WriteIs
    <2>2. "block" \in Threads /\ d_mutex # "block" /\ ParametersOK'
      BY <1>2, ThreadIs DEF EncoderInv, RdsInText, Threads, Idle, ParametersOK,
                            parameters, counters, buffers
    <2> HIDE DEF c
    <2>3. call' = [call EXCEPT !["block"] = c] /\ sent' = Nothing
          /\ UNCHANGED <<buffer, nbuffers, d_current_buffer, d_mutex>>
      BY <1>2 DEF RdsInText, buffers, c
    <2> QED  BY <2>1, <2>2, <2>3, CommandKeeps
  <1>3. ASSUME NEW value \in Settings, RdsInSetting(value) PROVE EncoderInv'
    <2>1. Asking(Rebuild(1))
      BY DEF Asking
    <2>2. "block" \in Threads /\ d_mutex # "block" /\ ParametersOK'
      BY <1>3, ThreadIs DEF EncoderInv, RdsInSetting, Threads, Idle, ParametersOK,
                            counters, buffers
    <2>3. call' = [call EXCEPT !["block"] = Rebuild(1)] /\ sent' = Nothing
          /\ UNCHANGED <<buffer, nbuffers, d_current_buffer, d_mutex>>
      BY <1>3 DEF RdsInSetting, AfterSetting, buffers
    <2> QED  BY <2>1, <2>2, <2>3, CommandKeeps
  <1> QED  BY <1>1, <1>2, <1>3 DEF Commands

LEMMA WriteKeeps ==
    ASSUME EncoderInv, NEW th \in Threads, WriteSegment(th)
    PROVE  EncoderInv'
  <1>w. PICK w : w = call[th]
    OBVIOUS
  <1> DEFINE last == IF w.blank THEN Filled(w.what, w.text) ELSE Segments(w.what)
             c == IF w.next + 1 < last THEN [w EXCEPT !.next = w.next + 1]
                  ELSE IF w.blank THEN Rebuild(w.rebuilds)
                  ELSE [w EXCEPT !.next = 0, !.blank = TRUE]
  <1>1. Writing(w)
    BY <1>w, ThreadIs DEF WriteSegment, EncoderInv
  <1>2. /\ w.what \in {"PS", "RT"} /\ w.text \in Texts /\ w.next \in Nat
        /\ w.next < Segments(w.what) /\ w.rebuilds \in 1 .. 2
    BY <1>1 DEF Writing
  <1>3. /\ call' = [call EXCEPT ![th] = c] /\ sent' = Nothing
        /\ UNCHANGED <<buffer, nbuffers, d_current_buffer, d_mutex>>
    BY <1>w DEF WriteSegment, buffers
  <1>4. last \in 1 .. Segments(w.what) /\ Segments(w.what) \in Nat /\ Segments(w.what) > 0
    BY <1>2, SegmentsAre
  <1> HIDE DEF last
  <1>5. Writing(c) \/ Asking(c)
    <2>1. CASE w.next + 1 < last
      BY <1>1, <1>2, <1>4, <2>1 DEF Writing
    <2>2. CASE ~(w.next + 1 < last) /\ w.blank
      BY <1>2, <2>2 DEF Asking
    <2>3. CASE ~(w.next + 1 < last) /\ ~w.blank
      <3>1. [w EXCEPT !.next = 0, !.blank = TRUE]
                \in [does : {"write"}, what : {"PS", "RT"}, text : Texts, next : Nat,
                     blank : BOOLEAN, rebuilds : 1 .. 2]
        BY <1>1 DEF Writing
      <3>2. /\ [w EXCEPT !.next = 0, !.blank = TRUE].next = 0
            /\ [w EXCEPT !.next = 0, !.blank = TRUE].what = w.what
        BY <1>1 DEF Writing
      <3> QED  BY <1>4, <2>3, <3>1, <3>2 DEF Writing
    <2> QED  BY <2>1, <2>2, <2>3
  <1> HIDE DEF c
  <1>6. d_mutex # th
    BY ThreadIs DEF WriteSegment, EncoderInv
  <1>7. ParametersOK'
    <2>1. PICK new \in TextSet :
              \/ PS' = [PS EXCEPT ![w.next] = new] /\ UNCHANGED radiotext
              \/ radiotext' = [radiotext EXCEPT ![w.next] = new] /\ UNCHANGED PS
      BY <1>w, <1>2 DEF WriteSegment, Step, TextSet
    <2> QED  BY <2>1 DEF WriteSegment, EncoderInv, ParametersOK, counters, buffers
  <1> QED  BY <1>3, <1>5, <1>6, <1>7, CommandKeeps

-----------------------------------------------------------------------------
(* The steps of a rebuild, and of work().                                   *)

LEMMA StartKeeps ==
    ASSUME EncoderInv, NEW th \in Threads, RebuildStarts(th)
    PROVE  EncoderInv'
  <1>1. PICK r \in 1 .. 2 : call[th] = Rebuild(r)
    BY ThreadIs DEF RebuildStarts, EncoderInv, Asking
  <1>2. /\ d_mutex = "free" /\ d_mutex' = th /\ nbuffers' = Len(Cycle)
        /\ d_current_buffer' = 0 /\ buffer' = [n \in 0 .. Len(Cycle) - 1 |-> Empty]
        /\ call' = [call EXCEPT ![th] = Build(Cycle, r)]
        /\ sent' = Nothing
    BY <1>1, ListingsAgree DEF RebuildStarts, Rebuild
  <1>3. th # "free"
    BY DEF Threads
  <1>4. ParametersOK'
    BY DEF RebuildStarts, EncoderInv, ParametersOK, parameters, counters
  <1>5. ThreadsOK'
    <2>1. SubSeq(Cycle, 0 + 1, Len(Cycle)) = Cycle
      BY CycleIs
    <2>2. Building(call[th])'
      BY <1>2, <2>1 DEF Building, EncoderInv, ThreadsOK
    <2>3. \A t \in Threads : t # th => /\ call'[t] = call[t]
                                       /\ call[t] = Idle \/ Writing(call[t]) \/ Asking(call[t])
      BY <1>2, <1>3 DEF EncoderInv, ThreadsOK, Threads
    <2> QED  BY <1>2, <2>2, <2>3 DEF EncoderInv, ThreadsOK
  <1>6. BuffersOK'
    BY <1>2, <1>3, CycleIs DEF BuffersOK
  <1>7. \A n \in DOMAIN buffer' : Renewed(n)'
    BY <1>2, <1>3, CycleIs DEF Renewed
  <1>8. sent'.of # Empty
    BY <1>2 DEF Nothing, Empty
  <1> QED  BY <1>4, <1>5, <1>6, <1>7, <1>8 DEF EncoderInv

LEMMA CreateKeeps ==
    ASSUME EncoderInv, NEW th \in Threads, CreateGroup(th)
    PROVE  EncoderInv'
  <1>d. PICK d : d = d_current_buffer
    OBVIOUS
  <1>l. PICK len : len = Len(Cycle)
    OBVIOUS
  <1>1. PICK r \in 1 .. 2 : call[th] = Build(SubSeq(Cycle, d + 1, len), r)
    BY <1>d, <1>l, ThreadIs DEF CreateGroup, EncoderInv, Building
  <1>2. d_mutex = th /\ th # "free"
    BY ThreadIs DEF CreateGroup, EncoderInv
  <1>3. d \in 0 .. len /\ len \in Nat /\ nbuffers = len
    BY <1>d, <1>l, CycleIs DEF EncoderInv, BuffersOK
  <1>4. SubSeq(Cycle, d + 1, len) # <<>>
    BY <1>1 DEF CreateGroup, Build
  <1>5. /\ d \in 0 .. len - 1
        /\ Head(SubSeq(Cycle, d + 1, len)) = Cycle[d + 1]
        /\ Tail(SubSeq(Cycle, d + 1, len)) = SubSeq(Cycle, d + 2, len)
    BY <1>3, <1>4, <1>l, CycleIs
  <1>k. PICK kind : kind = Cycle[d + 1]
    OBVIOUS
  <1>b. PICK b : b = Content(kind, PS, radiotext, settings, d_g0_counter, d_g2_counter,
                             count3a)
    OBVIOUS
  <1>6. /\ buffer' = [buffer EXCEPT ![d] = b]
        /\ d_current_buffer' = d + 1
        /\ call' = [call EXCEPT ![th] = Build(SubSeq(Cycle, d + 2, len), r)]
        /\ sent' = Nothing
        /\ UNCHANGED <<parameters, nbuffers, d_buffer_bit_counter, d_mutex>>
    <2>a. PICK left : left = SubSeq(Cycle, d + 1, len)
      OBVIOUS
    <2>z. PICK rest : rest = SubSeq(Cycle, d + 2, len)
      OBVIOUS
    <2>0. Head(left) = kind /\ Tail(left) = rest
      BY <1>5, <1>k, <2>a, <2>z
    <2>3. call[th] = [does |-> "build", left |-> left, rebuilds |-> r]
      BY <1>1, <2>a DEF Build
    <2>4. call[th].left = left
      BY <2>3
    <2>5. [call[th] EXCEPT !.left = rest] = Build(rest, r)
      BY <2>3 DEF Build
    <2>6. Head(call[th].left) = kind /\ Tail(call[th].left) = rest
      BY <2>0, <2>4
    <2>1. [call EXCEPT ![th].left = Tail(@)] = [call EXCEPT ![th] = Build(rest, r)]
      BY <2>5, <2>6
    <2>2. call' = [call EXCEPT ![th] = Build(SubSeq(Cycle, d + 2, len), r)]
      BY <2>1, <2>z DEF CreateGroup
    <2> QED  BY <1>d, <1>b, <2>2, <2>6 DEF CreateGroup
  <1>7. kind \in KindSet /\ b \in Contents /\ b.kind = kind /\ Fresh(b)
    BY <1>5, <1>k, <1>b, <1>l, CycleIs, ContentIs DEF EncoderInv, ParametersOK
  <1>8. ParametersOK'
    <2>p. /\ d_g0_counter \in 0 .. PSSegments - 1
          /\ d_g2_counter \in 0 .. RTSegments - 1 /\ count3a \in 0 .. 1
      BY DEF EncoderInv, ParametersOK
    <2>c. /\ d_g0_counter' \in {d_g0_counter, NextG0}
          /\ d_g2_counter' \in {d_g2_counter, (d_g2_counter + 1) % RTSegments}
          /\ count3a' \in {count3a, (count3a + 1) % 2}
      BY DEF CreateGroup
    <2>1. NextG0 \in 0 .. PSSegments - 1
      BY <2>p, SegmentsAre DEF NextG0
    <2>2. (d_g2_counter + 1) % RTSegments \in 0 .. RTSegments - 1
      BY <2>p, SegmentsAre
    <2>3. (count3a + 1) % 2 \in 0 .. 1
      BY <2>p
    <2> QED  BY <1>6, <2>p, <2>c, <2>1, <2>2, <2>3 DEF EncoderInv, ParametersOK, parameters
  <1>9. ThreadsOK'
    <2>1. Building(call[th])'
      BY <1>3, <1>6, <1>l DEF Building, EncoderInv, ThreadsOK
    <2>2. \A t \in Threads : t # th => /\ call'[t] = call[t]
                                       /\ call[t] = Idle \/ Writing(call[t]) \/ Asking(call[t])
      BY <1>2, <1>6 DEF EncoderInv, ThreadsOK
    <2> QED  BY <1>2, <1>6, <2>1, <2>2 DEF EncoderInv, ThreadsOK
  <1>10. /\ DOMAIN buffer' = DOMAIN buffer /\ DOMAIN buffer = 0 .. len - 1
         /\ buffer'[d] = b /\ \A n \in DOMAIN buffer \ {d} : buffer'[n] = buffer[n]
    BY <1>3, <1>5, <1>6 DEF EncoderInv, BuffersOK
  <1>11. BuffersOK'
    <2>1. ASSUME NEW n \in DOMAIN buffer
          PROVE  \/ buffer'[n] \in Contents /\ buffer'[n].kind = Cycle[n + 1]
                 \/ buffer'[n] = Empty /\ n >= d + 1
      <3>1. CASE n = d
        BY <1>7, <1>10, <1>k, <3>1
      <3>2. CASE n # d
        BY <1>3, <1>10, <1>d, <3>2 DEF EncoderInv, BuffersOK
      <3> QED  BY <3>1, <3>2
    <2> QED  BY <1>2, <1>3, <1>5, <1>6, <1>10, <1>l, <2>1 DEF EncoderInv, BuffersOK
  <1>12. ASSUME NEW n \in DOMAIN buffer' PROVE Renewed(n)'
    <2>1. n \in 0 .. len - 1 /\ Renewed(n)
      BY <1>10 DEF EncoderInv
    <2>2. \A c : Fresh(c) => Fresh(c)'
      BY <1>6 DEF Fresh, parameters
    <2>3. CASE n = d
      BY <1>7, <1>10, <2>2, <2>3 DEF Renewed
    <2>4. CASE n > d
      BY <1>2, <1>3, <1>6, <2>1, <2>4 DEF Renewed
    <2>5. CASE n < d
      <3>1. Fresh(buffer[n]) \/ \E t \in Threads : call[t].does \in {"write", "rebuild"}
        BY <1>3, <1>d, <2>1, <2>5 DEF Renewed
      <3>2. ASSUME NEW t \in Threads, call[t].does \in {"write", "rebuild"}
            PROVE  call'[t].does \in {"write", "rebuild"}
        BY <1>1, <1>6, <3>2 DEF Build, EncoderInv, ThreadsOK
      <3>3. buffer'[n] = buffer[n]
        BY <1>10, <2>1, <2>5
      <3> QED  BY <2>2, <3>1, <3>2, <3>3 DEF Renewed
    <2> QED  BY <1>3, <2>1, <2>3, <2>4, <2>5
  <1>13. sent'.of # Empty
    BY <1>6 DEF Nothing, Empty
  <1> QED  BY <1>8, <1>9, <1>11, <1>12, <1>13 DEF EncoderInv

LEMMA EndKeeps ==
    ASSUME EncoderInv, NEW th \in Threads, RebuildEnds(th)
    PROVE  EncoderInv'
  <1>l. PICK len : len = Len(Cycle)
    OBVIOUS
  <1>1. PICK r \in 1 .. 2 : call[th] = Build(SubSeq(Cycle, d_current_buffer + 1, len), r)
    BY <1>l, ThreadIs DEF RebuildEnds, EncoderInv, Building
  <1>2. d_mutex = th /\ th # "free"
    BY ThreadIs DEF RebuildEnds, EncoderInv
  <1>3. d_current_buffer \in 0 .. len /\ len \in Nat /\ len > 0 /\ nbuffers = len
        /\ DOMAIN buffer = 0 .. len - 1
    BY <1>l, CycleIs DEF EncoderInv, BuffersOK
  <1>4. d_current_buffer = len
    <2>1. SubSeq(Cycle, d_current_buffer + 1, len) = <<>>
      BY <1>1 DEF RebuildEnds, Build
    <2> QED  BY <1>3, <1>l, <2>1, CycleIs
  <1> DEFINE c == IF r > 1 THEN Rebuild(r - 1) ELSE Idle
  <1>5. /\ d_current_buffer' = 0 /\ d_mutex' = "free"
        /\ call' = [call EXCEPT ![th] = c] /\ sent' = Nothing
        /\ UNCHANGED <<buffer, nbuffers>> /\ UNCHANGED parameters
    BY <1>1 DEF RebuildEnds, Build
  <1>6. c = Idle \/ Asking(c)
    BY DEF Asking
  <1> HIDE DEF c
  <1>7. ParametersOK'
    BY DEF RebuildEnds, EncoderInv, ParametersOK, parameters, counters
  <1>8. ThreadsOK'
    <2>1. \A t \in Threads : t # th => /\ call'[t] = call[t]
                                       /\ call[t] = Idle \/ Writing(call[t]) \/ Asking(call[t])
      BY <1>2, <1>5 DEF EncoderInv, ThreadsOK
    <2>2. call'[th] = c /\ DOMAIN call' = Threads
      BY <1>5 DEF EncoderInv, ThreadsOK
    <2> QED  BY <1>5, <1>6, <2>1, <2>2 DEF ThreadsOK, Threads
  <1>9. BuffersOK'
    BY <1>3, <1>4, <1>5 DEF EncoderInv, BuffersOK
  <1>10. ASSUME NEW n \in DOMAIN buffer' PROVE Renewed(n)'
    <2>1. Fresh(buffer[n]) \/ \E t \in Threads : call[t].does \in {"write", "rebuild"}
      BY <1>3, <1>4, <1>5 DEF EncoderInv, Renewed
    <2>2. ASSUME NEW t \in Threads, call[t].does \in {"write", "rebuild"}
          PROVE  call'[t].does \in {"write", "rebuild"}
      BY <1>1, <1>5, <2>2 DEF Build, EncoderInv, ThreadsOK
    <2>3. Fresh(buffer[n]) => Fresh(buffer[n])'
      BY <1>5 DEF Fresh, parameters
    <2> QED  BY <2>1, <2>2, <2>3 DEF Renewed
  <1>11. sent'.of # Empty
    BY <1>5 DEF Nothing, Empty
  <1> QED  BY <1>7, <1>8, <1>9, <1>10, <1>11 DEF EncoderInv

LEMMA WorkKeeps ==
    ASSUME EncoderInv, Work
    PROVE  EncoderInv'
  <1>1. /\ d_mutex = "free"
        /\ UNCHANGED <<parameters, counters, buffer, nbuffers, d_mutex, call>>
        /\ d_buffer_bit_counter' \in 0 .. 3
        /\ sent'.of = buffer[d_current_buffer]
    BY DEF Work, MayWork, EncoderInv, ParametersOK
  <1>2. nbuffers \in Nat /\ nbuffers > 0 /\ d_current_buffer \in DOMAIN buffer
        /\ d_current_buffer \in 0 .. nbuffers - 1
    BY <1>1, CycleIs DEF EncoderInv, BuffersOK
  <1>3. d_current_buffer' \in 0 .. nbuffers - 1
    BY <1>2 DEF Work, NextBuffer
  <1>4. sent'.of # Empty
    BY <1>1, <1>2, ContentsPrepared DEF EncoderInv, BuffersOK
  <1>5. ParametersOK'
    BY <1>1 DEF EncoderInv, ParametersOK, parameters, counters
  <1>6. ThreadsOK'
    BY <1>1 DEF EncoderInv, ThreadsOK, Threads
  <1>7. BuffersOK'
    BY <1>1, <1>2, <1>3 DEF EncoderInv, BuffersOK
  <1>8. \A n \in DOMAIN buffer' : Renewed(n)'
    BY <1>1 DEF EncoderInv, Renewed, Fresh, parameters
  <1> QED  BY <1>4, <1>5, <1>6, <1>7, <1>8 DEF EncoderInv

LEMMA EncoderInvariant == EncoderSpec => []EncoderInv
  <1>1. EncoderInit => EncoderInv
    BY EncoderInitially
  <1>2. EncoderInv /\ [EncoderNext]_encoderVars => EncoderInv'
    <2> SUFFICES ASSUME EncoderInv, [EncoderNext]_encoderVars PROVE EncoderInv'
      OBVIOUS
    <2>1. CASE UNCHANGED encoderVars
      BY <2>1 DEF encoderVars, parameters, counters, buffers, EncoderInv, ParametersOK,
                  ThreadsOK, Building, BuffersOK, Renewed, Fresh
    <2> QED  BY <2>1, CommandsKeep, WriteKeeps, StartKeeps, CreateKeeps, EndKeeps,
                WorkKeeps DEF EncoderNext, Proceed
  <1> QED  BY <1>1, <1>2, PTL DEF EncoderSpec

-----------------------------------------------------------------------------
\* Types, and every counter points into its array: the buffers that rebuild()
\* counted are as many as it then fills, and work() never leaves them.
THEOREM EncoderTypeCorrect == EncoderSpec => []EncoderTypeOK
  <1>1. EncoderInv => EncoderTypeOK
    <2> SUFFICES ASSUME EncoderInv PROVE EncoderTypeOK
      OBVIOUS
    <2>1. \A th \in Threads : (d_mutex = th) <=> (call[th].does = "build")
      BY ThreadIs DEF EncoderInv
    <2>2. d_mutex = "free" \/ call[d_mutex].left # <<>> => d_current_buffer \in DOMAIN buffer
      <3>1. CASE d_mutex = "free"
        BY <3>1, CycleIs DEF EncoderInv, BuffersOK
      <3>2. ASSUME d_mutex # "free", call[d_mutex].left # <<>>
            PROVE  d_current_buffer \in DOMAIN buffer
        <4>1. call[d_mutex].left = SubSeq(Cycle, d_current_buffer + 1, Len(Cycle))
          BY <3>2 DEF EncoderInv, ThreadsOK, Building, Build
        <4>2. d_current_buffer \in 0 .. Len(Cycle) /\ DOMAIN buffer = 0 .. Len(Cycle) - 1
          BY DEF EncoderInv, BuffersOK
        <4>3. d_current_buffer # Len(Cycle)
          <5>1. SubSeq(Cycle, Len(Cycle) + 1, Len(Cycle)) = <<>>
            BY CycleIs
          <5> QED  BY <3>2, <4>1, <5>1
        <4>4. Len(Cycle) \in Nat
          BY CycleIs
        <4> QED  BY <4>2, <4>3, <4>4
      <3> QED  BY <3>1, <3>2
    <2> QED  BY <2>1, <2>2 DEF EncoderInv, ParametersOK, ThreadsOK, BuffersOK,
                               EncoderTypeOK, TextSet
  <1> QED  BY <1>1, EncoderInvariant, PTL

\* work() never sends a buffer that was allocated but not prepared, in whatever order
\* the two threads change texts and rebuild.
THEOREM PreparedSent == EncoderSpec => []SentWasPrepared
  <1>1. EncoderInv => SentWasPrepared
    BY DEF EncoderInv, SentWasPrepared
  <1> QED  BY <1>1, EncoderInvariant, PTL

\* Once all commands are carried out, what is sent is what was set: the texts are
\* written without the mutex, but whoever writes rebuilds afterwards.
THEOREM CurrentSent == EncoderSpec => []BuffersCurrent
  <1>1. EncoderInv => BuffersCurrent
    <2> SUFFICES ASSUME EncoderInv, \A th \in Threads : call[th] = Idle,
                        NEW n \in DOMAIN buffer
                 PROVE  Fresh(buffer[n])
      BY DEF BuffersCurrent, Fresh
    <2>1. \A th \in Threads : call[th].does = "nothing"
      BY DEF Idle
    <2>2. d_mutex = "free"
      BY <2>1, ThreadIs DEF EncoderInv, ThreadsOK
    <2> QED  BY <2>1, <2>2 DEF EncoderInv, Renewed
  <1> QED  BY <1>1, EncoderInvariant, PTL

-----------------------------------------------------------------------------
(* The numbers of the segments.                                             *)

Counting == {"0A", "2A", "3A"}
Counter(kind) == CASE kind = "0A" -> d_g0_counter
                   [] kind = "2A" -> d_g2_counter
                   [] OTHER -> count3a

\* The groups of a kind among the first d of the cycle.
Upto(kind, d) == Cardinality({i \in 1 .. d : Cycle[i] = kind})

\* A segment number that is at most one round too high.
Wrapped(kind, v) == IF v < CreateCalls(kind) THEN v ELSE v - CreateCalls(kind)

\* The groups of a kind are numbered in their order, beginning anywhere.
NumberedFrom(kind, s) ==
    /\ \A n \in DOMAIN buffer : buffer[n].kind = kind =>
           buffer[n].adr = Wrapped(kind, s + Before(n + 1))
    /\ d_mutex # "free" => Counter(kind) = Wrapped(kind, s + Upto(kind, d_current_buffer))
Numbered(kind) == \E s \in 0 .. CreateCalls(kind) - 1 : NumberedFrom(kind, s)

NumberInv == \A kind \in Counting : Numbered(kind)

LEMMA CallsAre ==
    ASSUME NEW kind \in Counting
    PROVE  /\ CreateCalls(kind) \in Nat /\ CreateCalls(kind) > 0
           /\ ParametersOK => Counter(kind) \in 0 .. CreateCalls(kind) - 1
  BY SegmentsAre DEF CreateCalls, Counting, Counter, ParametersOK

LEMMA UptoIs ==
    ASSUME NEW kind, NEW d \in Nat
    PROVE  /\ Upto(kind, d) \in Nat /\ Upto(kind, 0) = 0
           /\ Upto(kind, d + 1) = IF Cycle[d + 1] = kind THEN Upto(kind, d) + 1
                                  ELSE Upto(kind, d)
  <1> DEFINE S == {i \in 1 .. d : Cycle[i] = kind}
             T == {i \in 1 .. (d + 1) : Cycle[i] = kind}
  <1>1. IsFiniteSet(1 .. d)
    BY FS_Interval
  <1>2. IsFiniteSet(S)
    BY <1>1, FS_Subset
  <1>3. Cardinality(S) \in Nat
    BY <1>2, FS_CardinalityType
  <1>4. {i \in 1 .. 0 : Cycle[i] = kind} = {}
    OBVIOUS
  <1>5. Upto(kind, 0) = 0
    BY <1>4, FS_EmptySet DEF Upto
  <1>6. CASE Cycle[d + 1] = kind
    <2>1. T = S \cup {d + 1} /\ d + 1 \notin S
      BY <1>6
    <2>2. Cardinality(T) = Cardinality(S) + 1
      BY <1>2, <2>1, FS_AddElement
    <2> QED  BY <1>3, <1>5, <1>6, <2>2 DEF Upto
  <1>7. CASE Cycle[d + 1] # kind
    <2>1. T = S
      BY <1>7
    <2> QED  BY <1>3, <1>5, <1>7, <2>1 DEF Upto
  <1> QED  BY <1>6, <1>7

\* Two groups of a kind have different numbers of groups of their kind before them.
LEMMA BeforeDiffers ==
    ASSUME NEW n \in Nat \ {0}, NEW p \in Nat \ {0}, n < p, Cycle[n] = Cycle[p]
    PROVE  Before(n) < Before(p)
  <1> DEFINE S == {i \in 1 .. n - 1 : Cycle[i] = Cycle[n]}
             T == {i \in 1 .. p - 1 : Cycle[i] = Cycle[p]}
  <1>1. IsFiniteSet(1 .. p - 1) /\ IsFiniteSet(1 .. n - 1)
    BY FS_Interval
  <1>2. IsFiniteSet(S) /\ IsFiniteSet(T)
    BY <1>1, FS_Subset
  <1>3. S \cup {n} \in SUBSET T /\ n \notin S
    OBVIOUS
  <1>4. Cardinality(S \cup {n}) = Cardinality(S) + 1
    BY <1>2, <1>3, FS_AddElement
  <1>5. Cardinality(S \cup {n}) <= Cardinality(T)
    BY <1>2, <1>3, FS_Subset
  <1>6. Cardinality(S) \in Nat /\ Cardinality(T) \in Nat
    BY <1>2, FS_CardinalityType
  <1> HIDE DEF S, T
  <1>7. Cardinality(S) < Cardinality(T)
    BY <1>4, <1>5, <1>6
  <1> QED  BY <1>7 DEF Before, S, T

LEMMA BeforeIs ==
    ASSUME NEW n \in 0 .. Len(Cycle) - 1
    PROVE  /\ Before(n + 1) \in 0 .. CreateCalls(Cycle[n + 1]) - 1
           /\ Before(n + 1) = Upto(Cycle[n + 1], n)
  <1>1. n + 1 \in DOMAIN Cycle /\ n + 1 - 1 = n
    BY CycleIs
  <1>2. Before(n + 1) \in 0 .. CreateCalls(Cycle[n + 1]) - 1
    BY <1>1, CycleIs
  <1> QED  BY <1>1, <1>2 DEF Before, Upto

LEMMA NumberedInitially ==
    ASSUME EncoderInit
    PROVE  NumberInv
  <1> SUFFICES ASSUME NEW kind \in Counting PROVE NumberedFrom(kind, 0)
    BY CallsAre DEF NumberInv, Numbered
  <1>1. /\ nbuffers = Len(Cycle) /\ d_mutex = "free"
        /\ buffer = [n \in 0 .. nbuffers - 1 |->
                         Content(Cycle[n + 1], PS, radiotext, settings, Before(n + 1),
                                 Before(n + 1), Before(n + 1))]
    BY ListingsAgree DEF EncoderInit
  <1>2. ASSUME NEW n \in DOMAIN buffer, buffer[n].kind = kind
        PROVE  buffer[n].adr = Wrapped(kind, 0 + Before(n + 1))
    <2>k. PICK k : k = Cycle[n + 1]
      OBVIOUS
    <2>b. PICK b : b = Before(n + 1)
      OBVIOUS
    <2>1. buffer[n] = Content(k, PS, radiotext, settings, b, b, b)
      BY <1>1, <1>2, <2>k, <2>b
    <2>2. k = kind
      BY <1>2, <2>1 DEF Content
    <2>3. b \in 0 .. CreateCalls(kind) - 1
      BY <1>1, <1>2, <2>2, <2>k, <2>b, BeforeIs
    <2>4. buffer[n].adr = b
      BY <2>1, <2>2 DEF Content, Counting
    <2>5. CreateCalls(kind) \in Nat
      BY CallsAre
    <2> QED  BY <2>3, <2>4, <2>5, <2>b DEF Wrapped
  <1> QED  BY <1>1, <1>2 DEF NumberedFrom

LEMMA NumberedKept ==
    ASSUME EncoderInv, NumberInv, UNCHANGED <<buffer, d_mutex>>,
           d_mutex # "free" => UNCHANGED <<counters, d_current_buffer>>
    PROVE  NumberInv'
  BY DEF NumberInv, Numbered, NumberedFrom, Counter, counters

LEMMA NumberedStarts ==
    ASSUME EncoderInv, NEW th \in Threads, RebuildStarts(th)
    PROVE  NumberInv'
  <1> SUFFICES ASSUME NEW kind \in Counting PROVE Numbered(kind)'
    BY DEF NumberInv
  <1>s. PICK s : s = Counter(kind)
    OBVIOUS
  <1>1. s \in 0 .. CreateCalls(kind) - 1 /\ CreateCalls(kind) \in Nat
    BY <1>s, CallsAre DEF EncoderInv
  <1>2. Counter(kind)' = s /\ d_current_buffer' = 0
    BY <1>s DEF RebuildStarts, counters, Counter
  <1>3. \A n \in DOMAIN buffer' : buffer'[n].kind # kind
    BY DEF RebuildStarts, Empty, Counting
  <1>4. Wrapped(kind, s + Upto(kind, 0)) = s
    <2>1. Upto(kind, 0) = 0
      BY UptoIs
    <2> QED  BY <1>1, <2>1 DEF Wrapped
  <1>5. NumberedFrom(kind, s)'
    BY <1>2, <1>3, <1>4 DEF NumberedFrom
  <1> QED  BY <1>1, <1>5 DEF Numbered

LEMMA NumberedCreates ==
    ASSUME EncoderInv, NumberInv, NEW th \in Threads, CreateGroup(th)
    PROVE  NumberInv'
  <1> SUFFICES ASSUME NEW kind \in Counting PROVE Numbered(kind)'
    BY DEF NumberInv
  <1>s. PICK s \in 0 .. CreateCalls(kind) - 1 : NumberedFrom(kind, s)
    BY DEF NumberInv, Numbered
  <1>d. PICK d : d = d_current_buffer
    OBVIOUS
  <1>l. PICK len : len = Len(Cycle)
    OBVIOUS
  <1>c. PICK c : c = Cycle[d + 1]
    OBVIOUS
  <1>k. PICK S : S = CreateCalls(kind)
    OBVIOUS
  <1>v. PICK v : v = Counter(kind)
    OBVIOUS
  <1>r. PICK r : call[th] = Build(SubSeq(Cycle, d + 1, len), r)
    BY <1>d, <1>l, ThreadIs DEF CreateGroup, EncoderInv, Building
  <1>p. PICK left : left = SubSeq(Cycle, d + 1, len)
    OBVIOUS
  <1>q. call[th].left = left
    <2>1. call[th] = Build(left, r)
      BY <1>r, <1>p
    <2>2. Build(left, r).left = left
      BY DEF Build
    <2> QED  BY <2>1, <2>2
  <1>1. left = SubSeq(Cycle, d + 1, len) /\ left # <<>>
    BY <1>p, <1>q DEF CreateGroup
  <1>2. d_mutex # "free" /\ d \in 0 .. len /\ len \in Nat /\ DOMAIN buffer = 0 .. len - 1
    BY <1>d, <1>l, ThreadIs, CycleIs DEF CreateGroup, EncoderInv, BuffersOK, Threads
  <1>3. d \in 0 .. len - 1 /\ Head(left) = c
    BY <1>1, <1>2, <1>c, <1>l, CycleIs
  <1>4. Head(call[th].left) = c
    BY <1>q, <1>3
  <1>b. PICK b : b = Content(c, PS, radiotext, settings, d_g0_counter, d_g2_counter,
                             count3a)
    OBVIOUS
  <1>5. /\ buffer' = [buffer EXCEPT ![d] = b] /\ d_current_buffer' = d + 1
        /\ d_mutex' = d_mutex
    BY <1>b, <1>d, <1>4 DEF CreateGroup
  <1>6. S \in Nat /\ S > 0 /\ s \in 0 .. S - 1 /\ v \in 0 .. S - 1
    BY <1>k, <1>s, <1>v, CallsAre DEF EncoderInv
  <1>7. v = Wrapped(kind, s + Upto(kind, d))
    BY <1>2, <1>d, <1>s, <1>v DEF NumberedFrom
  <1>8. Counter(kind)' = IF c # kind THEN v ELSE IF v + 1 < S THEN v + 1 ELSE 0
    <2>1. CASE kind = "0A"
      BY <1>4, <1>6, <1>k, <1>v, <2>1 DEF CreateGroup, Counter, NextG0, CreateCalls
    <2>2. CASE kind = "2A"
      <3>1. S = RTSegments /\ v = d_g2_counter
        BY <1>k, <1>v, <2>2 DEF CreateCalls, Counter
      <3>2. (v + 1) % S = IF v + 1 < S THEN v + 1 ELSE 0
        BY <1>6
      <3> QED  BY <1>4, <2>2, <3>1, <3>2 DEF CreateGroup, Counter
    <2>3. CASE kind = "3A"
      <3>1. S = 2 /\ v = count3a
        BY <1>k, <1>v, <2>3 DEF CreateCalls, Counter
      <3>2. (v + 1) % 2 = IF v + 1 < 2 THEN v + 1 ELSE 0
        BY <1>6, <3>1
      <3> QED  BY <1>4, <2>3, <3>1, <3>2 DEF CreateGroup, Counter
    <2> QED  BY <2>1, <2>2, <2>3 DEF Counting
  <1>9. /\ Upto(kind, d) \in Nat
        /\ Upto(kind, d + 1) = IF c = kind THEN Upto(kind, d) + 1 ELSE Upto(kind, d)
    BY <1>3, <1>c, UptoIs
  <1>10. c = kind => Upto(kind, d) \in 0 .. S - 1 /\ Before(d + 1) = Upto(kind, d)
    BY <1>3, <1>c, <1>k, <1>l, BeforeIs
  <1>11. Counter(kind)' = Wrapped(kind, s + Upto(kind, d + 1))
    <2>1. CASE c # kind
      BY <1>7, <1>8, <1>9, <2>1
    <2>2. CASE c = kind
      BY <1>6, <1>7, <1>8, <1>9, <1>10, <1>k, <2>2 DEF Wrapped
    <2> QED  BY <2>1, <2>2
  <1>12. ASSUME NEW n \in DOMAIN buffer', buffer'[n].kind = kind
         PROVE  buffer'[n].adr = Wrapped(kind, s + Before(n + 1))
    <2>1. CASE n = d
      <3>1. buffer'[n] = b
        BY <1>2, <1>3, <1>5, <2>1
      <3>2. c = kind
        BY <1>b, <1>12, <3>1 DEF Content
      <3>3. b.adr = v
        BY <1>b, <1>v, <3>2 DEF Content, Counter, Counting
      <3> QED  BY <1>7, <1>10, <2>1, <3>1, <3>2, <3>3
    <2>2. CASE n # d
      BY <1>5, <1>12, <1>s, <2>2 DEF NumberedFrom
    <2> QED  BY <2>1, <2>2
  <1>13. NumberedFrom(kind, s)'
    BY <1>5, <1>11, <1>12 DEF NumberedFrom
  <1> QED  BY <1>s, <1>13 DEF Numbered

LEMMA NumberedInvariant == EncoderSpec => []NumberInv
  <1>1. EncoderInit => NumberInv
    BY NumberedInitially
  <1>2. EncoderInv /\ NumberInv /\ [EncoderNext]_encoderVars => NumberInv'
    <2> SUFFICES ASSUME EncoderInv, NumberInv, [EncoderNext]_encoderVars PROVE NumberInv'
      OBVIOUS
    <2>1. CASE Commands
      BY <2>1, NumberedKept DEF Commands, SetPsCalled, RdsInText, RdsInSetting, counters,
                                buffers
    <2>2. CASE Work
      BY <2>2, NumberedKept DEF Work, MayWork
    <2>3. ASSUME NEW th \in Threads, WriteSegment(th) PROVE NumberInv'
      BY <2>3, NumberedKept DEF WriteSegment, buffers
    <2>4. ASSUME NEW th \in Threads, RebuildEnds(th) PROVE NumberInv'
      BY <2>4 DEF RebuildEnds, NumberInv, Numbered, NumberedFrom
    <2>5. CASE UNCHANGED encoderVars
      BY <2>5, NumberedKept DEF encoderVars, buffers
    <2> QED  BY <2>1, <2>2, <2>3, <2>4, <2>5, NumberedStarts, NumberedCreates
             DEF EncoderNext, Proceed
  <1> QED  BY <1>1, <1>2, EncoderInvariant, PTL DEF EncoderSpec

\* Whenever no rebuild is going on, every buffer is prepared as the group of its place
\* in the cycle, and groups of a kind have different segments: none is left out,
\* although the segment counters run on from one rebuild to the next.
THEOREM CyclesComplete == EncoderSpec => []CycleComplete
  <1>1. EncoderInv /\ NumberInv => CycleComplete
    <2> SUFFICES ASSUME EncoderInv, NumberInv, d_mutex = "free" PROVE
            /\ \A n \in DOMAIN buffer : buffer[n].kind = Cycle[n + 1]
            /\ Len(Cycle) = nbuffers
            /\ \A n, p \in DOMAIN buffer :
                   n # p /\ buffer[n].kind \in Counting
                   /\ buffer[n].kind = buffer[p].kind => buffer[n].adr # buffer[p].adr
      BY DEF CycleComplete, Counting
    <2>1. /\ DOMAIN buffer = 0 .. Len(Cycle) - 1 /\ Len(Cycle) = nbuffers
          /\ \A n \in DOMAIN buffer : buffer[n].kind = Cycle[n + 1]
      BY DEF EncoderInv, BuffersOK
    <2>2. ASSUME NEW n \in DOMAIN buffer, NEW p \in DOMAIN buffer, n < p,
                 buffer[n].kind \in Counting, buffer[n].kind = buffer[p].kind
          PROVE  buffer[n].adr # buffer[p].adr
      <3>k. PICK kind : kind = buffer[n].kind
        OBVIOUS
      <3>s. PICK s \in 0 .. CreateCalls(kind) - 1 : NumberedFrom(kind, s)
        BY <2>2, <3>k DEF NumberInv, Numbered
      <3>x. PICK x : x = Before(n + 1)
        OBVIOUS
      <3>y. PICK y : y = Before(p + 1)
        OBVIOUS
      <3>z. PICK S : S = CreateCalls(kind)
        OBVIOUS
      <3>1. n \in 0 .. Len(Cycle) - 1 /\ p \in 0 .. Len(Cycle) - 1 /\ Len(Cycle) \in Nat
        BY <2>1, CycleIs
      <3>2. Cycle[n + 1] = kind /\ Cycle[p + 1] = kind
        BY <2>1, <2>2, <3>k
      <3>3. x \in 0 .. S - 1 /\ y \in 0 .. S - 1
        BY <3>1, <3>2, <3>x, <3>y, <3>z, BeforeIs
      <3>4. n + 1 \in Nat \ {0} /\ p + 1 \in Nat \ {0} /\ n + 1 < p + 1
        BY <2>2, <3>1
      <3>5. x < y
        BY <3>2, <3>4, <3>x, <3>y, BeforeDiffers
      <3>6. buffer[n].adr = Wrapped(kind, s + x) /\ buffer[p].adr = Wrapped(kind, s + y)
        BY <2>2, <3>k, <3>s, <3>x, <3>y DEF NumberedFrom
      <3>7. S \in Nat /\ s \in 0 .. S - 1
        BY <2>2, <3>k, <3>s, <3>z, CallsAre
      <3> QED  BY <3>3, <3>5, <3>6, <3>7, <3>z DEF Wrapped
    <2>3. \A n, p \in DOMAIN buffer : n # p => n < p \/ p < n
      BY <2>1, CycleIs
    <2> QED  BY <2>1, <2>2, <2>3
  <1> QED  BY <1>1, EncoderInvariant, NumberedInvariant, PTL
=============================================================================

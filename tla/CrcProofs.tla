------------------------------ MODULE CrcProofs ------------------------------
(***************************************************************************)
(* Proofs about RdsCrc, for every data word.  The rounds of calc_syndrome   *)
(* are linear and lose nothing: from that, from the ten syndromes of the    *)
(* offset words and from the first bit of a burst follows what the run      *)
(* tries on three data words.                                               *)
(***************************************************************************)
EXTENDS RdsCrc, NumberTheorems

Registers == SUBSET (0 .. 9)
Bit == {{}, {0}}

-----------------------------------------------------------------------------
(* Sets of bits.                                                            *)

LEMMA ShiftIs ==
    ASSUME NEW bits \in SUBSET Int, NEW by \in Int, NEW k \in Int
    PROVE  k \in Shift(bits, by) <=> k - by \in bits
  <1>1. ASSUME NEW b \in bits PROVE b + by = k <=> b = k - by
    OBVIOUS
  <1> QED  BY <1>1 DEF Shift

LEMMA ShiftNumbers ==
    ASSUME NEW bits \in SUBSET Int, NEW by \in Int
    PROVE  Shift(bits, by) \in SUBSET Int
  BY DEF Shift

LEMMA XorIs ==
    ASSUME NEW a, NEW b, NEW k
    PROVE  k \in a ^^ b <=> ~(k \in a <=> k \in b)
  BY DEF ^^

LEMMA XorLaws ==
    ASSUME NEW a, NEW b, NEW c
    PROVE  /\ (a ^^ b) ^^ c = a ^^ (b ^^ c) /\ a ^^ b = b ^^ a
           /\ a ^^ a = {} /\ a ^^ {} = a /\ {} ^^ a = a
           /\ a ^^ (a ^^ b) = b /\ (a ^^ b = {} => a = b)
           /\ (a ^^ c = b ^^ c => a = b)
  <1>1. \A k : k \in (a ^^ b) ^^ c <=> k \in a ^^ (b ^^ c)
    BY DEF ^^
  <1>2. \A k : k \in a ^^ (a ^^ b) <=> k \in b
    BY DEF ^^
  <1>3. a ^^ b = {} => \A k : k \in a <=> k \in b
    BY DEF ^^
  <1>4. a ^^ c = b ^^ c => \A k : k \in a <=> k \in b
    BY DEF ^^
  <1>5. a ^^ b = b ^^ a /\ a ^^ a = {} /\ a ^^ {} = a /\ {} ^^ a = a
    BY DEF ^^
  <1> QED  BY <1>1, <1>2, <1>3, <1>4, <1>5

LEMMA XorSame ==
    ASSUME NEW a, NEW b
    PROVE  a ^^ b = a <=> b = {}
  <1>1. ASSUME a ^^ b = a, NEW k \in b PROVE FALSE
    BY <1>1, XorIs
  <1>2. a ^^ {} = a
    BY XorLaws
  <1> QED  BY <1>1, <1>2

LEMMA XorIn ==
    ASSUME NEW S, NEW a \in SUBSET S, NEW b \in SUBSET S
    PROVE  a ^^ b \in SUBSET S
  BY DEF ^^

LEMMA RegisterXor ==
    ASSUME NEW a \in Registers, NEW b \in Registers
    PROVE  a ^^ b \in Registers
  BY XorIn DEF Registers

-----------------------------------------------------------------------------
(* One round.                                                               *)

\* Bit k of the register after a round.
LEMMA TakeBitIs ==
    ASSUME NEW r \in Registers, NEW bit \in Bit
    PROVE  /\ TakeBit(r, bit) \in Registers
           /\ \A k \in 0 .. 9 :
                  k \in TakeBit(r, bit)
                      <=> ~(k - 1 \in r \/ k \in bit <=> 9 \in r /\ k \in poly)
  <1> DEFINE s == Shift(r, 1) \cup bit
  <1>1. r \in SUBSET Int /\ bit \in SUBSET Int /\ Shift(r, 1) \in SUBSET Int
    BY ShiftNumbers DEF Registers, Bit
  <1>2. s \in SUBSET Int /\ \A k \in Int : k \in s <=> k - 1 \in r \/ k \in bit
    <2>1. \A k \in Int : k \in Shift(r, 1) <=> k - 1 \in r
      BY <1>1, ShiftIs
    <2> QED  BY <1>1, <2>1
  <1>3. s \in SUBSET (0 .. 10)
    <2>1. ASSUME NEW k \in s PROVE k >= 0 /\ k <= 10
      BY <1>1, <1>2 DEF Registers, Bit
    <2> QED  BY <1>2, <2>1
  <1>4. 10 \in s <=> 9 \in r
    <2>1. 10 \notin bit /\ 10 - 1 = 9
      BY DEF Bit
    <2> QED  BY <1>2, <2>1
  <1> HIDE DEF s
  <1>5. TakeBit(r, bit) = IF 10 \in s THEN s ^^ poly ELSE s
    BY DEF TakeBit, s, plen
  <1>6. 10 \in poly /\ poly \in SUBSET (0 .. 10)
    BY DEF poly
  <1>7. ASSUME NEW k \in 0 .. 10
        PROVE  k \in TakeBit(r, bit) <=> ~(k \in s <=> 9 \in r /\ k \in poly)
    BY <1>4, <1>5, XorIs
  <1>8. TakeBit(r, bit) \in SUBSET (0 .. 10)
    <2> PICK S : S = 0 .. 10
      OBVIOUS
    <2>1. s \in SUBSET S /\ poly \in SUBSET S
      BY <1>3, <1>6
    <2> HIDE DEF s
    <2>2. s ^^ poly \in SUBSET S
      BY ONLY <2>1, XorIn
    <2> QED  BY <1>5, <2>1, <2>2
  <1>9. 10 \notin TakeBit(r, bit)
    BY <1>4, <1>6, <1>7
  <1>10. TakeBit(r, bit) \in Registers
    <2>1. \A k \in 0 .. 10 : k # 10 => k \in 0 .. 9
      OBVIOUS
    <2> QED  BY <1>8, <1>9, <2>1 DEF Registers
  <1> QED  BY <1>2, <1>7, <1>10

\* A register that has the bits of another one after a round.
LEMMA TakeBitEquals ==
    ASSUME NEW r \in Registers, NEW bit \in Bit, NEW t \in Registers,
           \A k \in 0 .. 9 :
               k \in t <=> ~(k - 1 \in r \/ k \in bit <=> 9 \in r /\ k \in poly)
    PROVE  TakeBit(r, bit) = t
  <1>1. TakeBit(r, bit) \in Registers /\ \A k \in 0 .. 9 : k \in TakeBit(r, bit) <=> k \in t
    BY TakeBitIs
  <1> QED  BY <1>1 DEF Registers

LEMMA TakeBitLinear ==
    ASSUME NEW a \in Registers, NEW b \in Registers, NEW p \in Bit, NEW q \in Bit
    PROVE  /\ a ^^ b \in Registers /\ p ^^ q \in Bit
           /\ TakeBit(a ^^ b, p ^^ q) = TakeBit(a, p) ^^ TakeBit(b, q)
  <1>1. a ^^ b \in Registers
    BY RegisterXor
  <1>2. p ^^ q \in Bit
    <2>1. (p = {} \/ q = {} \/ p = q)
      BY DEF Bit
    <2>2. p ^^ {} = p /\ {} ^^ q = q /\ p ^^ p = {}
      BY XorLaws
    <2> QED  BY <2>1, <2>2 DEF Bit
  <1>3. TakeBit(a, p) ^^ TakeBit(b, q) \in Registers
    <2>1. TakeBit(a, p) \in Registers /\ TakeBit(b, q) \in Registers
      BY TakeBitIs
    <2> QED  BY <2>1, XorIn DEF Registers
  <1>4. ASSUME NEW k \in 0 .. 9
        PROVE  k \in TakeBit(a, p) ^^ TakeBit(b, q)
                   <=> ~(k - 1 \in a ^^ b \/ k \in p ^^ q <=> 9 \in a ^^ b /\ k \in poly)
    <2>1. k \in TakeBit(a, p) <=> ~(k - 1 \in a \/ k \in p <=> 9 \in a /\ k \in poly)
      BY TakeBitIs
    <2>2. k \in TakeBit(b, q) <=> ~(k - 1 \in b \/ k \in q <=> 9 \in b /\ k \in poly)
      BY TakeBitIs
    <2>3. k \in p \/ k \in q => k - 1 \notin a /\ k - 1 \notin b
      BY DEF Bit, Registers
    <2> QED  BY <2>1, <2>2, <2>3, XorIs
  <1> QED  BY <1>1, <1>2, <1>3, <1>4, TakeBitEquals

\* The register before a round can be told from the one after it, as poly has bit 0.
LEMMA TakeBitInjective ==
    ASSUME NEW a \in Registers, NEW b \in Registers, NEW p \in Bit,
           TakeBit(a, p) = TakeBit(b, p)
    PROVE  a = b
  <1>1. \A k \in 0 .. 9 : (~(k - 1 \in a \/ k \in p <=> 9 \in a /\ k \in poly))
                              <=> ~(k - 1 \in b \/ k \in p <=> 9 \in b /\ k \in poly)
    BY TakeBitIs
  <1>2. 0 \in poly /\ 0 \in 0 .. 9 /\ 0 - 1 \notin a /\ 0 - 1 \notin b
    BY DEF poly, Registers
  <1>3. 9 \in a <=> 9 \in b
    BY <1>1, <1>2
  <1>4. ASSUME NEW k \in 0 .. 8 PROVE k \in a <=> k \in b
    <2>1. k + 1 \in 0 .. 9 /\ (k + 1) - 1 = k /\ k + 1 \notin p
      BY DEF Bit
    <2> QED  BY <1>1, <1>3, <2>1
  <1>5. \A k \in 0 .. 9 : k = 9 \/ k \in 0 .. 8
    OBVIOUS
  <1>6. \A k \in 0 .. 9 : k \in a <=> k \in b
    BY <1>3, <1>4, <1>5
  <1> QED  BY <1>6 DEF Registers

-----------------------------------------------------------------------------
(* The second loop: ten rounds that take in zeros.                          *)

Next0(r) == TakeBit(r, {})
Ten(r) == Next0(Next0(Next0(Next0(Next0(Next0(Next0(Next0(Next0(Next0(r))))))))))

LEMMA Next0Is ==
    ASSUME NEW a \in Registers, NEW b \in Registers
    PROVE  /\ Next0(a) \in Registers
           /\ Next0(a ^^ b) = Next0(a) ^^ Next0(b)
           /\ Next0(a) = Next0(b) => a = b
  <1>1. {} \in Bit /\ {} ^^ {} = {}
    BY XorLaws DEF Bit
  <1>2. Next0(a) \in Registers
    BY <1>1, TakeBitIs DEF Next0
  <1>3. Next0(a ^^ b) = Next0(a) ^^ Next0(b)
    <2>1. TakeBit(a ^^ b, {} ^^ {}) = TakeBit(a, {}) ^^ TakeBit(b, {})
      BY <1>1, TakeBitLinear
    <2> QED  BY <1>1, <2>1 DEF Next0
  <1>4. Next0(a) = Next0(b) => a = b
    BY <1>1, TakeBitInjective DEF Next0
  <1> QED  BY <1>2, <1>3, <1>4

LEMMA TenIs ==
    ASSUME NEW a \in Registers, NEW b \in Registers
    PROVE  /\ Ten(a) \in Registers
           /\ Ten(a ^^ b) = Ten(a) ^^ Ten(b)
           /\ Ten(a) = Ten(b) => a = b
  <1>1. \A x, y \in Registers :
            /\ Next0(x) \in Registers
            /\ Next0(x ^^ y) = Next0(x) ^^ Next0(y)
            /\ Next0(x) = Next0(y) => x = y
    BY Next0Is
  <1> DEFINE Five(r) == Next0(Next0(Next0(Next0(Next0(r)))))
  <1>2. \A x, y \in Registers :
            /\ Five(x) \in Registers
            /\ Five(x ^^ y) = Five(x) ^^ Five(y)
            /\ Five(x) = Five(y) => x = y
    BY <1>1
  <1>3. Ten(a) = Five(Five(a)) /\ Ten(b) = Five(Five(b))
        /\ Ten(a ^^ b) = Five(Five(a ^^ b))
    BY DEF Ten
  <1> HIDE DEF Five
  <1> QED  BY <1>2, <1>3

LEMMA Next0Nonzero ==
    ASSUME NEW r \in Registers, r # {}
    PROVE  Next0(r) # {}
  <1>1. {} \in Registers /\ {} ^^ {} = {}
    BY XorLaws DEF Registers
  <1>2. Next0({}) = Next0({}) ^^ Next0({})
    BY <1>1, Next0Is
  <1>3. Next0({}) = {}
    BY <1>2, XorLaws
  <1>4. Next0(r) = Next0({}) => r = {}
    BY <1>1, Next0Is
  <1> QED  BY <1>3, <1>4

LEMMA TenNonzero ==
    ASSUME NEW r \in Registers, r # {}
    PROVE  Ten(r) # {}
  <1>1. \A x \in Registers : Next0(x) \in Registers /\ (x # {} => Next0(x) # {})
    BY Next0Is, Next0Nonzero
  <1> QED  BY <1>1 DEF Ten

\* The offset words and what the ten rounds make of them, round by round.
Next0Gives(r, t) ==
    \A k \in 0 .. 9 : k \in t <=> ~(k - 1 \in r <=> 9 \in r /\ k \in poly)

LEMMA Next0Equals ==
    ASSUME NEW r \in Registers, NEW t \in Registers, Next0Gives(r, t)
    PROVE  Next0(r) = t
  <1>1. {} \in Bit
    BY DEF Bit
  <1> QED  BY <1>1, TakeBitEquals DEF Next0, Next0Gives

LEMMA Syndrome0 == Ten(offset_word[0]) = syndrome[0]
  <1> DEFINE r0 == {2, 3, 4, 5, 6, 7}
             r1 == {3, 4, 5, 6, 7, 8}
             r2 == {4, 5, 6, 7, 8, 9}
             r3 == {0, 3, 4, 6, 9}
             r4 == {0, 1, 3, 8}
             r5 == {1, 2, 4, 9}
             r6 == {0, 2, 4, 7, 8}
             r7 == {1, 3, 5, 8, 9}
             r8 == {0, 2, 3, 5, 6, 7, 8, 9}
             r9 == {0, 1, 5, 6, 9}
             r10 == {0, 1, 2, 3, 4, 5, 6, 8}
  <1>1. /\ Next0Gives(r0, r1) /\ Next0Gives(r1, r2) /\ Next0Gives(r2, r3)
        /\ Next0Gives(r3, r4) /\ Next0Gives(r4, r5) /\ Next0Gives(r5, r6)
        /\ Next0Gives(r6, r7) /\ Next0Gives(r7, r8) /\ Next0Gives(r8, r9)
        /\ Next0Gives(r9, r10)
    BY DEF Next0Gives, poly
  <1>2. /\ r0 \in Registers /\ r1 \in Registers /\ r2 \in Registers /\ r3 \in Registers
        /\ r4 \in Registers /\ r5 \in Registers /\ r6 \in Registers /\ r7 \in Registers
        /\ r8 \in Registers /\ r9 \in Registers /\ r10 \in Registers
    BY DEF Registers
  <1>3. offset_word[0] = r0 /\ syndrome[0] = r10
    BY DEF offset_word, syndrome, Offsets, CTag
  <1> HIDE DEF r0, r1, r2, r3, r4, r5, r6, r7, r8, r9, r10
  <1>4. /\ Next0(r0) = r1 /\ Next0(r1) = r2 /\ Next0(r2) = r3 /\ Next0(r3) = r4
        /\ Next0(r4) = r5 /\ Next0(r5) = r6 /\ Next0(r6) = r7 /\ Next0(r7) = r8
        /\ Next0(r8) = r9 /\ Next0(r9) = r10
    BY <1>1, <1>2, Next0Equals
  <1> QED  BY <1>3, <1>4 DEF Ten

LEMMA Syndrome1 == Ten(offset_word[1]) = syndrome[1]
  <1> DEFINE r0 == {3, 4, 7, 8}
             r1 == {4, 5, 8, 9}
             r2 == {0, 3, 4, 6, 7, 8, 9}
             r3 == {0, 1, 3, 9}
             r4 == {0, 1, 2, 3, 5, 7, 8}
             r5 == {1, 2, 3, 4, 6, 8, 9}
             r6 == {0, 2, 8, 9}
             r7 == {0, 1, 4, 5, 7, 8, 9}
             r8 == {0, 1, 2, 3, 4, 6, 7, 9}
             r9 == {0, 1, 2}
             r10 == {1, 2, 3}
  <1>1. /\ Next0Gives(r0, r1) /\ Next0Gives(r1, r2) /\ Next0Gives(r2, r3)
        /\ Next0Gives(r3, r4) /\ Next0Gives(r4, r5) /\ Next0Gives(r5, r6)
        /\ Next0Gives(r6, r7) /\ Next0Gives(r7, r8) /\ Next0Gives(r8, r9)
        /\ Next0Gives(r9, r10)
    BY DEF Next0Gives, poly
  <1>2. /\ r0 \in Registers /\ r1 \in Registers /\ r2 \in Registers /\ r3 \in Registers
        /\ r4 \in Registers /\ r5 \in Registers /\ r6 \in Registers /\ r7 \in Registers
        /\ r8 \in Registers /\ r9 \in Registers /\ r10 \in Registers
    BY DEF Registers
  <1>3. offset_word[1] = r0 /\ syndrome[1] = r10
    BY DEF offset_word, syndrome, Offsets, CTag
  <1> HIDE DEF r0, r1, r2, r3, r4, r5, r6, r7, r8, r9, r10
  <1>4. /\ Next0(r0) = r1 /\ Next0(r1) = r2 /\ Next0(r2) = r3 /\ Next0(r3) = r4
        /\ Next0(r4) = r5 /\ Next0(r5) = r6 /\ Next0(r6) = r7 /\ Next0(r7) = r8
        /\ Next0(r8) = r9 /\ Next0(r9) = r10
    BY <1>1, <1>2, Next0Equals
  <1> QED  BY <1>3, <1>4 DEF Ten

LEMMA Syndrome2 == Ten(offset_word[2]) = syndrome[2]
  <1> DEFINE r0 == {3, 5, 6, 8}
             r1 == {4, 6, 7, 9}
             r2 == {0, 3, 4}
             r3 == {1, 4, 5}
             r4 == {2, 5, 6}
             r5 == {3, 6, 7}
             r6 == {4, 7, 8}
             r7 == {5, 8, 9}
             r8 == {0, 3, 4, 5, 6, 7, 8, 9}
             r9 == {0, 1, 3, 6, 9}
             r10 == {0, 1, 2, 3, 5, 8}
  <1>1. /\ Next0Gives(r0, r1) /\ Next0Gives(r1, r2) /\ Next0Gives(r2, r3)
        /\ Next0Gives(r3, r4) /\ Next0Gives(r4, r5) /\ Next0Gives(r5, r6)
        /\ Next0Gives(r6, r7) /\ Next0Gives(r7, r8) /\ Next0Gives(r8, r9)
        /\ Next0Gives(r9, r10)
    BY DEF Next0Gives, poly
  <1>2. /\ r0 \in Registers /\ r1 \in Registers /\ r2 \in Registers /\ r3 \in Registers
        /\ r4 \in Registers /\ r5 \in Registers /\ r6 \in Registers /\ r7 \in Registers
        /\ r8 \in Registers /\ r9 \in Registers /\ r10 \in Registers
    BY DEF Registers
  <1>3. offset_word[2] = r0 /\ syndrome[2] = r10
    BY DEF offset_word, syndrome, Offsets, CTag
  <1> HIDE DEF r0, r1, r2, r3, r4, r5, r6, r7, r8, r9, r10
  <1>4. /\ Next0(r0) = r1 /\ Next0(r1) = r2 /\ Next0(r2) = r3 /\ Next0(r3) = r4
        /\ Next0(r4) = r5 /\ Next0(r5) = r6 /\ Next0(r6) = r7 /\ Next0(r7) = r8
        /\ Next0(r8) = r9 /\ Next0(r9) = r10
    BY <1>1, <1>2, Next0Equals
  <1> QED  BY <1>3, <1>4 DEF Ten

LEMMA Syndrome3 == Ten(offset_word[3]) = syndrome[3]
  <1> DEFINE r0 == {2, 4, 5, 7, 8}
             r1 == {3, 5, 6, 8, 9}
             r2 == {0, 3, 5, 6, 8, 9}
             r3 == {0, 1, 3, 5, 6, 8, 9}
             r4 == {0, 1, 2, 3, 5, 6, 8, 9}
             r5 == {0, 1, 2, 5, 6, 8, 9}
             r6 == {0, 1, 2, 4, 5, 6, 8, 9}
             r7 == {0, 1, 2, 4, 6, 8, 9}
             r8 == {0, 1, 2, 4, 8, 9}
             r9 == {0, 1, 2, 4, 7, 8, 9}
             r10 == {0, 1, 2, 4, 7, 9}
  <1>1. /\ Next0Gives(r0, r1) /\ Next0Gives(r1, r2) /\ Next0Gives(r2, r3)
        /\ Next0Gives(r3, r4) /\ Next0Gives(r4, r5) /\ Next0Gives(r5, r6)
        /\ Next0Gives(r6, r7) /\ Next0Gives(r7, r8) /\ Next0Gives(r8, r9)
        /\ Next0Gives(r9, r10)
    BY DEF Next0Gives, poly
  <1>2. /\ r0 \in Registers /\ r1 \in Registers /\ r2 \in Registers /\ r3 \in Registers
        /\ r4 \in Registers /\ r5 \in Registers /\ r6 \in Registers /\ r7 \in Registers
        /\ r8 \in Registers /\ r9 \in Registers /\ r10 \in Registers
    BY DEF Registers
  <1>3. offset_word[3] = r0 /\ syndrome[3] = r10
    BY DEF offset_word, syndrome, Offsets, CTag
  <1> HIDE DEF r0, r1, r2, r3, r4, r5, r6, r7, r8, r9, r10
  <1>4. /\ Next0(r0) = r1 /\ Next0(r1) = r2 /\ Next0(r2) = r3 /\ Next0(r3) = r4
        /\ Next0(r4) = r5 /\ Next0(r5) = r6 /\ Next0(r6) = r7 /\ Next0(r7) = r8
        /\ Next0(r8) = r9 /\ Next0(r9) = r10
    BY <1>1, <1>2, Next0Equals
  <1> QED  BY <1>3, <1>4 DEF Ten

LEMMA Syndrome4 == Ten(offset_word[4]) = syndrome[4]
  <1> DEFINE r0 == {4, 6, 8, 9}
             r1 == {0, 3, 4, 8, 9}
             r2 == {0, 1, 3, 7, 8, 9}
             r3 == {0, 1, 2, 3, 5, 7, 9}
             r4 == {0, 1, 2, 5, 6, 7}
             r5 == {1, 2, 3, 6, 7, 8}
             r6 == {2, 3, 4, 7, 8, 9}
             r7 == {0, 7, 9}
             r8 == {0, 1, 3, 4, 5, 7}
             r9 == {1, 2, 4, 5, 6, 8}
             r10 == {2, 3, 5, 6, 7, 9}
  <1>1. /\ Next0Gives(r0, r1) /\ Next0Gives(r1, r2) /\ Next0Gives(r2, r3)
        /\ Next0Gives(r3, r4) /\ Next0Gives(r4, r5) /\ Next0Gives(r5, r6)
        /\ Next0Gives(r6, r7) /\ Next0Gives(r7, r8) /\ Next0Gives(r8, r9)
        /\ Next0Gives(r9, r10)
    BY DEF Next0Gives, poly
  <1>2. /\ r0 \in Registers /\ r1 \in Registers /\ r2 \in Registers /\ r3 \in Registers
        /\ r4 \in Registers /\ r5 \in Registers /\ r6 \in Registers /\ r7 \in Registers
        /\ r8 \in Registers /\ r9 \in Registers /\ r10 \in Registers
    BY DEF Registers
  <1>3. offset_word[4] = r0 /\ syndrome[4] = r10
    BY DEF offset_word, syndrome, Offsets, CTag
  <1> HIDE DEF r0, r1, r2, r3, r4, r5, r6, r7, r8, r9, r10
  <1>4. /\ Next0(r0) = r1 /\ Next0(r1) = r2 /\ Next0(r2) = r3 /\ Next0(r3) = r4
        /\ Next0(r4) = r5 /\ Next0(r5) = r6 /\ Next0(r6) = r7 /\ Next0(r7) = r8
        /\ Next0(r8) = r9 /\ Next0(r9) = r10
    BY <1>1, <1>2, Next0Equals
  <1> QED  BY <1>3, <1>4 DEF Ten

LEMMA SyndromesAre ==
    \A j \in Offsets : /\ offset_word[j] \in Registers
                       /\ Ten(offset_word[j]) = syndrome[j]
  <1>1. \A j \in Offsets : j = 0 \/ j = 1 \/ j = 2 \/ j = 3 \/ j = 4
    BY DEF Offsets
  <1>2. \A j \in Offsets : offset_word[j] \in Registers
    BY <1>1 DEF offset_word, Registers, CTag
  <1> QED  BY <1>1, <1>2, Syndrome0, Syndrome1, Syndrome2, Syndrome3, Syndrome4

LEMMA OffsetWordsDiffer ==
    \A i, j \in Offsets : offset_word[i] = offset_word[j] => i = j
  <1>1. \A j \in Offsets : j = 0 \/ j = 1 \/ j = 2 \/ j = 3 \/ j = 4
    BY DEF Offsets
  <1>2. \A j \in Offsets : /\ 2 \in offset_word[j] <=> j = 0 \/ j = 3
                           /\ 3 \in offset_word[j] <=> j = 0 \/ j = 1 \/ j = 2
                           /\ 9 \in offset_word[j] <=> j = 4
                           /\ 4 \in offset_word[j] <=> j # 2
    BY <1>1 DEF offset_word, CTag
  <1> QED  BY <1>1, <1>2

LEMMA SyndromesDiffer ==
    \A i, j \in Offsets : syndrome[i] = syndrome[j] => i = j
  <1>1. ASSUME NEW i \in Offsets, NEW j \in Offsets, syndrome[i] = syndrome[j]
        PROVE  offset_word[i] = offset_word[j]
    BY <1>1, SyndromesAre, TenIs
  <1> QED  BY <1>1, OffsetWordsDiffer

-----------------------------------------------------------------------------
(* All rounds.                                                              *)

BitAt(message, k) == IF k \in message THEN {0} ELSE {}

LEMMA BitAtIs ==
    ASSUME NEW m, NEW l, NEW k
    PROVE  BitAt(m, k) \in Bit /\ BitAt(m ^^ l, k) = BitAt(m, k) ^^ BitAt(l, k)
  <1>1. BitAt(m, k) \in Bit
    BY DEF BitAt, Bit
  <1>2. {0} ^^ {} = {0} /\ {} ^^ {0} = {0} /\ {0} ^^ {0} = {} /\ {} ^^ {} = {}
    BY XorLaws
  <1>3. BitAt(m ^^ l, k) = BitAt(m, k) ^^ BitAt(l, k)
    BY <1>2, XorIs DEF BitAt
  <1> QED  BY <1>1, <1>3

\* The recursion of TakeBits is one.
LEMMA TakeBitsIs ==
    ASSUME NEW m, NEW L \in Nat
    PROVE  /\ TakeBits(m, L)[0] = {}
           /\ \A n \in 1 .. L + 10 :
                  TakeBits(m, L)[n] = TakeBit(TakeBits(m, L)[n - 1], BitAt(m, L - n))
           /\ \A n \in 0 .. L + 10 : TakeBits(m, L)[n] \in Registers
  <1> DEFINE N == L + 10
             none == {}
             step == [n \in 1 .. N |-> [r \in Registers |-> TakeBit(r, BitAt(m, L - n))]]
             Eq(f) == f = [n \in 0 .. N |-> IF n = 0 THEN none
                                            ELSE TakeBit(f[n - 1], BitAt(m, L - n))]
             taken == CHOOSE f : Eq(f)
  <1>1. N \in Nat
    OBVIOUS
  <1>2. none \in Registers /\ step \in [1 .. N -> [Registers -> Registers]]
    BY BitAtIs, TakeBitIs DEF Registers
  <1>3. \A n \in 1 .. N, r \in Registers : step[n][r] = TakeBit(r, BitAt(m, L - n))
    OBVIOUS
  <1>4. TakeBits(m, L) = taken
    BY Zenon DEF TakeBits, BitAt, plen
  <1> HIDE DEF step, N, none
  <1>5. PICK f \in [0 .. N -> Registers] :
            \A n \in 0 .. N : f[n] = IF n = 0 THEN none ELSE step[n][f[n - 1]]
    <2>1. Recurses(Registers, none, N, step)
      BY <1>1, <1>2, RecursionExists
    <2> QED  BY <2>1 DEF Recurses
  <1>6. Eq(f)
    <2>1. ASSUME NEW n \in 0 .. N
          PROVE  f[n] = IF n = 0 THEN none ELSE TakeBit(f[n - 1], BitAt(m, L - n))
      <3>1. CASE n # 0
        <4>1. n \in 1 .. N /\ f[n - 1] \in Registers
          BY <1>1, <3>1
        <4> QED  BY <1>3, <1>5, <3>1, <4>1
      <3> QED  BY <1>5, <3>1
    <2> QED  BY <2>1
  <1>7. Eq(taken)
    <2>1. \E g : Eq(g)
      BY <1>6
    <2> HIDE DEF Eq
    <2> QED  BY <2>1, Zenon
  <1> HIDE DEF taken
  <1>8. taken[0] = none
    BY <1>1, <1>7
  <1>9. \A n \in 1 .. N : taken[n] = TakeBit(taken[n - 1], BitAt(m, L - n))
    BY <1>1, <1>7
  <1>10. \A n \in 0 .. N : taken[n] \in Registers
    <2> DEFINE Good == {n \in 0 .. N : taken[n] \in Registers}
    <2>1. 0 \in Good
      BY <1>1, <1>2, <1>8
    <2>2. ASSUME NEW n \in 1 .. N, n - 1 \in Good PROVE n \in Good
      <3>1. taken[n] = TakeBit(taken[n - 1], BitAt(m, L - n))
        BY <1>9
      <3> QED  BY <1>1, <2>2, <3>1, BitAtIs, TakeBitIs
    <2> HIDE DEF Good
    <2>3. 0 .. N \subseteq Good
      BY <1>1, <2>1, <2>2, UpTo
    <2> QED  BY <2>3 DEF Good
  <1> QED  BY <1>4, <1>8, <1>9, <1>10 DEF N, none

LEMMA TakeBitsLinear ==
    ASSUME NEW a, NEW b, NEW L \in Nat, NEW n \in 0 .. L + 10
    PROVE  TakeBits(a ^^ b, L)[n] = TakeBits(a, L)[n] ^^ TakeBits(b, L)[n]
  <1> DEFINE Added(k) == TakeBits(a ^^ b, L)[k] = TakeBits(a, L)[k] ^^ TakeBits(b, L)[k]
             Good == {k \in 0 .. L + 10 : Added(k)}
  <1>1. Added(0)
    <2>1. TakeBits(a, L)[0] = {} /\ TakeBits(b, L)[0] = {} /\ TakeBits(a ^^ b, L)[0] = {}
      BY TakeBitsIs
    <2>2. {} ^^ {} = {}
      BY XorLaws
    <2> QED  BY <2>1, <2>2
  <1>2. ASSUME NEW k \in 1 .. L + 10, Added(k - 1) PROVE Added(k)
    <2>1. k - 1 \in 0 .. L + 10
      OBVIOUS
    <2> PICK s, t, p, q : /\ s = TakeBits(a, L)[k - 1] /\ t = TakeBits(b, L)[k - 1]
                          /\ p = BitAt(a, L - k) /\ q = BitAt(b, L - k)
      OBVIOUS
    <2>2. s \in Registers /\ t \in Registers /\ p \in Bit /\ q \in Bit
      BY <2>1, TakeBitsIs, BitAtIs
    <2>3. TakeBits(a ^^ b, L)[k] = TakeBit(s ^^ t, p ^^ q)
      BY <1>2, TakeBitsIs, BitAtIs
    <2>4. TakeBits(a, L)[k] = TakeBit(s, p) /\ TakeBits(b, L)[k] = TakeBit(t, q)
      BY TakeBitsIs
    <2>5. TakeBit(s ^^ t, p ^^ q) = TakeBit(s, p) ^^ TakeBit(t, q)
      BY ONLY <2>2, TakeBitLinear
    <2> QED  BY <2>3, <2>4, <2>5
  <1> HIDE DEF Added
  <1>3. 0 \in Good /\ \A k \in 1 .. L + 10 : k - 1 \in Good => k \in Good
    BY <1>1, <1>2
  <1> HIDE DEF Good
  <1>4. 0 .. L + 10 \subseteq Good
    BY <1>3, UpTo
  <1> QED  BY <1>4 DEF Good, Added

\* As long as the bits that came in fit into the register, they are what is in it.
FitsFrom(m, low, L) == \A k \in m : low <= k /\ k < low + 10 /\ k < L

LEMMA Unreduced ==
    ASSUME NEW L \in Nat, NEW low \in Nat, NEW m \in SUBSET Nat, FitsFrom(m, low, L),
           NEW n \in Nat, n + low <= L
    PROVE  TakeBits(m, L)[n] = {k \in 0 .. 9 : k + (L - n) \in m}
  <1>0. \A k \in m : low <= k /\ k < low + 10 /\ k < L
    BY DEF FitsFrom
  <1> DEFINE In(i) == {k \in 0 .. 9 : k + (L - i) \in m}
             Holds(i) == TakeBits(m, L)[i] = In(i)
             Good == {i \in 0 .. n : Holds(i)}
  <1>1. Holds(0)
    <2>1. In(0) = {}
      BY <1>0
    <2> QED  BY <2>1, TakeBitsIs
  <1>2. ASSUME NEW i \in 1 .. n, Holds(i - 1) PROVE Holds(i)
    <2>0. i \in 1 .. L + 10
      OBVIOUS
    <2>1. TakeBits(m, L)[i] = TakeBit(In(i - 1), BitAt(m, L - i))
      <3>1. TakeBits(m, L)[i] = TakeBit(TakeBits(m, L)[i - 1], BitAt(m, L - i))
        BY <2>0, TakeBitsIs
      <3> HIDE DEF In
      <3> QED  BY <1>2, <3>1
    <2>2. In(i - 1) \in Registers /\ In(i) \in Registers /\ BitAt(m, L - i) \in Bit
      BY BitAtIs DEF Registers
    <2>3. 9 \notin In(i - 1)
      BY <1>0
    <2>4. ASSUME NEW k \in 0 .. 9
          PROVE  k \in In(i) <=> k - 1 \in In(i - 1) \/ k \in BitAt(m, L - i)
      <3>1. CASE k = 0
        BY <3>1 DEF BitAt
      <3>2. CASE k # 0
        <4>1. k - 1 \in 0 .. 9 /\ (k - 1) + (L - (i - 1)) = k + (L - i)
          BY <3>2
        <4>2. k \notin BitAt(m, L - i)
          BY <3>2 DEF BitAt
        <4> QED  BY <4>1, <4>2
      <3> QED  BY <3>1, <3>2
    <2> HIDE DEF In
    <2>5. TakeBit(In(i - 1), BitAt(m, L - i)) = In(i)
      BY <2>2, <2>3, <2>4, TakeBitEquals
    <2> QED  BY <2>1, <2>5
  <1> HIDE DEF Holds
  <1>3. 0 \in Good /\ \A i \in 1 .. n : i - 1 \in Good => i \in Good
    BY <1>1, <1>2
  <1> HIDE DEF Good
  <1>4. 0 .. n \subseteq Good
    BY <1>3, UpTo
  <1> QED  BY <1>4 DEF Good, Holds

-----------------------------------------------------------------------------
(* The syndrome and the blocks.                                             *)

Words16 == SUBSET (0 .. 15)
Blocks26 == SUBSET (0 .. 25)

LEMMA CalcSyndromeIs ==
    ASSUME NEW m \in SUBSET Nat, NEW L \in Nat
    PROVE  /\ calc_syndrome(m, L) = Ten(TakeBits(m, L)[L])
           /\ calc_syndrome(m, L) \in Registers
  <1> DEFINE R(n) == TakeBits(m, L)[n]
  <1>1. ASSUME NEW n \in L + 1 .. L + 10 PROVE R(n) = Next0(R(n - 1))
    <2>1. n \in 1 .. L + 10 /\ L - n < 0 /\ L - n \in Int
      OBVIOUS
    <2>2. L - n \notin m
      BY <2>1
    <2>3. BitAt(m, L - n) = {}
      BY <2>2 DEF BitAt
    <2>4. TakeBits(m, L)[n] = TakeBit(TakeBits(m, L)[n - 1], BitAt(m, L - n))
      BY <2>1, TakeBitsIs
    <2> QED  BY <2>3, <2>4 DEF Next0
  <1>2. R(L + 10) \in Registers
    BY TakeBitsIs
  <1>3. calc_syndrome(m, L) = R(L + 10)
    <2>1. R(L + 10) \cap (0 .. 9) = R(L + 10)
      BY <1>2 DEF Registers
    <2> QED  BY <2>1 DEF calc_syndrome, plen
  <1> HIDE DEF R
  <1>4. /\ R(L + 1) = Next0(R(L)) /\ R(L + 2) = Next0(R(L + 1))
        /\ R(L + 3) = Next0(R(L + 2)) /\ R(L + 4) = Next0(R(L + 3))
        /\ R(L + 5) = Next0(R(L + 4)) /\ R(L + 6) = Next0(R(L + 5))
        /\ R(L + 7) = Next0(R(L + 6)) /\ R(L + 8) = Next0(R(L + 7))
        /\ R(L + 9) = Next0(R(L + 8)) /\ R(L + 10) = Next0(R(L + 9))
    <2>1. \A n \in 1 .. 10 : R(L + n) = Next0(R(L + n - 1))
      BY <1>1
    <2> QED  BY <2>1
  <1>5. R(L + 10) = Ten(R(L))
    BY <1>4 DEF Ten
  <1> QED  BY <1>2, <1>3, <1>5 DEF R

LEMMA CalcSyndromeLinear ==
    ASSUME NEW a \in SUBSET Nat, NEW b \in SUBSET Nat, NEW L \in Nat
    PROVE  calc_syndrome(a ^^ b, L) = calc_syndrome(a, L) ^^ calc_syndrome(b, L)
  <1>1. a ^^ b \in SUBSET Nat
    BY XorIn
  <1>2. L \in 0 .. L + 10
    OBVIOUS
  <1>3. TakeBits(a ^^ b, L)[L] = TakeBits(a, L)[L] ^^ TakeBits(b, L)[L]
    BY <1>2, TakeBitsLinear
  <1>4. TakeBits(a, L)[L] \in Registers /\ TakeBits(b, L)[L] \in Registers
    BY <1>2, TakeBitsIs
  <1> QED  BY <1>1, <1>3, <1>4, TenIs, CalcSyndromeIs

\* The fields of a block.
LEMMA FieldsAre ==
    ASSUME NEW r \in Blocks26
    PROVE  /\ dataword(r) \in Words16 /\ checkword(r) \in Registers
           /\ dataword(r) \in SUBSET Nat /\ r \in SUBSET Nat
           /\ r = Shift(dataword(r), 10) ^^ checkword(r)
  <1>1. dataword(r) \in Words16 /\ checkword(r) \in Registers
    BY DEF dataword, checkword, Words16, Registers, plen
  <1>2. dataword(r) \in SUBSET Nat /\ dataword(r) \in SUBSET Int /\ r \in SUBSET Nat
    BY DEF dataword, Blocks26
  <1>3. ASSUME NEW k \in Int
        PROVE  k \in r <=> k \in Shift(dataword(r), 10) ^^ checkword(r)
    <2>1. k \in Shift(dataword(r), 10) <=> k - 10 \in dataword(r)
      BY <1>2, ShiftIs
    <2>2. k - 10 \in dataword(r) <=> k >= 10 /\ k \in r
      <3>1. k - 10 \in dataword(r) <=> k - 10 \in 0 .. 15 /\ (k - 10) + 10 \in r
        BY DEF dataword, plen
      <3>2. (k - 10) + 10 = k
        OBVIOUS
      <3>3. k \in r => k <= 25
        BY DEF Blocks26
      <3> QED  BY <3>1, <3>2, <3>3
    <2>3. k \in checkword(r) <=> k < 10 /\ k \in r
      <3>1. k \in checkword(r) <=> k \in r /\ k \in 0 .. 9
        BY DEF checkword, plen
      <3>2. k \in r => k >= 0
        BY DEF Blocks26
      <3> QED  BY <3>1, <3>2
    <2> QED  BY <2>1, <2>2, <2>3, XorIs
  <1>4. Shift(dataword(r), 10) ^^ checkword(r) \in SUBSET Int
    <2>1. Shift(dataword(r), 10) \in SUBSET Int /\ checkword(r) \in SUBSET Int
      BY <1>1, <1>2, ShiftNumbers DEF Registers
    <2> QED  BY <2>1, XorIn
  <1>5. r = Shift(dataword(r), 10) ^^ checkword(r)
    <2> PICK x : x = Shift(dataword(r), 10) ^^ checkword(r)
      OBVIOUS
    <2>1. x \in SUBSET Int /\ r \in SUBSET Int /\ \A k \in Int : k \in r <=> k \in x
      BY <1>2, <1>3, <1>4
    <2>2. r = x
      BY ONLY <2>1
    <2> QED  BY <2>2
  <1> QED  BY <1>1, <1>2, <1>5

\* The data word passes through the register as if the check word were zeros.
LEMMA DataPasses ==
    ASSUME NEW d \in Words16
    PROVE  TakeBits(Shift(d, 10), 26)[26] = calc_syndrome(d, 16)
  <1> DEFINE Same(n) == TakeBits(Shift(d, 10), 26)[n] = TakeBits(d, 16)[n]
             Good == {n \in 0 .. 26 : Same(n)}
  <1>1. Same(0)
    BY TakeBitsIs
  <1>2. ASSUME NEW n \in 1 .. 26, Same(n - 1) PROVE Same(n)
    <2>1. 26 - n \in Shift(d, 10) <=> 16 - n \in d
      <3>1. d \in SUBSET Int /\ (26 - n) - 10 = 16 - n
        BY DEF Words16
      <3> QED  BY <3>1, ShiftIs
    <2>2. BitAt(Shift(d, 10), 26 - n) = BitAt(d, 16 - n)
      BY <2>1 DEF BitAt
    <2>3. n \in 1 .. 26 + 10 /\ n \in 1 .. 16 + 10
      OBVIOUS
    <2> QED  BY <1>2, <2>2, <2>3, TakeBitsIs
  <1> HIDE DEF Same
  <1>3. 0 \in Good /\ \A n \in 1 .. 26 : n - 1 \in Good => n \in Good
    BY <1>1, <1>2
  <1> HIDE DEF Good
  <1>4. 0 .. 26 \subseteq Good
    BY <1>3, UpTo
  <1>5. TakeBits(Shift(d, 10), 26)[26] = TakeBits(d, 16)[16 + 10]
    BY <1>4 DEF Good, Same
  <1>6. TakeBits(d, 16)[16 + 10] \cap (0 .. 9) = TakeBits(d, 16)[16 + 10]
    <2>1. TakeBits(d, 16)[16 + 10] \in Registers
      BY TakeBitsIs
    <2> QED  BY <2>1 DEF Registers
  <1> QED  BY <1>5, <1>6 DEF calc_syndrome, plen

\* The syndrome of a block is that of the difference between the check word that
\* was received and the one that is computed from the data.
LEMMA SyndromeOfBlock ==
    ASSUME NEW r \in Blocks26
    PROVE  calc_syndrome(r, 26) = Ten(calc_syndrome(dataword(r), 16) ^^ checkword(r))
  <1> DEFINE d == dataword(r)
             c == checkword(r)
  <1>1. d \in Words16 /\ c \in Registers /\ r \in SUBSET Nat /\ r = Shift(d, 10) ^^ c
    BY FieldsAre
  <1> HIDE DEF d, c
  <1>2. TakeBits(c, 26)[26] = c
    <2>1. c \in SUBSET Nat /\ FitsFrom(c, 0, 26)
      BY <1>1 DEF Registers, FitsFrom
    <2>2. TakeBits(c, 26)[26] = {k \in 0 .. 9 : k + (26 - 26) \in c}
      BY <2>1, Unreduced
    <2>3. {k \in 0 .. 9 : k + (26 - 26) \in c} = {k \in 0 .. 9 : k \in c}
      OBVIOUS
    <2>4. {k \in 0 .. 9 : k \in c} = c
      BY <1>1 DEF Registers
    <2> QED  BY <2>2, <2>3, <2>4
  <1>3. TakeBits(r, 26)[26] = TakeBits(Shift(d, 10), 26)[26] ^^ TakeBits(c, 26)[26]
    <2>1. 26 \in 0 .. 26 + 10 /\ 26 \in Nat
      OBVIOUS
    <2>2. TakeBits(Shift(d, 10) ^^ c, 26)[26]
              = TakeBits(Shift(d, 10), 26)[26] ^^ TakeBits(c, 26)[26]
      BY ONLY <2>1, TakeBitsLinear
    <2> QED  BY <1>1, <2>2
  <1>4. TakeBits(r, 26)[26] = calc_syndrome(d, 16) ^^ c
    BY <1>1, <1>2, <1>3, DataPasses
  <1> QED  BY <1>1, <1>4, CalcSyndromeIs DEF d, c

LEMMA TestsAreOne ==
    ASSUME NEW r \in Blocks26
    PROVE  Shown(r) = Received(r)
  <1> DEFINE c == checkword(r)
             crc == calc_syndrome(dataword(r), 16)
  <1>1. c \in Registers /\ crc \in Registers
    BY FieldsAre, CalcSyndromeIs
  <1>2. calc_syndrome(r, 26) = Ten(crc ^^ c)
    BY SyndromeOfBlock
  <1>3. Shown(r) = {j \in Offsets : Ten(crc ^^ c) = syndrome[j]}
    BY <1>2 DEF Shown
  <1>4. Received(r) = {j \in Offsets : c ^^ offset_word[j] = crc}
    BY DEF Received
  <1> HIDE DEF c, crc
  <1>5. ASSUME NEW j \in Offsets
        PROVE  Ten(crc ^^ c) = syndrome[j] <=> c ^^ offset_word[j] = crc
    <2> PICK o : o = offset_word[j]
      OBVIOUS
    <2>1. o \in Registers /\ syndrome[j] = Ten(o)
      BY SyndromesAre
    <2>2. crc ^^ c \in Registers
      BY <1>1, XorIn DEF Registers
    <2>3. Ten(crc ^^ c) = Ten(o) <=> crc ^^ c = o
      BY <2>1, <2>2, TenIs
    <2>4. crc ^^ c = o <=> c ^^ o = crc
      <3>1. c ^^ (c ^^ crc) = crc /\ c ^^ crc = crc ^^ c
        BY XorLaws
      <3>2. c ^^ (c ^^ o) = o /\ c ^^ (c ^^ o) = (c ^^ o) ^^ c
        BY XorLaws
      <3> QED  BY <3>1, <3>2
    <2> QED  BY <2>1, <2>3, <2>4
  <1> QED  BY <1>3, <1>4, <1>5

\* A block as it is sent.
LEMMA BlockIs ==
    ASSUME NEW word \in Words16, NEW j \in Offsets
    PROVE  /\ block(word, j) \in Blocks26
           /\ dataword(block(word, j)) = word
           /\ checkword(block(word, j)) = calc_syndrome(word, 16) ^^ offset_word[j]
           /\ calc_syndrome(block(word, j), 26) = syndrome[j]
  <1> DEFINE crc == calc_syndrome(word, 16)
             c == crc ^^ offset_word[j]
             b == block(word, j)
  <1>1. word \in SUBSET Nat /\ word \in SUBSET Int
    BY DEF Words16
  <1>2. crc \in Registers /\ offset_word[j] \in Registers
    BY <1>1, CalcSyndromeIs, SyndromesAre
  <1>3. c \in Registers
    <2> HIDE DEF crc
    <2> QED  BY <1>2, RegisterXor
  <1>4. b = Shift(word, 10) \cup c
    BY DEF block, plen
  <1> HIDE DEF b, c, crc
  <1>5. \A k \in Int : k \in b <=> k - 10 \in word \/ k \in c
    BY <1>1, <1>4, ShiftIs
  <1>6. b \in Blocks26
    <2>1. b \in SUBSET Int
      <3>1. Shift(word, 10) \in SUBSET Int
        BY <1>1, ShiftNumbers
      <3>2. c \in SUBSET Int
        BY <1>3 DEF Registers
      <3> QED  BY <1>4, <3>1, <3>2
    <2>2. ASSUME NEW k \in b PROVE k >= 0 /\ k <= 25
      BY <1>3, <1>5, <2>1 DEF Registers, Words16
    <2> QED  BY <2>1, <2>2 DEF Blocks26
  <1>7. dataword(b) = word
    <2>1. ASSUME NEW k \in 0 .. 15 PROVE k + 10 \in b <=> k \in word
      <3>1. (k + 10) - 10 = k /\ k + 10 \in Int /\ k + 10 \notin c
        BY <1>3 DEF Registers
      <3> QED  BY <1>5, <3>1
    <2> QED  BY <2>1 DEF dataword, plen, Words16
  <1>8. checkword(b) = c
    <2>1. \A k \in 0 .. 9 : k - 10 \notin word
      BY DEF Words16
    <2>2. \A k \in 0 .. 9 : k \in b <=> k \in c
      BY <1>5, <2>1
    <2>3. checkword(b) = b \cap (0 .. 9)
      BY DEF checkword, plen
    <2> QED  BY <1>3, <2>2, <2>3 DEF Registers
  <1>9. calc_syndrome(b, 26) = syndrome[j]
    <2>1. calc_syndrome(b, 26) = Ten(crc ^^ c)
      BY <1>6, <1>7, <1>8, SyndromeOfBlock DEF crc
    <2>2. crc ^^ c = offset_word[j]
      <3>1. \A x, y : x ^^ (x ^^ y) = y
        BY XorLaws
      <3> QED  BY <3>1 DEF c
    <2> QED  BY <2>1, <2>2, SyndromesAre
  <1> QED  BY <1>6, <1>7, <1>8, <1>9 DEF b, c, crc

LEMMA LowestBit ==
    ASSUME NEW m \in SUBSET Nat, NEW low \in 0 .. 25, low \in m, FitsFrom(m, low, 26)
    PROVE  0 \in TakeBits(m, 26)[26 - low]
  <1> PICK n : n = 26 - low
    OBVIOUS
  <1>1. 26 \in Nat /\ low \in Nat /\ n \in Nat /\ n + low <= 26
    OBVIOUS
  <1>2. TakeBits(m, 26)[n] = {k \in 0 .. 9 : k + (26 - n) \in m}
    BY <1>1, Unreduced
  <1>3. 0 \in 0 .. 9 /\ 0 + (26 - n) = low
    OBVIOUS
  <1> QED  BY <1>2, <1>3

\* A short burst has a syndrome: when its last bit comes in nothing has been reduced
\* yet, and from then on no round makes the register zero.
LEMMA BurstShows ==
    ASSUME NEW burst \in Bursts
    PROVE  burst \in Blocks26 /\ calc_syndrome(burst, 26) # {}
  <1>1. burst \in Blocks26
    BY DEF Bursts, Blocks26
  <1>2. PICK inner \in SUBSET (1 .. MaxSpan - 1), at \in 0 .. 25 :
            burst = Shift({0} \cup inner, at)
    BY DEF Bursts
  <1>3. MaxSpan \in Int /\ MaxSpan <= 5
    BY CrcAssumption
  <1>4. {0} \cup inner \in SUBSET Int /\ \A k \in {0} \cup inner : 0 <= k /\ k < 10
    BY <1>3
  <1>5. burst \in SUBSET Nat /\ \A k \in burst : at <= k /\ k < at + 10 /\ k < 26
    <2>1. burst \in SUBSET Int /\ burst \in SUBSET Nat /\ \A k \in burst : k <= 25
      BY <1>1 DEF Blocks26
    <2>2. ASSUME NEW k \in burst PROVE at <= k /\ k < at + 10
      <3>1. k \in Int /\ k - at \in {0} \cup inner
        BY <1>2, <1>4, <2>1, ShiftIs
      <3> QED  BY <1>4, <3>1
    <2> QED  BY <2>1, <2>2
  <1>6. at \in burst
    <2>1. at - at \in {0} \cup inner
      OBVIOUS
    <2> QED  BY <1>2, <1>4, <2>1, ShiftIs
  <1> DEFINE R(n) == TakeBits(burst, 26)[n]
             Good == {i \in 0 .. at : R(26 - at + i) # {}}
  <1>7. R(26 - at + 0) # {}
    <2>1. 0 \in R(26 - at)
      BY <1>5, <1>6, LowestBit DEF FitsFrom
    <2>2. 26 - at + 0 = 26 - at
      OBVIOUS
    <2> QED  BY <2>1, <2>2
  <1>8. ASSUME NEW i \in 1 .. at, R(26 - at + (i - 1)) # {} PROVE R(26 - at + i) # {}
    <2> PICK n : n = 26 - at + i
      OBVIOUS
    <2>1. n \in 1 .. 26 + 10 /\ n - 1 = 26 - at + (i - 1) /\ n - 1 \in 0 .. 26 + 10
          /\ 26 - n < at /\ 26 - n \in Int
      OBVIOUS
    <2>2. 26 - n \notin burst
      BY <1>5, <2>1
    <2>3. R(n) = Next0(R(n - 1))
      <3>1. R(n) = TakeBit(R(n - 1), BitAt(burst, 26 - n))
        BY <2>1, TakeBitsIs
      <3> QED  BY <2>2, <3>1 DEF BitAt, Next0
    <2>4. R(n - 1) \in Registers
      BY <2>1, TakeBitsIs
    <2> HIDE DEF R
    <2>5. R(n) # {}
      BY <1>8, <2>1, <2>3, <2>4, Next0Nonzero
    <2> QED  BY <2>5
  <1> HIDE DEF R
  <1>9. 0 \in Good /\ \A i \in 1 .. at : i - 1 \in Good => i \in Good
    BY <1>7, <1>8
  <1>10. at \in Nat /\ at \in 0 .. at /\ 26 - at + at = 26
    OBVIOUS
  <1> HIDE DEF Good
  <1>11. at \in Good
    BY <1>9, <1>10, UpTo
  <1>12. R(26) # {}
    BY <1>10, <1>11 DEF Good
  <1>13. R(26) \in Registers
    BY TakeBitsIs DEF R
  <1>14. Ten(R(26)) # {}
    BY <1>12, <1>13, TenNonzero
  <1> QED  BY <1>1, <1>5, <1>14, CalcSyndromeIs DEF R

-----------------------------------------------------------------------------
(* The specification.                                                       *)

\* The inductive invariant: what is in the register is what was sent and a burst.
CrcInv ==
    /\ sent \in Words16 /\ tag \in Offsets
    /\ damage \in Bursts \cup {{}}
    /\ reg = block(sent, tag) ^^ damage

LEMMA CrcInitInv ==
    ASSUME CrcInit
    PROVE  CrcInv
  <1>1. sent \in Words16
    BY CrcAssumption DEF CrcInit, Words16
  <1> QED  BY <1>1, XorLaws DEF CrcInit, CrcInv

LEMMA CrcNextInv ==
    ASSUME CrcInv, [Damage]_crcVars
    PROVE  CrcInv'
  <1>1. CASE Damage
    <2>1. PICK burst \in Bursts : reg' = reg ^^ burst /\ damage' = burst
      BY <1>1 DEF Damage
    <2>2. sent' = sent /\ tag' = tag /\ reg = block(sent, tag)
      BY <1>1, XorLaws DEF Damage, CrcInv
    <2> QED  BY <2>1, <2>2 DEF CrcInv
  <1>2. CASE UNCHANGED crcVars
    BY <1>2 DEF crcVars, CrcInv
  <1> QED  BY <1>1, <1>2

LEMMA CrcInvAlways == CrcSpec => []CrcInv
  <1> QED  BY CrcInitInv, CrcNextInv, PTL DEF CrcSpec

\* What is received, damaged in any way.
LEMMA ReceivedIs ==
    ASSUME NEW word \in Words16, NEW j \in Offsets, NEW d \in Blocks26
    PROVE  /\ block(word, j) ^^ d \in Blocks26
           /\ calc_syndrome(block(word, j) ^^ d, 26)
                  = syndrome[j] ^^ calc_syndrome(d, 26)
  <1> PICK b : b = block(word, j)
    OBVIOUS
  <1>1. b \in Blocks26 /\ calc_syndrome(b, 26) = syndrome[j]
    BY BlockIs
  <1>2. b ^^ d \in Blocks26
    BY <1>1, XorIn DEF Blocks26
  <1>3. b \in SUBSET Nat /\ d \in SUBSET Nat /\ 26 \in Nat
    BY <1>1 DEF Blocks26
  <1>4. calc_syndrome(b ^^ d, 26) = calc_syndrome(b, 26) ^^ calc_syndrome(d, 26)
    BY <1>3, CalcSyndromeLinear
  <1> QED  BY <1>1, <1>2, <1>4

LEMMA DamageIs ==
    ASSUME CrcInv
    PROVE  damage \in Blocks26 /\ reg \in Blocks26
  <1>1. damage \in Blocks26
    BY BurstShows DEF CrcInv, Blocks26
  <1> QED  BY <1>1, ReceivedIs DEF CrcInv

\* For every data word, the syndrome of the search and the check word of the
\* reception name the same offset words, whatever a burst left in the register.
THEOREM TestsAlwaysAgree == CrcSpec => []TestsAgree
  <1>1. CrcInv => TestsAgree
    BY DamageIs, TestsAreOne DEF TestsAgree
  <1> QED  BY <1>1, CrcInvAlways, PTL

\* For every data word, a block as it was sent shows its own offset word and no
\* other, and after a burst of up to MaxSpan bits it does not show it.
THEOREM DamageAlwaysDetected == CrcSpec => []DamageDetected
  <1>1. ASSUME CrcInv, damage = {} PROVE Shown(reg) = {tag}
    <2>1. reg = block(sent, tag) /\ sent \in Words16 /\ tag \in Offsets
      BY <1>1, XorLaws DEF CrcInv
    <2>2. calc_syndrome(reg, 26) = syndrome[tag]
      BY <2>1, BlockIs
    <2>3. \A j \in Offsets : syndrome[tag] = syndrome[j] => tag = j
      BY <2>1, SyndromesDiffer
    <2> QED  BY <2>1, <2>2, <2>3 DEF Shown
  <1>2. ASSUME CrcInv, damage # {} PROVE tag \notin Shown(reg)
    <2>1. /\ reg = block(sent, tag) ^^ damage /\ sent \in Words16 /\ tag \in Offsets
          /\ damage \in Bursts
      BY <1>2 DEF CrcInv
    <2>2. damage \in Blocks26 /\ calc_syndrome(damage, 26) # {}
      BY <2>1, BurstShows
    <2>3. calc_syndrome(reg, 26) = syndrome[tag] ^^ calc_syndrome(damage, 26)
      BY <2>1, <2>2, ReceivedIs
    <2>4. calc_syndrome(reg, 26) # syndrome[tag]
      BY <2>2, <2>3, XorSame
    <2> QED  BY <2>4 DEF Shown
  <1>3. CrcInv => DamageDetected
    BY <1>1, <1>2 DEF DamageDetected
  <1> QED  BY <1>3, CrcInvAlways, PTL

-----------------------------------------------------------------------------
(* What correction makes of a block does not depend on the data word.       *)

LEMMA DatawordLinear ==
    ASSUME NEW a, NEW b
    PROVE  dataword(a ^^ b) = dataword(a) ^^ dataword(b)
  <1>1. ASSUME NEW k \in 0 .. 15
        PROVE  k + plen \in a ^^ b <=> ~(k \in dataword(a) <=> k \in dataword(b))
    BY XorIs DEF dataword
  <1>2. dataword(a ^^ b) = {k \in 0 .. 15 : k + plen \in a ^^ b}
    BY DEF dataword
  <1>3. dataword(a) \in SUBSET (0 .. 15) /\ dataword(b) \in SUBSET (0 .. 15)
    BY DEF dataword
  <1>4. dataword(a) ^^ dataword(b) \in SUBSET (0 .. 15)
    BY <1>3, XorIn
  <1> QED  BY <1>1, <1>2, <1>4, XorIs

\* What the table says of a syndrome, where the offset word j is expected.
Entries(syn, j) == {entry \in kErrorLookup[j] : entry[1] = syn}
Vector(syn, j) ==
    IF Entries(syn, j) = {} THEN {} ELSE (CHOOSE entry \in Entries(syn, j) : TRUE)[2]

LEMMA CorrectedIs ==
    ASSUME NEW r, NEW j \in Offsets
    PROVE  correctBurstErrors(r)[j] = r ^^ Vector(calc_syndrome(r, 26), j)
  <1>1. r ^^ {} = r
    BY XorLaws
  <1>2. correctBurstErrors(r)[j]
            = IF Entries(calc_syndrome(r, 26), j) = {} THEN r
              ELSE r ^^ (CHOOSE entry \in Entries(calc_syndrome(r, 26), j) : TRUE)[2]
    BY DEF correctBurstErrors, Entries
  <1> QED  BY <1>1, <1>2 DEF Vector

\* The word that is read, by the syndrome and the data bits of the register.
LEMMA WordReadIs ==
    ASSUME NEW r \in Blocks26, NEW k \in Offsets
    PROVE  LET syn == calc_syndrome(r, 26)
           IN  WordRead(r)[k] = IF syn = syndrome[k] THEN dataword(r)
                                ELSE IF Vector(syn, k) = {} THEN NoWord
                                ELSE dataword(r) ^^ dataword(Vector(syn, k))
  <1> DEFINE v == Vector(calc_syndrome(r, 26), k)
  <1>1. k \in Received(r) <=> calc_syndrome(r, 26) = syndrome[k]
    BY TestsAreOne DEF Shown
  <1>2. correctBurstErrors(r)[k] = r ^^ v
    BY CorrectedIs
  <1>3. r ^^ v = r <=> v = {}
    BY XorSame
  <1>4. dataword(r ^^ v) = dataword(r) ^^ dataword(v)
    BY DatawordLinear
  <1>5. WordRead(r)[k] = IF k \in Received(r) THEN dataword(r)
                         ELSE IF correctBurstErrors(r)[k] # r
                              THEN dataword(correctBurstErrors(r)[k])
                         ELSE NoWord
    BY DEF WordRead
  <1> HIDE DEF v
  <1> QED  BY <1>1, <1>2, <1>3, <1>4, <1>5 DEF v

\* Whatever was sent and however it was damaged: the offset words that are shown are
\* those shown if the data word had been zero, and each of the words that are read
\* differs from the one read then by just the data word.
THEOREM OneWordStandsForAll ==
    ASSUME NEW word \in SUBSET (0 .. 15), NEW j \in Offsets, NEW d \in SUBSET (0 .. 25)
    PROVE  LET r == block(word, j) ^^ d
               zero == block({}, j) ^^ d
           IN  /\ Shown(r) = Shown(zero)
               /\ \A k \in Offsets :
                      WordRead(r)[k] = IF WordRead(zero)[k] = NoWord THEN NoWord
                                       ELSE word ^^ WordRead(zero)[k]
  <1> DEFINE r == block(word, j) ^^ d
             zero == block({}, j) ^^ d
             syn == calc_syndrome(r, 26)
  <1>1. word \in Words16 /\ {} \in Words16 /\ d \in Blocks26
    BY DEF Words16, Blocks26
  <1>2. r \in Blocks26 /\ zero \in Blocks26 /\ calc_syndrome(zero, 26) = syn
    BY <1>1, ReceivedIs
  <1>3. dataword(r) = word ^^ dataword(zero)
    <2>1. dataword(r) = word ^^ dataword(d)
      BY <1>1, BlockIs, DatawordLinear
    <2>2. dataword(zero) = {} ^^ dataword(d)
      BY <1>1, BlockIs, DatawordLinear
    <2> QED  BY <2>1, <2>2, XorLaws
  <1>4. Shown(r) = Shown(zero)
    BY <1>2 DEF Shown
  <1> HIDE DEF r, zero, syn
  <1>5. ASSUME NEW k \in Offsets
        PROVE  WordRead(r)[k] = IF WordRead(zero)[k] = NoWord THEN NoWord
                                ELSE word ^^ WordRead(zero)[k]
    <2> PICK v : v = Vector(syn, k)
      OBVIOUS
    <2>1. WordRead(r)[k] = IF syn = syndrome[k] THEN dataword(r)
                           ELSE IF v = {} THEN NoWord ELSE dataword(r) ^^ dataword(v)
      BY <1>2, WordReadIs DEF syn
    <2>2. WordRead(zero)[k] = IF syn = syndrome[k] THEN dataword(zero)
                              ELSE IF v = {} THEN NoWord
                              ELSE dataword(zero) ^^ dataword(v)
      BY <1>2, WordReadIs
    <2>3. dataword(r) ^^ dataword(v) = word ^^ (dataword(zero) ^^ dataword(v))
      BY <1>3, XorLaws
    <2>4. dataword(zero) # NoWord /\ dataword(zero) ^^ dataword(v) # NoWord
      <3>1. \A x, y \in SUBSET (0 .. 15) : -1 \notin x /\ -1 \notin x ^^ y
        BY XorIs
      <3>2. dataword(zero) \in SUBSET (0 .. 15) /\ dataword(v) \in SUBSET (0 .. 15)
        BY DEF dataword
      <3>3. -1 \in NoWord
        BY DEF NoWord
      <3> QED  BY <3>1, <3>2, <3>3
    <2> QED  BY <1>3, <2>1, <2>2, <2>3, <2>4
  <1> QED  BY <1>4, <1>5 DEF r, zero

-----------------------------------------------------------------------------
(* The register {0} after n rounds that take in zeros, and n rounds before. *)

\* Bit k of Power(n) is set for n \in Marks[k].
Marks == [k \in 0 .. 9 |-> CASE
       k = 0 -> {-22, -20, -17, -16, -15, -14, -13, -10, -9, -7, -6, -5, -4, -3,
                 0, 10, 12, 13, 14, 15, 16, 21, 22, 23, 24, 25}
    [] k = 1 -> {-21, -19, -16, -15, -14, -13, -12, -9, -8, -6, -5, -4, -3, -2,
                 1, 11, 13, 14, 15, 16, 17, 22, 23, 24, 25, 26}
    [] k = 2 -> {-25, -20, -18, -15, -14, -13, -12, -11, -8, -7, -5, -4, -3, -2,
                 -1, 2, 12, 14, 15, 16, 17, 18, 23, 24, 25, 26}
    [] k = 3 -> {-25, -24, -22, -20, -19, -16, -15, -12, -11, -9, -5, -2, -1, 3,
                 10, 12, 14, 17, 18, 19, 21, 22, 23, 26}
    [] k = 4 -> {-25, -24, -23, -22, -21, -20, -19, -18, -17, -16, -13, -11, -9,
                 -8, -7, -6, -5, -3, -1, 4, 10, 11, 12, 14, 16, 18, 19, 20, 21,
                 25}
    [] k = 5 -> {-24, -23, -21, -19, -18, -14, -13, -12, -9, -8, -3, -2, 5, 10,
                 11, 14, 16, 17, 19, 20, 23, 24, 25, 26}
    [] k = 6 -> {-23, -22, -20, -18, -17, -13, -12, -11, -8, -7, -2, -1, 6, 11,
                 12, 15, 17, 18, 20, 21, 24, 25, 26}
    [] k = 7 -> {-25, -21, -20, -19, -15, -14, -13, -12, -11, -9, -5, -4, -3, -1,
                 7, 10, 14, 15, 18, 19, 23, 24, 26}
    [] k = 8 -> {-24, -22, -19, -18, -17, -16, -15, -12, -11, -9, -8, -7, -6, -5,
                 -2, 8, 10, 11, 12, 13, 14, 19, 20, 21, 22, 23}
    [] k = 9 -> {-23, -21, -18, -17, -16, -15, -14, -11, -10, -8, -7, -6, -5, -4,
                 -1, 9, 11, 12, 13, 14, 15, 20, 21, 22, 23, 24}]

Power(n)  == {k \in 0 .. 9 : n \in Marks[k]}
Double(n) == Power(n) ^^ Power(n + 1)

LEMMA PowerIs ==
    /\ \A n \in -25 .. 26 : Power(n) \in Registers
    /\ \A n \in -25 .. 25 : Next0(Power(n)) = Power(n + 1)
    /\ Power(0) = {0} /\ Power(1) = {1}
  <1>1. ASSUME NEW n \in -25 .. 25, NEW k \in 1 .. 9, k \in poly
        PROVE  n + 1 \in Marks[k] <=> ~(n \in Marks[k - 1] <=> n \in Marks[9])
    BY <1>1 DEF Marks, poly
  <1>2. ASSUME NEW n \in -25 .. 25, NEW k \in 1 .. 9, k \notin poly
        PROVE  n + 1 \in Marks[k] <=> n \in Marks[k - 1]
    BY <1>2 DEF Marks, poly
  <1>3. ASSUME NEW n \in -25 .. 25
        PROVE  n + 1 \in Marks[0] <=> n \in Marks[9]
    BY DEF Marks
  <1>4. \A n : Power(n) \in Registers
    BY DEF Power, Registers
  <1>5. ASSUME NEW n \in -25 .. 25 PROVE Next0(Power(n)) = Power(n + 1)
    <2>1. ASSUME NEW k \in 0 .. 9
          PROVE  k \in Power(n + 1)
                     <=> ~(k - 1 \in Power(n) <=> 9 \in Power(n) /\ k \in poly)
      <3>1. 9 \in Power(n) <=> n \in Marks[9]
        BY DEF Power
      <3>2. k \in Power(n + 1) <=> n + 1 \in Marks[k]
        BY DEF Power
      <3>3. CASE k = 0
        <4>1. k - 1 \notin Power(n) /\ 0 \in poly
          BY <3>3 DEF Power, poly
        <4> QED  BY <1>3, <3>1, <3>2, <3>3, <4>1
      <3>4. CASE k # 0
        <4>1. k \in 1 .. 9 /\ (k - 1 \in Power(n) <=> n \in Marks[k - 1])
          BY <3>4 DEF Power
        <4> QED  BY <1>1, <1>2, <3>1, <3>2, <4>1
      <3> QED  BY <3>3, <3>4
    <2> QED  BY <1>4, <2>1, Next0Equals DEF Next0Gives
  <1>6. \A k \in 0 .. 9 : (0 \in Marks[k] <=> k = 0) /\ (1 \in Marks[k] <=> k = 1)
    BY DEF Marks
  <1>7. Power(0) = {0} /\ Power(1) = {1}
    BY <1>6 DEF Power
  <1> QED  BY <1>4, <1>5, <1>7

\* The register while a burst and the zeros after it come in, for a burst that begins
\* with the bits of O[0]: none of its other values could be the beginning of a burst.
Span == -25 .. 25
Short(r) == 0 \in r /\ r \in SUBSET (0 .. 4)

Orbit(O, e) ==
    /\ O \in [Span -> Registers] /\ O[0] = e
    /\ \A n \in -25 .. 24 : Next0(O[n]) = O[n + 1]
    /\ \A n \in Span : Short(O[n]) => n = 0

PowerOrbit  == [n \in Span |-> Power(n)]
DoubleOrbit == [n \in Span |-> Double(n)]

LEMMA OrbitsAre == Orbit(PowerOrbit, {0}) /\ Orbit(DoubleOrbit, {0, 1})
  <1>1. \A n \in Span : n \in -25 .. 26 /\ n \in -25 .. 25 /\ n + 1 \in -25 .. 26
    BY DEF Span
  <1>2. \A n \in -25 .. 24 : n \in Span /\ n + 1 \in Span /\ n \in -25 .. 25
    BY DEF Span
  <1>3. 0 \in Span
    BY DEF Span
  <1>4. ASSUME NEW n \in Span PROVE Double(n) \in Registers
    <2>1. Power(n) \in Registers /\ Power(n + 1) \in Registers
      BY <1>1, PowerIs
    <2> QED  BY <2>1, RegisterXor DEF Double
  <1>5. ASSUME NEW n \in -25 .. 24 PROVE Next0(Double(n)) = Double(n + 1)
    <2>1. /\ Power(n) \in Registers /\ Power(n + 1) \in Registers
          /\ Next0(Power(n)) = Power(n + 1) /\ Next0(Power(n + 1)) = Power(n + 1 + 1)
      BY <1>1, <1>2, PowerIs
    <2> QED  BY <2>1, Next0Is DEF Double
  <1>6. {0} ^^ {1} = {0, 1}
    BY DEF ^^
  <1>7. ASSUME NEW n \in Span, Short(Power(n)) PROVE n = 0
    <2>1. /\ n \in Marks[0] /\ n \notin Marks[5] /\ n \notin Marks[6]
          /\ n \notin Marks[7] /\ n \notin Marks[8] /\ n \notin Marks[9]
      BY <1>7 DEF Short, Power
    <2> QED  BY <2>1 DEF Marks
  <1>8. ASSUME NEW n \in Span, Short(Double(n)) PROVE n = 0
    <2>1. \A k \in 0 .. 9 : k \in Double(n) <=> ~(n \in Marks[k] <=> n + 1 \in Marks[k])
      BY XorIs DEF Double, Power
    <2>2. \A k \in 5 .. 9 : k \notin Double(n) /\ k \in 0 .. 9
      BY <1>8 DEF Short
    <2>3. /\ ~(n \in Marks[0] <=> n + 1 \in Marks[0])
          /\ n \in Marks[5] <=> n + 1 \in Marks[5]
          /\ n \in Marks[6] <=> n + 1 \in Marks[6]
          /\ n \in Marks[7] <=> n + 1 \in Marks[7]
          /\ n \in Marks[8] <=> n + 1 \in Marks[8]
          /\ n \in Marks[9] <=> n + 1 \in Marks[9]
      BY <1>8, <2>1, <2>2 DEF Short
    <2> QED  BY <2>3 DEF Marks, Span
  <1>9. Orbit(PowerOrbit, {0})
    BY <1>1, <1>2, <1>3, <1>7, PowerIs DEF Orbit, PowerOrbit
  <1>10. Orbit(DoubleOrbit, {0, 1})
    <2>1. 0 + 1 = 1
      OBVIOUS
    <2>2. Double(0) = {0, 1}
      BY <1>6, <2>1, PowerIs DEF Double
    <2> QED  BY <1>1, <1>2, <1>3, <1>4, <1>5, <1>8, <2>2 DEF Orbit, DoubleOrbit
  <1> QED  BY <1>9, <1>10

\* The register after n bits of a block.
After(m, n) == TakeBits(m, 26)[n]
From(m, low) == \A k \in m : low <= k

LEMMA AfterIs ==
    ASSUME NEW m \in Blocks26, NEW low \in 0 .. 25, From(m, low)
    PROVE  /\ \A n \in 0 .. 26 : After(m, n) \in Registers
           /\ \A n \in (27 - low) .. 26 : After(m, n) = Next0(After(m, n - 1))
  <1>1. \A n \in 0 .. 26 : After(m, n) \in Registers
    BY TakeBitsIs DEF After
  <1>2. ASSUME NEW n \in (27 - low) .. 26
        PROVE  After(m, n) = Next0(After(m, n - 1))
    <2>1. n \in 1 .. 26 + 10 /\ 26 - n < low /\ 26 - n \in Int
      OBVIOUS
    <2>2. 26 - n \notin m
      BY <2>1 DEF From
    <2>3. TakeBits(m, 26)[n] = TakeBit(TakeBits(m, 26)[n - 1], BitAt(m, 26 - n))
      BY <2>1, TakeBitsIs
    <2> QED  BY <2>2, <2>3 DEF After, BitAt, Next0
  <1> QED  BY <1>1, <1>2

\* Blocks with the same register in the end had it when their last bits had come in.
LEMMA Meets ==
    ASSUME NEW a \in Blocks26, NEW b \in Blocks26, NEW low \in 0 .. 25,
           From(a, low), From(b, low), After(a, 26) = After(b, 26)
    PROVE  After(a, 26 - low) = After(b, 26 - low)
  <1> DEFINE Meet(i) == After(a, 26 - i) = After(b, 26 - i)
             Good == {i \in 0 .. low : Meet(i)}
  <1>1. Meet(0)
    OBVIOUS
  <1>2. ASSUME NEW i \in 1 .. low, Meet(i - 1) PROVE Meet(i)
    <2> PICK n : n = 26 - (i - 1)
      OBVIOUS
    <2>1. n \in (27 - low) .. 26 /\ n \in 0 .. 26 /\ n - 1 \in 0 .. 26 /\ n - 1 = 26 - i
      OBVIOUS
    <2>2. /\ After(a, n) = Next0(After(a, n - 1)) /\ After(a, n - 1) \in Registers
          /\ After(b, n) = Next0(After(b, n - 1)) /\ After(b, n - 1) \in Registers
      BY <2>1, AfterIs
    <2>3. After(a, n) = After(b, n)
      BY <1>2
    <2>4. After(a, n - 1) = After(b, n - 1)
      BY <2>2, <2>3, Next0Is
    <2> QED  BY <2>1, <2>4
  <1> HIDE DEF Meet
  <1>3. low \in Nat /\ 0 \in Good /\ \A i \in 1 .. low : i - 1 \in Good => i \in Good
    BY <1>1, <1>2
  <1> HIDE DEF Good
  <1>4. low \in Good
    BY <1>3, UpTo
  <1> QED  BY <1>4 DEF Good, Meet

\* The register of a burst follows its orbit, to the end and back to where it began.
LEMMA Follows ==
    ASSUME NEW m \in Blocks26, NEW low \in 0 .. 25, From(m, low),
           NEW O, NEW e, Orbit(O, e), After(m, 26 - low) = e,
           NEW n \in 0 .. low
    PROVE  After(m, 26 - low + n) = O[n]
  <1> DEFINE Follow(i) == After(m, 26 - low + i) = O[i]
             Good == {i \in 0 .. low : Follow(i)}
  <1>1. Follow(0)
    <2>1. 26 - low + 0 = 26 - low
      OBVIOUS
    <2> QED  BY <2>1 DEF Orbit
  <1>2. ASSUME NEW i \in 1 .. low, Follow(i - 1) PROVE Follow(i)
    <2> PICK k : k = 26 - low + i
      OBVIOUS
    <2>1. /\ k \in (27 - low) .. 26 /\ k - 1 = 26 - low + (i - 1)
          /\ i - 1 \in -25 .. 24 /\ i - 1 + 1 = i
      OBVIOUS
    <2>2. After(m, k) = Next0(After(m, k - 1))
      BY <2>1, AfterIs
    <2>3. Next0(O[i - 1]) = O[i]
      BY <2>1 DEF Orbit
    <2> QED  BY <1>2, <2>1, <2>2, <2>3
  <1> HIDE DEF Follow
  <1>3. low \in Nat /\ 0 \in Good /\ \A i \in 1 .. low : i - 1 \in Good => i \in Good
    BY <1>1, <1>2
  <1> HIDE DEF Good
  <1>4. n \in Good
    BY <1>3, UpTo
  <1> QED  BY <1>4 DEF Good, Follow

LEMMA FollowsBack ==
    ASSUME NEW m \in Blocks26, NEW low \in 0 .. 25, From(m, low),
           NEW O, NEW e, Orbit(O, e), NEW at \in 0 .. low, After(m, 26 - at) = e
    PROVE  After(m, 26 - low) = O[at - low]
  <1> DEFINE Back(i) == After(m, 26 - at - i) = O[0 - i]
             Good == {i \in 0 .. (low - at) : Back(i)}
  <1>1. Back(0)
    <2>1. 26 - at - 0 = 26 - at /\ 0 - 0 = 0
      OBVIOUS
    <2> QED  BY <2>1 DEF Orbit
  <1>2. ASSUME NEW i \in 1 .. (low - at), Back(i - 1) PROVE Back(i)
    <2> PICK k : k = 26 - at - (i - 1)
      OBVIOUS
    <2>1. /\ k \in (27 - low) .. 26 /\ k - 1 = 26 - at - i /\ k - 1 \in 0 .. 26
          /\ 0 - i \in -25 .. 24 /\ 0 - i \in Span /\ 0 - i + 1 = 0 - (i - 1)
      BY DEF Span
    <2>2. After(m, k) = Next0(After(m, k - 1)) /\ After(m, k - 1) \in Registers
      BY <2>1, AfterIs
    <2>3. Next0(O[0 - i]) = O[0 - (i - 1)] /\ O[0 - i] \in Registers
      BY <2>1 DEF Orbit
    <2>4. After(m, k) = O[0 - (i - 1)]
      BY <1>2
    <2>5. After(m, k - 1) = O[0 - i]
      BY <2>2, <2>3, <2>4, Next0Is
    <2> QED  BY <2>1, <2>5
  <1> HIDE DEF Back
  <1>3. /\ low - at \in Nat /\ 0 \in Good
        /\ \A i \in 1 .. (low - at) : i - 1 \in Good => i \in Good
    BY <1>1, <1>2
  <1> HIDE DEF Good
  <1>4. low - at \in Good
    BY <1>3, UpTo
  <1>5. 26 - at - (low - at) = 26 - low /\ 0 - (low - at) = at - low
    OBVIOUS
  <1> QED  BY <1>4, <1>5 DEF Good, Back

-----------------------------------------------------------------------------
(* Bursts and error vectors.                                                *)

LEMMA ShiftedIs ==
    ASSUME NEW e, Short(e), NEW at \in 0 .. 25, NEW m \in Blocks26, m = Shift(e, at)
    PROVE  /\ From(m, at) /\ After(m, 26 - at) = e
           /\ \A k \in Int : k \in m <=> k - at \in e
  <1>1. e \in SUBSET Int /\ \A k \in e : 0 <= k /\ k <= 4
    BY DEF Short
  <1>2. \A k \in Int : k \in m <=> k - at \in e
    BY <1>1, ShiftIs
  <1>3. m \in SUBSET Nat /\ \A k \in m : k \in Int /\ k <= 25
    BY DEF Blocks26
  <1>4. FitsFrom(m, at, 26) /\ From(m, at)
    <2>1. \A k \in m : at <= k /\ k < at + 10 /\ k < 26
      BY <1>1, <1>2, <1>3
    <2> QED  BY <2>1 DEF FitsFrom, From
  <1>5. After(m, 26 - at) = e
    <2> PICK n : n = 26 - at
      OBVIOUS
    <2>1. n \in Nat /\ n + at <= 26 /\ at \in Nat /\ 26 \in Nat
      OBVIOUS
    <2>2. TakeBits(m, 26)[n] = {k \in 0 .. 9 : k + (26 - n) \in m}
      BY <1>3, <1>4, <2>1, Unreduced
    <2>3. ASSUME NEW k \in 0 .. 9 PROVE k + (26 - n) \in m <=> k \in e
      <3>1. k + (26 - n) \in Int /\ k + (26 - n) - at = k
        OBVIOUS
      <3> QED  BY <1>2, <3>1
    <2>4. e \in SUBSET (0 .. 9)
      BY <1>1
    <2> QED  BY <2>2, <2>3, <2>4 DEF After
  <1> QED  BY <1>2, <1>4, <1>5

\* A burst with the syndrome of an error vector is that vector.
LEMMA OneOrbit ==
    ASSUME NEW e, Short(e), NEW O, Orbit(O, e), NEW d, Short(d),
           NEW a \in 0 .. 25, NEW v \in Blocks26, v = Shift(e, a),
           NEW b \in 0 .. 25, NEW m \in Blocks26, m = Shift(d, b),
           After(v, 26) = After(m, 26)
    PROVE  v = m
  <1>1. /\ From(v, a) /\ After(v, 26 - a) = e
        /\ From(m, b) /\ After(m, 26 - b) = d
    <2>1. From(v, a) /\ After(v, 26 - a) = e
      BY ShiftedIs
    <2>2. From(m, b) /\ After(m, 26 - b) = d
      BY ShiftedIs
    <2> QED  BY <2>1, <2>2
  <1>2. \A n \in Span : Short(O[n]) => n = 0
    BY DEF Orbit
  <1>3. CASE b <= a
    <2>1. From(v, b)
      BY <1>1, <1>3 DEF From, Blocks26
    <2>2. After(v, 26 - b) = d
      BY <1>1, <2>1, Meets
    <2>3. a - b \in 0 .. a /\ 26 - a + (a - b) = 26 - b /\ a - b \in Span
      BY <1>3 DEF Span
    <2>4. O[a - b] = d
      BY <1>1, <2>2, <2>3, Follows
    <2>5. a - b = 0
      BY <1>2, <2>3, <2>4
    <2>6. a = b /\ d = e
      BY <2>4, <2>5 DEF Orbit
    <2> QED  BY <2>6
  <1>4. CASE a < b
    <2>1. From(m, a)
      BY <1>1, <1>4 DEF From, Blocks26
    <2>2. After(m, 26 - a) = e
      BY <1>1, <2>1, Meets
    <2>3. a \in 0 .. b /\ a - b \in Span /\ a - b # 0
      BY <1>4 DEF Span
    <2>4. O[a - b] = d
      BY <1>1, <2>2, <2>3, FollowsBack
    <2> QED  BY <1>2, <2>3, <2>4
  <1> QED  BY <1>3, <1>4

LEMMA BurstIs ==
    ASSUME NEW burst \in Bursts
    PROVE  /\ burst \in Blocks26
           /\ \E d, at : Short(d) /\ at \in 0 .. 25 /\ burst = Shift(d, at)
  <1>1. burst \in Blocks26
    BY DEF Bursts, Blocks26
  <1>2. PICK inner \in SUBSET (1 .. MaxSpan - 1), at \in 0 .. 25 :
            burst = Shift({0} \cup inner, at)
    BY DEF Bursts
  <1>3. MaxSpan \in Int /\ MaxSpan <= 5
    BY CrcAssumption
  <1>4. Short({0} \cup inner)
    <2>1. \A k \in inner : k \in 0 .. 4
      BY <1>3
    <2> QED  BY <2>1 DEF Short
  <1> QED  BY <1>1, <1>2, <1>4

\* The error vectors: one bit or two that are next to each other.
Single(v, at) == at \in 0 .. 25 /\ v = Shift({0}, at)
Pair(v, at)   == at \in 0 .. 24 /\ v = Shift({0, 1}, at)

LEMMA ErrorVectorIs ==
    ASSUME NEW v
    PROVE  v \in ErrorVectors <=> \E at : Single(v, at) \/ Pair(v, at)
  <1>1. \A at \in Int : Shift({0}, at) = {at} /\ Shift({0, 1}, at) = {at, at + 1}
    BY DEF Shift
  <1>2. ASSUME v \in ErrorVectors PROVE \E at : Single(v, at) \/ Pair(v, at)
    <2>1. PICK at \in 0 .. 25 : \/ v = Shift({0}, at) \cap (0 .. 25)
                                \/ v = Shift({0, 1}, at) \cap (0 .. 25)
      BY <1>2 DEF ErrorVectors, Errors
    <2>2. {at} \cap (0 .. 25) = {at}
      OBVIOUS
    <2>3. ASSUME at \in 0 .. 24 PROVE {at, at + 1} \cap (0 .. 25) = {at, at + 1}
      <3>1. at + 1 \in 0 .. 25
        BY <2>3
      <3> QED  BY <3>1
    <2>4. ASSUME at \notin 0 .. 24 PROVE {at, at + 1} \cap (0 .. 25) = {at}
      <3>1. at + 1 \notin 0 .. 25
        BY <2>4
      <3> QED  BY <3>1
    <2> QED  BY <1>1, <2>1, <2>2, <2>3, <2>4 DEF Single, Pair
  <1>3. ASSUME NEW at, Single(v, at) PROVE v \in ErrorVectors
    <2>1. v = Shift({0}, at) \cap (0 .. 25) /\ at \in 0 .. 25
      <3>1. at \in 0 .. 25 /\ {at} \cap (0 .. 25) = {at}
        BY <1>3 DEF Single
      <3> QED  BY <1>1, <1>3, <3>1 DEF Single
    <2> QED  BY <2>1 DEF ErrorVectors, Errors
  <1>4. ASSUME NEW at, Pair(v, at) PROVE v \in ErrorVectors
    <2>1. v = Shift({0, 1}, at) \cap (0 .. 25) /\ at \in 0 .. 25
      <3>1. at \in 0 .. 25 /\ {at, at + 1} \cap (0 .. 25) = {at, at + 1}
        <4>1. at \in 0 .. 24
          BY <1>4 DEF Pair
        <4>2. at \in 0 .. 25 /\ at + 1 \in 0 .. 25
          BY <4>1
        <4> QED  BY <4>2
      <3> QED  BY <1>1, <1>4, <3>1 DEF Pair
    <2> QED  BY <2>1 DEF ErrorVectors, Errors
  <1> QED  BY <1>2, <1>3, <1>4

\* What an error vector leaves in the register.
LEMMA VectorLeaves ==
    ASSUME NEW v, NEW at
    PROVE  /\ Single(v, at) => v \in Blocks26 /\ After(v, 26) = Power(at)
           /\ Pair(v, at) => v \in Blocks26 /\ After(v, 26) = Double(at)
  <1>1. \A i \in Int : Shift({0}, i) = {i} /\ Shift({0, 1}, i) = {i, i + 1}
    BY DEF Shift
  <1>2. Short({0}) /\ Short({0, 1})
    BY DEF Short
  <1>3. ASSUME Single(v, at) PROVE v \in Blocks26 /\ After(v, 26) = Power(at)
    <2>1. at \in 0 .. 25 /\ v \in Blocks26
      BY <1>1, <1>3 DEF Single, Blocks26
    <2>2. From(v, at) /\ After(v, 26 - at) = {0}
      BY <1>2, <1>3, <2>1, ShiftedIs DEF Single
    <2>3. at \in 0 .. at /\ 26 - at + at = 26 /\ at \in Span
      BY <2>1 DEF Span
    <2>4. After(v, 26) = PowerOrbit[at]
      BY <2>1, <2>2, <2>3, OrbitsAre, Follows
    <2> QED  BY <2>1, <2>3, <2>4 DEF PowerOrbit
  <1>4. ASSUME Pair(v, at) PROVE v \in Blocks26 /\ After(v, 26) = Double(at)
    <2>1. at \in 0 .. 25 /\ v \in Blocks26
      BY <1>1, <1>4 DEF Pair, Blocks26
    <2>2. From(v, at) /\ After(v, 26 - at) = {0, 1}
      BY <1>2, <1>4, <2>1, ShiftedIs DEF Pair
    <2>3. at \in 0 .. at /\ 26 - at + at = 26 /\ at \in Span
      BY <2>1 DEF Span
    <2>4. After(v, 26) = DoubleOrbit[at]
      BY <2>1, <2>2, <2>3, OrbitsAre, Follows
    <2> QED  BY <2>1, <2>3, <2>4 DEF DoubleOrbit
  <1> QED  BY <1>3, <1>4

\* The syndromes of error vectors, and of one with an offset word on it.
LEMMA SyndromeOfVector ==
    ASSUME NEW v \in ErrorVectors
    PROVE  /\ v \in Blocks26 /\ v # {} /\ After(v, 26) \in Registers
           /\ calc_syndrome(v, 26) = Ten(After(v, 26))
           /\ \A j \in Offsets :
                  calc_syndrome(v ^^ offset_word[j], 26) = calc_syndrome(v, 26) ^^ syndrome[j]
  <1>1. v \in Blocks26
    BY ErrorVectorIs, VectorLeaves
  <1>2. v # {}
    <2>1. \A at \in Int : 0 + at \in Shift({0}, at) /\ 0 + at \in Shift({0, 1}, at)
      BY DEF Shift
    <2>2. \A at : (at \in 0 .. 25 => at \in Int) /\ (at \in 0 .. 24 => at \in Int)
      OBVIOUS
    <2>3. PICK at : Single(v, at) \/ Pair(v, at)
      BY ErrorVectorIs
    <2>4. 0 + at \in v
      BY <2>1, <2>2, <2>3 DEF Single, Pair
    <2> QED  BY <2>4
  <1>3. v \in SUBSET Nat /\ 26 \in Nat
    BY <1>1 DEF Blocks26
  <1>4. After(v, 26) \in Registers
    BY <1>3, TakeBitsIs DEF After
  <1>5. calc_syndrome(v, 26) = Ten(After(v, 26))
    BY <1>3, CalcSyndromeIs DEF After
  <1>6. ASSUME NEW j \in Offsets
        PROVE  calc_syndrome(v ^^ offset_word[j], 26) = calc_syndrome(v, 26) ^^ syndrome[j]
    <2> PICK o : o = offset_word[j]
      OBVIOUS
    <2>1. o \in Registers /\ syndrome[j] = Ten(o)
      BY SyndromesAre
    <2>2. o \in SUBSET Nat /\ FitsFrom(o, 0, 26)
      BY <2>1 DEF Registers, FitsFrom
    <2>3. TakeBits(o, 26)[26] = {k \in 0 .. 9 : k + (26 - 26) \in o}
      <3>1. 26 \in Nat /\ 0 \in Nat /\ 26 + 0 <= 26
        OBVIOUS
      <3> QED  BY <2>2, <3>1, Unreduced
    <2>4. {k \in 0 .. 9 : k + (26 - 26) \in o} = o
      <3>1. \A k \in 0 .. 9 : k + (26 - 26) = k
        OBVIOUS
      <3> QED  BY <2>1, <3>1 DEF Registers
    <2>5. calc_syndrome(o, 26) = syndrome[j]
      <3>1. TakeBits(o, 26)[26] = o
        BY ONLY <2>3, <2>4
      <3>2. calc_syndrome(o, 26) = Ten(TakeBits(o, 26)[26])
        BY <1>3, <2>2, CalcSyndromeIs
      <3> QED  BY <2>1, <3>1, <3>2
    <2> QED  BY <1>3, <2>2, <2>5, CalcSyndromeLinear
  <1> QED  BY <1>1, <1>2, <1>4, <1>5, <1>6

LEMMA OneSyndrome ==
    ASSUME NEW v \in ErrorVectors, NEW burst \in Bursts,
           calc_syndrome(v, 26) = calc_syndrome(burst, 26)
    PROVE  v = burst
  <1>1. v \in Blocks26 /\ burst \in Blocks26
    BY SyndromeOfVector, BurstIs
  <1>2. v \in SUBSET Nat /\ burst \in SUBSET Nat /\ 26 \in Nat /\ 26 \in 0 .. 26 + 10
    BY <1>1 DEF Blocks26
  <1>3. After(v, 26) = After(burst, 26)
    <2>1. TakeBits(v, 26)[26] \in Registers /\ TakeBits(burst, 26)[26] \in Registers
      BY <1>2, TakeBitsIs
    <2>2. Ten(TakeBits(v, 26)[26]) = Ten(TakeBits(burst, 26)[26])
      BY <1>2, CalcSyndromeIs
    <2> QED  BY <2>1, <2>2, TenIs DEF After
  <1>4. PICK d, b : Short(d) /\ b \in 0 .. 25 /\ burst = Shift(d, b)
    BY BurstIs
  <1>5. PICK e, O, a : /\ Short(e) /\ Orbit(O, e)
                       /\ a \in 0 .. 25 /\ v = Shift(e, a)
    <2>1. Short({0}) /\ Short({0, 1})
      BY DEF Short
    <2>2. \A a \in 0 .. 24 : a \in 0 .. 25
      OBVIOUS
    <2>3. PICK a : Single(v, a) \/ Pair(v, a)
      BY ErrorVectorIs
    <2> QED  BY <2>1, <2>2, <2>3, OrbitsAre DEF Single, Pair
  <1> QED  BY <1>1, <1>3, <1>4, <1>5, OneOrbit

\* The error vectors are the bursts of one or two bits.
LEMMA SpanIs ==
    ASSUME NEW burst \in Bursts
    PROVE  SpanOf(burst) \in Nat /\ SpanOf(burst) >= 1
           /\ (SpanOf(burst) <= 2 <=> burst \in ErrorVectors)
  <1>1. burst \in Blocks26
    BY BurstIs
  <1>a. PICK at \in 0 .. 25 : \E d : Short(d) /\ burst = Shift(d, at)
    BY BurstIs
  <1>2. PICK d : Short(d) /\ burst = Shift(d, at)
    BY <1>a
  <1>3. /\ \A k \in Int : k \in burst <=> k - at \in d
        /\ \A k \in burst : k \in Int /\ k <= 25
    <2>1. \A k \in Int : k \in burst <=> k - at \in d
      BY <1>1, <1>2, ShiftedIs
    <2>2. \A k \in burst : k \in Int /\ k <= 25
      BY <1>1 DEF Blocks26
    <2> QED  BY <2>1, <2>2
  <1>4. 0 \in d /\ d \in SUBSET (0 .. 4)
    BY <1>2 DEF Short
  <1>5. PICK top \in 0 .. 4 : top \in d /\ \A k \in d : k <= top
    <2>1. \A k \in d : k = 0 \/ k = 1 \/ k = 2 \/ k = 3 \/ k = 4
      BY <1>4
    <2> QED  BY <1>4, <2>1
  <1> DEFINE Widest(w) == /\ \E a, b \in burst : b - a = w
                          /\ \A a, b \in burst : b - a <= w
  <1>6. \A k \in burst : k - at \in d /\ k \in Int
    BY <1>3
  <1>7. at \in burst /\ at + top \in burst
    <2>1. at - at = 0 /\ (at + top) - at = top
      OBVIOUS
    <2> QED  BY <1>3, <1>4, <1>5, <2>1
  <1>8. Widest(top)
    <2>1. at + top - at = top
      OBVIOUS
    <2>2. ASSUME NEW a \in burst, NEW b \in burst PROVE b - a <= top
      <3>1. a - at >= 0 /\ b - at <= top
        BY <1>4, <1>5, <1>6
      <3> QED  BY <1>6, <3>1
    <2> QED  BY <1>7, <2>1, <2>2
  <1>9. ASSUME NEW w \in 0 .. 25, Widest(w) PROVE w = top
    <2>1. top <= w /\ w <= top
      BY <1>8, <1>9
    <2> QED  BY <2>1
  <1>10. SpanOf(burst) = 1 + CHOOSE w \in 0 .. 25 : Widest(w)
    BY <1>7 DEF SpanOf
  <1> HIDE DEF Widest
  <1>11. SpanOf(burst) = 1 + top
    <2>1. top \in 0 .. 25
      OBVIOUS
    <2>2. (CHOOSE w \in 0 .. 25 : Widest(w)) = top
      BY <1>8, <1>9, <2>1
    <2> QED  BY <1>10, <2>2
  <1>12. ASSUME top = 0 PROVE Single(burst, at)
    <2>1. d = {0}
      <3>1. \A k \in d : k = 0
        BY <1>4, <1>5, <1>12
      <3> QED  BY <1>4, <3>1
    <2> QED  BY <1>2, <2>1 DEF Single
  <1>13. ASSUME top = 1 PROVE Pair(burst, at)
    <2>1. d = {0, 1}
      <3>1. \A k \in d : k = 0 \/ k = 1
        BY <1>4, <1>5, <1>13
      <3> QED  BY <1>4, <1>5, <1>13, <3>1
    <2>2. at \in 0 .. 24
      <3> PICK next : next = at + top
        OBVIOUS
      <3>1. next <= 25
        BY <1>3, <1>7
      <3> QED  BY <1>13, <3>1
    <2> QED  BY <1>2, <2>1, <2>2 DEF Pair
  <1>14. ASSUME burst \in ErrorVectors PROVE top <= 1
    <2>1. \A i \in Int : Shift({0}, i) = {i} /\ Shift({0, 1}, i) = {i, i + 1}
      BY DEF Shift
    <2>2. PICK i : Single(burst, i) \/ Pair(burst, i)
      BY <1>14, ErrorVectorIs
    <2>3. i \in Int /\ \A k \in burst : k = i \/ k = i + 1
      BY <2>1, <2>2 DEF Single, Pair
    <2> QED  BY <1>7, <2>3
  <1> QED  BY <1>11, <1>12, <1>13, <1>14, ErrorVectorIs

\* The table gives the error vector whose syndrome explains the difference.
LEMMA VectorIs ==
    ASSUME NEW syn, NEW j \in Offsets
    PROVE  IF Vector(syn, j) = {}
           THEN \A v \in ErrorVectors : calc_syndrome(v, 26) ^^ syndrome[j] # syn
           ELSE /\ Vector(syn, j) \in ErrorVectors
                /\ calc_syndrome(Vector(syn, j), 26) ^^ syndrome[j] = syn
  <1>1. kErrorLookup[j]
            = {<<calc_syndrome(v ^^ offset_word[j], 26), v>> : v \in ErrorVectors}
    BY DEF kErrorLookup
  <1>2. ASSUME NEW v \in ErrorVectors, calc_syndrome(v, 26) ^^ syndrome[j] = syn
        PROVE  Vector(syn, j) \in ErrorVectors /\ Entries(syn, j) # {}
    <2>1. <<syn, v>> \in Entries(syn, j)
      <3>1. calc_syndrome(v ^^ offset_word[j], 26) = syn
        BY <1>2, SyndromeOfVector
      <3> QED  BY <1>1, <3>1 DEF Entries
    <2>2. \A entry \in Entries(syn, j) : entry[2] \in ErrorVectors
      BY <1>1 DEF Entries
    <2>3. (CHOOSE entry \in Entries(syn, j) : TRUE) \in Entries(syn, j)
      BY <2>1
    <2> QED  BY <2>1, <2>2, <2>3 DEF Vector
  <1>3. ASSUME Entries(syn, j) # {}
        PROVE  /\ Vector(syn, j) \in ErrorVectors
               /\ calc_syndrome(Vector(syn, j), 26) ^^ syndrome[j] = syn
    <2> PICK entry : entry = CHOOSE x \in Entries(syn, j) : TRUE
      OBVIOUS
    <2>1. entry \in Entries(syn, j)
      BY <1>3
    <2>2. PICK v \in ErrorVectors : entry = <<calc_syndrome(v ^^ offset_word[j], 26), v>>
      BY <1>1, <2>1 DEF Entries
    <2>3. entry[1] = syn /\ entry[1] = calc_syndrome(v ^^ offset_word[j], 26) /\ entry[2] = v
      <3>1. entry[1] = syn
        BY <2>1 DEF Entries
      <3> DEFINE s == calc_syndrome(v ^^ offset_word[j], 26)
      <3>2. entry = <<s, v>>
        BY <2>2
      <3> HIDE DEF s
      <3>3. entry[1] = s /\ entry[2] = v
        BY ONLY <3>2
      <3> QED  BY <3>1, <3>3 DEF s
    <2>4. Vector(syn, j) = v
      BY <1>3, <2>3 DEF Vector
    <2> QED  BY <2>3, <2>4, SyndromeOfVector
  <1>4. Vector(syn, j) # {} => Entries(syn, j) # {}
    BY DEF Vector
  <1>5. \A v \in ErrorVectors : v # {}
    BY SyndromeOfVector
  <1> QED  BY <1>2, <1>3, <1>4, <1>5

LEMMA CorrectsRightly ==
    ASSUME CrcInv
    PROVE  NeverMiscorrected
  <1>1. /\ sent \in Words16 /\ tag \in Offsets /\ damage \in Blocks26 /\ reg \in Blocks26
        /\ reg = block(sent, tag) ^^ damage
    BY DamageIs DEF CrcInv
  <1>2. calc_syndrome(reg, 26) = syndrome[tag] ^^ calc_syndrome(damage, 26)
    BY <1>1, ReceivedIs
  <1>3. dataword(reg) = sent ^^ dataword(damage)
    BY <1>1, BlockIs, DatawordLinear
  <1> DEFINE syn == calc_syndrome(reg, 26)
             v == Vector(syn, tag)
  <1>4. WordRead(reg)[tag] = IF syn = syndrome[tag] THEN dataword(reg)
                             ELSE IF v = {} THEN NoWord
                             ELSE dataword(reg) ^^ dataword(v)
    BY <1>1, WordReadIs
  <1>5. \A x : calc_syndrome(x, 26) ^^ syndrome[tag] = syn
                  <=> calc_syndrome(x, 26) = calc_syndrome(damage, 26)
    <2>1. \A a, s, b : a ^^ s = s ^^ b <=> a = b
      <3>1. \A a, s, b : s ^^ b = b ^^ s /\ (a ^^ s = b ^^ s => a = b)
        BY XorLaws
      <3> QED  BY <3>1
    <2> QED  BY <1>2, <2>1
  <1> HIDE DEF syn, v
  <1>6. CASE damage = {}
    <2>1. dataword(reg) = sent /\ syn = syndrome[tag]
      <3>1. reg = block(sent, tag)
        BY <1>1, <1>6, XorLaws
      <3> QED  BY <1>1, <3>1, BlockIs DEF syn
    <2>2. SpanOf(damage) = 0
      BY <1>6 DEF SpanOf
    <2> QED  BY <1>4, <2>1, <2>2 DEF NeverMiscorrected
  <1>7. CASE damage # {}
    <2>1. damage \in Bursts
      BY <1>7 DEF CrcInv
    <2>2. syn # syndrome[tag]
      BY <1>2, <2>1, BurstShows, XorSame DEF syn
    <2>3. CASE v = {}
      <3>1. damage \notin ErrorVectors
        BY <1>1, <1>5, <2>3, VectorIs DEF v
      <3>2. ~(SpanOf(damage) <= 2)
        BY <2>1, <3>1, SpanIs
      <3> QED  BY <1>4, <2>2, <2>3, <3>2 DEF NeverMiscorrected
    <2>4. CASE v # {}
      <3>1. v \in ErrorVectors /\ calc_syndrome(v, 26) = calc_syndrome(damage, 26)
        BY <1>1, <1>5, <2>4, VectorIs DEF v
      <3>2. v = damage
        BY <2>1, <3>1, OneSyndrome
      <3>3. SpanOf(damage) <= 2
        BY <2>1, <3>1, <3>2, SpanIs
      <3>4. dataword(reg) ^^ dataword(v) = sent
        <4>1. \A x, y : (x ^^ y) ^^ y = x
          <5>1. \A x, y : (x ^^ y) ^^ y = x ^^ (y ^^ y) /\ y ^^ y = {} /\ x ^^ {} = x
            BY XorLaws
          <5> QED  BY <5>1
        <4> QED  BY <1>3, <3>2, <4>1
      <3> QED  BY <1>4, <2>2, <2>4, <3>3, <3>4 DEF NeverMiscorrected
    <2> QED  BY <2>3, <2>4
  <1> QED  BY <1>6, <1>7

\* For every data word, a block that is held against its own offset word is read as
\* it was sent if at most two bits next to each other are wrong, and otherwise it is
\* rejected, for any burst of up to MaxSpan bits.
THEOREM NothingMiscorrected == CrcSpec => []NeverMiscorrected
  <1> QED  BY CorrectsRightly, CrcInvAlways, PTL

\* The offset words that an error vector makes of each other.
Agrees(n, bits) == \A k \in 0 .. 9 : n \in Marks[k] <=> k \in bits
Steps(n, bits)  == \A k \in 0 .. 9 : ~(n \in Marks[k] <=> n + 1 \in Marks[k]) <=> k \in bits

LEMMA AgreesIs ==
    ASSUME NEW n, NEW bits \in Registers
    PROVE  (Power(n) = bits <=> Agrees(n, bits)) /\ (Double(n) = bits <=> Steps(n, bits))
  <1>1. \A k \in 0 .. 9 : k \in Power(n) <=> n \in Marks[k]
    BY DEF Power
  <1>2. \A k \in 0 .. 9 : k \in Double(n) <=> ~(n \in Marks[k] <=> n + 1 \in Marks[k])
    BY XorIs DEF Double, Power
  <1>3. Power(n) \in Registers /\ Power(n + 1) \in Registers
    BY DEF Power, Registers
  <1>4. Double(n) \in Registers
    BY <1>3, RegisterXor DEF Double
  <1>5. \A r \in Registers : r = bits <=> \A k \in 0 .. 9 : k \in r <=> k \in bits
    BY DEF Registers
  <1>6. Power(n) = bits <=> Agrees(n, bits)
    BY <1>1, <1>3, <1>5 DEF Agrees
  <1>7. Double(n) = bits <=> Steps(n, bits)
    BY <1>2, <1>4, <1>5 DEF Steps
  <1> QED  BY <1>6, <1>7

\* Between the offset words that are mistaken for each other.
LEMMA Confused ==
    /\ Steps(18, {2, 5, 6, 8}) /\ Steps(23, {3, 6, 8})
    /\ Steps(19, {3, 6, 7, 9}) /\ Agrees(18, {2, 3, 4, 6, 7})
  BY DEF Steps, Agrees, Marks

\* No error vector leaves what is in between the others, or nothing.
LEMMA NeverConfused ==
    /\ \A n \in 0 .. 25 : /\ ~Agrees(n, {}) /\ ~Agrees(n, {2, 4, 7, 8})
                          /\ ~Agrees(n, {4, 5, 6, 7}) /\ ~Agrees(n, {2, 3, 5})
                          /\ ~Agrees(n, {2, 3, 5, 7, 8, 9})
                          /\ ~Agrees(n, {3, 4, 5, 9}) /\ ~Agrees(n, {2, 5, 6, 7, 9})
    /\ \A n \in 0 .. 24 : /\ ~Steps(n, {}) /\ ~Steps(n, {2, 4, 7, 8})
                          /\ ~Steps(n, {4, 5, 6, 7}) /\ ~Steps(n, {2, 3, 5})
                          /\ ~Steps(n, {2, 3, 5, 7, 8, 9})
                          /\ ~Steps(n, {3, 4, 5, 9}) /\ ~Steps(n, {2, 5, 6, 7, 9})
  <1>1. ASSUME NEW n \in 0 .. 25, Agrees(n, {}) PROVE FALSE
    BY <1>1 DEF Agrees, Marks
  <1>2. ASSUME NEW n \in 0 .. 25, Agrees(n, {2, 4, 7, 8}) PROVE FALSE
    BY <1>2 DEF Agrees, Marks
  <1>3. ASSUME NEW n \in 0 .. 25, Agrees(n, {4, 5, 6, 7}) PROVE FALSE
    BY <1>3 DEF Agrees, Marks
  <1>4. ASSUME NEW n \in 0 .. 25, Agrees(n, {2, 3, 5}) PROVE FALSE
    BY <1>4 DEF Agrees, Marks
  <1>5. ASSUME NEW n \in 0 .. 25, Agrees(n, {2, 3, 5, 7, 8, 9}) PROVE FALSE
    BY <1>5 DEF Agrees, Marks
  <1>6. ASSUME NEW n \in 0 .. 25, Agrees(n, {3, 4, 5, 9}) PROVE FALSE
    BY <1>6 DEF Agrees, Marks
  <1>7. ASSUME NEW n \in 0 .. 25, Agrees(n, {2, 5, 6, 7, 9}) PROVE FALSE
    BY <1>7 DEF Agrees, Marks
  <1>8. ASSUME NEW n \in 0 .. 24, Steps(n, {}) PROVE FALSE
    BY <1>8 DEF Steps, Marks
  <1>9. ASSUME NEW n \in 0 .. 24, Steps(n, {2, 4, 7, 8}) PROVE FALSE
    BY <1>9 DEF Steps, Marks
  <1>10. ASSUME NEW n \in 0 .. 24, Steps(n, {4, 5, 6, 7}) PROVE FALSE
    BY <1>10 DEF Steps, Marks
  <1>11. ASSUME NEW n \in 0 .. 24, Steps(n, {2, 3, 5}) PROVE FALSE
    BY <1>11 DEF Steps, Marks
  <1>12. ASSUME NEW n \in 0 .. 24, Steps(n, {2, 3, 5, 7, 8, 9}) PROVE FALSE
    BY <1>12 DEF Steps, Marks
  <1>13. ASSUME NEW n \in 0 .. 24, Steps(n, {3, 4, 5, 9}) PROVE FALSE
    BY <1>13 DEF Steps, Marks
  <1>14. ASSUME NEW n \in 0 .. 24, Steps(n, {2, 5, 6, 7, 9}) PROVE FALSE
    BY <1>14 DEF Steps, Marks
  <1> QED  BY <1>1, <1>2, <1>3, <1>4, <1>5, <1>6, <1>7, <1>8, <1>9, <1>10, <1>11, <1>12, <1>13, <1>14

Leaves(bits) == (\E n \in 0 .. 25 : Agrees(n, bits)) \/ (\E n \in 0 .. 24 : Steps(n, bits))

\* What lies between two offset words, and whether an error vector leaves it.
LEMMA Between ==
    /\ offset_word[0] ^^ offset_word[1] = {2, 5, 6, 8}
    /\ offset_word[0] ^^ offset_word[2] = {2, 4, 7, 8}
    /\ offset_word[0] ^^ offset_word[3] = {3, 6, 8}
    /\ offset_word[0] ^^ offset_word[4] = {2, 3, 5, 7, 8, 9}
    /\ offset_word[1] ^^ offset_word[2] = {4, 5, 6, 7}
    /\ offset_word[1] ^^ offset_word[3] = {2, 3, 5}
    /\ offset_word[1] ^^ offset_word[4] = {3, 6, 7, 9}
    /\ offset_word[2] ^^ offset_word[3] = {2, 3, 4, 6, 7}
    /\ offset_word[2] ^^ offset_word[4] = {3, 4, 5, 9}
    /\ offset_word[3] ^^ offset_word[4] = {2, 5, 6, 7, 9}
  <1>1. /\ offset_word[0] = {2, 3, 4, 5, 6, 7} /\ offset_word[1] = {3, 4, 7, 8}
        /\ offset_word[2] = {3, 5, 6, 8} /\ offset_word[3] = {2, 4, 5, 7, 8}
        /\ offset_word[4] = {4, 6, 8, 9}
    BY DEF offset_word, Offsets, CTag
  <1>2. {2, 3, 4, 5, 6, 7} ^^ {3, 4, 7, 8} = {2, 5, 6, 8}
    BY DEF ^^
  <1>3. {2, 3, 4, 5, 6, 7} ^^ {3, 5, 6, 8} = {2, 4, 7, 8}
    BY DEF ^^
  <1>4. {2, 3, 4, 5, 6, 7} ^^ {2, 4, 5, 7, 8} = {3, 6, 8}
    BY DEF ^^
  <1>5. {2, 3, 4, 5, 6, 7} ^^ {4, 6, 8, 9} = {2, 3, 5, 7, 8, 9}
    BY DEF ^^
  <1>6. {3, 4, 7, 8} ^^ {3, 5, 6, 8} = {4, 5, 6, 7}
    BY DEF ^^
  <1>7. {3, 4, 7, 8} ^^ {2, 4, 5, 7, 8} = {2, 3, 5}
    BY DEF ^^
  <1>8. {3, 4, 7, 8} ^^ {4, 6, 8, 9} = {3, 6, 7, 9}
    BY DEF ^^
  <1>9. {3, 5, 6, 8} ^^ {2, 4, 5, 7, 8} = {2, 3, 4, 6, 7}
    BY DEF ^^
  <1>10. {3, 5, 6, 8} ^^ {4, 6, 8, 9} = {3, 4, 5, 9}
    BY DEF ^^
  <1>11. {2, 4, 5, 7, 8} ^^ {4, 6, 8, 9} = {2, 5, 6, 7, 9}
    BY DEF ^^
  <1> QED  BY <1>1, <1>2, <1>3, <1>4, <1>5, <1>6, <1>7, <1>8, <1>9, <1>10, <1>11

LEMMA MistakenIs ==
    ASSUME NEW i \in Offsets, NEW j \in Offsets
    PROVE  Leaves(offset_word[i] ^^ offset_word[j]) <=> j \in Mistaken[i]
  <1>1. /\ ~Leaves({}) /\ ~Leaves({2, 4, 7, 8}) /\ ~Leaves({4, 5, 6, 7})
        /\ ~Leaves({2, 3, 5}) /\ ~Leaves({2, 3, 5, 7, 8, 9}) /\ ~Leaves({3, 4, 5, 9})
        /\ ~Leaves({2, 5, 6, 7, 9})
    BY NeverConfused DEF Leaves
  <1>2. /\ Leaves({2, 5, 6, 8}) /\ Leaves({3, 6, 8}) /\ Leaves({3, 6, 7, 9})
        /\ Leaves({2, 3, 4, 6, 7})
    <2>1. 18 \in 0 .. 25 /\ 18 \in 0 .. 24 /\ 19 \in 0 .. 24 /\ 23 \in 0 .. 24
      OBVIOUS
    <2> QED  BY <2>1, Confused DEF Leaves
  <1> DEFINE W(a, b) == Leaves(offset_word[a] ^^ offset_word[b])
  <1>3. \A a, b : W(a, b) <=> W(b, a)
    BY XorLaws
  <1>4. ASSUME NEW a PROVE ~W(a, a)
    <2>1. offset_word[a] ^^ offset_word[a] = {}
      BY XorLaws
    <2> QED  BY <1>1, <2>1
  <1>5. /\ W(0, 1) /\ ~W(0, 2) /\ W(0, 3) /\ ~W(0, 4) /\ ~W(1, 2) /\ ~W(1, 3)
        /\ W(1, 4) /\ W(2, 3) /\ ~W(2, 4) /\ ~W(3, 4)
    BY <1>1, <1>2, Between
  <1> HIDE DEF W
  <1>6. W(i, j) <=> j \in Mistaken[i]
    <2>1. Mistaken[i] = IF i = 0 THEN {1, 3} ELSE IF i = 1 THEN {0, 4}
                        ELSE IF i = 2 THEN {3} ELSE IF i = 3 THEN {0, 2} ELSE {1}
      BY DEF Mistaken, CTag, Offsets
    <2> QED  BY <1>3, <1>4, <1>5, <2>1 DEF Offsets
  <1> QED  BY <1>6 DEF W

\* A block with the offset word i and an error vector on it shows the offset word j
\* for the pairs in Mistaken, and for no other.
LEMMA ConfusionsAre ==
    ASSUME NEW i \in Offsets, NEW j \in Offsets
    PROVE  (\E v \in ErrorVectors : calc_syndrome(v, 26) = syndrome[i] ^^ syndrome[j])
               <=> j \in Mistaken[i]
  <1> PICK w : w = offset_word[i] ^^ offset_word[j]
    OBVIOUS
  <1>1. w \in Registers /\ syndrome[i] ^^ syndrome[j] = Ten(w)
    <2>1. \A k \in Offsets : offset_word[k] \in Registers /\ syndrome[k] = Ten(offset_word[k])
      BY SyndromesAre
    <2> PICK a, b : a = offset_word[i] /\ b = offset_word[j]
      OBVIOUS
    <2>2. a \in Registers /\ b \in Registers
      BY <2>1
    <2>3. a ^^ b \in Registers /\ Ten(a ^^ b) = Ten(a) ^^ Ten(b)
      BY <2>2, RegisterXor, TenIs
    <2> QED  BY <2>1, <2>3
  <1>2. ASSUME NEW v \in ErrorVectors
        PROVE  calc_syndrome(v, 26) = syndrome[i] ^^ syndrome[j] <=> After(v, 26) = w
    BY <1>1, SyndromeOfVector, TenIs
  <1>3. (\E v \in ErrorVectors : After(v, 26) = w) <=> Leaves(w)
    <2>1. ASSUME NEW v \in ErrorVectors, After(v, 26) = w PROVE Leaves(w)
      <3>1. PICK at : Single(v, at) \/ Pair(v, at)
        BY ErrorVectorIs
      <3>2. (at \in 0 .. 25 /\ Power(at) = w) \/ (at \in 0 .. 24 /\ Double(at) = w)
        BY <2>1, <3>1, VectorLeaves DEF Single, Pair
      <3> QED  BY <1>1, <3>2, AgreesIs DEF Leaves
    <2>2. ASSUME NEW n \in 0 .. 25, Agrees(n, w)
          PROVE  \E v \in ErrorVectors : After(v, 26) = w
      <3>1. Single(Shift({0}, n), n)
        BY DEF Single
      <3>2. After(Shift({0}, n), 26) = w
        BY <1>1, <2>2, <3>1, VectorLeaves, AgreesIs
      <3> QED  BY <3>1, <3>2, ErrorVectorIs
    <2>3. ASSUME NEW n \in 0 .. 24, Steps(n, w)
          PROVE  \E v \in ErrorVectors : After(v, 26) = w
      <3>1. Pair(Shift({0, 1}, n), n)
        BY DEF Pair
      <3>2. After(Shift({0, 1}, n), 26) = w
        BY <1>1, <2>3, <3>1, VectorLeaves, AgreesIs
      <3> QED  BY <3>1, <3>2, ErrorVectorIs
    <2> QED  BY <2>1, <2>2, <2>3 DEF Leaves
  <1> QED  BY <1>2, <1>3, MistakenIs

LEMMA MistakesHold ==
    ASSUME CrcInv
    PROVE  MistakesListed
  <1>1. /\ sent \in Words16 /\ tag \in Offsets /\ damage \in Blocks26 /\ reg \in Blocks26
        /\ reg = block(sent, tag) ^^ damage
    BY DamageIs DEF CrcInv
  <1>2. calc_syndrome(reg, 26) = syndrome[tag] ^^ calc_syndrome(damage, 26)
    BY <1>1, ReceivedIs
  <1>3. \A x, s, t : x ^^ s = t <=> x = t ^^ s
    <2>1. \A x, s : (x ^^ s) ^^ s = x
      <3>1. \A x, s : (x ^^ s) ^^ s = x ^^ (s ^^ s) /\ s ^^ s = {} /\ x ^^ {} = x
        BY XorLaws
      <3> QED  BY <3>1
    <2> QED  BY <2>1
  <1>4. ASSUME damage = {}
        PROVE  {j \in Offsets : WordRead(reg)[j] # NoWord} = Mistaken[tag] \cup {tag}
    <2>1. calc_syndrome(reg, 26) = syndrome[tag]
      <3>1. reg = block(sent, tag)
        BY <1>1, <1>4, XorLaws
      <3> QED  BY <1>1, <3>1, BlockIs
    <2>2. ASSUME NEW j \in Offsets
          PROVE  WordRead(reg)[j] # NoWord <=> j = tag \/ j \in Mistaken[tag]
      <3> PICK v : v = Vector(syndrome[tag], j)
        OBVIOUS
      <3>1. WordRead(reg)[j] = IF syndrome[tag] = syndrome[j] THEN dataword(reg)
                               ELSE IF v = {} THEN NoWord
                               ELSE dataword(reg) ^^ dataword(v)
        BY <1>1, <2>1, WordReadIs
      <3>2. dataword(reg) # NoWord /\ dataword(reg) ^^ dataword(v) # NoWord
        <4>1. \A x, y \in SUBSET (0 .. 15) : -1 \notin x /\ -1 \notin x ^^ y
          BY XorIs
        <4>2. dataword(reg) \in SUBSET (0 .. 15) /\ dataword(v) \in SUBSET (0 .. 15)
          BY DEF dataword
        <4>3. -1 \in NoWord
          BY DEF NoWord
        <4> QED  BY <4>1, <4>2, <4>3
      <3>3. syndrome[tag] = syndrome[j] <=> j = tag
        BY <1>1, SyndromesDiffer
      <3>4. v # {} <=> j \in Mistaken[tag]
        <4>1. v # {} <=> \E x \in ErrorVectors :
                             calc_syndrome(x, 26) ^^ syndrome[j] = syndrome[tag]
          BY VectorIs
        <4>2. \A x : calc_syndrome(x, 26) ^^ syndrome[j] = syndrome[tag]
                        <=> calc_syndrome(x, 26) = syndrome[tag] ^^ syndrome[j]
          BY <1>3
        <4> QED  BY <1>1, <4>1, <4>2, ConfusionsAre
      <3> QED  BY <3>1, <3>2, <3>3, <3>4
    <2>3. Mistaken[tag] \subseteq Offsets
      BY <1>1 DEF Mistaken, Offsets, CTag
    <2> QED  BY <1>1, <2>2, <2>3
  <1>5. ASSUME SpanOf(damage) \in 1 .. 2 PROVE Shown(reg) \subseteq Mistaken[tag]
    <2>1. damage # {}
      <3>1. SpanOf({}) = 0
        BY DEF SpanOf
      <3> QED  BY <1>5, <3>1
    <2>2. damage \in Bursts /\ SpanOf(damage) <= 2
      BY <1>5, <2>1 DEF CrcInv
    <2>3. damage \in ErrorVectors
      BY <2>2, SpanIs
    <2>4. ASSUME NEW j \in Shown(reg) PROVE j \in Mistaken[tag]
      <3>1. j \in Offsets /\ calc_syndrome(reg, 26) = syndrome[j]
        BY <2>4 DEF Shown
      <3>2. calc_syndrome(damage, 26) = syndrome[tag] ^^ syndrome[j]
        <4>1. \A x, y : x ^^ y = y ^^ x
          BY XorLaws
        <4>2. calc_syndrome(damage, 26) ^^ syndrome[tag] = syndrome[j]
          BY <1>2, <3>1, <4>1
        <4> QED  BY <1>3, <4>1, <4>2
      <3> QED  BY <1>1, <2>3, <3>1, <3>2, ConfusionsAre
    <2> QED  BY <2>4
  <1> QED  BY <1>4, <1>5 DEF MistakesListed

\* For every data word: where another offset word than its own is expected, the
\* decoder with correction takes a whole block for one of those that Mistaken lists
\* and for all of these, and after a burst of one or two bits a block shows no others.
THEOREM MistakesAlwaysListed == CrcSpec => []MistakesListed
  <1> QED  BY MistakesHold, CrcInvAlways, PTL

=============================================================================

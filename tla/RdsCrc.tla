-------------------------------- MODULE RdsCrc --------------------------------
(***************************************************************************)
(* The check of a block: calc_syndrome and the offset words (both decoders  *)
(* and the encoder have a copy), the two tests the decoders make with it    *)
(* and the burst correction of rds_decoder_redsea_impl.cc.  RdsDecoder,     *)
(* RedseaDecoder and RedseaLink speak of a block as "showing" an offset     *)
(* word or being "mistaken" for one; the properties of this module say what *)
(* that rests on.                                                           *)
(*                                                                         *)
(* A register is the set of the positions of its bits that are 1, so that   *)
(* the XOR of the code is the symmetric difference.                         *)
(***************************************************************************)
EXTENDS RdsFormat

CONSTANTS DataWords,   \* the data words that are sent
          MaxSpan      \* a burst of errors spans at most this many bits

ASSUME CrcAssumption ==
    /\ BlockBits = 26
    /\ DataWords \subseteq SUBSET (0 .. 15)
    /\ MaxSpan \in 2 .. 5

VARIABLES sent,      \* the data word of the block
          tag,       \* the index of its offset word
          reg,       \* the 26 bits in the decoder's shift register
          damage     \* the bits the channel has inverted

crcVars == <<sent, tag, reg, damage>>

a ^^ b == (a \cup b) \ (a \cap b)
Shift(bits, by) == {k + by : k \in bits}

\* constants.h: 252, 408, 360, 436, 848 and 383, 14, 303, 663, 748.
offset_word == [j \in Offsets |-> CASE
    j = 0 -> {2, 3, 4, 5, 6, 7} [] j = 1 -> {3, 4, 7, 8} [] j = 2 -> {3, 5, 6, 8}
    [] j = 3 -> {2, 4, 5, 7, 8} [] j = CTag -> {4, 6, 8, 9}]
syndrome == [j \in Offsets |-> CASE
    j = 0 -> {0, 1, 2, 3, 4, 5, 6, 8} [] j = 1 -> {1, 2, 3}
    [] j = 2 -> {0, 1, 2, 3, 5, 8} [] j = 3 -> {0, 1, 2, 4, 7, 9}
    [] j = CTag -> {2, 3, 5, 6, 7, 9}]

plen == 10
poly == {0, 3, 4, 5, 7, 8, 10}    \* 0x5B9

\* One round of the two loops of calc_syndrome: the register takes in a bit
\* and is reduced.  (The mutant reduces on the wrong bit.)
MutantTakeBit(r, bit) ==
    LET s == Shift(r, 1) \cup bit IN IF plen - 1 \in s THEN s ^^ poly ELSE s
TakeBit(r, bit) ==
    LET s == Shift(r, 1) \cup bit IN IF plen \in s THEN s ^^ poly ELSE s

\* The register after each round of the first and of the second loop, which takes
\* in zeros.
TakeBits(message, mlen) ==
    LET taken[n \in 0 .. mlen + plen] ==
            IF n = 0 THEN {}
            ELSE TakeBit(taken[n - 1], IF mlen - n \in message THEN {0} ELSE {})
    IN  taken

calc_syndrome(message, mlen) ==
    TakeBits(message, mlen)[mlen + plen] \cap (0 .. plen - 1)

\* encoder_impl.cc, prepare_buffer and get_from_groups: a block.
block(word, j) ==
    Shift(word, plen) \cup (calc_syndrome(word, 16) ^^ offset_word[j])

dataword(r)  == {k \in 0 .. 15 : k + plen \in r}
checkword(r) == r \cap (0 .. plen - 1)

\* The test of the search and the test of a block in its place: the offset
\* words that pass it.
Shown(r) == LET reg_syndrome == calc_syndrome(r, 26)
            IN  {j \in Offsets : reg_syndrome = syndrome[j]}
Received(r) == LET block_calculated_crc == calc_syndrome(dataword(r), 16)
               IN  {j \in Offsets :
                        checkword(r) ^^ offset_word[j] = block_calculated_crc}

\* The error vectors of makeErrorLookupTable.  (The mutant has the
\* patterns of the line that is commented out, "fix up to 5 bit burst errors".)
MutantErrors == {{0}, {0, 1}, {0, 1, 2}, {0, 2, 4}, {0, 4, 5}}
Errors == {{0}, {0, 1}}
ErrorVectors == {Shift(e, shift) \cap (0 .. 25) : e \in Errors, shift \in 0 .. 25}

\* The table kErrorLookup, offset by offset.
kErrorLookup == [j \in Offsets |->
    {<<calc_syndrome(v ^^ offset_word[j], 26), v>> : v \in ErrorVectors}]

\* The block, corrected for each of the offset words.
correctBurstErrors(r) ==
    LET reg_syndrome == calc_syndrome(r, 26)
    IN  [j \in Offsets |->
            LET found == {entry \in kErrorLookup[j] : entry[1] = reg_syndrome}
            IN  IF found = {} THEN r ELSE r ^^ (CHOOSE entry \in found : TRUE)[2]]

\* The word that the decoder with correction reads where it expects each of the
\* offset words.
NoWord == {-1}
WordRead(r) ==
    LET received == Received(r)
        corrected == correctBurstErrors(r)
    IN  [j \in Offsets |-> IF j \in received THEN dataword(r)
                           ELSE IF corrected[j] # r THEN dataword(corrected[j])
                           ELSE NoWord]

-----------------------------------------------------------------------------
Bursts == {Shift({0} \cup inner, at) :
               inner \in SUBSET (1 .. MaxSpan - 1), at \in 0 .. 25}
          \cap SUBSET (0 .. 25)
SpanOf(bits) == IF bits = {} THEN 0
                ELSE 1 + CHOOSE d \in 0 .. 25 :
                         /\ \E a, b \in bits : b - a = d
                         /\ \A a, b \in bits : b - a <= d

CrcInit ==
    /\ sent \in DataWords /\ tag \in Offsets
    /\ reg = block(sent, tag) /\ damage = {}

\* The channel inverts the bits of a burst.
Damage ==
    /\ damage = {}
    /\ \E burst \in Bursts : reg' = reg ^^ burst /\ damage' = burst
    /\ UNCHANGED <<sent, tag>>

CrcSpec == CrcInit /\ [][Damage]_crcVars

-----------------------------------------------------------------------------
\* The two tests are one: whatever the register holds, its syndrome is the one
\* listed for an offset word exactly when the checkword fits with that offset
\* word.  The search and the reception of blocks agree on what a block is.
TestsAgree == Shown(reg) = Received(reg)

\* A block as sent shows its own offset word and no other; a damaged one never
\* shows its own.  A bad block is not taken for the block that was expected.
DamageDetected == IF damage = {} THEN Shown(reg) = {tag} ELSE tag \notin Shown(reg)

\* Held against its own offset word, a block with a burst of one or two bits is
\* taken for what was sent and one with a longer burst is rejected: correction
\* never changes the data.
NeverMiscorrected ==
    WordRead(reg)[tag] = IF SpanOf(damage) <= 2 THEN sent ELSE NoWord

\* Mistaken (RdsFormat) lists the offset words that a whole block is taken for
\* by the decoder with correction, and those that a block with a short burst
\* shows: RedseaLink rests on it.
MistakesListed ==
    /\ damage = {} => {j \in Offsets : WordRead(reg)[j] # NoWord}
                        = Mistaken[tag] \cup {tag}
    /\ SpanOf(damage) \in 1 .. 2 => Shown(reg) \subseteq Mistaken[tag]
=============================================================================

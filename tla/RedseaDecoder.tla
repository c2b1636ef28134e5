---------------------------- MODULE RedseaDecoder ----------------------------
(***************************************************************************)
(* The decoder of lib/rds_decoder_redsea_impl.cc.  It searches and counts   *)
(* like rds_decoder_impl.cc (with its own WindowBlocks = 40 and             *)
(* MaxWrongBlocks = 28), but                                                *)
(*   - it reads a "variant" bit out of block 2 and expects block 3 with the *)
(*     offset word C or C' accordingly, where the other decoder tries both; *)
(*   - a block that is one burst of one or two bits away from the expected  *)
(*     offset word is corrected and counts as good.                         *)
(* `variant` is a local variable of work() without an initial value: every  *)
(* call of work() starts with an arbitrary one.                             *)
(***************************************************************************)
EXTENDS RdsDecoder

CONSTANTS VariantWords,  \* the words whose bit 12 is set
          Bad            \* no data word: the block cannot be read

ASSUME RedseaAssumption == VariantWords \subseteq Words /\ Bad \notin Words

VARIABLE variant

redseaVars == <<decoderVars, variant>>

RedseaInit == DecoderInit /\ variant \in {0, 1}

\* A new call of work(): nothing else changes between two bits.
WorkCalled ==
    /\ variant' \in {0, 1}
    /\ UNCHANGED decoderVars

\* The offset word a block is held against.  (The mutant takes C always.)
MutantExpected == block_number
Expected == IF block_number = 2 /\ variant # 0 THEN CTag ELSE block_number

\* Bit 12 of a good block 1, after correction.
ReadVariant(word) ==
    variant' = IF block_number # 1 THEN variant
               ELSE IF word \in VariantWords THEN 1 ELSE 0

\* The register shows the offset word `shown`; held against the expected
\* offset word, as it stands or corrected, it reads `word` (Bad: neither).
RedseaBit(shown, word) ==
    \/ SearchBit(shown) /\ UNCHANGED variant
    \/ AwaitBlock /\ UNCHANGED variant
    \/ /\ word # Bad
       /\ StoreBlock(offset_name[Expected], word)
       /\ ReadVariant(word)
    \/ word # Bad /\ PassOverBlock /\ ReadVariant(word)
    \/ word = Bad /\ RejectBlock /\ UNCHANGED variant

RedseaNext ==
    \/ WorkCalled
    \/ \E shown \in Offsets \cup {NoOffset}, word \in Words \cup {Bad} :
           RedseaBit(shown, word)

RedseaSpec == RedseaInit /\ [][RedseaNext]_redseaVars
=============================================================================

------------------------------- MODULE RdsFormat -------------------------------
(***************************************************************************)
(* The layout of the RDS bit stream, as lib/constants.h and the decoders    *)
(* use it: groups of four blocks of BlockBits bits, each block marked by an *)
(* offset word.                                                             *)
(***************************************************************************)
EXTENDS Integers

CONSTANT BlockBits           \* bits of a block: the literal 26 of the code

ASSUME BlockBitsAssumption == BlockBits \in Nat \ {0}

Offsets  == 0 .. 4          \* A, B, C, D, C' in the order of constants.h
CTag     == 4
NoOffset == 5
Blocks   == 0 .. 3          \* the places in a group: A, B, C or C', D

offset_pos == [j \in Offsets |-> IF j = CTag THEN 2 ELSE j]

\* The character that names an offset word in a published group.
offset_name == [j \in Offsets |-> CASE j = 0 -> "A" [] j = 1 -> "B"
                                    [] j = 2 -> "C" [] j = 3 -> "D"
                                    [] j = 4 -> "c"]
OffsetChars == {"A", "B", "C", "D", "c"}

\* The offset character a published group may carry in each place.
ExpectedChar == [b \in Blocks |-> CASE b = 0 -> {"A"} [] b = 1 -> {"B"}
                                    [] b = 2 -> {"C", "c"} [] b = 3 -> {"D"}]

\* The three messages of a decoder's port "out": the lock, the quality of a
\* window of blocks, a group.
SyncMsg(inSync)       == [meta |-> 1, sync |-> inSync]
RatioMsg(bad, blocks) == [meta |-> 2, wrong |-> bad, blocks |-> blocks]
GroupMsg(g, chars)    == [meta |-> 0, group |-> g, chars |-> chars]

\* The offset words at a distance of one or two adjacent bits from a block with
\* the offset word j: what a decoder that corrects such bursts mistakes it for.
\* RdsCrc checks the list against calc_syndrome.
Mistaken == [j \in Offsets |->
    CASE j = 0 -> {1, 3} [] j = 1 -> {0, CTag} [] j = 2 -> {3}
      [] j = 3 -> {0, 2} [] j = CTag -> {1}]
=============================================================================

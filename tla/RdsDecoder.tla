------------------------------ MODULE RdsDecoder ------------------------------
(***************************************************************************)
(* The block and group synchroniser of lib/rds_decoder_impl.cc (the block   *)
(* "rds_decoder"; lib/decoder_impl.cc is the same machine without the       *)
(* status messages).  One step is one iteration of the loop of work(): one  *)
(* received bit.                                                            *)
(*                                                                         *)
(* The 26-bit shift register is represented by what the code asks of it:    *)
(* `shown`, the index of the offset word whose syndrome it shows (NoOffset  *)
(* when it shows none), and `word`, its 16 data bits.  RdsCrc checks that   *)
(* "syndrome equals syndrome[j]" and "checkword XOR offset_word[j] equals   *)
(* the CRC of the data word" say the same thing of the register.            *)
(*                                                                         *)
(* Not represented: last_wrong_blocks_counter, which is assigned and never  *)
(* read, and the distance counter while it is not in use (it is held at 0). *)
(***************************************************************************)
EXTENDS RdsFormat, Sequences

CONSTANTS
    WindowBlocks,    \* blocks between two quality decisions: the literal 50
    MaxWrongBlocks,  \* wrong blocks a window may hold without loss: 35
    Words,           \* the data words a block can carry
    Unset            \* the contents of a cell that was never assigned

ASSUME WindowAssumption ==
    /\ WindowBlocks \in Nat \ {0}
    /\ MaxWrongBlocks \in 0 .. (WindowBlocks - 1)
ASSUME UnsetAssumption == Unset \notin Words

VARIABLES
    d_state,                    \* "NO_SYNC" or "SYNC"
    presync,                    \* a first candidate offset has been recorded
    lastseen_offset,            \* ... it was this one
    bit_distance,               \* ... bit_counter - lastseen_offset_counter
    block_bit_counter,
    block_number,               \* the block that is being received
    wrong_blocks_counter,
    blocks_counter,
    group_assembly_started,
    group_good_blocks_counter,
    group,                      \* the four data words
    offset_chars,               \* the four offset characters
    out                         \* the messages published by the last step

search == <<presync, lastseen_offset, bit_distance>>
window == <<wrong_blocks_counter, blocks_counter>>
assembly == <<group_assembly_started, group_good_blocks_counter, group,
              offset_chars>>
decoderVars == <<d_state, search, block_bit_counter, block_number, window,
                 assembly, out>>

MaxDistance == 4 * BlockBits + 1  \* no block distance is that long: saturate

DistanceAfterBit == IF bit_distance < MaxDistance
                    THEN bit_distance + 1 ELSE bit_distance

block_distance(last, j) ==
    IF offset_pos[last] >= offset_pos[j]
    THEN offset_pos[j] + 4 - offset_pos[last]
    ELSE offset_pos[j] - offset_pos[last]

\* The constructor.  The members it leaves uninitialised hold anything; the
\* two flags of the group assembly are left open, the others have a fixed
\* value because enter_sync or the record of a candidate assigns them first.
DecoderInit ==
    /\ d_state = "NO_SYNC" /\ presync = FALSE
    /\ lastseen_offset = 0 /\ bit_distance = 0
    /\ block_bit_counter = 0 /\ block_number = 0
    /\ wrong_blocks_counter = 0 /\ blocks_counter = 0
    /\ group_assembly_started \in BOOLEAN
    /\ group_good_blocks_counter \in 0 .. 5
    /\ group = [b \in Blocks |-> Unset]
    /\ offset_chars = [b \in Blocks |-> Unset]
    /\ out = <<SyncMsg(FALSE)>>

-----------------------------------------------------------------------------
(* NO_SYNC: two offset words at the right distance of each other.           *)

\* The register shows no offset word.
SeeNoOffset ==
    /\ d_state = "NO_SYNC"
    /\ bit_distance' = IF presync THEN DistanceAfterBit ELSE 0
    /\ out' = <<>>
    /\ UNCHANGED <<d_state, presync, lastseen_offset, block_bit_counter,
                   block_number, window, assembly>>

\* A first candidate.
RecordCandidate(j) ==
    /\ d_state = "NO_SYNC" /\ ~presync
    /\ presync' = TRUE
    /\ lastseen_offset' = j
    /\ bit_distance' = 1
    /\ out' = <<>>
    /\ UNCHANGED <<d_state, block_bit_counter, block_number, window, assembly>>

\* A second one at the wrong distance: both are forgotten.
DropCandidates(j) ==
    /\ d_state = "NO_SYNC" /\ presync
    /\ block_distance(lastseen_offset, j) * BlockBits # bit_distance
    /\ presync' = FALSE
    /\ bit_distance' = 0
    /\ out' = <<>>
    /\ UNCHANGED <<d_state, lastseen_offset, block_bit_counter, block_number,
                   window, assembly>>

\* enter_sync(j).  Its argument is the index of the offset word, not
\* offset_pos[j]: after C' (j = 4) the next block is taken for block 1.
EnterSync(j) ==
    /\ d_state = "NO_SYNC" /\ presync
    /\ block_distance(lastseen_offset, j) * BlockBits = bit_distance
    /\ d_state' = "SYNC"
    /\ wrong_blocks_counter' = 0 /\ blocks_counter' = 0
    /\ block_bit_counter' = 0
    /\ block_number' = (j + 1) % 4
    /\ group_assembly_started' = FALSE
    /\ bit_distance' = 0
    /\ out' = <<SyncMsg(TRUE)>>
    /\ UNCHANGED <<presync, lastseen_offset, group_good_blocks_counter, group,
                   offset_chars>>

-----------------------------------------------------------------------------
(* SYNC: a block every BlockBits bits.                                      *)

MutantBlockComplete == block_bit_counter >= BlockBits  \* off by one
BlockComplete == block_bit_counter >= BlockBits - 1

AwaitBlock ==
    /\ d_state = "SYNC"
    /\ ~BlockComplete
    /\ block_bit_counter' = block_bit_counter + 1
    /\ out' = <<>>
    /\ UNCHANGED <<d_state, search, block_number, window, assembly>>

BlockDue == d_state = "SYNC" /\ BlockComplete

\* The status messages after a block: a lost lock is reported before the ratio.
\* (The mutant reports only the ratio.)
MutantQualityReport(lost, full, wrong, blocks) ==
    IF full THEN <<RatioMsg(wrong, blocks)>> ELSE <<>>
QualityReport(lost, full, wrong, blocks) ==
    (IF lost THEN <<SyncMsg(FALSE)>> ELSE <<>>)
    \o (IF full THEN <<RatioMsg(wrong, blocks)>> ELSE <<>>)

\* (The mutant never gives a lock up.)
MutantTooManyWrong(wrong) == wrong > WindowBlocks
TooManyWrong(wrong) == wrong > MaxWrongBlocks

\* What follows the evaluation of every block: the next block, the quality
\* decision when the window is full, and the publication of `groups` before
\* the status messages.
CloseBlock(bad, groups) ==
    LET wrong == wrong_blocks_counter + bad
        blocks == blocks_counter + 1
        full == blocks = WindowBlocks
        lost == full /\ TooManyWrong(wrong)
    IN  /\ block_bit_counter' = 0
        /\ block_number' = (block_number + 1) % 4
        /\ wrong_blocks_counter' = IF full THEN 0 ELSE wrong
        /\ blocks_counter' = IF full THEN 0 ELSE blocks
        /\ d_state' = IF lost THEN "NO_SYNC" ELSE d_state
        /\ presync' = IF lost THEN FALSE ELSE presync
        /\ out' = groups \o QualityReport(lost, full, wrong, blocks)
        /\ UNCHANGED <<lastseen_offset, bit_distance>>

\* decode_group is called whenever the counter is 5, after a good block and
\* after a bad one.
Completed == IF group_good_blocks_counter' = 5
             THEN <<GroupMsg(group', offset_chars')>> ELSE <<>>

\* The counter after a good block of a group: block A sets it to 1 first.
\* (The mutant forgets to.)
MutantCountGoodBlock == group_good_blocks_counter + 1
CountGoodBlock ==
    (IF block_number = 0 THEN 1 ELSE group_good_blocks_counter) + 1

\* A good block is stored from block A on.  (The mutant stores every one.)
MutantInGroup == TRUE
InGroup == block_number = 0 \/ group_assembly_started

\* A good block A starts a group; a good block of a started group joins it.
StoreBlock(char, word) ==
    /\ BlockDue /\ InGroup
    /\ group_assembly_started' = TRUE
    /\ group_good_blocks_counter' = CountGoodBlock
    /\ group' = [group EXCEPT ![block_number] = word]
    /\ offset_chars' = [offset_chars EXCEPT ![block_number] = char]
    /\ CloseBlock(0, Completed)

\* A good block outside of a group.
PassOverBlock ==
    /\ BlockDue /\ ~InGroup
    /\ CloseBlock(0, <<>>)
    /\ UNCHANGED assembly

\* A bad block ends the assembly.
RejectBlock ==
    /\ BlockDue
    /\ group_assembly_started' = FALSE
    /\ UNCHANGED <<group_good_blocks_counter, group, offset_chars>>
    /\ CloseBlock(1, IF group_assembly_started THEN Completed ELSE <<>>)

-----------------------------------------------------------------------------
SearchBit(shown) ==
    \/ shown = NoOffset /\ SeeNoOffset
    \/ shown \in Offsets /\ RecordCandidate(shown)
    \/ shown \in Offsets /\ DropCandidates(shown)
    \/ shown \in Offsets /\ EnterSync(shown)

\* The offset words accepted for the block that is being received.  (The
\* mutant does not try C' after C.)
MutantAccepted == {block_number}
Accepted == IF block_number = 2 THEN {2, CTag} ELSE {block_number}

\* One iteration of the loop: the register, after the new bit, shows the
\* offset word `shown` and holds the data word `word`.
Bit(shown, word) ==
    \/ SearchBit(shown)
    \/ AwaitBlock
    \/ shown \in Accepted /\ StoreBlock(offset_name[shown], word)
    \/ shown \in Accepted /\ PassOverBlock
    \/ shown \notin Accepted /\ RejectBlock

DecoderNext == \E shown \in Offsets \cup {NoOffset}, word \in Words :
                   Bit(shown, word)

DecoderSpec == DecoderInit /\ [][DecoderNext]_decoderVars

-----------------------------------------------------------------------------
(* Properties of the decoder on any bit stream.                             *)

Message ==
    [meta : {1}, sync : BOOLEAN]
    \cup [meta : {2}, wrong : 0 .. WindowBlocks, blocks : {WindowBlocks}]
    \cup [meta : {0}, group : [Blocks -> Words \cup {Unset}],
          chars : [Blocks -> OffsetChars \cup {Unset}]]

\* The type of every variable.
TypeOK ==
    /\ d_state \in {"NO_SYNC", "SYNC"}
    /\ presync \in BOOLEAN
    /\ lastseen_offset \in Offsets
    /\ bit_distance \in 0 .. MaxDistance
    /\ block_bit_counter \in 0 .. (BlockBits - 1)
    /\ block_number \in Blocks
    /\ wrong_blocks_counter \in 0 .. blocks_counter
    /\ blocks_counter \in 0 .. (WindowBlocks - 1)
    /\ group_assembly_started \in BOOLEAN
    /\ group_good_blocks_counter \in 0 .. 5
    /\ group \in [Blocks -> Words \cup {Unset}]
    /\ offset_chars \in [Blocks -> OffsetChars \cup {Unset}]
    /\ out \in Seq(Message)

\* The blocks of the group in assembly that have been stored: all of them
\* right after block D.
StoredBlocks == IF block_number = 0 THEN Blocks ELSE 0 .. (block_number - 1)

WellFormed(g, chars) == /\ \A b \in Blocks : g[b] \in Words
                        /\ \A b \in Blocks : chars[b] \in ExpectedChar[b]

\* While a group is in assembly the counter agrees with the block number and
\* the blocks received so far are in their places: the counter and the block
\* number are advanced by different branches of the code.
AssemblyConsistent ==
    d_state = "SYNC" /\ group_assembly_started =>
        /\ group_good_blocks_counter =
               IF block_number = 0 THEN 5 ELSE block_number + 1
        /\ \A b \in StoredBlocks : group[b] \in Words
        /\ \A b \in StoredBlocks : offset_chars[b] \in ExpectedChar[b]

\* A published group holds four words that were received, in offset order
\* A B C|C' D, whatever was in the uninitialised members before.  The parser
\* leaves this unchecked ("TODO: verify offset chars", parser_impl.cc).
PublishedWellFormed ==
    \A i \in DOMAIN out :
        out[i].meta = 0 => WellFormed(out[i].group, out[i].chars)

\* Seen from outside the decoder is what DecoderService promises: groups whole
\* and only under a lock, gains and losses of the lock always reported, a loss
\* with the ratio that caused it, after the group its last block completed.
Service == INSTANCE DecoderService WITH synced <- (d_state = "SYNC")
ServesAsPromised == Service!Spec
=============================================================================

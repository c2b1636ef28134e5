------------------------------ MODULE RdsChannel ------------------------------
(***************************************************************************)
(* A decoder on the bit stream of a station: the station sends groups of    *)
(* four blocks without pause, over a channel that destroys blocks and shows *)
(* offset words where none were sent.  This module holds the station, the   *)
(* history a decoder is judged by and the properties; RdsLink and           *)
(* RedseaLink put the two decoders behind it.                               *)
(*                                                                         *)
(* The stream is outside of the program (the demodulator in front of the    *)
(* decoder, set up in apps/); it is modelled from what the decoder reads    *)
(* and from the order in which encoder_impl.cc sends blocks.                *)
(***************************************************************************)
EXTENDS RdsDecoder

CONSTANTS
    GroupIds,   \* groups are numbered modulo this: enough to tell a group
                \* from the one before it and the one before that
    Versions,   \* the versions a group may have: "A", "B" (C' in place of C)
    Garbage     \* words that were not sent

SentWords == (0 .. (GroupIds - 1)) \X Blocks

ASSUME LinkAssumption ==
    /\ GroupIds \in Nat \ {0}
    /\ Versions \subseteq {"A", "B"} /\ Versions # {}
    /\ Words = SentWords \cup Garbage
    /\ Garbage # {} /\ Garbage \cap SentWords = {}

VARIABLES
    tx_bit,      \* the bit of the block that is sent next
    tx_block,    \* the block of the group
    tx_version,
    tx_group,    \* the number of the group
    intact,      \* history: every block of this group so far arrived as sent,
                 \* while the decoder was aligned with the sender
    since_group  \* history: bits since the last group was published

linkVars == <<tx_bit, tx_block, tx_version, tx_group, intact, since_group>>
vars == <<decoderVars, linkVars>>

GroupBits == 4 * BlockBits

LinkInit ==
    /\ DecoderInit
    /\ tx_bit \in 0 .. (BlockBits - 1) /\ tx_block \in Blocks
    /\ tx_version \in Versions /\ tx_group = 0
    /\ intact = FALSE /\ since_group = GroupBits

SentOffset == IF tx_block = 2 /\ tx_version = "B" THEN CTag ELSE tx_block
SentWord   == <<tx_group, tx_block>>
BlockSent  == tx_bit = BlockBits - 1

\* The decoder's clock and block number agree with the sender's.
Aligned == /\ d_state = "SYNC"
           /\ block_bit_counter = tx_bit
           /\ block_number = tx_block

GroupsOut(msgs) == {i \in DOMAIN msgs : msgs[i].meta = 0}
Publishes == GroupsOut(out') # {}

Advance ==
    /\ tx_bit' = IF BlockSent THEN 0 ELSE tx_bit + 1
    /\ tx_block' = IF BlockSent THEN (tx_block + 1) % 4 ELSE tx_block
    /\ IF BlockSent /\ tx_block = 3
       THEN /\ tx_group' = (tx_group + 1) % GroupIds
            /\ tx_version' \in Versions
       ELSE UNCHANGED <<tx_group, tx_version>>

Observe(arrived) ==
    /\ intact' = IF BlockSent
                 THEN arrived /\ Aligned /\ (intact \/ tx_block = 0)
                 ELSE IF tx_bit = 0 /\ tx_block = 0 THEN FALSE ELSE intact
    /\ since_group' = IF Publishes THEN 1
                      ELSE IF since_group < GroupBits THEN since_group + 1
                      ELSE since_group

-----------------------------------------------------------------------------
LinkTypeOK ==
    /\ TypeOK
    /\ tx_bit \in 0 .. (BlockBits - 1) /\ tx_block \in Blocks
    /\ tx_version \in Versions /\ tx_group \in 0 .. (GroupIds - 1)
    /\ intact \in BOOLEAN
    /\ since_group \in 1 .. GroupBits

\* A decoder that is aligned with the station stays aligned until it gives the
\* lock up at the end of a block, whatever the channel does to the blocks: it
\* never slips a bit or a block (block_bit_counter and block_number are stepped
\* by the same branch for good, bad and unused blocks).
LockStep == Aligned => Aligned' \/ (d_state' = "NO_SYNC" /\ BlockSent)
LockNeverSlips == [][LockStep]_vars

\* A group all of whose blocks arrive while the decoder is aligned is
\* published, whole, with its last bit: bad blocks before it, an assembly that
\* was cut short or the end of a window do not cost a good group.
GroupEnds == BlockSent /\ tx_block = 3
SentGroup == [b \in Blocks |-> <<tx_group, b>>]

IntactGroupStep ==
    GroupEnds /\ intact' =>
        \E i \in DOMAIN out' : out'[i].meta = 0 /\ out'[i].group = SentGroup
IntactGroupPublished == [][IntactGroupStep]_vars

\* The words of a published group that were sent at all were sent in one
\* group, each in its place: blocks of different groups are never joined, also
\* not across a loss of lock or under a false lock.
NoMixedGroup ==
    \A i \in GroupsOut(out) :
        LET g == out[i].group
            real == {b \in Blocks : g[b] \notin Garbage}
        IN  /\ \A b \in real : g[b][2] = b
            /\ \A b, c \in real : g[b][1] = g[c][1]

\* A second publication within the 104 bits of a group happens only one block
\* after the first, on a bad block A (the counter of good blocks is tested there too
\* and was not reset), and repeats the same four words.
RepeatIsIdentical ==
    [][ Publishes /\ since_group < GroupBits =>
          /\ since_group = BlockBits
          /\ group' = group /\ offset_chars' = offset_chars
          /\ block_number = 0 /\ ~group_assembly_started' ]_vars
=============================================================================

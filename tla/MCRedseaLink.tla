----------------------------- MODULE MCRedseaLink -----------------------------
(* RedseaLink with groups 0 .. GroupIds - 1, of which OddGroups set bit 12.  *)
EXTENDS RedseaLink

CONSTANTS OddGroups, noise, oddNoise

Sent      == (0 .. (GroupIds - 1)) \X (0 .. 3)
Changed   == (0 .. (GroupIds - 1)) \X (0 .. 3) \X {0, 1}
NotSent   == Changed \cup {noise, oddNoise}
LinkWords == Sent \cup NotSent
OddWords  == (OddGroups \X {1}) \cup {w \in Changed : w[3] = 1} \cup {oddNoise}

\* As in MCRdsLink: what an abandoned assembly has left behind is not told
\* apart, and neither is bit 12 of a word that was not sent once it has been read.
Plain(w) == IF w \in AlteredWords THEN <<w[1], w[2], 2>>
            ELSE IF w = oddNoise THEN noise ELSE w
LiveAssembly ==
    IF d_state = "SYNC" /\ group_assembly_started
    THEN <<group_good_blocks_counter,
           [b \in StoredBlocks |-> <<Plain(group[b]), offset_chars[b]>>]>>
    ELSE <<>>

\* The variant is read only while the third block is awaited.  Before, it is one
\* call of work() away from any other value; what such a call does to `called`
\* matters to a group that is intact so far, and there block 1 has set it.
\* Of the messages only what the invariant says of them is kept (the other properties
\* are about the step that sends them), of the sender not since_group.
LiveVariant ==
    IF d_state = "SYNC" /\ block_number = 2 THEN <<variant, called /\ intact>>
    ELSE <<called /\ intact>>
LiveState == <<d_state, search, block_bit_counter, block_number, window,
               LiveAssembly, LiveVariant, tx_bit, tx_block, tx_version,
               tx_group, intact, JoinedInOrder>>
=============================================================================

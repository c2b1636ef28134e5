------------------------------ MODULE MCRdsLink ------------------------------
(* RdsLink with the words that the three groups of the instances carry.      *)
EXTENDS RdsLink

LinkWords == (0 .. (GroupIds - 1)) \X (0 .. 3) \cup Garbage

\* States that differ only in what an abandoned assembly has left behind are
\* the same to TLC: no step reads it before it is assigned again
\* (AssemblyConsistent is the reason).
LiveAssembly ==
    IF d_state = "SYNC" /\ group_assembly_started
    THEN <<group_good_blocks_counter,
           [b \in StoredBlocks |-> <<group[b], offset_chars[b]>>]>>
    ELSE <<>>

LiveState == <<d_state, search, block_bit_counter, block_number, window, out,
               LiveAssembly, linkVars>>
=============================================================================

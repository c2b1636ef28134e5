--------------------------- MODULE DecoderService ---------------------------
(***************************************************************************)
(* What a decoder promises to whoever reads its port "out" (the parser, the *)
(* tuner, the station table, the decoder comparison), whichever of the      *)
(* decoders it is and whatever it receives: the messages are enough to know *)
(* whether it is locked, every group is whole, and a lock is given up       *)
(* exactly when a quality report shows too many wrong blocks.  Nothing of   *)
(* how blocks are found is left: RdsDecoder and RedseaDecoder implement it. *)
(***************************************************************************)
EXTENDS RdsFormat, Sequences

CONSTANTS WindowBlocks, MaxWrongBlocks, Words

VARIABLES
    synced,     \* the decoder is locked
    out         \* the messages of the last step, in the order they are sent

serviceVars == <<synced, out>>

WholeGroup(m) ==
    /\ m.meta = 0
    /\ \A b \in Blocks : m.group[b] \in Words /\ m.chars[b] \in ExpectedChar[b]

\* The messages of a step: a group, or none, and then `report`.
Publish(report) ==
    \/ out' = report
    \/ \E i \in DOMAIN out' : WholeGroup(out'[i]) /\ out' = <<out'[i]>> \o report

Init == synced = FALSE /\ out = <<SyncMsg(FALSE)>>

Search == ~synced /\ UNCHANGED synced /\ out' = <<>>

Gain == ~synced /\ synced' = TRUE /\ out' = <<SyncMsg(TRUE)>>

Serve == synced /\ UNCHANGED synced /\ Publish(<<>>)

Assess ==
    /\ synced /\ UNCHANGED synced
    /\ \E wrong \in 0 .. MaxWrongBlocks :
           Publish(<<RatioMsg(wrong, WindowBlocks)>>)

Lose ==
    /\ synced /\ synced' = FALSE
    /\ \E wrong \in (MaxWrongBlocks + 1) .. WindowBlocks :
           Publish(<<SyncMsg(FALSE), RatioMsg(wrong, WindowBlocks)>>)

Next == Search \/ Gain \/ Serve \/ Assess \/ Lose

Spec == Init /\ [][Next]_serviceVars
=============================================================================

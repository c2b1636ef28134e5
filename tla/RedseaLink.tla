------------------------------ MODULE RedseaLink ------------------------------
(***************************************************************************)
(* The decoder of rds_decoder_redsea_impl.cc behind the channel of          *)
(* RdsChannel.  A block that is accepted in the place of a neighbouring     *)
(* offset word is the one that was sent with a bit or two changed: an       *)
(* altered word, which still belongs to its group and its place in it.      *)
(***************************************************************************)
EXTENDS RdsChannel, RedseaDecoder

\* What correction makes of a word of the station: the last component is the
\* bit 12 that it has then.
AlteredWords == (0 .. (GroupIds - 1)) \X Blocks \X {0, 1}
Altered(w) == {<<w[1], w[2], bit>> : bit \in {0, 1}}

ASSUME AlteredAssumption ==
    /\ AlteredWords \subseteq Garbage
    /\ \A w \in AlteredWords : w \in VariantWords <=> w[3] = 1

Noise == Garbage \ AlteredWords

VARIABLE called   \* history: a call of work() began while the third block of
                  \* the group was on its way

redseaLinkVars == <<vars, variant, called>>

RedseaLinkInit == LinkInit /\ variant \in {0, 1} /\ called = FALSE

\* What the decoder makes of an undamaged block.
ReadOfSent ==
    IF Expected = SentOffset THEN {SentWord}
    ELSE IF Expected \in Mistaken[SentOffset] THEN Altered(SentWord) ELSE {Bad}

\* What it makes of one with a burst of one or two bits: held against another
\* offset word the correction comes on top of the burst, if there is one; both may
\* leave the word itself alone.
ReadOfBurst ==
    IF Expected = SentOffset THEN {SentWord}
    ELSE Altered(SentWord) \cup {SentWord, Bad}

ObserveCalls == called' = (called /\ ~GroupEnds)

RedseaFaithfulBit ==
    /\ \/ BlockSent /\ \E word \in ReadOfSent : RedseaBit(SentOffset, word)
       \/ ~BlockSent /\ RedseaBit(NoOffset, Bad)
    /\ Advance
    /\ Observe(BlockSent) /\ ObserveCalls

\* A block with a burst shows no offset word or one it can be mistaken for.
BurstBit ==
    /\ BlockSent
    /\ \E shown \in Mistaken[SentOffset] \cup {NoOffset}, word \in ReadOfBurst :
          RedseaBit(shown, word)
    /\ Advance
    /\ Observe(TRUE) /\ ObserveCalls

RedseaDisturbedBit ==
    /\ \E shown \in Offsets \cup {NoOffset}, word \in Noise \cup {Bad} :
           RedseaBit(shown, word)
    /\ Advance
    /\ Observe(FALSE) /\ ObserveCalls

\* The scheduler may call work() anew between any two bits.
WorkCallStarts ==
    /\ WorkCalled
    /\ called' = (called \/ tx_block = 2)
    /\ UNCHANGED linkVars

RedseaLinkNext ==
    RedseaFaithfulBit \/ BurstBit \/ RedseaDisturbedBit \/ WorkCallStarts

RedseaLinkSpec == RedseaLinkInit /\ [][RedseaLinkNext]_redseaLinkVars

-----------------------------------------------------------------------------
\* A group whose blocks arrive with at most a short burst of errors each, while the
\* decoder is aligned, is published whole if its version is what bit 12 of its second
\* word says and no call of work() begins between its second and its third block: the
\* burst correction loses no word, and a call anywhere else, with whatever it
\* finds in the variant, costs no group.  The others are held against C or C' as
\* chance or bit 12 will have it, and may be lost (IntactGroupPublished); but
\* published with a word that is not their own they are not: the third may be
\* altered, if a burst came on top.
TellsVersion == (<<tx_group, 1>> \in VariantWords) = (tx_version = "B")
SentChars == [b \in Blocks |-> IF b = 2 /\ tx_version = "B" THEN "c" ELSE offset_name[b]]
OwnWords(g) ==
    \A b \in Blocks : \/ g[b] = SentGroup[b]
                      \/ b = 2 /\ g[b] \in Altered(SentGroup[b])
RepairedGroupStep ==
    GroupEnds /\ intact' =>
        /\ TellsVersion /\ ~called =>
              GroupMsg(SentGroup, SentChars) \in {out'[i] : i \in DOMAIN out'}
        /\ \A i \in GroupsOut(out') : OwnWords(out'[i].group)
RepairedGroupPublished == [][RepairedGroupStep]_vars

\* The words of a published group that are the station's, as they were sent or altered,
\* come from four blocks in a row: none is left of an older assembly, also not across
\* a loss of lock.  If the decoder is in step with the station, they are the
\* four blocks of one group.  If it is not they need not be: a lock that is off
\* by a block takes altered words for good ones, and joins the end of a group
\* with the beginning of the next one.
OfStation(w) == w \in SentWords \cup AlteredWords
Before(g) == IF g = 0 THEN GroupIds - 1 ELSE g - 1
BlockA(w, b) ==
    IF w[2] >= b THEN <<w[1], w[2] - b>> ELSE <<Before(w[1]), w[2] + 4 - b>>

InStep == block_bit_counter = tx_bit /\ block_number = tx_block

JoinedInOrder ==
    \A i \in GroupsOut(out) :
        LET g == out[i].group
            real == {b \in Blocks : OfStation(g[b])}
        IN  /\ \A b, c \in real : BlockA(g[b], b) = BlockA(g[c], c)
            /\ InStep => \A b \in real : g[b][2] = b
=============================================================================

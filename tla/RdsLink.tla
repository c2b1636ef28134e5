------------------------------- MODULE RdsLink -------------------------------
(* The decoder of rds_decoder_impl.cc behind the channel of RdsChannel.      *)
EXTENDS RdsChannel

\* A bit after which the register shows what was sent: the block when it is
\* complete, no offset word in between.
FaithfulBit ==
    /\ \/ BlockSent /\ Bit(SentOffset, SentWord)
       \/ ~BlockSent /\ \E word \in Garbage : Bit(NoOffset, word)
    /\ Advance
    /\ Observe(BlockSent)

\* A bit after which the register shows something else: a destroyed block, an
\* error that is not detected, an offset word by chance.
DisturbedBit ==
    /\ \E shown \in Offsets \cup {NoOffset}, word \in Garbage : Bit(shown, word)
    /\ Advance
    /\ Observe(FALSE)

LinkNext == FaithfulBit \/ DisturbedBit

LinkSpec == LinkInit /\ [][LinkNext]_vars

\* The demodulator delivers bits for ever and the scheduler calls work() as
\* long as there is input.
FairLinkSpec == LinkSpec /\ WF_vars(LinkNext)

\* Once the channel makes no more errors the decoder finds the station and
\* stays with it, from any state the errors have left it in: half a candidate, a
\* false lock, a window full of wrong blocks.  The claim of the search, which
\* knows that C' is at position 2 (offset_pos, constants.h).
LocksWhenQuiet == <>[][FaithfulBit]_vars => <>[]Aligned

\* What there is of it: the one thing that keeps the decoder from it is that
\* the block that completes the search is a C', again and again.  With groups of
\* version A it always gets there, and from every other false lock.
LockOnCTag == d_state = "NO_SYNC" /\ d_state' = "SYNC" /\ SentOffset = CTag
LocksUnlessOnCTag ==
    <>[][FaithfulBit]_vars => <>[]Aligned \/ []<><<LockOnCTag>>_vars
=============================================================================

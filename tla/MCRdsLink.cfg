\* Groups of both versions over a channel with any errors, which may stop at an
\* unknown time: blocks of 2 bits, and windows of 6 blocks, which like the
\* program's 50 is 2 modulo 4.
SPECIFICATION FairLinkSpec
CONSTANTS
    BlockBits = 2
    WindowBlocks = 6
    MaxWrongBlocks = 4
    GroupIds = 3
    Versions = {"A", "B"}
    Garbage = {noise}
    Unset = Unset
    Words <- LinkWords
INVARIANTS LinkTypeOK AssemblyConsistent NoMixedGroup
PROPERTIES LockNeverSlips IntactGroupPublished RepeatIsIdentical ServesAsPromised LocksUnlessOnCTag
VIEW LiveState

\* Groups of version B only: the first lock is on C' (an offset word that is
\* numbered 4), and windows hold 2 modulo 4 blocks, as 50 does.
SPECIFICATION FairLinkSpec
CONSTANTS
    BlockBits = 1
    WindowBlocks = 2
    MaxWrongBlocks = 1
    GroupIds = 1
    Versions = {"B"}
    Garbage = {noise}
    Unset = Unset
    Words <- LinkWords
PROPERTIES LocksWhenQuiet

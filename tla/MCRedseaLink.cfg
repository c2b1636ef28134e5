\* Groups of both versions and types, with any errors; work() is called anew
\* between any two bits.
SPECIFICATION RedseaLinkSpec
CONSTANTS
    BlockBits = 2
    WindowBlocks = 3
    MaxWrongBlocks = 1
    GroupIds = 3
    OddGroups = {1}
    Versions = {"A", "B"}
    noise = noise
    oddNoise = oddNoise
    Garbage <- NotSent
    Unset = Unset
    Bad = Bad
    Words <- LinkWords
    VariantWords <- OddWords
INVARIANTS JoinedInOrder
PROPERTIES RepairedGroupPublished ServesAsPromised
VIEW LiveState

\* Groups of version A, of even and odd types.
SPECIFICATION RedseaLinkSpec
CONSTANTS
    BlockBits = 2
    WindowBlocks = 3
    MaxWrongBlocks = 1
    GroupIds = 3
    OddGroups = {1}
    Versions = {"A"}
    noise = noise
    oddNoise = oddNoise
    Garbage <- NotSent
    Unset = Unset
    Bad = Bad
    Words <- LinkWords
    VariantWords <- OddWords
PROPERTIES IntactGroupPublished

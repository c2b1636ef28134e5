\* A reset in the middle of a radiotext group.
SPECIFICATION ParserSpec
CONSTANTS
    PSPairs = 2
    RTPairs = 4
    Pairs <- AllPairs
    PIs <- TwoPIs
    Traffic = {"TP", "none"}
    NoTraffic = "none"
    Blank = "  "
    NoLabel = NoLabel
    Services <- AllServices
    Names <- TwoNames
    Texts <- TwoTexts
    Listed <- TwoLists
    AFPairs <- TwoAFs
    DI <- TwoDIs
    Flags <- TwoFlags
    Others <- AllOthers
PROPERTIES ToggleFlushes

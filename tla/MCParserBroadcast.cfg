\* Two stations whose groups are received one kind at a time, resets and
\* retuning at any time.
SPECIFICATION FairParserSpec
CONSTANTS
    PSPairs = 2
    RTPairs = 4
    Pairs <- AllPairs
    PIs <- TwoPIs
    Traffic = {"TP", "none"}
    NoTraffic = "none"
    Blank = "  "
    NoLabel = NoLabel
    Services <- AllServices
    Names <- TwoNames
    Texts <- TwoTexts
    Listed <- TwoLists
    AFPairs <- TwoAFs
    DI <- TwoDIs
    Flags <- TwoFlags
    Others <- AllOthers
INVARIANTS ParserTypeOK VHFListed
PROPERTIES FlushedUnlessRaced ShowsStation ClockRight

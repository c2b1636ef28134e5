\* Two stations of one network; one of them changes its name, or its radiotext,
\* and is announced by the other one.
SPECIFICATION BroadcastSpec
CONSTANTS
    Ports = {1}
    Stations <- TwoStations
    Frequencies = {"f1", "f2"}
    PSSegments = 2
    RTSegments = 3
    HistoryLength = 1
    Segments <- AllSegments
    Ends = {"v|", "|"}
    BareEnds = {"|"}
    Cut <- CutAtEnd
    Blank = Blank
    NoFrequency = NoFrequency
    NoText = NoText
    MinCount <- MinusOne
    Names <- TwoNames
    Texts <- TwoTexts
    Transmits <- TwoFrequencies
    Announces <- Network
    Services <- AllServices
INVARIANTS TableTypeOK NameNeverStale NameSettles RowFollowsName TextNeverStale TextSettles

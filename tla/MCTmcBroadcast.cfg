\* Two stations, one of which repeats a message of the other one; two messages
\* that begin alike, and one that uses the same continuity index.
SPECIFICATION BroadcastSpec
CONSTANTS
    Stations <- TwoStations
    Locations = {"location"}
    Classes = {"class"}
    Indices = {1}
    MaxMessages = 3
    Alerts <- TwoProgrammes
INVARIANTS TmcTypeOK CompleteInSequence ShownOnce DictionaryMatchesList IntactAlertShown
PROPERTIES MixedOnlyAfterLoss

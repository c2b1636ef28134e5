\* Three decoders for five stations that come and go in every combination, and a
\* user who moves the band by 600 kHz.
SPECIFICATION BandSpec
CONSTANTS
    fft_len = 160
    num_decoders = 3
    bin_width = 2
    snapto = 10
    lift = 3
    carrier_width = 2
    fuzzyness = 2
    min_consec_max = 6
    SameStation = 5
    SameSlot = 25
    half_width = 3
    Transmitters <- FiveStations
    Airs <- FiveAirs
    Centers <- TwoCenters
PROPERTIES StationsFound DecodableReceived SentToStation
VIEW BandView

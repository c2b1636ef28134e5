\* The highest station of the band: the group it is put into is never closed.
SPECIFICATION BandSpec
CONSTANTS
    fft_len = 160
    num_decoders = 3
    bin_width = 2
    snapto = 10
    lift = 3
    carrier_width = 2
    fuzzyness = 2
    min_consec_max = 6
    SameStation = 5
    SameSlot = 25
    half_width = 3
    Transmitters <- FiveStations
    Airs <- FiveAirs
    Centers <- TwoCenters
PROPERTIES LastStationFound

------------------------------ MODULE TunerBand ------------------------------
(***************************************************************************)
(* A band with stations that come and go, whose spectrum the Tuner sees,    *)
(* and a user who moves the centre of it at any time, on another thread.    *)
(* A station fills the bins within half_width of its frequency with its     *)
(* strength.                                                                *)
(***************************************************************************)
EXTENDS Tuner

CONSTANTS
    Transmitters,   \* the frequencies of the stations
    half_width,
    Airs,           \* how strong the stations may be together
    Centers         \* the centre frequencies the user chooses

ASSUME BandAssumption ==
    /\ IsFiniteSet(Transmitters)
    /\ \A f \in Transmitters : f % snapto = 0
    /\ Airs \subseteq [Transmitters -> Nat]

VARIABLES
    chosen,     \* the centre that the user has chosen last
    rx_center,  \* the centre of the spectrum that work() is given
    audible,    \* history: the stations that could be found by the last call,
    found,      \* the indices that were,
    decodable,  \* those that are strong enough for one of the decoders,
    meant,      \* the stations whose index each decoder was given,
    steady      \* and if the call has had the centre of its spectrum until now

historyVars == <<audible, found, decodable, meant, steady>>
bandVars == <<tunerVars, chosen, rx_center, historyVars>>

\* The bin of a frequency when the band is centred at c, and those its station
\* fills.
BinAt(f, c) == (f - c) \div bin_width + carrier
Fills(f, c) == (BinAt(f, c) - half_width) .. (BinAt(f, c) + half_width)

\* Where stations overlap the stronger one is seen.
Spectrum(strength, c) ==
    [b \in 0 .. (fft_len - 1) |->
        Max({0} \cup {strength[f] : f \in {g \in Transmitters : b \in Fills(g, c)}})]

\* Loud enough, and with enough bins in the spectrum.
Visible(b) == b \in 0 .. (fft_len - 1) /\ AbsDiff(b, carrier) > carrier_width
Audible(strength, c) ==
    LET total == Total(Numbers(Spectrum(strength, c)))
    IN  {f \in Transmitters :
            /\ Cardinality({b \in Fills(f, c) : Visible(b)}) >= min_consec_max
            /\ strength[f] * Length > total}

\* What there is to be heard, and what a call finds of it: a set of records, which
\* TLC computes only once.
Heard ==
    {LET numbers == Numbers(Spectrum(strength, c))
     IN  [center |-> c,
          audible |-> Audible(strength, c),
          found |-> FoundStations(numbers),
          strongest |-> Strongest(numbers)] : strength \in Airs, c \in Centers}

Marks(i, f) == AbsDiff(BinOf(i), BinAt(f, rx_center)) <= half_width

BandInit ==
    /\ TunerInit
    /\ center_freq \in Centers /\ chosen = center_freq /\ rx_center = center_freq
    /\ audible = {} /\ found = {} /\ decodable = {}
    /\ meant = [slot \in Slots |-> {}] /\ steady = FALSE

Tune ==
    /\ \E heard \in Heard :
           /\ heard.center = rx_center
           /\ Assign(heard.strongest)
           /\ audible' = heard.audible
           /\ found' = heard.found
           /\ decodable' = Range(heard.strongest)
    /\ meant' = [slot \in Slots |-> {f \in audible' : Marks(last_station_indices'[slot], f)}]
    /\ steady' = (center_freq = rx_center)
    /\ UNCHANGED <<chosen, rx_center>>

Proceed ==
    /\ IndexToFreq \/ Publish
    /\ UNCHANGED <<chosen, rx_center, historyVars>>

\* The flowgraph hands a new centre to the block and to the receiver, in this order
\* or the other one, and spectra of the old centre are still queued then.
UserChooses ==
    /\ chosen = center_freq /\ chosen = rx_center
    /\ chosen' \in Centers \ {chosen}
    /\ UNCHANGED <<tunerVars, rx_center, historyVars>>

BlockFollows ==
    /\ center_freq # chosen
    /\ set_center_freq(chosen)
    /\ steady' = FALSE
    /\ UNCHANGED <<chosen, rx_center, audible, found, decodable, meant>>

SpectrumFollows ==
    /\ rx_center # chosen
    /\ rx_center' = chosen
    /\ UNCHANGED <<tunerVars, chosen, historyVars>>

BandNext == Tune \/ Proceed \/ UserChooses \/ BlockFollows \/ SpectrumFollows

BandSpec == BandInit /\ [][BandNext]_bandVars

-----------------------------------------------------------------------------
(* The properties are about the assignment of each call, and about what it  *)
(* sends in the end.                                                        *)

Assigns == ~working /\ working'
Sends   == working /\ ~working'

\* What is found are stations: each index belongs to one that is audible, and
\* every audible one is found once, also when others are cut short by the carrier
\* or drowned by the mean.  The highest one is the exception (LastStationFound).
FoundRight ==
    /\ \A i \in found' : \E f \in audible' : Marks(i, f)
    /\ \A f \in audible' : (\E g \in audible' : g > f) =>
           Cardinality({i \in found' : Marks(i, f)}) = 1
StationsFound == [][Assigns => FoundRight]_bandVars

\* "to detect last station" (max_freq.py:125): the highest one is found, too.
LastStationFound ==
    [][Assigns => \A f \in audible' : \E i \in found' : Marks(i, f)]_bandVars

\* "prevents back and forth switching" (max_freq.py:165): a decoder that is near
\* one of the strongest stations stays near where it is and receives one of them,
\* also if several decoders are near it, or several stations are near the decoder.
\* No decoder is left without a station while one that is near none of the old
\* indices is not received.
StaysOrHelps ==
    \A slot \in Slots :
        /\ (\E p \in decodable' : Near(slot, p)) =>
               \E p \in decodable' : Near(slot, p) /\ last_station_indices'[slot] = p
        /\ last_station_indices'[slot] = 0 =>
               \A p \in decodable' : \E s \in Slots :
                   Near(s, p) \/ last_station_indices'[s] = p

\* If no station is near the old indices of two decoders, and no decoder near two
\* stations, each of the strongest stations that were found is received by
\* exactly one decoder: by the one that is there already, if there is one
\* ("remove non decodable (too quiet)": the others are decoded).
\* The condition is needed: a station near two decoders takes both, and of two
\* stations near one decoder the stronger is not received, and one within
\* 0.5 MHz of the lower end of the band is near every decoder that is free.
Distinguishable(stations) ==
    /\ \A p \in stations : Cardinality({slot \in Slots : Near(slot, p)}) <= 1
    /\ \A slot \in Slots : Cardinality({p \in stations : Near(slot, p)}) <= 1
ReceivedOnce ==
    Distinguishable(decodable') =>
        \A p \in decodable' :
            /\ Cardinality({slot \in Slots : last_station_indices'[slot] = p}) = 1
            /\ \A slot \in Slots : Near(slot, p) => last_station_indices'[slot] = p
DecodableReceived == [][Assigns => StaysOrHelps /\ ReceivedOnce]_bandVars

\* A decoder that was given a station below the carrier is sent to exactly its
\* frequency.  One above the carrier is missed by the width of the bins that were
\* taken out of the spectrum (100 kHz at 20 MHz and 1024 bins): it is sent to the
\* next frequency of the raster below.  A call is held to that only if the centre
\* was that of its spectrum and was not changed while it went on; whatever earlier
\* calls did with another centre makes no difference.
SentRight ==
    \A slot \in Slots : \A f \in meant[slot] :
        out'[slot] = IF BinAt(f, center_freq) < carrier THEN f ELSE f - snapto
SentToStation == [][Sends /\ steady => SentRight]_bandVars
=============================================================================

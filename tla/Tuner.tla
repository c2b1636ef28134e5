-------------------------------- MODULE Tuner --------------------------------
(***************************************************************************)
(* The block that tunes the decoders, python/max_freq.py: in every call of  *)
(* work() after the first second it looks for stations in a spectrum and    *)
(* assigns the strongest ones to the decoders, keeping a decoder where it   *)
(* is if its station is still there.                                        *)
(*                                                                         *)
(* A spectrum is a function from 0 .. (fft_len - 1) to strengths, a station *)
(* an index of it.  Frequencies are integers (of 10 kHz in the instances).  *)
(*                                                                         *)
(* Not represented: handle_ctrl_msg, whose first statement calls            *)
(* pmt.is_dict() without its argument and raises TypeError on every         *)
(* message.  So index_fixed stays FALSE and searchMode TRUE for ever, and   *)
(* what depends on the other values is never executed.                      *)
(***************************************************************************)
EXTENDS Integers, SequencesExt

CONSTANTS
    fft_len,
    num_decoders,
    bin_width,       \* samp_rate / fft_len
    snapto,          \* the raster of the stations
    lift,            \* 30 kHz: "because detected max often too low"
    carrier_width,   \* bins disregarded on each side of the carrier: 2
    fuzzyness,       \* a gap in a station's bins: 2
    min_consec_max,  \* bins of a station: 6
    SameStation,     \* 0.1 MHz in bins
    SameSlot         \* 0.5 MHz in bins

Slots == 0 .. (num_decoders - 1)

ASSUME TunerAssumption ==
    /\ {fft_len, num_decoders, bin_width, snapto} \subseteq Nat \ {0}
    /\ {lift, carrier_width, fuzzyness} \subseteq Nat
    /\ fft_len > 2 * carrier_width + 1
    /\ min_consec_max \in Nat /\ min_consec_max > 2
    /\ SameStation \in Int /\ SameSlot \in Int /\ SameStation <= SameSlot

VARIABLES
    center_freq,
    last_station_indices,   \* what each decoder was tuned to: 0 if to nothing
    working,                \* a call of work() goes on
    station_freqs,          \* its list of frequencies
    out                     \* the frequencies the decoders were last sent

tunerVars == <<center_freq, last_station_indices, working, station_freqs, out>>

-----------------------------------------------------------------------------
(* The spectrum without the carrier, and where it is above the mean.        *)

carrier == fft_len \div 2
Length  == fft_len - (2 * carrier_width + 1)
Indices == 0 .. (Length - 1)

\* The bin that an index of `numbers` was read from.
BinOf(i) == IF i < carrier - carrier_width THEN i ELSE i + 2 * carrier_width + 1

Numbers(spectrum) == [i \in Indices |-> spectrum[BinOf(i)]]

\* Length times the mean.
Total(numbers) ==
    MapThenSumSet(LAMBDA x : x * Cardinality({i \in Indices : numbers[i] = x}),
                  {numbers[i] : i \in Indices})

MaxIndices(numbers) ==
    LET total == Total(numbers)
    IN  {i \in Indices : numbers[i] * Length > total}

-----------------------------------------------------------------------------
(* The stations: the centres of long enough streaks, close ones joined.     *)

AbsDiff(a, b) == IF a >= b THEN a - b ELSE b - a

\* (The mutant does not start a new count when a short streak ends.)
MutantCount(streak, i) ==
    IF AbsDiff(i, streak.last) <= fuzzyness THEN streak.count + (i - streak.last)
    ELSE streak.count
Count(streak, i) ==
    IF AbsDiff(i, streak.last) <= fuzzyness THEN streak.count + (i - streak.last)
    ELSE 1

StreakStep(streak, i) ==
    LET goesOn == AbsDiff(i, streak.last) <= fuzzyness
    IN  [streak EXCEPT
            !.last = i,
            !.count = Count(streak, i),
            !.reached = (goesOn /\ @) \/ Count(streak, i) >= min_consec_max,
            !.centres = IF ~goesOn /\ streak.reached
                        THEN Append(@, streak.last - streak.count \div 2) ELSE @]

\* The streak before each index: after the last one of maxIndices below it.
\* "to detect last station", a 0 is appended to them.
StationIndices(maxIndices) ==
    LET first == IF maxIndices = {} THEN 0 ELSE Min(maxIndices)
        streak[k \in 0 .. Length] ==
            LET before == {i \in maxIndices : i < k}
            IN  IF before = {}
                THEN [last |-> first, count |-> 1, reached |-> FALSE, centres |-> <<>>]
                ELSE StreakStep(streak[Max(before)], Max(before))
    IN  StreakStep(streak[Length], 0).centres

\* A group is the sum and the number of its indices.  It is closed by the first
\* index that does not belong to it: the last one never is.
GroupStep(g, idx) ==
    IF g.size > 0 /\ idx - g.last >= SameStation
    THEN [sum |-> idx, size |-> 1, last |-> idx,
          means |-> Append(g.means, g.sum \div g.size)]
    ELSE [g EXCEPT !.sum = @ + idx, !.size = @ + 1, !.last = idx]

Grouped(indices) ==
    LET grouped[k \in 0 .. Len(indices)] ==
            IF k = 0 THEN [sum |-> 0, size |-> 0, last |-> 0, means |-> <<>>]
            ELSE GroupStep(grouped[k - 1], indices[k])
    IN  grouped[Len(indices)].means

FoundStations(numbers) == Range(Grouped(StationIndices(MaxIndices(numbers))))

\* The stable sort by strength: the place of a station is the number of those that
\* are before it.  Those that can be decoded are the first ones.
IsBefore(numbers, i, j) ==
    \/ numbers[i] > numbers[j]
    \/ numbers[i] = numbers[j] /\ i < j
Strongest(numbers) ==
    LET stations == FoundStations(numbers)
        Place(i) == Cardinality({j \in stations : IsBefore(numbers, j, i)})
    IN  [n \in 1 .. Min({Cardinality(stations), num_decoders}) |->
            CHOOSE i \in stations : Place(i) = n - 1]

-----------------------------------------------------------------------------
(* Which decoder gets which station.                                        *)

Near(slot, station) == AbsDiff(last_station_indices[slot], station) < SameSlot

\* Every slot takes the stations near its old one in turn: the weakest stays.
Kept(strongest, slot) ==
    LET near == {n \in DOMAIN strongest : Near(slot, strongest[n])}
    IN  IF near = {} THEN 0 ELSE strongest[Max(near)]

\* The places of the stations that no slot took.  (The mutant does not notice that
\* a station was added.)
MutantNewStations(strongest) == DOMAIN strongest
NewStations(strongest) ==
    {n \in DOMAIN strongest : \A slot \in Slots : ~Near(slot, strongest[n])}

\* The slots that kept nothing take the new stations in turn, the weakest one first.
Assigned(strongest) ==
    LET new == NewStations(strongest)
        free == {slot \in Slots : Kept(strongest, slot) = 0}
        For(slot) == {n \in new : Cardinality({m \in new : m > n})
                                     = Cardinality({s \in free : s < slot})}
    IN  [slot \in Slots |->
            IF slot \in free /\ For(slot) # {}
            THEN strongest[CHOOSE n \in For(slot) : TRUE] ELSE Kept(strongest, slot)]

\* The frequency of an index, on the raster.  (In the mutant the spectrum starts
\* at the centre.)
MutantStartFreq == center_freq
StartFreq == center_freq - (fft_len * bin_width) \div 2
StationFreq(index) ==
    ((bin_width * index + StartFreq + lift + snapto \div 2) \div snapto) * snapto

-----------------------------------------------------------------------------
(* A call of work(), on the scheduler's thread.  It assigns the stations and *)
(* then turns one index after the other into a frequency, each with the      *)
(* center_freq that it reads then: nothing keeps the thread of the user      *)
(* interface from changing it in between.                                    *)

TunerInit ==
    /\ last_station_indices = [slot \in Slots |-> 0]
    /\ working = FALSE /\ station_freqs = <<>>
    /\ out = <<>>

\* With the strongest stations of its spectrum.  The guard on the time is true for
\* ever once a second has passed: the timer is never set again.
Assign(strongest) ==
    /\ ~working
    /\ working' = TRUE /\ station_freqs' = <<>>
    /\ last_station_indices' = Assigned(strongest)
    /\ UNCHANGED <<center_freq, out>>

IndexToFreq ==
    /\ working /\ Len(station_freqs) < num_decoders
    /\ station_freqs' =
           Append(station_freqs, StationFreq(last_station_indices[Len(station_freqs)]))
    /\ UNCHANGED <<center_freq, last_station_indices, working, out>>

\* (The local list is gone when the call returns.)
Publish ==
    /\ working /\ Len(station_freqs) = num_decoders
    /\ out' = [slot \in Slots |-> station_freqs[slot + 1]]
    /\ working' = FALSE /\ station_freqs' = <<>>
    /\ UNCHANGED <<center_freq, last_station_indices>>

\* The indices of the stations are not moved with the centre.
set_center_freq(freq) ==
    /\ center_freq' = freq
    /\ UNCHANGED <<last_station_indices, working, station_freqs, out>>
=============================================================================

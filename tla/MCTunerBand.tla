----------------------------- MODULE MCTunerBand -----------------------------
(* TunerBand with the bin width of a 3.2 MHz receiver with 160 bins (that of *)
(* 20 MHz with 1024): five stations in units of 10 kHz, some close to each    *)
(* other, one close to the lower end of the band, one strong enough to raise  *)
(* the mean above others.                                                    *)
EXTENDS TunerBand, TLC

FiveStations == {9860, 9910, 9940, 10050, 10130}
FiveAirs == {a \in [FiveStations -> {0, 1, 2, 3, 40}] :
                /\ a[9860] \in {0, 3} /\ a[9910] \in {0, 2, 3}
                /\ a[9940] \in {0, 2} /\ a[10050] \in {0, 1, 40}
                /\ a[10130] \in {0, 2}}
TwoCenters == {10000, 10060}

\* What the rest of a call and the next one depend on.
BandView ==
    <<center_freq, chosen, rx_center, last_station_indices, working, station_freqs,
      meant, steady>>
=============================================================================

-------------------------- MODULE MCParserBroadcast --------------------------
(* ParserBroadcast with two stations, one of which changes its name and text. *)
EXTENDS ParserBroadcast, TLC

FromZero(s) == [c \in 0 .. (Len(s) - 1) |-> s[c + 1]]
TwoPIs == {"d311", "d312"}
TwoNames == "d311" :> {FromZero(<<"Ra", "1 ">>), FromZero(<<"Ra", "2 ">>)}
            @@ "d312" :> {FromZero(<<"SW", "R3">>)}
Radiotext(version, s) == [version |-> version, pairs |-> FromZero(s)]
TwoTexts == "d311" :> {Radiotext("2A", <<"So", "ng", " b", "y ">>), Radiotext("2B", <<"Ne">>)}
            @@ "d312" :> {Radiotext("2A", <<"So", "ck">>)}
TwoAFs == "d311" :> {<<226, 10>>, <<20, 205>>} @@ "d312" :> {<<250, 5>>, <<225, 30>>}
TwoLists == "d311" :> {88500, 89500} @@ "d312" :> {189, 90500}
TwoDIs == "d311" :> FromZero(<<TRUE, FALSE>>) @@ "d312" :> FromZero(<<FALSE, FALSE>>)
TwoFlags == "d311" :> "TP" @@ "d312" :> "none"
AllPairs == {"Ra", "1 ", "2 ", "SW", "R3", "So", "ng", " b", "y ", "Ne", "ws", "Ro", "ck"}

\* The first and last days of months of some years, from the first to the last
\* day that is told apart (1900-03-01 to 2100-02-28).
ClockYears == {1900, 1999, 2000, 2024, 2100}
ClockDays ==
    {d \in {MJD([year |-> y, month |-> m, day |-> 1]) + e : y \in ClockYears, m \in 1 .. 12,
                                                            e \in {-1, 0}} :
        d \in 15079 .. 88127}
AllOthers ==
    {[type |-> "4A", pi |-> "d311", mjd |-> d] : d \in ClockDays}
    \cup {[type |-> "8A", pi |-> "d311", T |-> t, F |-> FALSE, word |-> w] :
              t \in BOOLEAN, w \in {5, 4096 + 3, 16384, 32768 + 1}}
    \cup {[type |-> "8A", pi |-> "d311", T |-> FALSE, F |-> TRUE, word |-> 7]}
    \cup {[type |-> "14A", pi |-> "d311", variant |-> v, pair |-> "SW"] : v \in {0, 1, 4}}
    \cup {[type |-> "3A", pi |-> "d311"]}
AllServices == {{"0A"}, {"AF"}, {"2A"}, {"4A"}, {"8A"}, {"14A", "3A"}}
=============================================================================

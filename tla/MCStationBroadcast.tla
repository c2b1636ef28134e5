-------------------------- MODULE MCStationBroadcast --------------------------
(* StationBroadcast with two stations of one network: the first one changes  *)
(* its name and radiotext, the second one announces it.                      *)
EXTENDS StationBroadcast, TLC

TwoStations == {"d311", "d312"}
NamesOf == "d311" :> {<<"a", "b">>, <<"c", "d">>, <<"a", "d">>} @@ "d312" :> {<<"e", "f">>}
FromZero(s) == [k \in 0 .. (Len(s) - 1) |-> s[k + 1]]
TwoNames == [PI \in TwoStations |-> {FromZero(n) : n \in NamesOf[PI]}]
TextsOf == {<<"x", "y", "w">>, <<"x", "v|">>, <<"|">>}
TwoTexts == [PI \in TwoStations |-> IF PI = "d311" THEN {FromZero(t) : t \in TextsOf}
                                    ELSE {FromZero(<<"x", "v|">>)}]
TwoFrequencies == "d311" :> {"f1"} @@ "d312" :> {"f2"}
Network == "d311" :> {} @@ "d312" :> {"d311"}
MinusOne == -1
NamesOnly == {"d311" :> {"0A"} @@ "d312" :> {"14A"}}
TextOnly == {"d311" :> {"2A"} @@ "d312" :> {}}
AllServices == NamesOnly \cup TextOnly
AllSegments == {"a", "b", "c", "d", "e", "f", "x", "y", "w", "v|", "|"}

\* The beginnings of the segments of a text, where another one has "v|".
Beginnings ==
    "x" :> "x-" @@ "y" :> "y-" @@ "w" :> "w-" @@ "v|" :> "v" @@ "|" :> "|-"
    @@ [s \in {"a", "b", "c", "d", "e", "f", Blank} |-> Blank]
CutAtEnd == "v|" :> Beginnings
=============================================================================

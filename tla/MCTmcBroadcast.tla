--------------------------- MODULE MCTmcBroadcast ---------------------------
(* TmcBroadcast with a set of alerts: a cancellation of one group, two      *)
(* messages of two groups that begin with the same words, and one of four   *)
(* groups with the same continuity index.                                   *)
EXTENDS TmcBroadcast

Here == <<"location", "class">>
Alert(first, cancels, further, rest) ==
    [first |-> first, key |-> Here, cancels |-> cancels, ci |-> 1,
     further |-> further, rest |-> rest]

Cancellation == Alert("cancellation", TRUE, 0, "none")
Accident == Alert("accident", FALSE, 1, "two cars")
WorseAccident == Alert("accident", FALSE, 1, "three cars")
Works == Alert("works", FALSE, 3, "two weeks")

TwoStations == {"d311", "d312"}
TwoProgrammes == ("d311" :> {Cancellation, Accident, WorseAccident, Works}
                  @@ "d312" :> {Accident})
=============================================================================

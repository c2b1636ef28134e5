--------------------------- MODULE StationBroadcast ---------------------------
(***************************************************************************)
(* Stations that send names, radiotexts and announcements of other stations *)
(* segment by segment, in any order, any of which may be lost; and the      *)
(* StationTable that receives them.  Names and texts change at any time.    *)
(***************************************************************************)
EXTENDS StationTable

CONSTANTS
    Names,      \* the names a station uses
    Texts,      \* its radiotexts
    Transmits,  \* its frequencies
    Announces,  \* the stations it announces
    Services    \* what each station sends: functions from stations to group types

\* A text that does not fill all segments ends with an end marker.
ASSUME BroadcastAssumption ==
    \A PI \in Stations :
        /\ Names[PI] \subseteq [PSAddresses -> Segments]
        /\ Transmits[PI] \subseteq Frequencies
        /\ Announces[PI] \subseteq Stations \ {PI}
        /\ \A t \in Texts[PI] : \E last \in RTAddresses :
               /\ t \in [0 .. last -> Segments]
               /\ \A k \in 0 .. (last - 1) : t[k] \notin Ends
               /\ last = RTSegments - 1 \/ t[last] \in Ends

VARIABLES
    services,
    name, text, flag,  \* on the air
    nameHeard,         \* how often all segments of this name were received, and
    textHeard,         \* which ones since; the same of the text
    misled,            \* a text was predicted that is not the one on the air
    rowUpdated         \* the last to write the row of a station was the update
                       \* with its complete name

historyVars == <<nameHeard, textHeard, misled, rowUpdated>>
broadcastVars == <<tableVars, services, name, text, flag, historyVars>>

Unheard == [rounds |-> 0, since |-> {}]
MaxRounds == 3
Hear(heard, k, addresses) ==
    LET since == heard.since \cup {k}
    IN  IF since # addresses THEN [heard EXCEPT !.since = since]
        ELSE [rounds |-> IF heard.rounds < MaxRounds THEN heard.rounds + 1 ELSE MaxRounds,
              since |-> {}]

BroadcastInit ==
    /\ TableInit
    /\ services \in Services
    /\ name \in [Stations -> UNION {Names[PI] : PI \in Stations}]
    /\ text \in [Stations -> UNION {Texts[PI] : PI \in Stations}]
    /\ \A PI \in Stations : name[PI] \in Names[PI] /\ text[PI] \in Texts[PI]
    /\ flag = [PI \in Stations |-> 0]
    /\ nameHeard = [PI \in Stations |-> Unheard]
    /\ textHeard = [PI \in Stations |-> Unheard]
    /\ misled = [PI \in Stations |-> FALSE]
    /\ rowUpdated = [PI \in Stations |-> FALSE]

ObserveRow ==
    rowUpdated' = [PI \in Stations |->
        \/ last_valid_psn'[PI] # last_valid_psn[PI]
        \/ rowUpdated[PI] /\ stations'[PI] = stations[PI]]

SendName(port, PI, due) ==
    /\ "0A" \in services[PI]
    /\ \E k \in PSAddresses, af \in SUBSET Transmits[PI] :
           /\ Group0A(port, PI, due, af, k, name[PI][k])
           /\ nameHeard' = [nameHeard EXCEPT ![PI] = Hear(@, k, PSAddresses)]
    /\ ObserveRow
    /\ UNCHANGED <<services, name, text, flag, textHeard, misled>>

SendText(port, PI, due) ==
    /\ "2A" \in services[PI]
    /\ \E k \in DOMAIN text[PI] :
           /\ Group2A(port, PI, due, flag[PI], k, text[PI][k])
           /\ textHeard' = [textHeard EXCEPT ![PI] = Hear(@, k, DOMAIN text[PI])]
           /\ misled' = [misled EXCEPT ![PI] =
                 \/ @
                 \/ /\ ~TextFits(PI, flag[PI], k, text[PI][k])
                    /\ \E j \in DOMAIN text[PI] :
                          RT'[PI][flag[PI]].text[j] \notin {text[PI][j], Blank}]
    /\ UNCHANGED <<services, name, text, flag, nameHeard, rowUpdated>>

SendNetwork(port, PI, due) ==
    /\ "14A" \in services[PI]
    /\ \E PI_ON \in Announces[PI] :
           \/ \E k \in PSAddresses :
                  Group14AName(port, PI, due, PI_ON, k, name[PI_ON][k])
           \/ \E freq_TN \in Transmits[PI], freq_ON \in Transmits[PI_ON] :
                  Group14AMapped(port, PI, due, PI_ON, freq_TN, freq_ON)
    /\ ObserveRow
    /\ UNCHANGED <<services, name, text, flag, nameHeard, textHeard, misled>>

\* A group of any kind of a station that is not valid.
SendIgnored(PI, due) ==
    /\ services[PI] # {}
    /\ IgnoredGroup(PI, due)
    /\ UNCHANGED <<services, name, text, flag, historyVars>>

\* Only groups that list frequencies make a difference between them.
Tune(port) ==
    /\ \E PI \in Stations : services[PI] \cap {"0A", "14A"} # {}
    /\ \E freq \in Frequencies : set_freq(port, freq)
    /\ UNCHANGED <<services, name, text, flag, historyVars>>

ChangeName(PI) ==
    /\ "0A" \in services[PI]
    /\ \E n \in Names[PI] \ {name[PI]} : name' = [name EXCEPT ![PI] = n]
    /\ nameHeard' = [nameHeard EXCEPT ![PI] = Unheard]
    /\ UNCHANGED <<tableVars, services, text, flag, textHeard, misled, rowUpdated>>

\* A new text usually comes with the other A/B flag.
ChangeText(PI) ==
    /\ "2A" \in services[PI]
    /\ \E t \in Texts[PI] \ {text[PI]} : text' = [text EXCEPT ![PI] = t]
    /\ \E f \in 0 .. 1 : flag' = [flag EXCEPT ![PI] = f]
    /\ textHeard' = [textHeard EXCEPT ![PI] = Unheard]
    /\ misled' = [misled EXCEPT ![PI] = FALSE]
    /\ UNCHANGED <<tableVars, services, name, nameHeard, rowUpdated>>

BroadcastNext ==
    \/ \E PI \in Stations, due \in BOOLEAN :
           \/ SendIgnored(PI, due)
           \/ \E port \in Ports : \/ SendName(port, PI, due) \/ SendText(port, PI, due)
                                  \/ SendNetwork(port, PI, due)
    \/ \E PI \in Stations : ChangeName(PI) \/ ChangeText(PI)
    \/ \E port \in Ports : Tune(port)

BroadcastSpec == BroadcastInit /\ [][BroadcastNext]_broadcastVars

-----------------------------------------------------------------------------
\* Once every segment of a name was received, whatever was there before and
\* whatever is lost since: no segment of another name is left.
NameNeverStale ==
    \A PI \in Stations :
        nameHeard[PI].rounds >= 1 =>
            \A k \in PSN_valid[PI] : PSN[PI][k] = name[PI][k]

\* Once each was received again the name is there and is stored.
NameSettles ==
    \A PI \in Stations :
        nameHeard[PI].rounds >= 2 => PSN[PI] = name[PI] /\ last_valid_psn[PI] = name[PI]

\* The row of a station in the data base has this name then, if the update with
\* a complete name was the last to write it.  (A row that was inserted or replaced
\* with the name as it was keeps it: an update with the name that was stored
\* before is taken for a duplicate.)
RowFollowsName ==
    \A PI \in Stations :
        nameHeard[PI].rounds >= 2 /\ rowUpdated[PI] =>
            stations[PI] \in {name[PI], NoText}

\* The same of radiotexts, in the buffer of the flag on the air: once every segment
\* was received no valid one is of another text.  Predicted segments are not valid
\* until they are received.
TextNeverStale ==
    \A PI \in Stations :
        textHeard[PI].rounds >= 1 =>
            \A k \in RT[PI][flag[PI]].valid \cap DOMAIN text[PI] :
                RT[PI][flag[PI]].text[k] = text[PI][k]

\* What is displayed of a text: all of it before the end marker.
Shown(t) == [k \in {j \in DOMAIN t : t[j] \notin BareEnds} |-> BeforeEnd(t[k], t[k])]

\* A text is stored when each segment was received three times (the end marker
\* must have been there before the last one), unless another text is predicted.
TextSettles ==
    \A PI \in Stations :
        textHeard[PI].rounds >= 3 /\ ~misled[PI] => last_valid_rt[PI] = Shown(text[PI])
=============================================================================

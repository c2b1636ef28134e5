----------------------------- MODULE StationProofs -----------------------------
(***************************************************************************)
(* Theorems about the station table, whatever is lost, in whatever order    *)
(* segments arrive and whenever names and texts change: its types, and that *)
(* a name or radiotext that was received keeps nothing of another one.      *)
(*                                                                         *)
(* NameInv, RowInv, TextInv, SettleInv and TableInv are inductive, RowInv   *)
(* with the first one, SettleInv with TextInv, and TableInv with both.      *)
(***************************************************************************)
EXTENDS StationBroadcast, NumberTheorems

\* How the name on the air and what was received of it relate to the table.
Following(PI) ==
    /\ nameHeard[PI].rounds = 0 =>
           \A k \in nameHeard[PI].since : PSN[PI][k] \in {name[PI][k], Blank}
    /\ nameHeard[PI].rounds >= 1 =>
           /\ \A k \in PSAddresses : PSN[PI][k] \in {name[PI][k], Blank}
           /\ \A k \in nameHeard[PI].since : PSN[PI][k] = name[PI][k]
    /\ nameHeard[PI].rounds >= 2 => PSN[PI] = name[PI] /\ last_valid_psn[PI] = name[PI]

Marked(PI) == PSN_valid[PI] = {k \in PSAddresses : PSN[PI][k] # Blank}

NameTypes ==
    /\ PSN \in [Stations -> Name]
    /\ PSN_valid \in [Stations -> SUBSET PSAddresses]
    /\ last_valid_psn \in [Stations -> Name \cup {NoText}]
    /\ name \in [Stations -> [PSAddresses -> Segments]]
    /\ nameHeard \in [Stations -> [rounds : 0 .. MaxRounds, since : SUBSET PSAddresses]]

NameInv == NameTypes /\ \A PI \in Stations : Marked(PI) /\ Following(PI)

nameSideVars == <<nameVars, name, nameHeard>>

-----------------------------------------------------------------------------
(* What hearing a segment does to the count.                                *)

\* A round ends when the last of the addresses was heard; the count saturates.
HearOK(heard, new, k, addresses) ==
    /\ new \in [rounds : 0 .. MaxRounds, since : SUBSET addresses]
    /\ \/ /\ heard.since \cup {k} # addresses
          /\ new.rounds = heard.rounds /\ new.since = heard.since \cup {k}
       \/ /\ heard.since \cup {k} = addresses
          /\ new.since = {}
          /\ new.rounds = IF heard.rounds < MaxRounds THEN heard.rounds + 1
                          ELSE MaxRounds

LEMMA HearType ==
    ASSUME NEW addresses, NEW k \in addresses,
           NEW heard \in [rounds : 0 .. MaxRounds, since : SUBSET addresses]
    PROVE  HearOK(heard, Hear(heard, k, addresses), k, addresses)
  BY SMT DEF Hear, HearOK, MaxRounds

\* No name has been received.
LEMMA InitNames == BroadcastInit => NameInv
<1> SUFFICES ASSUME BroadcastInit PROVE NameInv
  OBVIOUS
<1>1. /\ PSN = [PI \in Stations |-> Empty(PSAddresses)]
      /\ PSN_valid = [PI \in Stations |-> {}]
      /\ last_valid_psn = [PI \in Stations |-> NoText]
      /\ nameHeard = [PI \in Stations |-> Unheard]
  BY DEF BroadcastInit, TableInit
<1>2. name \in [Stations -> [PSAddresses -> Segments]]
  <2>1. \A PI \in Stations : name[PI] \in [PSAddresses -> Segments]
    BY BroadcastAssumption DEF BroadcastInit
  <2>2. name \in [Stations -> UNION {Names[PI] : PI \in Stations}]
    BY DEF BroadcastInit
  <2> QED
    BY <2>1, <2>2
<1>3. Empty(PSAddresses) \in Name
  BY DEF Empty, Name
<1>4. Unheard \in [rounds : 0 .. MaxRounds, since : SUBSET PSAddresses]
  BY SMT DEF Unheard, MaxRounds
<1>5. NameTypes
  BY <1>1, <1>2, <1>3, <1>4 DEF NameTypes
<1>6. ASSUME NEW PI \in Stations
      PROVE  Marked(PI) /\ Following(PI)
  BY <1>1, SMT DEF Marked, Following, Unheard, Empty
<1> QED
  BY <1>5, <1>6 DEF NameInv

-----------------------------------------------------------------------------
\* A segment of the name on the air, in a group 0A.
LEMMA NameSegment ==
    ASSUME NameInv, NEW PI \in Stations, NEW k \in PSAddresses,
           NEW port, NEW af, DecodeName(port, PI, af, k, name[PI][k]),
           nameHeard' = [nameHeard EXCEPT ![PI] = Hear(@, k, PSAddresses)],
           UNCHANGED name
    PROVE  NameInv'
<1> DEFINE new == NewName(PI, k, name[PI][k])
           heard == Hear(nameHeard[PI], k, PSAddresses)
<1>1. /\ PSN[PI] \in Name /\ name[PI] \in [PSAddresses -> Segments]
      /\ PSN_valid[PI] \subseteq PSAddresses
      /\ nameHeard[PI] \in [rounds : 0 .. MaxRounds, since : SUBSET PSAddresses]
      /\ Marked(PI) /\ Following(PI)
  BY DEF NameInv, NameTypes
<1>2. HearOK(nameHeard[PI], heard, k, PSAddresses)
  BY <1>1, HearType
<1> HIDE DEF heard
<1>3. /\ new \in Name /\ new[k] = name[PI][k]
      /\ \A j \in PSAddresses : new[j] \in {PSN[PI][j], Blank, name[PI][j]}
      /\ SegmentFits(PI, k, name[PI][k]) =>
             \A j \in PSAddresses \ {k} : new[j] = PSN[PI][j]
      /\ \A j \in PSAddresses : PSN[PI][j] \in {name[PI][j], Blank}
                                    => new[j] \in {name[PI][j], Blank}
  BY <1>1, SMT DEF NewName, SegmentFits, Empty, Name
<1>4. NewNameValid(PI, k, name[PI][k]) = {j \in PSAddresses : new[j] # Blank}
  <2>1. name[PI][k] # Blank
    BY <1>1, SegmentsAssumption
  <2>2. PSN_valid[PI] = {j \in PSAddresses : PSN[PI][j] # Blank}
    BY <1>1 DEF Marked
  <2> QED
    BY <1>1, <2>1, <2>2, SMT DEF NewNameValid, NewName, SegmentFits, Empty, Name
<1> HIDE DEF new
<1>5. /\ PSN' = [PSN EXCEPT ![PI] = new]
      /\ PSN_valid' = [PSN_valid EXCEPT ![PI] = NewNameValid(PI, k, name[PI][k])]
      /\ last_valid_psn' =
            IF NewNameValid(PI, k, name[PI][k]) = PSAddresses /\ last_valid_psn[PI] # new
            THEN [last_valid_psn EXCEPT ![PI] = new] ELSE last_valid_psn
  BY DEF DecodeName, new
<1>6. nameHeard' = [nameHeard EXCEPT ![PI] = heard]
  BY DEF heard
<1>7. NameTypes'
  BY <1>2, <1>3, <1>4, <1>5, <1>6, SMT DEF NameInv, NameTypes, HearOK
<1>8. /\ PSN'[PI] = new /\ nameHeard'[PI] = heard
      /\ PSN_valid'[PI] = NewNameValid(PI, k, name[PI][k])
      /\ last_valid_psn'[PI] =
            IF NewNameValid(PI, k, name[PI][k]) = PSAddresses /\ last_valid_psn[PI] # new
            THEN new ELSE last_valid_psn[PI]
  BY <1>5, <1>6 DEF NameInv, NameTypes
<1>9. Marked(PI)'
  BY <1>4, <1>8 DEF Marked
<1>10. Following(PI)'
  <2>1. ASSUME nameHeard[PI].rounds >= 2
        PROVE  new = name[PI] /\ last_valid_psn'[PI] = name[PI]
    <3>1. PSN[PI] = name[PI] /\ last_valid_psn[PI] = name[PI]
      BY <1>1, <2>1 DEF Following
    <3>2. new = name[PI]
      BY <1>1, <3>1, SMT DEF new, NewName, SegmentFits
    <3> QED
      BY <1>8, <3>1, <3>2
  <2>2. ASSUME nameHeard[PI].rounds >= 1
        PROVE  /\ \A j \in PSAddresses : new[j] \in {name[PI][j], Blank}
               /\ \A j \in nameHeard[PI].since \cup {k} : new[j] = name[PI][j]
    BY <1>1, <1>3, <2>2, SMT DEF Following, SegmentFits
  <2>3. ASSUME nameHeard[PI].rounds = 0
        PROVE  \A j \in nameHeard[PI].since \cup {k} : new[j] \in {name[PI][j], Blank}
    BY <1>1, <1>3, <2>3, SMT DEF Following
  <2>4. ASSUME new = name[PI], nameHeard[PI].rounds = 1
        PROVE  last_valid_psn'[PI] = name[PI]
    <3>1. NewNameValid(PI, k, name[PI][k]) = PSAddresses
      BY <1>1, <1>4, <2>4, SegmentsAssumption
    <3> QED
      BY <1>8, <2>4, <3>1
  <2>5. CASE heard.rounds = nameHeard[PI].rounds /\ heard.since = nameHeard[PI].since \cup {k}
    BY <1>1, <1>8, <2>1, <2>2, <2>3, <2>5, SMT DEF Following, MaxRounds
  <2>6. CASE /\ nameHeard[PI].since \cup {k} = PSAddresses
             /\ heard.since = {}
             /\ heard.rounds = IF nameHeard[PI].rounds < MaxRounds
                               THEN nameHeard[PI].rounds + 1 ELSE MaxRounds
    <3>1. CASE nameHeard[PI].rounds = 0
      BY <1>1, <1>8, <2>3, <2>6, <3>1, SMT DEF Following, MaxRounds
    <3>2. CASE nameHeard[PI].rounds = 1
      <4>1. new = name[PI]
        BY <1>1, <1>3, <2>2, <2>6, <3>2, SMT DEF Name
      <4> QED
        BY <1>1, <1>8, <2>4, <2>6, <3>2, <4>1, SMT DEF Following, MaxRounds
    <3>3. CASE nameHeard[PI].rounds >= 2
      BY <1>1, <1>8, <2>1, <2>6, <3>3, SMT DEF Following, MaxRounds
    <3> QED
      BY <1>1, <3>1, <3>2, <3>3, SMT DEF MaxRounds
  <2> QED
    BY <1>2, <2>5, <2>6 DEF HearOK
<1>11. ASSUME NEW q \in Stations \ {PI}
       PROVE  Marked(q)' /\ Following(q)'
  <2>1. /\ PSN'[q] = PSN[q] /\ PSN_valid'[q] = PSN_valid[q]
        /\ last_valid_psn'[q] = last_valid_psn[q] /\ nameHeard'[q] = nameHeard[q]
    BY <1>5, <1>6, <1>11 DEF NameInv, NameTypes
  <2> QED
    BY <1>11, <2>1 DEF NameInv, Marked, Following
<1> QED
  BY <1>7, <1>9, <1>10, <1>11 DEF NameInv

\* A segment of the name of an announced station, in a group 14A.
LEMMA AnnouncedSegment ==
    ASSUME NameInv, NEW PI \in Stations, NEW PI_ON \in Stations, NEW k \in PSAddresses,
           NEW port, NEW due, Group14AName(port, PI, due, PI_ON, k, name[PI_ON][k]),
           UNCHANGED <<name, nameHeard>>
    PROVE  NameInv'
<1>1. /\ PSN' = [PSN EXCEPT ![PI_ON] = [PSN[PI_ON] EXCEPT ![k] = name[PI_ON][k]]]
      /\ PSN_valid' = [PSN_valid EXCEPT ![PI_ON] = PSN_valid[PI_ON] \cup {k}]
      /\ UNCHANGED last_valid_psn
  BY DEF Group14AName
<1>2. /\ PSN[PI_ON] \in Name /\ name[PI_ON] \in [PSAddresses -> Segments]
      /\ nameHeard[PI_ON] \in [rounds : 0 .. MaxRounds, since : SUBSET PSAddresses]
      /\ Marked(PI_ON) /\ Following(PI_ON)
      /\ name[PI_ON][k] # Blank
  BY SegmentsAssumption DEF NameInv, NameTypes
<1>3. NameTypes'
  BY <1>1, <1>2, SMT DEF NameInv, NameTypes, Name
<1>4. /\ PSN'[PI_ON] = [PSN[PI_ON] EXCEPT ![k] = name[PI_ON][k]]
      /\ PSN_valid'[PI_ON] = PSN_valid[PI_ON] \cup {k}
  BY <1>1 DEF NameInv, NameTypes
<1>5. Marked(PI_ON)'
  BY <1>2, <1>4, SMT DEF Marked, Name
<1>6. Following(PI_ON)'
  <2>1. nameHeard[PI_ON].rounds >= 2 => PSN'[PI_ON] = name[PI_ON]
    BY <1>2, <1>4, SMT DEF Following
  <2> QED
    BY <1>1, <1>2, <1>4, <2>1, SMT DEF Following, Name
<1>7. ASSUME NEW q \in Stations \ {PI_ON}
      PROVE  Marked(q)' /\ Following(q)'
  <2>1. PSN'[q] = PSN[q] /\ PSN_valid'[q] = PSN_valid[q]
    BY <1>1, <1>7 DEF NameInv, NameTypes
  <2> QED
    BY <1>1, <1>7, <2>1 DEF NameInv, Marked, Following
<1> QED
  BY <1>3, <1>5, <1>6, <1>7 DEF NameInv

\* A new name.
LEMMA NewNameOnAir ==
    ASSUME NameInv, NEW PI \in Stations, ChangeName(PI)
    PROVE  NameInv'
<1> PICK n \in Names[PI] \ {name[PI]} : name' = [name EXCEPT ![PI] = n]
  BY DEF ChangeName
<1>1. /\ nameHeard' = [nameHeard EXCEPT ![PI] = Unheard]
      /\ UNCHANGED <<PSN, PSN_valid, last_valid_psn>>
  BY DEF ChangeName, tableVars, nameVars
<1>2. n \in [PSAddresses -> Segments]
  BY BroadcastAssumption
<1>3. Unheard \in [rounds : 0 .. MaxRounds, since : SUBSET PSAddresses]
  BY SMT DEF Unheard, MaxRounds
<1>4. NameTypes'
  BY <1>1, <1>2, <1>3, SMT DEF NameInv, NameTypes
<1>5. nameHeard'[PI].rounds = 0 /\ nameHeard'[PI].since = {}
  BY <1>1 DEF NameInv, NameTypes, Unheard
<1>6. \A q \in Stations : Marked(q)'
  BY <1>1 DEF NameInv, Marked
<1>7. Following(PI)'
  BY <1>5, SMT DEF Following
<1>8. ASSUME NEW q \in Stations \ {PI}
      PROVE  Following(q)'
  <2>1. nameHeard'[q] = nameHeard[q] /\ name'[q] = name[q]
    BY <1>1, <1>8 DEF NameInv, NameTypes
  <2> QED
    BY <1>1, <1>8, <2>1 DEF NameInv, Following
<1> QED
  BY <1>4, <1>6, <1>7, <1>8 DEF NameInv

\* Steps that are not about names.
LEMMA OtherSteps == NameInv /\ UNCHANGED nameSideVars => NameInv'
  BY DEF NameInv, NameTypes, Marked, Following, nameSideVars, nameVars

-----------------------------------------------------------------------------
\* NameInv is inductive: a step per action.
LEMMA StepNames == NameInv /\ [BroadcastNext]_broadcastVars => NameInv'
<1> SUFFICES ASSUME NameInv, [BroadcastNext]_broadcastVars PROVE NameInv'
  OBVIOUS
<1>1. ASSUME NEW PI \in Stations, NEW due \in BOOLEAN, NEW port \in Ports,
             SendName(port, PI, due)
      PROVE  NameInv'
  <2> PICK k \in PSAddresses, af \in SUBSET Transmits[PI] :
          /\ Group0A(port, PI, due, af, k, name[PI][k])
          /\ nameHeard' = [nameHeard EXCEPT ![PI] = Hear(@, k, PSAddresses)]
    BY <1>1 DEF SendName
  <2> QED
    BY <1>1, NameSegment DEF SendName, Group0A
<1>2. ASSUME NEW PI \in Stations, NEW due \in BOOLEAN, NEW port \in Ports,
             SendNetwork(port, PI, due)
      PROVE  NameInv'
  <2> PICK PI_ON \in Announces[PI] :
           \/ \E k \in PSAddresses :
                  Group14AName(port, PI, due, PI_ON, k, name[PI_ON][k])
           \/ \E freq_TN \in Transmits[PI], freq_ON \in Transmits[PI_ON] :
                  Group14AMapped(port, PI, due, PI_ON, freq_TN, freq_ON)
    BY <1>2 DEF SendNetwork
  <2>1. PI_ON \in Stations
    BY BroadcastAssumption
  <2>2. UNCHANGED <<name, nameHeard>>
    BY <1>2 DEF SendNetwork
  <2>3. CASE \E k \in PSAddresses : Group14AName(port, PI, due, PI_ON, k, name[PI_ON][k])
    BY <2>1, <2>2, <2>3, AnnouncedSegment
  <2>4. CASE \E freq_TN \in Transmits[PI], freq_ON \in Transmits[PI_ON] :
                 Group14AMapped(port, PI, due, PI_ON, freq_TN, freq_ON)
    BY <2>2, <2>4, OtherSteps DEF Group14AMapped, nameSideVars, nameVars
  <2> QED
    BY <2>3, <2>4
<1>3. ASSUME NEW PI \in Stations, NEW due \in BOOLEAN, NEW port \in Ports,
             SendText(port, PI, due)
      PROVE  NameInv'
  BY <1>3, OtherSteps DEF SendText, Group2A, nameSideVars
<1>4. ASSUME NEW PI \in Stations, NEW due \in BOOLEAN, SendIgnored(PI, due)
      PROVE  NameInv'
  BY <1>4, OtherSteps DEF SendIgnored, IgnoredGroup, historyVars, nameSideVars
<1>5. ASSUME NEW PI \in Stations, ChangeName(PI)
      PROVE  NameInv'
  BY <1>5, NewNameOnAir
<1>6. ASSUME NEW PI \in Stations, ChangeText(PI)
      PROVE  NameInv'
  BY <1>6, OtherSteps DEF ChangeText, tableVars, nameSideVars
<1>7. ASSUME NEW port \in Ports, Tune(port)
      PROVE  NameInv'
  BY <1>7, OtherSteps DEF Tune, set_freq, historyVars, nameSideVars
<1>8. CASE UNCHANGED broadcastVars
  BY <1>8, OtherSteps DEF broadcastVars, tableVars, historyVars, nameSideVars
<1> QED
  BY <1>1, <1>2, <1>3, <1>4, <1>5, <1>6, <1>7, <1>8 DEF BroadcastNext

\* The invariant about names.
LEMMA NamesFollow == BroadcastSpec => []NameInv
  BY InitNames, StepNames, PTL DEF BroadcastSpec

\* For any number of stations, segments and names: once every segment of the name on
\* the air was received, handle_msg keeps no segment of another name of the station,
\* whatever was there before, also when other stations announce it.
THEOREM NamesNeverStale == BroadcastSpec => []NameNeverStale
<1>1. NameInv => NameNeverStale
  BY SMT DEF NameInv, NameTypes, Following, Marked, NameNeverStale
<1> QED
  BY <1>1, NamesFollow, PTL

\* Once every segment was received a second time the whole name is in the table and
\* was stored as a valid one.
THEOREM NamesSettle == BroadcastSpec => []NameSettles
<1>1. NameInv => NameSettles
  BY DEF NameInv, Following, NameSettles
<1> QED
  BY <1>1, NamesFollow, PTL

-----------------------------------------------------------------------------
(* The row of a station in the data base.                                   *)

RowInv ==
    /\ rowUpdated \in [Stations -> BOOLEAN]
    /\ last_valid_psn \in [Stations -> Name \cup {NoText}]
    /\ stations \in [Stations -> Name \cup {NoText}]
    /\ \A PI \in Stations : rowUpdated[PI] => stations[PI] \in {last_valid_psn[PI], NoText}

rowSideVars == <<last_valid_psn, stations, rowUpdated>>

\* The table of the data base is empty.
LEMMA InitRow == BroadcastInit => RowInv
  BY DEF BroadcastInit, TableInit, RowInv

\* A complete name, or a first frequency, is written to the row.
LEMMA RowOfName ==
    ASSUME RowInv, NameInv, NEW PI \in Stations, NEW k \in PSAddresses,
           NEW port, NEW af, DecodeName(port, PI, af, k, name[PI][k]), ObserveRow
    PROVE  RowInv'
<1> DEFINE new == NewName(PI, k, name[PI][k])
           row == IF FindsMain(port, PI, af) THEN PSN[PI] ELSE stations[PI]
           stored == /\ NewNameValid(PI, k, name[PI][k]) = PSAddresses
                     /\ last_valid_psn[PI] # new
<1>1. PSN[PI] \in Name /\ name[PI] \in [PSAddresses -> Segments]
  BY DEF NameInv, NameTypes
<1>2. new \in Name
  BY <1>1, SMT DEF NewName, SegmentFits, Empty, Name
<1>3. row \in Name \cup {NoText}
  BY <1>1 DEF RowInv
<1> HIDE DEF new, row
<1>4. /\ last_valid_psn' = IF stored THEN [last_valid_psn EXCEPT ![PI] = new]
                           ELSE last_valid_psn
      /\ stations' = [stations EXCEPT ![PI] = IF stored THEN UpdatedRow(row, new) ELSE row]
  BY DEF DecodeName, new, row
<1>5. rowUpdated' = [q \in Stations |->
          \/ last_valid_psn'[q] # last_valid_psn[q]
          \/ rowUpdated[q] /\ stations'[q] = stations[q]]
  BY DEF ObserveRow
<1>6. UpdatedRow(row, new) \in {new, NoText}
  BY DEF UpdatedRow
<1> HIDE DEF stored
<1>7. /\ last_valid_psn' \in [Stations -> Name \cup {NoText}]
      /\ stations' \in [Stations -> Name \cup {NoText}]
      /\ rowUpdated' \in [Stations -> BOOLEAN]
  BY <1>2, <1>3, <1>4, <1>5, <1>6 DEF RowInv
<1>8. ASSUME NEW q \in Stations, rowUpdated'[q]
      PROVE  stations'[q] \in {last_valid_psn'[q], NoText}
  <2>1. CASE last_valid_psn'[q] # last_valid_psn[q]
    BY <1>4, <1>6, <2>1 DEF RowInv
  <2>2. CASE last_valid_psn'[q] = last_valid_psn[q]
    BY <1>5, <1>8, <2>2 DEF RowInv
  <2> QED
    BY <2>1, <2>2
<1> QED
  BY <1>7, <1>8 DEF RowInv

\* A row that is replaced by an announcement is not known to be updated.
LEMMA RowOfAnnounced ==
    ASSUME RowInv, NameInv, NEW PI_ON \in Stations, UNCHANGED last_valid_psn,
           stations' \in [Stations -> Name \cup {NoText}], ObserveRow
    PROVE  RowInv'
  BY DEF RowInv, ObserveRow

\* Steps that write no row.
LEMMA OtherRows == RowInv /\ UNCHANGED rowSideVars => RowInv'
  BY DEF RowInv, rowSideVars

\* RowInv is inductive relative to NameInv.
LEMMA StepRow == RowInv /\ NameInv /\ NameInv' /\ [BroadcastNext]_broadcastVars => RowInv'
<1> SUFFICES ASSUME RowInv, NameInv, NameInv', [BroadcastNext]_broadcastVars PROVE RowInv'
  OBVIOUS
<1>1. ASSUME NEW PI \in Stations, NEW due \in BOOLEAN, NEW port \in Ports,
             SendName(port, PI, due)
      PROVE  RowInv'
  <2> PICK k \in PSAddresses, af \in SUBSET Transmits[PI] :
          Group0A(port, PI, due, af, k, name[PI][k])
    BY <1>1 DEF SendName
  <2> QED
    BY <1>1, RowOfName DEF SendName, Group0A
<1>2. ASSUME NEW PI \in Stations, NEW due \in BOOLEAN, NEW port \in Ports,
             SendNetwork(port, PI, due)
      PROVE  RowInv'
  <2>0. ObserveRow
    BY <1>2 DEF SendNetwork
  <2> PICK PI_ON \in Announces[PI] :
           \/ \E k \in PSAddresses :
                  Group14AName(port, PI, due, PI_ON, k, name[PI_ON][k])
           \/ \E freq_TN \in Transmits[PI], freq_ON \in Transmits[PI_ON] :
                  Group14AMapped(port, PI, due, PI_ON, freq_TN, freq_ON)
    BY <1>2 DEF SendNetwork
  <2>1. PI_ON \in Stations
    BY BroadcastAssumption
  <2>2. UNCHANGED last_valid_psn
    BY DEF Group14AName, Group14AMapped, nameVars
  <2>3. stations' \in [Stations -> Name \cup {NoText}]
    <3>1. PSN'[PI_ON] \in Name
      BY <2>1 DEF NameInv, NameTypes
    <3>2. \/ UNCHANGED stations
          \/ stations' = [stations EXCEPT ![PI_ON] = PSN'[PI_ON]]
      BY DEF Group14AName, Group14AMapped
    <3> QED
      BY <3>1, <3>2 DEF RowInv
  <2> QED
    BY <2>0, <2>1, <2>2, <2>3, RowOfAnnounced
<1>3. ASSUME NEW PI \in Stations, NEW due \in BOOLEAN, NEW port \in Ports,
             SendText(port, PI, due)
      PROVE  RowInv'
  BY <1>3, OtherRows DEF SendText, Group2A, nameVars, rowSideVars
<1>4. ASSUME NEW PI \in Stations, NEW due \in BOOLEAN, SendIgnored(PI, due)
      PROVE  RowInv'
  BY <1>4, OtherRows DEF SendIgnored, IgnoredGroup, historyVars, nameVars, rowSideVars
<1>5. ASSUME NEW PI \in Stations, ChangeName(PI) \/ ChangeText(PI)
      PROVE  RowInv'
  BY <1>5, OtherRows DEF ChangeName, ChangeText, tableVars, nameVars, rowSideVars
<1>6. ASSUME NEW port \in Ports, Tune(port)
      PROVE  RowInv'
  BY <1>6, OtherRows DEF Tune, set_freq, historyVars, nameVars, rowSideVars
<1>7. CASE UNCHANGED broadcastVars
  BY <1>7, OtherRows DEF broadcastVars, tableVars, nameVars, historyVars, rowSideVars
<1> QED
  BY <1>1, <1>2, <1>3, <1>4, <1>5, <1>6, <1>7 DEF BroadcastNext

\* When a complete name was the last to be written to the row of a station, the row has
\* the name on the air as soon as that has settled.
THEOREM RowsFollowNames == BroadcastSpec => []RowFollowsName
<1>1. BroadcastSpec => []RowInv
  BY InitRow, StepRow, NamesFollow, PTL DEF BroadcastSpec
<1>2. RowInv /\ NameInv => RowFollowsName
  BY DEF RowInv, NameInv, Following, RowFollowsName
<1> QED
  BY <1>1, <1>2, NamesFollow, PTL

-----------------------------------------------------------------------------
(* Radiotexts.  What is predicted has the segment that was received, which  *)
(* is all that is marked of it.                                             *)

Buffer == [text : Text, valid : SUBSET RTAddresses]

TextTypes ==
    /\ RT \in [Stations -> [0 .. 1 -> Buffer]]
    /\ RT_history \in [Stations -> Seq(Text)]
    /\ flag \in [Stations -> 0 .. 1]
    /\ DOMAIN text = Stations
    /\ DOMAIN textHeard = Stations
    /\ \A PI \in Stations :
           /\ text[PI] \in Texts[PI]
           /\ textHeard[PI] \in [rounds : 0 .. MaxRounds, since : SUBSET (DOMAIN text[PI])]

\* The segments of the text on the air that were received, or all of them.
Received(PI) == IF textHeard[PI].rounds >= 1 THEN DOMAIN text[PI] ELSE textHeard[PI].since

OnAir(PI) == LET buffer == RT[PI][flag[PI]]
             IN  \A k \in Received(PI) \cap buffer.valid : buffer.text[k] = text[PI][k]

TextInv == TextTypes /\ \A PI \in Stations : OnAir(PI)

textSideVars == <<RT, RT_history, flag, text, textHeard>>

\* The texts of a station, by BroadcastAssumption.
LEMMA SentText ==
    ASSUME NEW PI \in Stations, NEW t \in Texts[PI], NEW k \in DOMAIN t
    PROVE  k \in RTAddresses /\ t[k] \in Segments
<1> PICK last \in RTAddresses : t \in [0 .. last -> Segments]
  BY BroadcastAssumption
<1> QED
  BY SegmentsAssumption DEF RTAddresses

\* No radiotext has been received.
LEMMA InitTexts == BroadcastInit => TextInv
<1> SUFFICES ASSUME BroadcastInit PROVE TextInv
  OBVIOUS
<1>1. /\ RT = [PI \in Stations |->
                 [f \in 0 .. 1 |-> [text |-> Empty(RTAddresses), valid |-> {}]]]
      /\ RT_history = [PI \in Stations |-> <<>>]
      /\ textHeard = [PI \in Stations |-> Unheard]
      /\ flag = [PI \in Stations |-> 0]
  BY DEF BroadcastInit, TableInit
<1>2. DOMAIN text = Stations /\ \A PI \in Stations : text[PI] \in Texts[PI]
  BY DEF BroadcastInit
<1>3. [text |-> Empty(RTAddresses), valid |-> {}] \in Buffer
  BY DEF Empty, Text, Buffer
<1>4. <<>> \in Seq(Text)
  OBVIOUS
<1>5. \A PI \in Stations : Unheard \in [rounds : 0 .. MaxRounds, since : SUBSET (DOMAIN text[PI])]
  BY SMT DEF Unheard, MaxRounds
<1>6. TextTypes
  BY <1>1, <1>2, <1>3, <1>4, <1>5 DEF TextTypes
<1>7. \A PI \in Stations : OnAir(PI)
  BY <1>1, SMT DEF OnAir, Received, Unheard
<1> QED
  BY <1>6, <1>7 DEF TextInv

\* The text after a segment, received or predicted.
LEMMA TextAfterSegment ==
    ASSUME TextTypes, NEW PI \in Stations, NEW f \in 0 .. 1, NEW k \in RTAddresses,
           NEW s \in Segments
    PROVE  /\ NewText(PI, f, k, s) \in Text /\ NewText(PI, f, k, s)[k] = s
           /\ TextFits(PI, f, k, s) =>
                  \A j \in RTAddresses \ {k} : NewText(PI, f, k, s)[j] = RT[PI][f].text[j]
<1>1. RT[PI][f] \in Buffer /\ RT_history[PI] \in Seq(Text)
  BY DEF TextTypes
<1>2. Alike(PI, k, s) # {} => /\ RT_history[PI][Max(Alike(PI, k, s))] \in Text
                              /\ RT_history[PI][Max(Alike(PI, k, s))][k] = s
  <2>1. Alike(PI, k, s) \subseteq 1 .. Len(RT_history[PI]) /\ Len(RT_history[PI]) \in Nat
    BY <1>1 DEF Alike
  <2>2. Alike(PI, k, s) # {} => Max(Alike(PI, k, s)) \in Alike(PI, k, s)
    BY <2>1, MaxMember
  <2>3. \A i \in Alike(PI, k, s) : RT_history[PI][i] \in Text /\ RT_history[PI][i][k] = s
    BY <1>1 DEF Alike
  <2> QED
    BY <2>2, <2>3
<1>3. CASE TextFits(PI, f, k, s)
  BY <1>1, <1>3 DEF NewText, Text, Buffer
<1>4. CASE ~TextFits(PI, f, k, s) /\ Alike(PI, k, s) # {}
  BY <1>2, <1>4 DEF NewText
<1>5. CASE ~TextFits(PI, f, k, s) /\ Alike(PI, k, s) = {}
  BY <1>5 DEF NewText, Empty, Text
<1> QED
  BY <1>3, <1>4, <1>5

\* A segment of the text on the air, in a group 2A.
LEMMA TextSegment ==
    ASSUME TextInv, NEW PI \in Stations, NEW k \in DOMAIN text[PI],
           DecodeText(PI, flag[PI], k, text[PI][k]),
           textHeard' = [textHeard EXCEPT ![PI] = Hear(@, k, DOMAIN text[PI])],
           UNCHANGED <<text, flag>>
    PROVE  TextInv'
<1> DEFINE f == flag[PI]
           s == text[PI][k]
           old == RT[PI][f]
           new == NewText(PI, f, k, s)
           valid == NewTextValid(PI, f, k, s)
           heard == Hear(textHeard[PI], k, DOMAIN text[PI])
<1>1. /\ f \in 0 .. 1 /\ old \in Buffer /\ RT_history[PI] \in Seq(Text)
      /\ text[PI] \in Texts[PI]
      /\ textHeard[PI] \in [rounds : 0 .. MaxRounds, since : SUBSET (DOMAIN text[PI])]
      /\ OnAir(PI)
  BY DEF TextInv, TextTypes
<1>2. k \in RTAddresses /\ s \in Segments
  BY <1>1, SentText
<1>3. HearOK(textHeard[PI], heard, k, DOMAIN text[PI])
  BY <1>1, HearType
<1>5. /\ new \in Text /\ new[k] = s
      /\ TextFits(PI, f, k, s) => \A j \in RTAddresses \ {k} : new[j] = old.text[j]
  BY <1>1, <1>2, TextAfterSegment DEF TextInv
<1>6. valid = IF TextFits(PI, f, k, s) THEN old.valid \cup {k} ELSE {k}
  BY DEF NewTextValid
<1>7. /\ RT' = [RT EXCEPT ![PI] = [RT[PI] EXCEPT ![f] = [text |-> new, valid |-> valid]]]
      /\ \/ RT_history' = [RT_history EXCEPT ![PI] = Remember(RT_history[PI], new)]
         \/ UNCHANGED RT_history
  BY DEF DecodeText
<1> HIDE DEF f, s, new, valid, heard
<1>8. Remember(RT_history[PI], new) \in Seq(Text)
  <2>1. Append(RT_history[PI], new) \in Seq(Text) /\ Append(RT_history[PI], new) # <<>>
    BY <1>1, <1>5
  <2> QED
    BY <2>1 DEF Remember
<1>9. [text |-> new, valid |-> valid] \in Buffer
  BY <1>1, <1>2, <1>5, <1>6 DEF Buffer
<1>10. textHeard' = [textHeard EXCEPT ![PI] = heard]
  BY DEF heard
<1>11. TextTypes'
  <2>1. RT' \in [Stations -> [0 .. 1 -> Buffer]]
    BY <1>1, <1>7, <1>9 DEF TextInv, TextTypes
  <2>2. RT_history' \in [Stations -> Seq(Text)]
    BY <1>7, <1>8 DEF TextInv, TextTypes
  <2>3. \A q \in Stations :
            textHeard'[q] \in [rounds : 0 .. MaxRounds, since : SUBSET (DOMAIN text[q])]
    BY <1>3, <1>10 DEF TextInv, TextTypes, HearOK
  <2>4. DOMAIN textHeard' = Stations
    BY <1>10 DEF TextInv, TextTypes
  <2> QED
    BY <2>1, <2>2, <2>3, <2>4 DEF TextInv, TextTypes
<1>12. /\ RT'[PI][f] = [text |-> new, valid |-> valid]
       /\ textHeard'[PI] = heard
  BY <1>1, <1>7, <1>10 DEF TextInv, TextTypes
<1>13. Received(PI)' \subseteq Received(PI) \cup {k}
  BY <1>1, <1>3, <1>12, SMT DEF Received, HearOK, MaxRounds
<1>14. \A j \in (Received(PI) \cup {k}) \cap valid : new[j] = text[PI][j]
  <2> SUFFICES ASSUME NEW j \in (Received(PI) \cup {k}) \cap valid PROVE new[j] = text[PI][j]
    OBVIOUS
  <2>1. CASE j = k
    BY <1>5, <2>1 DEF s
  <2>2. CASE j # k
    <3>1. TextFits(PI, f, k, s) /\ j \in old.valid /\ j \in Received(PI)
      BY <1>6, <2>2
    <3>2. old.text[j] = text[PI][j]
      BY <1>1, <3>1 DEF OnAir, f
    <3>3. j \in RTAddresses
      BY <1>1, <3>1 DEF Buffer
    <3> QED
      BY <1>5, <2>2, <3>1, <3>2, <3>3
  <2> QED
    BY <2>1, <2>2
<1>15. OnAir(PI)'
  BY <1>12, <1>13, <1>14 DEF OnAir, f
<1>16. ASSUME NEW q \in Stations \ {PI}
       PROVE  OnAir(q)'
  <2>1. RT'[q] = RT[q] /\ textHeard'[q] = textHeard[q]
    BY <1>7, <1>10, <1>16 DEF TextInv, TextTypes
  <2> QED
    BY <1>16, <2>1 DEF TextInv, OnAir, Received
<1> QED
  BY <1>11, <1>15, <1>16 DEF TextInv

\* A new text.
LEMMA NewTextOnAir ==
    ASSUME TextInv, NEW PI \in Stations, ChangeText(PI)
    PROVE  TextInv'
<1> PICK t \in Texts[PI] : text' = [text EXCEPT ![PI] = t]
  BY DEF ChangeText
<1> PICK f \in 0 .. 1 : flag' = [flag EXCEPT ![PI] = f]
  BY DEF ChangeText
<1>1. /\ textHeard' = [textHeard EXCEPT ![PI] = Unheard]
      /\ UNCHANGED <<RT, RT_history>>
  BY DEF ChangeText, tableVars, textVars
<1>2. \A q : Unheard \in [rounds : 0 .. MaxRounds, since : SUBSET (DOMAIN text'[q])]
  BY SMT DEF Unheard, MaxRounds
<1>3. TextTypes'
  BY <1>1, <1>2 DEF TextInv, TextTypes
<1>4. textHeard'[PI].rounds = 0 /\ textHeard'[PI].since = {}
  BY <1>1 DEF TextInv, TextTypes, Unheard
<1>5. OnAir(PI)'
  BY <1>4, SMT DEF OnAir, Received
<1>6. ASSUME NEW q \in Stations \ {PI}
      PROVE  OnAir(q)'
  <2>1. textHeard'[q] = textHeard[q] /\ text'[q] = text[q] /\ flag'[q] = flag[q]
    BY <1>1, <1>6 DEF TextInv, TextTypes
  <2> QED
    BY <1>1, <1>6, <2>1 DEF TextInv, OnAir, Received
<1> QED
  BY <1>3, <1>5, <1>6 DEF TextInv

\* Steps that are not about radiotexts.
LEMMA OtherTexts == TextInv /\ UNCHANGED textSideVars => TextInv'
  BY DEF TextInv, TextTypes, OnAir, Received, textSideVars

\* TextInv is inductive: a step per action.
LEMMA StepTexts == TextInv /\ [BroadcastNext]_broadcastVars => TextInv'
<1> SUFFICES ASSUME TextInv, [BroadcastNext]_broadcastVars PROVE TextInv'
  OBVIOUS
<1>1. ASSUME NEW PI \in Stations, NEW due \in BOOLEAN, NEW port \in Ports,
             SendText(port, PI, due)
      PROVE  TextInv'
  <2> PICK k \in DOMAIN text[PI] :
          /\ Group2A(port, PI, due, flag[PI], k, text[PI][k])
          /\ textHeard' = [textHeard EXCEPT ![PI] = Hear(@, k, DOMAIN text[PI])]
    BY <1>1 DEF SendText
  <2> QED
    BY <1>1, TextSegment DEF SendText, Group2A
<1>2. ASSUME NEW PI \in Stations, NEW due \in BOOLEAN, NEW port \in Ports,
             SendName(port, PI, due) \/ SendNetwork(port, PI, due)
      PROVE  TextInv'
  BY <1>2, OtherTexts
     DEF SendName, SendNetwork, Group0A, Group14AName, Group14AMapped, textVars, textSideVars
<1>3. ASSUME NEW PI \in Stations, NEW due \in BOOLEAN, SendIgnored(PI, due)
      PROVE  TextInv'
  BY <1>3, OtherTexts DEF SendIgnored, IgnoredGroup, historyVars, textVars, textSideVars
<1>4. ASSUME NEW PI \in Stations, ChangeText(PI)
      PROVE  TextInv'
  BY <1>4, NewTextOnAir
<1>5. ASSUME NEW PI \in Stations, ChangeName(PI)
      PROVE  TextInv'
  BY <1>5, OtherTexts DEF ChangeName, tableVars, textVars, textSideVars
<1>6. ASSUME NEW port \in Ports, Tune(port)
      PROVE  TextInv'
  BY <1>6, OtherTexts DEF Tune, set_freq, historyVars, textVars, textSideVars
<1>7. CASE UNCHANGED broadcastVars
  BY <1>7, OtherTexts DEF broadcastVars, tableVars, textVars, historyVars, textSideVars
<1> QED
  BY <1>1, <1>2, <1>3, <1>4, <1>5, <1>6, <1>7 DEF BroadcastNext

\* The invariant about radiotexts.
LEMMA TextsFollow == BroadcastSpec => []TextInv
  BY InitTexts, StepTexts, PTL DEF BroadcastSpec

\* Once every segment of the radiotext on the air was received, no segment that
\* handle_msg marks as valid is of another text, neither of the one before nor of a
\* remembered one that was predicted.
THEOREM TextsNeverStale == BroadcastSpec => []TextNeverStale
<1>1. TextInv => TextNeverStale
  BY DEF TextInv, OnAir, Received, TextNeverStale
<1> QED
  BY <1>1, TextsFollow, PTL

-----------------------------------------------------------------------------
(* A radiotext settles, unless another one is predicted.                    *)

\* How the text on the air and what was received of it relate to its buffer: after a
\* round nothing else is there, after two all of it is there and valid, after three
\* it is stored.
Settling(PI) ==
    LET buffer == RT[PI][flag[PI]]
        heard == textHeard[PI]
        t == text[PI]
    IN  ~misled[PI] =>
            /\ heard.rounds = 0 =>
                   \A j \in heard.since : buffer.text[j] \in {t[j], Blank}
            /\ heard.rounds >= 1 =>
                   /\ \A j \in DOMAIN t : buffer.text[j] \in {t[j], Blank}
                   /\ \A j \in heard.since : buffer.text[j] = t[j] /\ j \in buffer.valid
            /\ heard.rounds >= 2 =>
                   \A j \in DOMAIN t : buffer.text[j] = t[j] /\ j \in buffer.valid
            /\ heard.rounds >= 3 => last_valid_rt[PI] = Shown(t)

SettleInv ==
    /\ misled \in [Stations -> BOOLEAN]
    /\ DOMAIN last_valid_rt = Stations
    /\ \A PI \in Stations : Settling(PI)

settleSideVars == <<RT, flag, text, textHeard, misled, last_valid_rt>>

\* When all of a text is in its buffer, what is needed of the buffer is what is shown
\* of the text, whatever an older text has left behind its end.
LEMMA NeededIsShown ==
    ASSUME NEW PI \in Stations, NEW t \in Texts[PI], NEW buffer \in Text,
           \A j \in DOMAIN t : buffer[j] = t[j]
    PROVE  Needed(buffer) = {j \in DOMAIN t : t[j] \notin BareEnds}
<1> PICK last \in RTAddresses :
        /\ t \in [0 .. last -> Segments]
        /\ \A k \in 0 .. (last - 1) : t[k] \notin Ends
        /\ last = RTSegments - 1 \/ t[last] \in Ends
  BY BroadcastAssumption
<1> DEFINE ends == {k \in RTAddresses : buffer[k] \in Ends}
<1>1. /\ RTSegments \in Nat \ {0} /\ last \in 0 .. (RTSegments - 1)
      /\ DOMAIN t = 0 .. last /\ BareEnds \subseteq Ends
  BY SegmentsAssumption DEF RTAddresses
<1>2. \A k \in 0 .. (last - 1) : k \notin ends /\ t[k] \notin BareEnds
  BY <1>1
<1>3. CASE t[last] \in Ends
  <2>1. last \in ends /\ \A k \in ends : last <= k
    BY <1>1, <1>2, <1>3 DEF RTAddresses
  <2>2. Min(ends) = last
    BY <1>1, <2>1 DEF Min, RTAddresses
  <2>3. Needed(buffer) = {k \in 0 .. last : k < last \/ buffer[k] \notin BareEnds}
    BY <2>1, <2>2 DEF Needed
  <2> QED
    BY <1>1, <1>2, <2>3
<1>4. CASE t[last] \notin Ends
  <2>1. last = RTSegments - 1 /\ DOMAIN t = RTAddresses
    BY <1>1, <1>4 DEF RTAddresses
  <2>2. \A k \in RTAddresses : k \notin ends /\ t[k] \notin BareEnds
    BY <1>1, <1>2, <1>4, <2>1 DEF RTAddresses
  <2>3. ends = {}
    BY <2>2
  <2>4. Needed(buffer) = RTAddresses
    BY <2>3 DEF Needed
  <2> QED
    BY <2>1, <2>2, <2>4
<1> QED
  BY <1>3, <1>4

\* A segment of the text on the air, in a group 2A.
LEMMA SegmentSettles ==
    ASSUME TextInv, SettleInv, NEW PI \in Stations, NEW k \in DOMAIN text[PI],
           DecodeText(PI, flag[PI], k, text[PI][k]),
           textHeard' = [textHeard EXCEPT ![PI] = Hear(@, k, DOMAIN text[PI])],
           misled' = [misled EXCEPT ![PI] =
               \/ @
               \/ /\ ~TextFits(PI, flag[PI], k, text[PI][k])
                  /\ \E j \in DOMAIN text[PI] :
                        RT'[PI][flag[PI]].text[j] \notin {text[PI][j], Blank}],
           UNCHANGED <<text, flag>>
    PROVE  SettleInv'
<1> DEFINE f == flag[PI]
           t == text[PI]
           old == RT[PI][f]
           new == NewText(PI, f, k, t[k])
           valid == NewTextValid(PI, f, k, t[k])
           was == textHeard[PI]
           heard == Hear(was, k, DOMAIN t)
           fits == TextFits(PI, f, k, t[k])
           strays == \E j \in DOMAIN t : RT'[PI][f].text[j] \notin {t[j], Blank}
           needed == Needed(old.text)
           rt == [j \in needed |-> BeforeEnd(old.text[j], new[j])]
<1>1. /\ f \in 0 .. 1 /\ old \in Buffer /\ t \in Texts[PI]
      /\ was \in [rounds : 0 .. MaxRounds, since : SUBSET (DOMAIN t)]
      /\ Settling(PI)
  BY DEF TextInv, TextTypes, SettleInv
<1>2. k \in RTAddresses /\ t[k] \in Segments
      /\ \A j \in DOMAIN t : j \in RTAddresses
  BY <1>1, SentText
<1>3. HearOK(was, heard, k, DOMAIN t)
  BY <1>1, HearType
<1>4. /\ new \in Text /\ new[k] = t[k]
      /\ fits => \A j \in RTAddresses \ {k} : new[j] = old.text[j]
  BY <1>1, <1>2, TextAfterSegment DEF TextInv
<1>5. valid = IF fits THEN old.valid \cup {k} ELSE {k}
  BY DEF NewTextValid
<1>6. fits <=> old.text[k] \in {t[k], Blank}
  BY DEF TextFits
<1>7. /\ RT' = [RT EXCEPT ![PI] = [RT[PI] EXCEPT ![f] = [text |-> new, valid |-> valid]]]
      /\ last_valid_rt' = IF needed \subseteq valid /\ last_valid_rt[PI] # rt
                          THEN [last_valid_rt EXCEPT ![PI] = rt] ELSE last_valid_rt
  BY DEF DecodeText
<1>8. textHeard' = [textHeard EXCEPT ![PI] = heard]
  OBVIOUS
<1>9. misled' = [misled EXCEPT ![PI] = misled[PI] \/ (~fits /\ strays)]
  OBVIOUS
<1> HIDE DEF f, t, new, valid, was, heard, fits, strays, needed
<1>10. /\ RT'[PI][f] = [text |-> new, valid |-> valid]
       /\ textHeard'[PI] = heard
       /\ last_valid_rt'[PI] = IF needed \subseteq valid THEN rt ELSE last_valid_rt[PI]
       /\ DOMAIN last_valid_rt' = Stations
  <2>1. /\ DOMAIN RT = Stations /\ DOMAIN RT[PI] = 0 .. 1
        /\ DOMAIN textHeard = Stations /\ DOMAIN last_valid_rt = Stations
    BY DEF TextInv, TextTypes, SettleInv
  <2>2. RT'[PI][f] = [text |-> new, valid |-> valid]
    BY <1>1, <1>7, <2>1
  <2>3. textHeard'[PI] = heard
    BY <1>8, <2>1
  <2> HIDE DEF rt
  <2>4. /\ last_valid_rt'[PI] = IF needed \subseteq valid THEN rt ELSE last_valid_rt[PI]
        /\ DOMAIN last_valid_rt' = Stations
    <3>1. CASE needed \subseteq valid /\ last_valid_rt[PI] # rt
      <4>1. last_valid_rt' = [last_valid_rt EXCEPT ![PI] = rt]
        BY <1>7, <3>1
      <4> QED
        BY <2>1, <3>1, <4>1
    <3>2. CASE ~(needed \subseteq valid /\ last_valid_rt[PI] # rt)
      <4>1. last_valid_rt' = last_valid_rt
        BY <1>7, <3>2
      <4> QED
        BY <2>1, <3>2, <4>1
    <3> QED
      BY <3>1, <3>2
  <2> QED
    BY <2>2, <2>3, <2>4 DEF rt
<1>11. misled' \in [Stations -> BOOLEAN]
       /\ misled'[PI] = (misled[PI] \/ (~fits /\ strays))
  BY <1>9 DEF SettleInv, fits, strays
<1>12. Settling(PI)'
  <2> SUFFICES ASSUME ~misled'[PI]
               PROVE  /\ heard.rounds = 0 =>
                             \A j \in heard.since : new[j] \in {t[j], Blank}
                      /\ heard.rounds >= 1 =>
                             /\ \A j \in DOMAIN t : new[j] \in {t[j], Blank}
                             /\ \A j \in heard.since : new[j] = t[j] /\ j \in valid
                      /\ heard.rounds >= 2 =>
                             \A j \in DOMAIN t : new[j] = t[j] /\ j \in valid
                      /\ heard.rounds >= 3 => last_valid_rt'[PI] = Shown(t)
    BY <1>10 DEF Settling, f, t
  <2>1. ~misled[PI] /\ (fits \/ ~strays)
    BY <1>11
  <2>2. /\ was.rounds = 0 => \A j \in was.since : old.text[j] \in {t[j], Blank}
        /\ was.rounds >= 1 =>
               /\ \A j \in DOMAIN t : old.text[j] \in {t[j], Blank}
               /\ \A j \in was.since : old.text[j] = t[j] /\ j \in old.valid
        /\ was.rounds >= 2 =>
               \A j \in DOMAIN t : old.text[j] = t[j] /\ j \in old.valid
        /\ was.rounds >= 3 => last_valid_rt[PI] = Shown(t)
    BY <1>1, <2>1 DEF Settling, f, t, was
  <2>3. \A j \in DOMAIN t :
            old.text[j] \in {t[j], Blank} \/ ~fits => new[j] \in {t[j], Blank}
    <3>1. CASE fits
      BY <1>2, <1>4, <3>1
    <3>2. CASE ~fits
      <4>1. ~strays
        BY <2>1, <3>2
      <4> QED
        BY <1>10, <4>1 DEF strays
    <3> QED
      BY <3>1, <3>2
  <2>4. ASSUME was.rounds >= 1
        PROVE  /\ fits /\ valid = old.valid \cup {k}
               /\ \A j \in DOMAIN t : new[j] \in {t[j], Blank}
               /\ \A j \in was.since \cup {k} : new[j] = t[j] /\ j \in valid
    <3>1. fits /\ valid = old.valid \cup {k}
      BY <1>5, <1>6, <2>2, <2>4 DEF t
    <3>2. \A j \in DOMAIN t : new[j] \in {t[j], Blank}
      BY <2>2, <2>3, <2>4
    <3>3. \A j \in was.since : j \in RTAddresses
      BY <1>1, <1>2
    <3>4. \A j \in was.since \cup {k} : new[j] = t[j] /\ j \in valid
      BY <1>4, <2>2, <2>4, <3>1, <3>3
    <3> QED
      BY <3>1, <3>2, <3>4
  <2>5. ASSUME was.rounds >= 2
        PROVE  /\ \A j \in DOMAIN t : new[j] = t[j] /\ j \in valid
               /\ last_valid_rt'[PI] = Shown(t)
    <3>1. fits /\ valid = old.valid \cup {k}
      BY <1>1, <2>4, <2>5 DEF MaxRounds
    <3>2. \A j \in DOMAIN t : old.text[j] = t[j] /\ j \in old.valid
      BY <2>2, <2>5
    <3>3. \A j \in DOMAIN t : new[j] = t[j] /\ j \in valid
      BY <1>2, <1>4, <3>1, <3>2
    <3>4. old.text \in Text
      BY <1>1 DEF Buffer
    <3>5. needed = {j \in DOMAIN t : t[j] \notin BareEnds}
      BY <1>1, <3>2, <3>4, NeededIsShown DEF needed
    <3>6. needed \subseteq valid
          /\ \A j \in needed : new[j] = t[j] /\ old.text[j] = t[j]
      BY <3>2, <3>3, <3>5
    <3>7. rt = Shown(t)
      BY <3>5, <3>6 DEF Shown
    <3> QED
      BY <1>10, <3>3, <3>6, <3>7
  <2>6. CASE heard.rounds = was.rounds /\ heard.since = was.since \cup {k}
    <3>1. heard.rounds = 0 => \A j \in heard.since : new[j] \in {t[j], Blank}
      <4>1. \A j \in was.since : j \in DOMAIN t
        BY <1>1
      <4> QED
        BY <1>4, <2>2, <2>3, <2>6, <4>1
    <3>2. was.rounds >= 3 => was.rounds >= 2
      BY <1>1 DEF MaxRounds
    <3> QED
      BY <2>4, <2>5, <2>6, <3>1, <3>2
  <2>7. CASE /\ was.since \cup {k} = DOMAIN t /\ heard.since = {}
             /\ heard.rounds = IF was.rounds < MaxRounds THEN was.rounds + 1
                               ELSE MaxRounds
    <3>1. heard.rounds # 0
          /\ (heard.rounds >= 2 => was.rounds >= 1)
          /\ (heard.rounds >= 3 => was.rounds >= 2)
          /\ was.rounds \in 0 .. 3
      BY <1>1, <2>7 DEF MaxRounds
    <3>2. \A j \in DOMAIN t : new[j] \in {t[j], Blank}
      <4>1. CASE was.rounds = 0
        BY <1>4, <2>2, <2>3, <2>7, <4>1
      <4>2. CASE was.rounds >= 1
        BY <2>4, <4>2
      <4> QED
        BY <3>1, <4>1, <4>2
    <3>3. heard.rounds >= 2 => \A j \in DOMAIN t : new[j] = t[j] /\ j \in valid
      BY <2>4, <2>7, <3>1
    <3>4. heard.rounds >= 3 => last_valid_rt'[PI] = Shown(t)
      BY <2>5, <3>1
    <3> QED
      BY <2>7, <3>1, <3>2, <3>3, <3>4
  <2> QED
    BY <1>3, <2>6, <2>7 DEF HearOK
<1>13. ASSUME NEW q \in Stations \ {PI}
       PROVE  Settling(q)'
  <2>1. /\ RT'[q] = RT[q] /\ textHeard'[q] = textHeard[q] /\ misled'[q] = misled[q]
        /\ last_valid_rt'[q] = last_valid_rt[q]
    BY <1>7, <1>8, <1>9, <1>13 DEF TextInv, TextTypes, SettleInv
  <2>2. text'[q] = text[q] /\ flag'[q] = flag[q]
    OBVIOUS
  <2>3. Settling(q)
    BY DEF SettleInv
  <2> HIDE DEF rt, old
  <2> QED
    BY <2>1, <2>2, <2>3 DEF Settling
<1> QED
  BY <1>10, <1>11, <1>12, <1>13 DEF SettleInv

\* A new text.
LEMMA NewTextSettles ==
    ASSUME TextInv, SettleInv, NEW PI \in Stations, ChangeText(PI)
    PROVE  SettleInv'
<1>1. /\ textHeard' = [textHeard EXCEPT ![PI] = Unheard]
      /\ misled' = [misled EXCEPT ![PI] = FALSE]
      /\ UNCHANGED <<RT, last_valid_rt>>
  BY DEF ChangeText, tableVars, textVars
<1>2. textHeard'[PI].rounds = 0 /\ textHeard'[PI].since = {}
  BY <1>1 DEF TextInv, TextTypes, Unheard
<1>3. Settling(PI)'
  BY <1>2, SMT DEF Settling
<1>4. ASSUME NEW q \in Stations \ {PI}
      PROVE  Settling(q)'
  <2>1. /\ textHeard'[q] = textHeard[q] /\ text'[q] = text[q] /\ flag'[q] = flag[q]
        /\ misled'[q] = misled[q]
    BY <1>1, <1>4 DEF ChangeText, TextInv, TextTypes, SettleInv
  <2> QED
    BY <1>1, <1>4, <2>1 DEF SettleInv, Settling
<1> QED
  BY <1>1, <1>3, <1>4 DEF SettleInv

\* Steps that are not about radiotexts.
LEMMA OtherSettling == SettleInv /\ UNCHANGED settleSideVars => SettleInv'
  BY DEF SettleInv, Settling, settleSideVars

LEMMA StepSettling ==
    TextInv /\ SettleInv /\ [BroadcastNext]_broadcastVars => SettleInv'
<1> SUFFICES ASSUME TextInv, SettleInv, [BroadcastNext]_broadcastVars PROVE SettleInv'
  OBVIOUS
<1>1. ASSUME NEW PI \in Stations, NEW due \in BOOLEAN, NEW port \in Ports,
             SendText(port, PI, due)
      PROVE  SettleInv'
  <2> PICK k \in DOMAIN text[PI] :
          /\ Group2A(port, PI, due, flag[PI], k, text[PI][k])
          /\ textHeard' = [textHeard EXCEPT ![PI] = Hear(@, k, DOMAIN text[PI])]
          /\ misled' = [misled EXCEPT ![PI] =
                 \/ @
                 \/ /\ ~TextFits(PI, flag[PI], k, text[PI][k])
                    /\ \E j \in DOMAIN text[PI] :
                          RT'[PI][flag[PI]].text[j] \notin {text[PI][j], Blank}]
    BY <1>1 DEF SendText
  <2> QED
    BY <1>1, SegmentSettles DEF SendText, Group2A
<1>2. ASSUME NEW PI \in Stations, NEW due \in BOOLEAN, NEW port \in Ports,
             SendName(port, PI, due) \/ SendNetwork(port, PI, due)
      PROVE  SettleInv'
  BY <1>2, OtherSettling
     DEF SendName, SendNetwork, Group0A, Group14AName, Group14AMapped, textVars,
         settleSideVars
<1>3. ASSUME NEW PI \in Stations, NEW due \in BOOLEAN, SendIgnored(PI, due)
      PROVE  SettleInv'
  BY <1>3, OtherSettling
     DEF SendIgnored, IgnoredGroup, historyVars, textVars, settleSideVars
<1>4. ASSUME NEW PI \in Stations, ChangeText(PI)
      PROVE  SettleInv'
  BY <1>4, NewTextSettles
<1>5. ASSUME NEW PI \in Stations, ChangeName(PI)
      PROVE  SettleInv'
  BY <1>5, OtherSettling DEF ChangeName, tableVars, textVars, settleSideVars
<1>6. ASSUME NEW port \in Ports, Tune(port)
      PROVE  SettleInv'
  BY <1>6, OtherSettling DEF Tune, set_freq, historyVars, textVars, settleSideVars
<1>7. CASE UNCHANGED broadcastVars
  BY <1>7, OtherSettling
     DEF broadcastVars, tableVars, textVars, historyVars, settleSideVars
<1> QED
  BY <1>1, <1>2, <1>3, <1>4, <1>5, <1>6, <1>7 DEF BroadcastNext

\* A radiotext of which every segment was received three times is stored, as far as it
\* is shown, whatever was in the buffer and in the history, unless a remembered text
\* that is not the one on the air was predicted on the way.
THEOREM TextsSettle == BroadcastSpec => []TextSettles
<1>1. BroadcastInit => SettleInv
  <2> SUFFICES ASSUME BroadcastInit PROVE SettleInv
    OBVIOUS
  <2>1. /\ textHeard = [PI \in Stations |-> Unheard]
        /\ misled = [PI \in Stations |-> FALSE]
        /\ last_valid_rt = [PI \in Stations |-> NoText]
    BY DEF BroadcastInit, TableInit
  <2>2. \A PI \in Stations : Settling(PI)
    BY <2>1, SMT DEF Settling, Unheard
  <2> QED
    BY <2>1, <2>2 DEF SettleInv
<1>2. TextInv /\ SettleInv => TextSettles
  BY DEF TextInv, TextTypes, SettleInv, Settling, TextSettles
<1> QED
  BY <1>1, <1>2, StepSettling, TextsFollow, PTL DEF BroadcastSpec

-----------------------------------------------------------------------------
(* The types of the other variables, and what is not kept of stations that  *)
(* are not known.                                                           *)

CountTypes ==
    /\ known \subseteq seen /\ seen \subseteq Stations
    /\ PI_dict \in [Stations -> MinCount .. 2]

Tunings == Frequencies \cup {NoFrequency}

FrequencyTypes ==
    /\ decoder_frequencies \in [Ports -> Tunings]
    /\ tuned_freq \in [Stations -> Tunings]
    /\ main \in [Stations -> Tunings]
    /\ stations \in [Stations -> Name \cup {NoText}]
    /\ \A PI \in Stations : stations[PI] # NoText => main[PI] # NoFrequency

NothingOfUnknown ==
    \A PI \in Stations \ known :
        PSN_valid[PI] = {} /\ main[PI] = NoFrequency /\ tuned_freq[PI] = NoFrequency

TextMarks ==
    \A PI \in Stations :
        /\ \A f \in 0 .. 1 : \A k \in RT[PI][f].valid : RT[PI][f].text[k] # Blank
        /\ Len(RT_history[PI]) <= HistoryLength

TableInv == CountTypes /\ FrequencyTypes /\ NothingOfUnknown /\ TextMarks

\* No station is known.
LEMMA InitTable == BroadcastInit => TableInv
<1> SUFFICES ASSUME BroadcastInit PROVE TableInv
  OBVIOUS
<1> USE DEF BroadcastInit, TableInit
<1>1. CountTypes
  BY SegmentsAssumption DEF CountTypes
<1>2. FrequencyTypes
  BY DEF FrequencyTypes, Tunings
<1>3. NothingOfUnknown
  BY DEF NothingOfUnknown
<1>4. TextMarks
  BY SegmentsAssumption DEF TextMarks
<1> QED
  BY <1>1, <1>2, <1>3, <1>4 DEF TableInv

\* The decay keeps the counters above their bound.
LEMMA AgedTypes ==
    ASSUME CountTypes, NEW due, AgeBound(due)
    PROVE  Aged(due) \in [Stations -> MinCount .. 2]
  BY SegmentsAssumption, SMT DEF CountTypes, AgeBound, Aged

\* A group that is accepted makes its station, and those it announces, known.
LEMMA Accepted ==
    ASSUME CountTypes, NEW PI \in Stations, NEW due, NEW announced \in SUBSET Stations,
           AcceptedGroup(PI, due, announced)
    PROVE  CountTypes' /\ known' = known \cup {PI} \cup announced
<1>1. Aged(due) \in [Stations -> MinCount .. 2]
  BY AgedTypes DEF AcceptedGroup
<1>2. PI_dict' \in [Stations -> MinCount .. 2]
  BY <1>1, SegmentsAssumption, SMT DEF AcceptedGroup
<1> QED
  BY <1>2 DEF CountTypes, AcceptedGroup

\* A group that is not decoded counts for its station, up to two.
LEMMA Ignored ==
    ASSUME CountTypes, NEW PI \in Stations, NEW due, IgnoredGroup(PI, due)
    PROVE  CountTypes' /\ UNCHANGED known
<1>1. Aged(due) \in [Stations -> MinCount .. 2] /\ PI \notin known
  BY AgedTypes DEF IgnoredGroup, Valid
<1>2. PI \in seen => Aged(due)[PI] + 1 <= 2
  BY <1>1, SegmentsAssumption, SMT DEF IgnoredGroup, Valid
<1>3. PI_dict' \in [Stations -> MinCount .. 2]
  BY <1>1, <1>2, SegmentsAssumption, SMT DEF IgnoredGroup
<1> QED
  BY <1>3 DEF CountTypes, IgnoredGroup

\* Only the frequency of the station that was heard changes.
LEMMA TunedTypes ==
    ASSUME FrequencyTypes, NEW port \in Ports, NEW PI \in Stations
    PROVE  /\ Tuned(port, PI) \in [Stations -> Tunings]
           /\ \A q \in Stations \ {PI} : Tuned(port, PI)[q] = tuned_freq[q]
  BY DEF FrequencyTypes, Tuned

\* A group 0A: what is written belongs to the station, which is known now.
LEMMA NameTable ==
    ASSUME TableInv, NameInv, NEW PI \in Stations, NEW due, NEW port \in Ports,
           NEW af \in SUBSET Frequencies, NEW k \in PSAddresses,
           Group0A(port, PI, due, af, k, name[PI][k])
    PROVE  TableInv'
<1>1. CountTypes' /\ known' = known \cup {PI}
  BY Accepted DEF TableInv, Group0A
<1>2. /\ tuned_freq' \in [Stations -> Tunings]
      /\ \A q \in Stations \ {PI} : tuned_freq'[q] = tuned_freq[q]
  BY TunedTypes DEF TableInv, Group0A
<1>3. /\ main' \in [Stations -> Tunings]
      /\ \A q \in Stations \ {PI} : main'[q] = main[q]
      /\ main[PI] # NoFrequency => main'[PI] # NoFrequency
      /\ FindsMain(port, PI, af) => main'[PI] # NoFrequency
  <2>1. FindsMain(port, PI, af) => Tuned(port, PI)[PI] \in Frequencies
    BY DEF FindsMain
  <2>2. main' = IF FindsMain(port, PI, af)
                THEN [main EXCEPT ![PI] = Tuned(port, PI)[PI]] ELSE main
    BY DEF Group0A, DecodeAF
  <2> QED
    BY <2>1, <2>2, SegmentsAssumption DEF TableInv, FrequencyTypes, Tunings
<1> DEFINE new == NewName(PI, k, name[PI][k])
           row == IF FindsMain(port, PI, af) THEN PSN[PI] ELSE stations[PI]
<1>4. PSN[PI] \in Name /\ new \in Name
  <2>1. PSN[PI] \in Name /\ name[PI] \in [PSAddresses -> Segments]
    BY DEF NameInv, NameTypes
  <2> QED
    BY <2>1, SMT DEF NewName, SegmentFits, Empty, Name
<1>5. PICK r : /\ r \in {row, UpdatedRow(row, new)}
               /\ stations' = [stations EXCEPT ![PI] = r]
  BY DEF Group0A, DecodeName
<1>6. /\ r \in Name \cup {NoText}
      /\ r # NoText => main'[PI] # NoFrequency
  BY <1>3, <1>4, <1>5 DEF UpdatedRow, TableInv, FrequencyTypes
<1>7. FrequencyTypes'
  BY <1>2, <1>3, <1>5, <1>6 DEF TableInv, FrequencyTypes, Group0A
<1>8. NothingOfUnknown'
  <2>1. \A q \in Stations \ {PI} : PSN_valid'[q] = PSN_valid[q]
    BY DEF Group0A, DecodeName, NameInv, NameTypes
  <2> QED
    BY <1>1, <1>2, <1>3, <2>1 DEF TableInv, NothingOfUnknown
<1>9. TextMarks'
  BY DEF TableInv, TextMarks, Group0A, textVars
<1> QED
  BY <1>1, <1>7, <1>8, <1>9 DEF TableInv

\* A group 2A: marks are set where characters are, and the oldest text is forgotten.
LEMMA TextTable ==
    ASSUME TableInv, TextInv, NEW PI \in Stations, NEW due, NEW port \in Ports,
           NEW k \in DOMAIN text[PI], Group2A(port, PI, due, flag[PI], k, text[PI][k])
    PROVE  TableInv'
<1> DEFINE f == flag[PI]
           s == text[PI][k]
           old == RT[PI][f]
           new == NewText(PI, f, k, s)
           valid == NewTextValid(PI, f, k, s)
<1>1. CountTypes' /\ known' = known \cup {PI}
  BY Accepted DEF TableInv, Group2A
<1>2. /\ tuned_freq' \in [Stations -> Tunings]
      /\ \A q \in Stations \ {PI} : tuned_freq'[q] = tuned_freq[q]
  BY TunedTypes DEF TableInv, Group2A
<1>3. FrequencyTypes' /\ NothingOfUnknown'
  BY <1>1, <1>2 DEF TableInv, FrequencyTypes, NothingOfUnknown, Group2A, nameVars
<1>4. f \in 0 .. 1 /\ old \in Buffer /\ text[PI] \in Texts[PI] /\ RT_history[PI] \in Seq(Text)
  BY DEF TextInv, TextTypes
<1>5. k \in RTAddresses /\ s \in Segments /\ s # Blank
  BY <1>4, SentText, SegmentsAssumption
<1>6. /\ new \in Text /\ new[k] = s
      /\ TextFits(PI, f, k, s) => \A j \in RTAddresses \ {k} : new[j] = old.text[j]
  BY <1>4, <1>5, TextAfterSegment DEF TextInv
<1>7. valid = IF TextFits(PI, f, k, s) THEN old.valid \cup {k} ELSE {k}
  BY DEF NewTextValid
<1>8. \A j \in old.valid : old.text[j] # Blank
  BY <1>4 DEF TableInv, TextMarks
<1>9. /\ RT' = [RT EXCEPT ![PI] = [RT[PI] EXCEPT ![f] = [text |-> new, valid |-> valid]]]
      /\ \/ RT_history' = [RT_history EXCEPT ![PI] = Remember(RT_history[PI], new)]
         \/ UNCHANGED RT_history
  BY DEF Group2A, DecodeText
<1> HIDE DEF f, s, new, valid
<1>10. \A j \in valid : new[j] # Blank
  BY <1>4, <1>5, <1>6, <1>7, <1>8 DEF Buffer
<1>11. Len(Remember(RT_history[PI], new)) <= HistoryLength
  <2>1. /\ Append(RT_history[PI], new) \in Seq(Text)
        /\ Len(Append(RT_history[PI], new)) = Len(RT_history[PI]) + 1
        /\ Len(RT_history[PI]) \in Nat
    BY <1>4, <1>6
  <2>2. Len(RT_history[PI]) <= HistoryLength
    BY DEF TableInv, TextMarks
  <2> QED
    BY <2>1, <2>2, SegmentsAssumption DEF Remember
<1>12. TextMarks'
  <2>1. ASSUME NEW q \in Stations, NEW g \in 0 .. 1, NEW j \in RT'[q][g].valid
        PROVE  RT'[q][g].text[j] # Blank
    <3>1. CASE q = PI /\ g = f
      <4>1. RT'[q][g] = [text |-> new, valid |-> valid]
        BY <1>4, <1>9, <3>1 DEF TextInv, TextTypes
      <4> QED
        BY <1>10, <2>1, <4>1
    <3>2. CASE ~(q = PI /\ g = f)
      <4>1. RT'[q][g] = RT[q][g]
        BY <1>9, <2>1, <3>2 DEF TextInv, TextTypes
      <4> QED
        BY <2>1, <4>1 DEF TableInv, TextMarks
    <3> QED
      BY <3>1, <3>2
  <2>2. \A q \in Stations : Len(RT_history'[q]) <= HistoryLength
    BY <1>9, <1>11 DEF TableInv, TextMarks, TextInv, TextTypes
  <2> QED
    BY <2>1, <2>2 DEF TextMarks
<1> QED
  BY <1>1, <1>3, <1>12 DEF TableInv

\* A group 14A: what is written belongs to two stations that are known now.
LEMMA NetworkTable ==
    ASSUME TableInv, NameInv, NameInv', NEW PI \in Stations, NEW PI_ON \in Stations,
           NEW due, NEW port \in Ports,
           \/ \E k \in PSAddresses :
                  Group14AName(port, PI, due, PI_ON, k, name[PI_ON][k])
           \/ \E freq_TN \in Frequencies, freq_ON \in Frequencies :
                  Group14AMapped(port, PI, due, PI_ON, freq_TN, freq_ON)
    PROVE  TableInv'
<1>1. CountTypes' /\ known' = known \cup {PI} \cup {PI_ON}
  <2>1. AcceptedGroup(PI, due, {PI_ON})
    BY DEF Group14AName, Group14AMapped
  <2>2. CountTypes /\ {PI_ON} \in SUBSET Stations
    BY DEF TableInv
  <2> QED
    BY <2>1, <2>2, Accepted
<1>2. /\ tuned_freq' \in [Stations -> Tunings]
      /\ \A q \in Stations \ {PI} : tuned_freq'[q] = tuned_freq[q]
  <2>1. tuned_freq' = Tuned(port, PI)
    BY DEF Group14AName, Group14AMapped
  <2>2. FrequencyTypes
    BY DEF TableInv
  <2> QED
    BY <2>1, <2>2, TunedTypes
<1>3. UNCHANGED decoder_frequencies
  BY DEF Group14AName, Group14AMapped
<1>4. TextMarks'
  BY DEF TableInv, TextMarks, Group14AName, Group14AMapped, textVars
<1>5. CASE \E k \in PSAddresses : Group14AName(port, PI, due, PI_ON, k, name[PI_ON][k])
  <2>1. UNCHANGED main
    BY <1>5 DEF Group14AName
  <2>2. \A q \in Stations \ {PI_ON} : PSN_valid'[q] = PSN_valid[q]
    BY <1>5 DEF Group14AName, NameInv, NameTypes
  <2>3. \/ UNCHANGED stations
        \/ main[PI_ON] # NoFrequency /\ stations' = [stations EXCEPT ![PI_ON] = PSN'[PI_ON]]
    BY <1>5 DEF Group14AName
  <2>4. PSN'[PI_ON] \in Name
    BY DEF NameInv, NameTypes
  <2>5. FrequencyTypes'
    BY <1>2, <1>3, <2>1, <2>3, <2>4 DEF TableInv, FrequencyTypes
  <2>6. NothingOfUnknown'
    BY <1>1, <1>2, <2>1, <2>2 DEF TableInv, NothingOfUnknown
  <2> QED
    BY <1>1, <1>4, <2>5, <2>6 DEF TableInv
<1>6. CASE \E freq_TN \in Frequencies, freq_ON \in Frequencies :
               Group14AMapped(port, PI, due, PI_ON, freq_TN, freq_ON)
  <2> PICK freq_TN \in Frequencies, freq_ON \in Frequencies :
          Group14AMapped(port, PI, due, PI_ON, freq_TN, freq_ON)
    BY <1>6
  <2> DEFINE found == IF main[PI] = NoFrequency /\ Tuned(port, PI)[PI] = freq_TN
                      THEN [main EXCEPT ![PI] = freq_TN] ELSE main
  <2>1. main' = IF found[PI] = freq_TN /\ found[PI_ON] = NoFrequency
                THEN [found EXCEPT ![PI_ON] = freq_ON] ELSE found
    BY DEF Group14AMapped
  <2>2. /\ found \in [Stations -> Tunings]
        /\ \A q \in Stations \ {PI} : found[q] = main[q]
        /\ \A q \in Stations : main[q] # NoFrequency => found[q] # NoFrequency
    BY SegmentsAssumption DEF TableInv, FrequencyTypes, Tunings
  <2> HIDE DEF found
  <2>3. /\ main' \in [Stations -> Tunings]
        /\ \A q \in Stations \ {PI, PI_ON} : main'[q] = main[q]
        /\ \A q \in Stations : main[q] # NoFrequency => main'[q] # NoFrequency
    BY <2>1, <2>2, SegmentsAssumption DEF Tunings
  <2>4. UNCHANGED <<PSN_valid, stations>>
    BY DEF Group14AMapped, nameVars
  <2>5. FrequencyTypes'
    BY <1>2, <1>3, <2>3, <2>4 DEF TableInv, FrequencyTypes
  <2>6. NothingOfUnknown'
    BY <1>1, <1>2, <2>3, <2>4 DEF TableInv, NothingOfUnknown
  <2> QED
    BY <1>1, <1>4, <2>5, <2>6 DEF TableInv
<1> QED
  BY <1>5, <1>6

\* TableInv is inductive relative to NameInv and TextInv.
LEMMA StepTable ==
    TableInv /\ NameInv /\ NameInv' /\ TextInv /\ [BroadcastNext]_broadcastVars => TableInv'
<1> SUFFICES ASSUME TableInv, NameInv, NameInv', TextInv, [BroadcastNext]_broadcastVars
             PROVE  TableInv'
  OBVIOUS
<1>1. ASSUME NEW PI \in Stations, NEW due \in BOOLEAN, NEW port \in Ports,
             SendName(port, PI, due)
      PROVE  TableInv'
  <2> PICK k \in PSAddresses, af \in SUBSET Transmits[PI] :
          Group0A(port, PI, due, af, k, name[PI][k])
    BY <1>1 DEF SendName
  <2>1. af \in SUBSET Frequencies
    BY BroadcastAssumption
  <2> QED
    BY <1>1, <2>1, NameTable
<1>2. ASSUME NEW PI \in Stations, NEW due \in BOOLEAN, NEW port \in Ports,
             SendText(port, PI, due)
      PROVE  TableInv'
  <2> PICK k \in DOMAIN text[PI] : Group2A(port, PI, due, flag[PI], k, text[PI][k])
    BY <1>2 DEF SendText
  <2> QED
    BY <1>2, TextTable
<1>3. ASSUME NEW PI \in Stations, NEW due \in BOOLEAN, NEW port \in Ports,
             SendNetwork(port, PI, due)
      PROVE  TableInv'
  <2> PICK PI_ON \in Announces[PI] :
           \/ \E k \in PSAddresses :
                  Group14AName(port, PI, due, PI_ON, k, name[PI_ON][k])
           \/ \E freq_TN \in Transmits[PI], freq_ON \in Transmits[PI_ON] :
                  Group14AMapped(port, PI, due, PI_ON, freq_TN, freq_ON)
    BY <1>3 DEF SendNetwork
  <2>1. /\ PI_ON \in Stations
        /\ Transmits[PI] \subseteq Frequencies /\ Transmits[PI_ON] \subseteq Frequencies
    BY BroadcastAssumption
  <2> QED
    BY <1>3, <2>1, NetworkTable
<1>4. ASSUME NEW PI \in Stations, NEW due \in BOOLEAN, SendIgnored(PI, due)
      PROVE  TableInv'
  <2>1. IgnoredGroup(PI, due)
    BY <1>4 DEF SendIgnored
  <2>2. CountTypes' /\ UNCHANGED known
    BY <2>1, Ignored DEF TableInv
  <2> QED
    BY <2>1, <2>2
       DEF TableInv, FrequencyTypes, NothingOfUnknown, TextMarks, IgnoredGroup,
           freqVars, nameVars, textVars
<1>5. ASSUME NEW port \in Ports, Tune(port)
      PROVE  TableInv'
  <2> PICK freq \in Frequencies : set_freq(port, freq)
    BY <1>5 DEF Tune
  <2> QED
    BY DEF set_freq, TableInv, CountTypes, FrequencyTypes, Tunings, NothingOfUnknown,
           TextMarks, acceptVars, nameVars, textVars
<1>6. ASSUME UNCHANGED tableVars
      PROVE  TableInv'
  BY <1>6 DEF TableInv, CountTypes, FrequencyTypes, NothingOfUnknown, TextMarks,
              tableVars, acceptVars, freqVars, nameVars, textVars
<1>7. ASSUME NEW PI \in Stations, ChangeName(PI) \/ ChangeText(PI)
      PROVE  TableInv'
  BY <1>6, <1>7 DEF ChangeName, ChangeText
<1>8. CASE UNCHANGED broadcastVars
  BY <1>6, <1>8 DEF broadcastVars
<1> QED
  BY <1>1, <1>2, <1>3, <1>4, <1>5, <1>7, <1>8 DEF BroadcastNext

\* The types of the table for any number of stations, and what the handler relies on:
\* marks are those of characters that are there, at most HistoryLength texts are
\* remembered, a station has a row only if its main frequency was found, and nothing
\* is kept of stations that were not accepted.
THEOREM TableTypeCorrect == BroadcastSpec => []TableTypeOK
<1>1. BroadcastSpec => []TableInv
  BY InitTable, StepTable, NamesFollow, TextsFollow, PTL DEF BroadcastSpec
<1>2. ASSUME TableInv, NameInv, TextInv
      PROVE  TableTypeOK
  <2>1. \A PI \in Stations : /\ PSN[PI] \in Name
                             /\ PSN_valid[PI] = {k \in PSAddresses : PSN[PI][k] # Blank}
    BY <1>2 DEF NameInv, NameTypes, Marked
  <2>2. \A PI \in Stations : \A f \in 0 .. 1 : RT[PI][f].text \in Text
    BY <1>2 DEF TextInv, TextTypes, Buffer
  <2> QED
    BY <1>2, <2>1, <2>2
       DEF TableTypeOK, TableInv, CountTypes, FrequencyTypes, NothingOfUnknown, TextMarks
<1> QED
  BY <1>1, <1>2, NamesFollow, TextsFollow, PTL
=============================================================================

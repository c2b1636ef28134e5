----------------------------- MODULE StationTable -----------------------------
(***************************************************************************)
(* The table of stations, python/rds_parser_table_qt.py: the handler of     *)
(* groups (handle_msg) as far as it accepts stations, puts their names and  *)
(* radiotexts together, locates them and stores both in the data base.      *)
(*                                                                         *)
(* RDS_data[PI]["x"] is x[PI] here; `known` is the set of its keys, and a   *)
(* station that is not known has the values of init_data_for_PI.  A text is *)
(* a function from segment addresses to segments (two characters of a name, *)
(* four of a radiotext); PSN_valid and RT_valid are the sets of addresses   *)
(* whose characters are marked.  No station sends a segment of underscores, *)
(* which is what Blank stands for.                                          *)
(*                                                                         *)
(* PI_dict is kept for stations that are not known: of the others only the  *)
(* details window reads it.  Groups that only keep the latest value they    *)
(* carry or pass it on (time, flags, in-house data, traffic messages), RT+  *)
(* and status messages, which are displayed, are not represented.           *)
(***************************************************************************)
EXTENDS FiniteSetsExt, Sequences

CONSTANTS
    Ports,          \* the decoders
    Stations,       \* the values of PI
    Frequencies,    \* what the decoders can be tuned to
    PSSegments,     \* segments of a name: 4
    RTSegments,     \* segments of a radiotext: 16
    HistoryLength,  \* radiotexts that are remembered: 10
    Segments,       \* the segments that can be received
    Ends, BareEnds, \* those of a radiotext that hold the end marker \r, and those
                    \* that begin with it
    Cut,            \* Cut[end][segment]: the characters of a segment that stand
                    \* before the place of the marker in `end`
    Blank, NoFrequency, NoText,
    MinCount        \* bound: how far the count of a rare station runs down

PSAddresses == 0 .. (PSSegments - 1)
RTAddresses == 0 .. (RTSegments - 1)

ASSUME SegmentsAssumption ==
    /\ PSSegments \in Nat \ {0} /\ RTSegments \in Nat \ {0}
    /\ HistoryLength \in Nat \ {0}
    /\ MinCount \in Int /\ MinCount <= 0
    /\ Blank \notin Segments /\ Ends \subseteq Segments /\ BareEnds \subseteq Ends
    /\ \A end \in Ends \ BareEnds : Segments \cup {Blank} \subseteq DOMAIN Cut[end]
    /\ NoFrequency \notin Frequencies
    /\ NoText \notin [PSAddresses -> Segments]

VARIABLES
    known, seen,          \* the keys of RDS_data, and of PI_dict
    PI_dict,
    decoder_frequencies,
    tuned_freq,
    main,                 \* AF["main"]
    PSN, PSN_valid, last_valid_psn,
    RT,                   \* RT_0 and RT_1, and which of their characters are valid
    RT_history, last_valid_rt,
    stations              \* the table of the data base: PI -> PSN

acceptVars == <<known, seen, PI_dict>>
freqVars == <<decoder_frequencies, tuned_freq, main>>
nameVars == <<PSN, PSN_valid, last_valid_psn>>
textVars == <<RT, RT_history, last_valid_rt>>
tableVars == <<acceptVars, freqVars, nameVars, textVars, stations>>

Empty(addresses) == [k \in addresses |-> Blank]

TableInit ==
    /\ known = {} /\ seen = {}
    /\ PI_dict = [PI \in Stations |-> 0]
    /\ decoder_frequencies = [port \in Ports |-> NoFrequency]
    /\ tuned_freq = [PI \in Stations |-> NoFrequency]
    /\ main = [PI \in Stations |-> NoFrequency]
    /\ PSN = [PI \in Stations |-> Empty(PSAddresses)]
    /\ PSN_valid = [PI \in Stations |-> {}]
    /\ last_valid_psn = [PI \in Stations |-> NoText]
    /\ RT = [PI \in Stations |->
                [flag \in 0 .. 1 |-> [text |-> Empty(RTAddresses), valid |-> {}]]]
    /\ RT_history = [PI \in Stations |-> <<>>]
    /\ last_valid_rt = [PI \in Stations |-> NoText]
    /\ stations = [PI \in Stations |-> NoText]

-----------------------------------------------------------------------------
(* Every group: acceptance of the station, and its frequency.               *)

\* clean_data_and_commit_db, if ten seconds have passed since the last time.
Aged(due) ==
    [PI \in Stations |->
        IF due /\ PI \in seen \ known THEN PI_dict[PI] - 1 ELSE PI_dict[PI]]
AgeBound(due) == due => \A PI \in seen \ known : PI_dict[PI] > MinCount

\* A station is valid if more than two groups were counted.
Valid(PI, due) == PI \in known \/ (PI \in seen /\ Aged(due)[PI] + 1 > 2)

\* A group of a station that is not valid (yet).
IgnoredGroup(PI, due) ==
    /\ AgeBound(due) /\ ~Valid(PI, due)
    /\ PI_dict' = [Aged(due) EXCEPT ![PI] = IF PI \in seen THEN @ + 1 ELSE 1]
    /\ seen' = seen \cup {PI}
    /\ UNCHANGED <<known, freqVars, nameVars, textVars, stations>>

\* A group that is decoded; it may announce other stations.
AcceptedGroup(PI, due, announced) ==
    /\ AgeBound(due) /\ Valid(PI, due)
    /\ LET new == ({PI} \cup announced) \ known
       IN  PI_dict' = [q \in Stations |-> IF q \in new THEN 0 ELSE Aged(due)[q]]
    /\ known' = known \cup {PI} \cup announced
    /\ seen' = seen \cup {PI} \cup announced

Tuned(port, PI) ==
    IF decoder_frequencies[port] = NoFrequency THEN tuned_freq
    ELSE [tuned_freq EXCEPT ![PI] = decoder_frequencies[port]]

-----------------------------------------------------------------------------
(* Group 0A: alternative frequencies and a segment of the name.             *)

\* A segment that is different from the one already there resets the name.
\* (The mutant does not take an empty place for a fitting one.)
MutantSegmentFits(PI, k, segment) == PSN[PI][k] = segment
SegmentFits(PI, k, segment) == PSN[PI][k] \in {segment, Blank}

\* (The mutant waits for a changed segment to be confirmed.)
MutantNewName(PI, k, segment) ==
    IF SegmentFits(PI, k, segment) THEN [PSN[PI] EXCEPT ![k] = segment] ELSE PSN[PI]

NewName(PI, k, segment) ==
    IF SegmentFits(PI, k, segment)
    THEN [PSN[PI] EXCEPT ![k] = segment]
    ELSE [Empty(PSAddresses) EXCEPT ![k] = segment]
\* (The mutant keeps the marks of the name that was reset.)
MutantNewNameValid(PI, k, segment) == PSN_valid[PI] \cup {k}
NewNameValid(PI, k, segment) ==
    IF SegmentFits(PI, k, segment) THEN PSN_valid[PI] \cup {k} ELSE {k}

\* UPDATE OR IGNORE: only a row that is there gets the name.  (The mutant forgets
\* to update it.)
MutantUpdatedRow(row, new) == row
UpdatedRow(row, new) == IF row = NoText THEN NoText ELSE new

\* The main frequency is found when the station lists the one it is received
\* at.  It is stored with the name as it is before this group.  (A group that
\* lists it twice is not sent: the second INSERT of the row, which is not guarded
\* by what the first one found, would raise IntegrityError.)
FindsMain(port, PI, af) == main[PI] = NoFrequency /\ Tuned(port, PI)[PI] \in af

DecodeAF(port, PI, af) ==
    main' = IF FindsMain(port, PI, af)
            THEN [main EXCEPT ![PI] = Tuned(port, PI)[PI]] ELSE main

\* The segments are what decode_chars makes of the received bytes, as long as
\* these are no control codes, which it writes out in four characters: the names
\* that are sent have none.
DecodeName(port, PI, af, k, segment) ==
    LET new == NewName(PI, k, segment)
        stored == /\ NewNameValid(PI, k, segment) = PSAddresses
                  /\ last_valid_psn[PI] # new
        row == IF FindsMain(port, PI, af) THEN PSN[PI] ELSE stations[PI]
    IN  /\ PSN' = [PSN EXCEPT ![PI] = new]
        /\ PSN_valid' = [PSN_valid EXCEPT ![PI] = NewNameValid(PI, k, segment)]
        /\ last_valid_psn' = IF stored THEN [last_valid_psn EXCEPT ![PI] = new]
                             ELSE last_valid_psn
        /\ stations' = [stations EXCEPT ![PI] =
                            IF stored THEN UpdatedRow(row, new) ELSE row]

Group0A(port, PI, due, af, k, segment) ==
    /\ AcceptedGroup(PI, due, {})
    /\ tuned_freq' = Tuned(port, PI)
    /\ DecodeAF(port, PI, af)
    /\ DecodeName(port, PI, af, k, segment)
    /\ UNCHANGED <<decoder_frequencies, textVars>>

-----------------------------------------------------------------------------
(* Group 2A: a segment of the radiotext.                                    *)

\* The addresses of what is before the end marker: all of them if there is none.
Needed(text) ==
    LET ends == {k \in RTAddresses : text[k] \in Ends}
    IN  IF ends = {} THEN RTAddresses
        ELSE {k \in 0 .. Min(ends) : k < Min(ends) \/ text[k] \notin BareEnds}

\* (The mutant does not take an empty place for a fitting one.)
MutantTextFits(PI, flag, k, segment) == RT[PI][flag].text[k] = segment
TextFits(PI, flag, k, segment) == RT[PI][flag].text[k] \in {segment, Blank}

\* A text that is given up is replaced by the last of the remembered ones that
\* has the new segment: a prediction, whose other segments are not valid.
Alike(PI, k, segment) == {i \in DOMAIN RT_history[PI] : RT_history[PI][i][k] = segment}

NewText(PI, flag, k, segment) ==
    LET old == RT[PI][flag].text
        alike == Alike(PI, k, segment)
    IN  IF TextFits(PI, flag, k, segment) THEN [old EXCEPT ![k] = segment]
        ELSE IF alike # {} THEN RT_history[PI][Max(alike)]
        ELSE [Empty(RTAddresses) EXCEPT ![k] = segment]

\* (The mutant keeps the marks of the text that was given up.)
MutantNewTextValid(PI, flag, k, segment) == RT[PI][flag].valid \cup {k}
NewTextValid(PI, flag, k, segment) ==
    IF TextFits(PI, flag, k, segment) THEN RT[PI][flag].valid \cup {k} ELSE {k}

\* RT_history.append, and pop(0) above the limit.
Remember(history, text) ==
    LET longer == Append(history, text)
    IN  IF Len(longer) > HistoryLength THEN Tail(longer) ELSE longer

\* What is left of a segment at a place where the old text has `end`.
BeforeEnd(end, segment) == IF end \in Ends THEN Cut[end][segment] ELSE segment

\* The length of the text is taken from what was there before the group: also the
\* place in its last segment where the new text is cut.
DecodeText(PI, flag, k, segment) ==
    LET new == NewText(PI, flag, k, segment)
        valid == NewTextValid(PI, flag, k, segment)
        old == RT[PI][flag].text
        needed == Needed(old)
        rt == [j \in needed |-> BeforeEnd(old[j], new[j])]
    IN  /\ RT' = [RT EXCEPT ![PI][flag] = [text |-> new, valid |-> valid]]
        /\ IF needed \subseteq valid /\ last_valid_rt[PI] # rt
           THEN /\ RT_history' = [RT_history EXCEPT ![PI] = Remember(@, new)]
                /\ last_valid_rt' = [last_valid_rt EXCEPT ![PI] = rt]
           ELSE UNCHANGED <<RT_history, last_valid_rt>>

Group2A(port, PI, due, flag, k, segment) ==
    /\ AcceptedGroup(PI, due, {})
    /\ tuned_freq' = Tuned(port, PI)
    /\ DecodeText(PI, flag, k, segment)
    /\ UNCHANGED <<decoder_frequencies, main, nameVars, stations>>

-----------------------------------------------------------------------------
(* Group 14A: what a station says of another one, PI_ON.                    *)

\* Variants 0 to 3.  The segment is stored before it is compared with what is
\* there, so that a changed name is not reset.
Group14AName(port, PI, due, PI_ON, k, segment) ==
    /\ AcceptedGroup(PI, due, {PI_ON})
    /\ tuned_freq' = Tuned(port, PI)
    /\ PSN' = [PSN EXCEPT ![PI_ON][k] = segment]
    /\ PSN_valid' = [PSN_valid EXCEPT ![PI_ON] = @ \cup {k}]
    /\ stations' = IF main[PI_ON] = NoFrequency THEN stations
                   ELSE [stations EXCEPT ![PI_ON] = PSN'[PI_ON]]
    /\ UNCHANGED <<decoder_frequencies, main, last_valid_psn, textVars>>

\* Variants 5 to 9: PI_ON is at freq_ON for those who hear PI at freq_TN.
Group14AMapped(port, PI, due, PI_ON, freq_TN, freq_ON) ==
    LET found == IF main[PI] = NoFrequency /\ Tuned(port, PI)[PI] = freq_TN
                 THEN [main EXCEPT ![PI] = freq_TN] ELSE main
    IN  /\ AcceptedGroup(PI, due, {PI_ON})
        /\ tuned_freq' = Tuned(port, PI)
        /\ main' = IF found[PI] = freq_TN /\ found[PI_ON] = NoFrequency
                   THEN [found EXCEPT ![PI_ON] = freq_ON] ELSE found
        /\ UNCHANGED <<decoder_frequencies, nameVars, textVars, stations>>

\* The message of the tuner about one of its decoders.
set_freq(port, freq) ==
    /\ decoder_frequencies' = [decoder_frequencies EXCEPT ![port] = freq]
    /\ UNCHANGED <<acceptVars, tuned_freq, main, nameVars, textVars, stations>>

-----------------------------------------------------------------------------
Name == [PSAddresses -> Segments \cup {Blank}]
Text == [RTAddresses -> Segments \cup {Blank}]

\* The type of the variables; nothing is kept of stations that are not known,
\* and the characters of a name that are marked are those that are there.
TableTypeOK ==
    /\ known \subseteq seen /\ seen \subseteq Stations
    /\ PI_dict \in [Stations -> MinCount .. 2]
    /\ \A PI \in Stations :
           /\ PSN[PI] \in Name
           /\ PSN_valid[PI] = {k \in PSAddresses : PSN[PI][k] # Blank}
           /\ \A flag \in 0 .. 1 :
                  /\ RT[PI][flag].text \in Text
                  /\ \A k \in RT[PI][flag].valid : RT[PI][flag].text[k] # Blank
           /\ Len(RT_history[PI]) <= HistoryLength
           /\ PI \notin known => /\ PSN_valid[PI] = {} /\ main[PI] = NoFrequency
                                 /\ tuned_freq[PI] = NoFrequency
           /\ stations[PI] # NoText => main[PI] # NoFrequency
=============================================================================

--------------------------- MODULE ParserBroadcast ---------------------------
(***************************************************************************)
(* GroupParser with what is around it in apps/rds_rx.grc: stations that     *)
(* send groups in any order, any of which may be lost; and a user who tunes *)
(* to another station and resets the parser at any time.  The group that is *)
(* being handled stands for all those that are on the way when the receiver *)
(* is tuned.  History variables: the flag of the radiotext group that was   *)
(* handled last, whether reset() ever ran while a group was handled, and    *)
(* whether the radiotext that is on the air has been preceded by a toggle   *)
(* or a reset.                                                              *)
(***************************************************************************)
EXTENDS GroupParser, FiniteSets

CONSTANTS
    Services,    \* types of groups that are sent together
    Names,       \* the names a station uses,
    Texts,       \* its radiotexts, each with the type of group it is sent in,
    Listed,      \* the alternative frequencies it has, in kHz,
    AFPairs,     \* the pairs of codes in which its groups 0A list them,
    DI,          \* its decoder identification, by segment address,
    Flags,       \* its TP, TA and music/speech,
    Others       \* and its groups of other types

ASSUME StationAssumption ==
    /\ \A pi \in PIs :
           /\ Names[pi] \subseteq [PSCells -> Pairs] /\ Names[pi] # {}
           /\ Texts[pi] # {}
           /\ \A t \in Texts[pi] :
                  /\ t.version \in {"2A", "2B"}
                  /\ DOMAIN t.pairs \subseteq RTCells
                  /\ \A c \in DOMAIN t.pairs : t.pairs[c] \in Pairs
           /\ DI[pi] \in [PSCells -> BOOLEAN] /\ Flags[pi] \in Traffic
    /\ \A g \in Others : g.type \notin {"0A", "0B", "2A", "2B"}

\* A code of the LF band comes second, after the code that announces it; the
\* other codes of frequencies are those of the station's VHF frequencies.
ASSUME FrequencyAssumption ==
    \A pi \in PIs : \A af \in AFPairs[pi] :
        /\ af[1] \in 1 .. 204 => 100 * (af[1] + 875) \in Listed[pi]
        /\ af[2] \in 1 .. 204 => af[1] = 250 \/ 100 * (af[2] + 875) \in Listed[pi]

\* The dates that are told apart: 1900-03-01 to 2100-02-28.
ASSUME ClockAssumption ==
    \A g \in Others : g.type = "4A" =>
        g.mjd \in Nat /\ 15079 <= g.mjd /\ g.mjd <= 88127

VARIABLES
    service,
    tuned, name, text, flag,   \* the station that is received
    lastFlag, raced, fresh

stationVars == <<service, tuned, name, text, flag>>
historyVars == <<lastFlag, raced, fresh>>
vars == <<parserVars, stationVars, historyVars>>

\* Codes that say that there are no alternative frequencies.
NoAF == <<224, 205>>

NameGroups(k) ==
    {[type |-> "0A", pi |-> tuned, k |-> k, pair |-> name[k],
      traffic |-> Flags[tuned], di |-> DI[tuned][k], af |-> af] :
         af \in IF "AF" \in service THEN AFPairs[tuned] ELSE {NoAF}}
    \cup {[type |-> "0B", pi |-> tuned, k |-> k, pair |-> name[k],
           traffic |-> Flags[tuned], di |-> DI[tuned][k]]}

TextGroup(k) ==
    LET cells == IF text.version = "2A" THEN {2 * k, 2 * k + 1} ELSE {k}
    IN  [type |-> text.version, pi |-> tuned, flag |-> flag, k |-> k,
         pairs |-> [c \in cells |-> text.pairs[c]]]
TextSegments == {k \in RTCells : Covered([type |-> text.version, k |-> k])
                                     \subseteq DOMAIN text.pairs}

OtherGroups == {g \in Others : g.pi = tuned /\ g.type \in service}

\* What a station may have on the air: names and texts matter where they are sent.
OnAir(pi) ==
    [name : IF "0A" \in service THEN Names[pi] ELSE {CHOOSE n \in Names[pi] : TRUE},
     text : IF "2A" \in service THEN Texts[pi] ELSE {CHOOSE t \in Texts[pi] : TRUE},
     flag : IF "2A" \in service THEN 0 .. 1 ELSE {0}]

BroadcastInit ==
    /\ ParserInit
    /\ service \in Services
    /\ tuned \in PIs
    /\ \E sent \in OnAir(tuned) :
           name = sent.name /\ text = sent.text /\ flag = sent.flag
    /\ lastFlag = 0 /\ raced = FALSE /\ fresh = TRUE

-----------------------------------------------------------------------------
Transmit(g) == Parse(g) /\ UNCHANGED <<stationVars, historyVars>>

TransmitName(k) ==
    service \cap {"0A", "AF"} # {} /\ \E g \in NameGroups(k) : Transmit(g)
TransmitText(k) == "2A" \in service /\ k \in TextSegments /\ Transmit(TextGroup(k))
TransmitOther == \E g \in OtherGroups : Transmit(g)

\* The group is of the text that is on the air, and the one before it had the other
\* flag; no reset() was there to hide it.
Toggles(g) ==
    /\ g.type = text.version /\ g.pi = tuned /\ g.flag = flag
    /\ \A c \in Covered(g) : c \in DOMAIN text.pairs /\ g.pairs[c] = text.pairs[c]
    /\ flag # lastFlag /\ ~raced /\ to_clear = "nothing"

HandleGroup ==
    /\ Handle
    /\ fresh' = (fresh \/ (at = "flush" /\ Toggles(rx)))
    /\ lastFlag' = IF at = "send text" THEN rx.flag ELSE lastFlag
    /\ raced' = (raced \/ to_clear # "nothing")
    /\ UNCHANGED stationVars

\* The new name of a station.
ChangeName ==
    /\ "0A" \in service
    /\ \E n \in Names[tuned] \ {name} : name' = n
    /\ UNCHANGED <<parserVars, service, tuned, text, flag, historyVars>>

\* A new radiotext comes with the other flag.
ChangeText ==
    /\ "2A" \in service
    /\ \E t \in Texts[tuned] \ {text} : text' = t
    /\ flag' = 1 - flag
    /\ fresh' = FALSE
    /\ UNCHANGED <<parserVars, service, tuned, name, lastFlag, raced>>

Retune ==
    /\ \E pi \in PIs \ {tuned} : \E sent \in OnAir(pi) :
           tuned' = pi /\ name' = sent.name /\ text' = sent.text /\ flag' = sent.flag
    /\ ClearPanel
    /\ fresh' = FALSE
    /\ UNCHANGED <<at, rx, nameVars, textVars, staticVars, to_clear, service,
                   lastFlag, raced>>

UserResets ==
    /\ service \cap {"0A", "2A"} # {}
    /\ ResetStart
    /\ UNCHANGED <<stationVars, historyVars>>

ResetRuns ==
    /\ Reset
    /\ raced' = (raced \/ at # "idle")
    /\ fresh' = (fresh \/ (to_clear = "text" /\ at = "idle"))
    /\ UNCHANGED <<stationVars, lastFlag>>

QuietNext ==
    \/ \E k \in PSCells : TransmitName(k)
    \/ \E k \in RTCells : TransmitText(k)
    \/ TransmitOther
    \/ HandleGroup \/ ResetRuns

BroadcastNext == QuietNext \/ ChangeName \/ ChangeText \/ Retune \/ UserResets

ParserSpec == BroadcastInit /\ [][BroadcastNext]_vars

\* The scheduler calls the handlers as long as there are messages, reset() runs
\* to its end, and the station repeats every segment of what it sends.
FairParserSpec ==
    /\ ParserSpec
    /\ WF_vars(HandleGroup) /\ WF_vars(ResetRuns)
    /\ \A k \in PSCells : SF_vars(TransmitName(k))
    /\ \A k \in RTCells : SF_vars(TransmitText(k))

-----------------------------------------------------------------------------
Cell == Pairs \cup {Blank}

\* The type of the members that both threads assign, and of the place of parse():
\* every handler has a group of its own type.
ParserTypeOK ==
    /\ at \in {"idle", "name", "send name", "flush", "flag", "text", "send text",
               "4A", "8A", "14A"}
    /\ at \in {"name", "send name"} => rx.type \in {"0A", "0B"}
    /\ at \in {"flush", "flag", "text", "send text"} => rx.type \in {"2A", "2B"}
    /\ GroupOK(rx)
    /\ program_service_name \in [PSCells -> Cell]
    /\ radiotext \in [RTCells -> Cell]
    /\ radiotext_AB_flag \in 0 .. 1 /\ lastFlag \in 0 .. 1
    /\ traffic \in Traffic /\ di \in [PSCells -> BOOLEAN]
    /\ to_clear \in {"nothing", "text", "name", "flags"}
    /\ raced \in BOOLEAN /\ fresh \in BOOLEAN

\* "when the A/B flag is toggled, flush your current radiotext": after a group
\* with another flag than the one before it nothing of the old text is left.
FlushStep ==
    at = "text" /\ at' = "send text" /\ rx.flag # lastFlag =>
        \A c \in RTCells \ Covered(rx) : radiotext'[c] = Blank
ToggleFlushes == [][FlushStep]_vars

\* ... which is so unless reset() ran while a group was handled: reset() clears
\* the flag, and parse() does not take its mutex.
FlushedUnlessRaced == [][~raced => FlushStep]_vars

\* Once the receiver stays on a station that does not change its name and text,
\* the panel comes to show the name and the flags of the station and every segment
\* of its text, and keeps showing them, whatever the last station or a reset in the
\* middle of a group have left in the members.  Where the text has no segment the panel
\* shows nothing, if the text came with a toggle of the flag or the parser has been
\* reset since; if not, the tail of an older, longer text stays for ever.
Shown ==
    /\ "0A" \in service => /\ panel[0] = tuned /\ panel[1] = name
                           /\ panel[3] = <<Flags[tuned], DI[tuned]>>
    /\ "2A" \in service =>
          /\ panel[0] = tuned /\ panel[4] # NoLabel
          /\ \A c \in DOMAIN text.pairs : panel[4][c] = text.pairs[c]
          /\ fresh => \A c \in RTCells \ DOMAIN text.pairs : panel[4][c] = Blank
ShowsStation == <>[][QuietNext]_vars => <>[]Shown

\* The date that is sent is that of the modified Julian day: counting the days
\* of the Gregorian calendar up to it gives the same number.
Leap(year) == year % 4 = 0 /\ (year % 100 # 0 \/ year % 400 = 0)
MonthDays(year) == <<31, IF Leap(year) THEN 29 ELSE 28, 31, 30, 31, 30,
                     31, 31, 30, 31, 30, 31>>
DaysBefore(date) ==
    LET lengths == MonthDays(date.year)
        days[m \in 1 .. 12] == IF m = 1 THEN 0 ELSE days[m - 1] + lengths[m - 1]
        leaps == Cardinality({y \in 1900 .. (date.year - 1) : Leap(y)})
    IN  365 * (date.year - 1900) + leaps + days[date.month]
MJD(date) == 15019 + DaysBefore(date) + date.day  \* 1900-01-01 is 15020

ClockRight ==
    [][at = "4A" /\ at' = "idle" =>
          LET date == panel'[5]
          IN  /\ date.month \in 1 .. 12
              /\ date.day \in 1 .. MonthDays(date.year)[date.month]
              /\ MJD(date) = rx.mjd]_vars

\* A VHF frequency that is sent is one that a station lists: the band that
\* decode_af keeps between the groups, across reset() and retuning, is never that
\* of another list when a code of the LF band is converted.  (The codes of a VHF
\* list whose start was missed are converted to other bands.)
VHFListed ==
    \A i \in DOMAIN af_string :
        af_string[i] > 80000 => \E pi \in PIs : af_string[i] \in Listed[pi]
=============================================================================

----------------------------- MODULE GroupParser -----------------------------
(***************************************************************************)
(* The parser of groups, lib/parser_impl.cc (the block "gr_rds_parser"),    *)
(* and the panel that displays its messages, python/rdspanel.py.  Two       *)
(* threads work on the members: the block's own one calls parse() for every *)
(* group, the one of the user interface calls reset(), whose mutex no other *)
(* function takes.  A step is what one of them does between two places      *)
(* where the other one can be noticed.                                      *)
(*                                                                         *)
(* A group is a record: its type, and the fields that its handler reads.    *)
(* Texts are functions from addresses to pairs of characters.  Static       *)
(* variables of the handlers, which reset() does not reach, are variables   *)
(* like the members.  Logging is left out; so are number_of_freqs, which is *)
(* never read, and the name of the programme type, which takes the way of   *)
(* the PI.  One value stands for the three flags TP, TA and music/speech.   *)
(***************************************************************************)
EXTENDS Integers, Sequences

CONSTANTS
    PSPairs,       \* pairs of characters of a name: 4
    RTPairs,       \* of a radiotext: 32
    Pairs,         \* the pairs that can be received
    PIs, Traffic,  \* values of PI, and of the flags
    NoTraffic,     \* all three flags are 0
    Blank,         \* the characters that reset() writes
    NoLabel        \* the panel shows nothing of a type of message

PSCells == 0 .. (PSPairs - 1)
RTCells == 0 .. (RTPairs - 1)

\* What a group 2A or 2B carries: two pairs, or one.
Covered(g) == IF g.type = "2A" THEN {2 * g.k, 2 * g.k + 1} ELSE {g.k}

ASSUME ParserAssumption ==
    /\ PSPairs \in Nat \ {0} /\ RTPairs \in Nat \ {0}
    /\ NoTraffic \in Traffic

\* What the handlers of names and texts find in a group.
GroupOK(g) ==
    /\ g.type \in {"0A", "0B"} =>
           /\ g.k \in PSCells /\ g.pair \in Pairs
           /\ g.traffic \in Traffic /\ g.di \in BOOLEAN
    /\ g.type \in {"2A", "2B"} =>
           /\ g.flag \in 0 .. 1
           /\ \A c \in Covered(g) : c \in RTCells /\ g.pairs[c] \in Pairs

VARIABLES
    at,                    \* where parse() is, "idle" between two groups
    rx,                    \* its group
    program_service_name,
    traffic, di,           \* TP, TA and music/speech; mono_stereo, artificial_head,
                           \* compressed and static_pty, by segment address
    radiotext, radiotext_AB_flag,
    vhf_or_lfmf, af_string, ps_on, no_groups, free_format,  \* static
    to_clear,              \* what reset() clears next
    panel                  \* the labels: what was sent last of each type of message

nameVars == <<program_service_name, traffic, di>>
textVars == <<radiotext, radiotext_AB_flag>>
staticVars == <<vhf_or_lfmf, af_string, ps_on, no_groups, free_format>>
parserVars == <<at, rx, nameVars, textVars, staticVars, to_clear, panel>>

BlankPanel == [type \in 0 .. 6 |-> NoLabel]
NoGroup == [type |-> "none"]

ParserInit ==
    /\ at = "idle" /\ rx = NoGroup
    /\ program_service_name = [k \in PSCells |-> Blank]
    /\ traffic = NoTraffic
    /\ di = [k \in PSCells |-> FALSE]
    /\ radiotext = [c \in RTCells |-> Blank]
    /\ radiotext_AB_flag = 0
    /\ vhf_or_lfmf = 0 /\ af_string = <<>>
    /\ ps_on = [k \in PSCells |-> Blank]
    /\ no_groups = 0 /\ free_format = [gsi \in 0 .. 3 |-> 0]
    /\ to_clear = "nothing"
    /\ panel = BlankPanel

-----------------------------------------------------------------------------
(* parse(): the PI is sent, then the handler of the type is called.         *)

\* (The mutant takes 2B for a group with a name.)
MutantFirstStep(g) ==
    CASE g.type \in {"0A", "0B", "2B"} -> "name"
      [] g.type = "2A" -> "flush"
      [] g.type \in {"4A", "8A", "14A"} -> g.type
      [] OTHER -> "idle"
FirstStep(g) ==
    CASE g.type \in {"0A", "0B"} -> "name"
      [] g.type \in {"2A", "2B"} -> "flush"
      [] g.type \in {"4A", "8A", "14A"} -> g.type
      [] OTHER -> "idle"

Return == at' = "idle" /\ rx' = NoGroup

Parse(g) ==
    /\ at = "idle"
    /\ at' = FirstStep(g)
    /\ rx' = IF FirstStep(g) = "idle" THEN NoGroup ELSE g
    /\ panel' = [panel EXCEPT ![0] = g.pi]
    /\ UNCHANGED <<nameVars, textVars, staticVars, to_clear>>

-----------------------------------------------------------------------------
(* Type 0: the name, flags and alternative frequencies.                     *)

StoreName ==
    /\ at = "name"
    /\ traffic' = rx.traffic
    /\ program_service_name' = [program_service_name EXCEPT ![rx.k] = rx.pair]
    /\ di' = [di EXCEPT ![rx.k] = rx.di]
    /\ at' = "send name"
    /\ UNCHANGED <<rx, textVars, staticVars, to_clear, panel>>

\* decode_af: a code that announces a list selects the band of the codes that
\* follow.  Frequencies are in kHz, 0 is none.  (The mutant does not see that a
\* VHF list is over.)
MutantBand(code, band) == IF code \in 225 .. 249 THEN 1 ELSE band
Band(code, band) == IF code \in 225 .. 249 THEN 1 ELSE IF code = 250 THEN 0 ELSE band

decode_af(code, band) ==
    CASE code \in 1 .. 204 /\ band = 1 -> 100 * (code + 875)
      [] code \in 1 .. 15 /\ band = 0 -> 153 + (code - 1) * 9
      [] code \in 16 .. 135 /\ band = 0 -> 531 + (code - 16) * 9 + 531
      [] OTHER -> 0

\* A frequency between the bands is printed as nothing.
Printed(af) == IF af > 80000 \/ af \in 101 .. 1999 THEN af ELSE 0

AfString(af) ==
    CASE af[1] = 0 /\ af[2] = 0 -> af_string
      [] af[2] = 0 -> <<Printed(af[1])>>
      [] af[1] = 0 -> <<Printed(af[2])>>
      [] OTHER -> <<Printed(af[1]), Printed(af[2])>>

DecodeAF ==
    IF rx.type = "0A"
    THEN LET band1 == Band(rx.af[1], vhf_or_lfmf)
             band2 == Band(rx.af[2], band1)
         IN  /\ vhf_or_lfmf' = band2
             /\ af_string' = AfString(<<decode_af(rx.af[1], band1),
                                        decode_af(rx.af[2], band2)>>)
    ELSE UNCHANGED <<vhf_or_lfmf, af_string>>

SendName ==
    /\ at = "send name"
    /\ DecodeAF
    /\ panel' = [panel EXCEPT ![1] = program_service_name,
                              ![3] = <<traffic, di>>, ![6] = af_string']
    /\ Return
    /\ UNCHANGED <<nameVars, textVars, ps_on, no_groups, free_format, to_clear>>

-----------------------------------------------------------------------------
(* Type 2: radiotext.                                                       *)

\* When the A/B flag is toggled, flush the current radiotext.  (The mutant takes
\* only a flag that is set for a toggle.)
MutantToggled(g) == radiotext_AB_flag = 0 /\ g.flag = 1
Toggled(g) == radiotext_AB_flag # g.flag

Flush ==
    /\ at = "flush"
    /\ radiotext' = IF Toggled(rx) THEN [c \in RTCells |-> Blank] ELSE radiotext
    /\ at' = "flag"
    /\ UNCHANGED <<rx, nameVars, radiotext_AB_flag, staticVars, to_clear, panel>>

StoreFlag ==
    /\ at = "flag"
    /\ radiotext_AB_flag' = rx.flag
    /\ at' = "text"
    /\ UNCHANGED <<rx, nameVars, radiotext, staticVars, to_clear, panel>>

StoreText ==
    /\ at = "text"
    /\ radiotext' = [c \in RTCells |-> IF c \in Covered(rx) THEN rx.pairs[c]
                                       ELSE radiotext[c]]
    /\ at' = "send text"
    /\ UNCHANGED <<rx, nameVars, radiotext_AB_flag, staticVars, to_clear, panel>>

SendText ==
    /\ at = "send text"
    /\ panel' = [panel EXCEPT ![4] = radiotext]
    /\ Return
    /\ UNCHANGED <<nameVars, textVars, staticVars, to_clear>>

-----------------------------------------------------------------------------
(* Type 4A: the date of a modified Julian day.  The real numbers of the     *)
(* code are in steps of 1/100 and 1/10000 here, and nothing is rounded.     *)

\* January and February are counted as months 14 and 15 (from 2) of the year before.
\* (The mutant forgets one of them.)
MutantCarry(month) == IF month = 14 THEN 1 ELSE 0
Carry(month) == IF month \in {14, 15} THEN 1 ELSE 0

Date(mjd) ==
    LET year == (100 * mjd - 1507820) \div 36525
        days == (1461 * year) \div 4
        month == (10000 * (mjd - days) - 149561000) \div 306001
        K == Carry(month)
    IN  [day |-> mjd - 14956 - days - (306001 * month) \div 10000,
         month |-> month - (1 + K * 12),
         year |-> 1900 + year + K]

SendClock ==
    /\ at = "4A"
    /\ panel' = [panel EXCEPT ![5] = Date(rx.mjd)]
    /\ Return
    /\ UNCHANGED <<nameVars, textVars, staticVars, to_clear>>

-----------------------------------------------------------------------------
(* Type 8A: what is kept of a traffic message of several groups.            *)

\* The group is taken for a single or a first one.
Begins(g) == g.F \/ g.word > 15

KeepFreeFormat ==
    /\ at = "8A"
    /\ IF rx.T \/ Begins(rx) THEN UNCHANGED <<no_groups, free_format>>
       ELSE LET gsi == (rx.word \div 4096) % 4
                sg == (rx.word \div 16384) % 2
            IN  /\ no_groups' = IF sg = 1 THEN gsi ELSE no_groups
                /\ free_format' = [free_format EXCEPT ![gsi] = rx.word % 4096]
    /\ Return
    /\ UNCHANGED <<nameVars, textVars, vhf_or_lfmf, af_string, ps_on, to_clear,
                   panel>>

\* Type 14A, variants 0 to 3: the name of another network.
StoreOtherName ==
    /\ at = "14A"
    /\ ps_on' = IF rx.variant \in PSCells THEN [ps_on EXCEPT ![rx.variant] = rx.pair]
                ELSE ps_on
    /\ Return
    /\ UNCHANGED <<nameVars, textVars, vhf_or_lfmf, af_string, no_groups,
                   free_format, to_clear, panel>>

Handle ==
    \/ StoreName \/ SendName
    \/ Flush \/ StoreFlag \/ StoreText \/ SendText
    \/ SendClock \/ KeepFreeFormat \/ StoreOtherName

-----------------------------------------------------------------------------
(* reset(): the radiotext, the name, the flags.  A memset is one step: that  *)
(* a text may be sent, or a segment stored, when half of it is cleared is    *)
(* made good by the next group that brings the same segment.                 *)

ResetStart ==
    /\ to_clear = "nothing"
    /\ to_clear' = "text"
    /\ UNCHANGED <<at, rx, nameVars, textVars, staticVars, panel>>

ClearText ==
    /\ to_clear = "text"
    /\ radiotext' = [c \in RTCells |-> Blank]
    /\ to_clear' = "name"
    /\ UNCHANGED <<at, rx, nameVars, radiotext_AB_flag, staticVars, panel>>

ClearName ==
    /\ to_clear = "name"
    /\ program_service_name' = [k \in PSCells |-> Blank]
    /\ to_clear' = "flags"
    /\ UNCHANGED <<at, rx, traffic, di, textVars, staticVars, panel>>

ClearFlags ==
    /\ to_clear = "flags"
    /\ radiotext_AB_flag' = 0
    /\ traffic' = NoTraffic
    /\ di' = [k \in PSCells |-> FALSE]
    /\ to_clear' = "nothing"
    /\ UNCHANGED <<at, rx, program_service_name, radiotext, staticVars, panel>>

Reset == ClearText \/ ClearName \/ ClearFlags

\* The panel has been told another frequency: set_frequency, clear_data.
ClearPanel == panel' = BlankPanel
=============================================================================

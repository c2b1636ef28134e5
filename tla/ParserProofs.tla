---------------------------- MODULE ParserProofs ----------------------------
(***************************************************************************)
(* Proofs about ParserBroadcast, the parser of groups between stations and  *)
(* a user who resets it: its types, and that a radiotext is flushed when    *)
(* its flag is toggled unless reset() ran while a group was handled.        *)
(***************************************************************************)
EXTENDS ParserBroadcast, NumberTheorems

\* What is on the air is what the station has.
OnAirOK ==
    /\ tuned \in PIs /\ flag \in 0 .. 1
    /\ name \in Names[tuned] /\ text \in Texts[tuned]

LEMMA OnAirHas ==
    ASSUME NEW pi \in PIs, NEW sent \in OnAir(pi)
    PROVE  sent.name \in Names[pi] /\ sent.text \in Texts[pi] /\ sent.flag \in 0 .. 1
  <1>1. (CHOOSE n \in Names[pi] : TRUE) \in Names[pi]
    BY StationAssumption
  <1>2. (CHOOSE t \in Texts[pi] : TRUE) \in Texts[pi]
    BY StationAssumption
  <1> QED  BY <1>1, <1>2 DEF OnAir

LEMMA OnAirInvariant == ParserSpec => []OnAirOK
  <1>1. BroadcastInit => OnAirOK
    BY OnAirHas DEF BroadcastInit, OnAirOK
  <1>2. OnAirOK /\ [BroadcastNext]_vars => OnAirOK'
    <2> SUFFICES ASSUME OnAirOK, [BroadcastNext]_vars PROVE OnAirOK'
      OBVIOUS
    <2>1. CASE UNCHANGED stationVars
      BY <2>1 DEF stationVars, OnAirOK
    <2>2. CASE ChangeName
      BY <2>2 DEF ChangeName, OnAirOK
    <2>3. CASE ChangeText
      BY <2>3 DEF ChangeText, OnAirOK
    <2>4. CASE Retune
      BY <2>4, OnAirHas DEF Retune, OnAirOK
    <2>5. QuietNext => UNCHANGED stationVars
      BY DEF QuietNext, TransmitName, TransmitText, TransmitOther, Transmit, HandleGroup,
             ResetRuns
    <2>6. UserResets => UNCHANGED stationVars
      BY DEF UserResets
    <2>7. UNCHANGED vars => UNCHANGED stationVars
      BY DEF vars
    <2> QED  BY <2>1, <2>2, <2>3, <2>4, <2>5, <2>6, <2>7 DEF BroadcastNext
  <1> QED  BY <1>1, <1>2, PTL DEF ParserSpec

\* Stations send groups that the handlers can read.
LEMMA NameGroupsOK ==
    ASSUME OnAirOK, NEW k \in PSCells, NEW g \in NameGroups(k)
    PROVE  GroupOK(g) /\ g.type \in {"0A", "0B"}
  <1>1. g.type \in {"0A", "0B"} /\ g.k = k /\ g.pair = name[k]
        /\ g.traffic = Flags[tuned] /\ g.di = DI[tuned][k]
    BY DEF NameGroups
  <1>2. name[k] \in Pairs /\ Flags[tuned] \in Traffic /\ DI[tuned][k] \in BOOLEAN
    BY StationAssumption DEF OnAirOK
  <1> QED  BY <1>1, <1>2 DEF GroupOK

LEMMA TextGroupOK ==
    ASSUME OnAirOK, NEW k \in TextSegments
    PROVE  GroupOK(TextGroup(k)) /\ TextGroup(k).type \in {"2A", "2B"}
  <1> DEFINE g == TextGroup(k)
  <1>1. text.version \in {"2A", "2B"} /\ DOMAIN text.pairs \subseteq RTCells
        /\ \A c \in DOMAIN text.pairs : text.pairs[c] \in Pairs
    BY StationAssumption DEF OnAirOK
  <1>2. g.type = text.version /\ g.flag = flag /\ g.k = k
    BY DEF TextGroup
  <1>3. Covered(g) = Covered([type |-> text.version, k |-> k])
    BY <1>2 DEF Covered
  <1>4. Covered(g) \subseteq DOMAIN text.pairs
    BY <1>3 DEF TextSegments
  <1>5. \A c \in Covered(g) : g.pairs[c] = text.pairs[c]
    <2>1. g.pairs = [c \in Covered(g) |-> text.pairs[c]]
      BY <1>2 DEF TextGroup, Covered
    <2> QED  BY <2>1
  <1> QED  BY <1>1, <1>2, <1>4, <1>5 DEF GroupOK, OnAirOK

-----------------------------------------------------------------------------
(* Types.                                                                   *)

\* parse() goes to the handler of the type.
LEMMA FirstStepRight ==
    ASSUME NEW g
    PROVE  /\ FirstStep(g) \in {"name", "flush", "4A", "8A", "14A", "idle"}
           /\ FirstStep(g) = "name" => g.type \in {"0A", "0B"}
           /\ FirstStep(g) = "flush" => g.type \in {"2A", "2B"}
  BY DEF FirstStep

LEMMA NoGroupOK == GroupOK(NoGroup) /\ NoGroup.type = "none"
  BY DEF GroupOK, NoGroup

LEMMA TransmitTypes ==
    ASSUME ParserTypeOK, NEW g, GroupOK(g), Transmit(g)
    PROVE  ParserTypeOK'
  <1>1. at' = FirstStep(g) /\ (rx' = NoGroup \/ rx' = g) /\ (at' # "idle" => rx' = g)
    BY DEF Transmit, Parse
  <1>2. GroupOK(rx')
    BY <1>1, NoGroupOK
  <1>3. /\ at' \in {"idle", "name", "flush", "4A", "8A", "14A"}
        /\ at' = "name" => rx'.type \in {"0A", "0B"}
        /\ at' = "flush" => rx'.type \in {"2A", "2B"}
    BY <1>1, FirstStepRight
  <1>4. UNCHANGED <<program_service_name, radiotext, radiotext_AB_flag, traffic, di,
                    to_clear, lastFlag, raced, fresh>>
    BY DEF Transmit, Parse, nameVars, textVars, historyVars
  <1> QED  BY <1>2, <1>3, <1>4 DEF ParserTypeOK, GroupOK

LEMMA HandleTypes ==
    ASSUME ParserTypeOK, HandleGroup
    PROVE  ParserTypeOK'
  <1>1. Handle /\ raced' \in BOOLEAN /\ fresh' \in BOOLEAN
    BY DEF HandleGroup, ParserTypeOK
  <1>2. lastFlag' \in 0 .. 1
    BY DEF HandleGroup, ParserTypeOK, GroupOK
  <1>3. CASE StoreName
    <2>1. rx.k \in PSCells /\ rx.pair \in Cell /\ rx.traffic \in Traffic /\ rx.di \in BOOLEAN
      BY <1>3 DEF StoreName, ParserTypeOK, GroupOK, Cell
    <2>2. traffic' \in Traffic /\ program_service_name' \in [PSCells -> Cell]
      BY <1>3, <2>1 DEF StoreName, ParserTypeOK
    <2>3. di' \in [PSCells -> BOOLEAN]
      BY <1>3, <2>1 DEF StoreName, ParserTypeOK
    <2>4. at' = "send name" /\ rx.type \in {"0A", "0B"}
          /\ UNCHANGED <<rx, radiotext, radiotext_AB_flag, to_clear>>
      BY <1>3 DEF StoreName, textVars, ParserTypeOK
    <2> QED  BY <1>1, <1>2, <2>2, <2>3, <2>4 DEF ParserTypeOK
  <1>4. CASE Flush \/ StoreFlag
    <2>1. rx.flag \in 0 .. 1 /\ rx.type \in {"2A", "2B"}
      BY <1>4 DEF Flush, StoreFlag, ParserTypeOK, GroupOK
    <2>2. radiotext' \in [RTCells -> Cell] /\ radiotext_AB_flag' \in 0 .. 1
      BY <1>4, <2>1 DEF Flush, StoreFlag, ParserTypeOK, Cell
    <2>3. at' \in {"flag", "text"}
          /\ UNCHANGED <<rx, program_service_name, traffic, di, to_clear>>
      BY <1>4 DEF Flush, StoreFlag, nameVars
    <2> QED  BY <1>1, <1>2, <2>1, <2>2, <2>3 DEF ParserTypeOK
  <1>5. CASE StoreText
    <2>1. rx.type \in {"2A", "2B"} /\ \A c \in Covered(rx) : rx.pairs[c] \in Pairs
      BY <1>5 DEF StoreText, ParserTypeOK, GroupOK
    <2>2. radiotext' \in [RTCells -> Cell]
      BY <1>5, <2>1 DEF StoreText, ParserTypeOK, Cell
    <2>3. at' = "send text"
          /\ UNCHANGED <<rx, program_service_name, traffic, di, radiotext_AB_flag, to_clear>>
      BY <1>5 DEF StoreText, nameVars
    <2> QED  BY <1>1, <1>2, <2>1, <2>2, <2>3 DEF ParserTypeOK
  <1>6. CASE SendName \/ SendText \/ SendClock \/ KeepFreeFormat \/ StoreOtherName
    <2> DEFINE Same == UNCHANGED <<program_service_name, traffic, di, radiotext,
                                   radiotext_AB_flag, to_clear>>
    <2>1. SendName => Return /\ Same
      BY DEF SendName, nameVars, textVars
    <2>2. SendText => Return /\ Same
      BY DEF SendText, nameVars, textVars
    <2>3. SendClock => Return /\ Same
      BY DEF SendClock, nameVars, textVars
    <2>4. KeepFreeFormat => Return /\ Same
      BY DEF KeepFreeFormat, nameVars, textVars
    <2>5. StoreOtherName => Return /\ Same
      BY DEF StoreOtherName, nameVars, textVars
    <2>6. at' = "idle" /\ rx' = NoGroup /\ Same
      BY <1>6, <2>1, <2>2, <2>3, <2>4, <2>5 DEF Return
    <2> QED  BY <1>1, <1>2, <2>6, NoGroupOK DEF ParserTypeOK
  <1> QED  BY <1>1, <1>3, <1>4, <1>5, <1>6 DEF Handle

LEMMA ResetTypes ==
    ASSUME ParserTypeOK, ResetRuns \/ UserResets
    PROVE  ParserTypeOK'
  <1>1. UNCHANGED <<at, rx, lastFlag>> /\ raced' \in BOOLEAN /\ fresh' \in BOOLEAN
    BY DEF ResetRuns, UserResets, ResetStart, Reset, ClearText, ClearName, ClearFlags,
           historyVars, ParserTypeOK
  <1>2. CASE ResetStart
    BY <1>1, <1>2 DEF ResetStart, nameVars, textVars, ParserTypeOK
  <1>3. CASE ClearText
    <2>1. radiotext' \in [RTCells -> Cell] /\ to_clear' = "name"
      BY <1>3 DEF ClearText, Cell
    <2> QED  BY <1>1, <1>3, <2>1 DEF ClearText, nameVars, ParserTypeOK
  <1>4. CASE ClearName
    <2>1. program_service_name' \in [PSCells -> Cell] /\ to_clear' = "flags"
      BY <1>4 DEF ClearName, Cell
    <2> QED  BY <1>1, <1>4, <2>1 DEF ClearName, textVars, ParserTypeOK
  <1>5. CASE ClearFlags
    <2>1. traffic' \in Traffic /\ di' \in [PSCells -> BOOLEAN] /\ to_clear' = "nothing"
      BY <1>5, ParserAssumption DEF ClearFlags
    <2>2. UNCHANGED <<program_service_name, radiotext>>
      BY <1>5 DEF ClearFlags
    <2>3. radiotext_AB_flag' \in 0 .. 1
      BY <1>5 DEF ClearFlags
    <2> QED  BY <1>1, <2>1, <2>2, <2>3 DEF ParserTypeOK
  <1> QED  BY <1>2, <1>3, <1>4, <1>5 DEF ResetRuns, UserResets, Reset

\* The types of the parser, whatever is received and whenever it is reset.
THEOREM ParserTypeCorrect == ParserSpec => []ParserTypeOK
  <1>1. BroadcastInit => ParserTypeOK
    <2> SUFFICES ASSUME BroadcastInit PROVE ParserTypeOK
      OBVIOUS
    <2>1. at = "idle" /\ rx = NoGroup /\ GroupOK(rx) /\ to_clear = "nothing"
      BY NoGroupOK DEF BroadcastInit, ParserInit
    <2>2. program_service_name \in [PSCells -> Cell] /\ radiotext \in [RTCells -> Cell]
      BY DEF BroadcastInit, ParserInit, Cell
    <2>3. traffic \in Traffic /\ di \in [PSCells -> BOOLEAN]
      BY ParserAssumption DEF BroadcastInit, ParserInit
    <2>4. radiotext_AB_flag \in 0 .. 1 /\ lastFlag \in 0 .. 1
      BY DEF BroadcastInit, ParserInit
    <2>5. raced \in BOOLEAN /\ fresh \in BOOLEAN
      BY DEF BroadcastInit
    <2> QED  BY <2>1, <2>2, <2>3, <2>4, <2>5 DEF ParserTypeOK
  <1>2. OnAirOK /\ ParserTypeOK /\ [BroadcastNext]_vars => ParserTypeOK'
    <2> SUFFICES ASSUME OnAirOK, ParserTypeOK, [BroadcastNext]_vars PROVE ParserTypeOK'
      OBVIOUS
    <2>1. CASE \E k \in PSCells : TransmitName(k)
      BY <2>1, NameGroupsOK, TransmitTypes DEF TransmitName
    <2>2. CASE \E k \in RTCells : TransmitText(k)
      BY <2>2, TextGroupOK, TransmitTypes DEF TransmitText
    <2>3. CASE TransmitOther
      <3>1. \A g \in Others : GroupOK(g)
        BY StationAssumption DEF GroupOK
      <3> QED  BY <2>3, <3>1, TransmitTypes DEF TransmitOther, OtherGroups
    <2>4. CASE HandleGroup
      BY <2>4, HandleTypes
    <2>5. CASE ResetRuns \/ UserResets
      BY <2>5, ResetTypes
    <2>6. CASE ChangeName \/ ChangeText \/ Retune \/ UNCHANGED vars
      <3>1. UNCHANGED <<at, rx, program_service_name, traffic, di, radiotext,
                        radiotext_AB_flag, to_clear, lastFlag, raced>>
            /\ fresh' \in BOOLEAN
        BY <2>6 DEF ChangeName, ChangeText, Retune, vars, parserVars, nameVars, textVars,
                    historyVars, ParserTypeOK
      <3> QED  BY <3>1 DEF ParserTypeOK
    <2> QED  BY <2>1, <2>2, <2>3, <2>4, <2>5, <2>6 DEF BroadcastNext, QuietNext
  <1> QED  BY <1>1, <1>2, OnAirInvariant, PTL DEF ParserSpec

-----------------------------------------------------------------------------
(* The flush of radiotexts.                                                 *)

BlankText == \A c \in RTCells : radiotext[c] = Blank

\* Between two groups the flag is that of the last one, or there is no text; while a
\* group is handled that is so of its own flag; reset() clears the text before the flag.
FlushInv ==
    ~raced =>
        /\ at \notin {"flag", "text", "send text"} =>
               radiotext_AB_flag = lastFlag \/ BlankText
        /\ at \in {"flag", "text"} => rx.flag = lastFlag \/ BlankText
        /\ at \in {"text", "send text"} => radiotext_AB_flag = rx.flag
        /\ to_clear \in {"name", "flags"} => BlankText

LEMMA BlankTextUnchanged ==
    ASSUME UNCHANGED radiotext PROVE BlankText' <=> BlankText
  BY DEF BlankText

LEMMA TransmitFlush ==
    ASSUME FlushInv, NEW g, Transmit(g)
    PROVE  FlushInv'
  <1>1. at = "idle" /\ at' \notin {"flag", "text", "send text"}
    BY FirstStepRight DEF Transmit, Parse
  <1>2. UNCHANGED <<radiotext, radiotext_AB_flag, lastFlag, raced, to_clear>>
    BY DEF Transmit, Parse, textVars, historyVars
  <1> QED  BY <1>1, <1>2, BlankTextUnchanged DEF FlushInv

\* A step of a handler that does not race: nothing is being cleared.
LEMMA HandleFlush ==
    ASSUME FlushInv, HandleGroup
    PROVE  FlushInv'
  <1> SUFFICES ASSUME ~raced' PROVE FlushInv'
    BY DEF FlushInv
  <1>1. ~raced /\ to_clear = "nothing" /\ Handle
    BY DEF HandleGroup
  <1>2. CASE Flush
    <2>1. /\ at = "flush" /\ at' = "flag"
          /\ UNCHANGED <<rx, radiotext_AB_flag, lastFlag, to_clear>>
      BY <1>2 DEF Flush, HandleGroup
    <2>2. radiotext' = IF Toggled(rx) THEN [c \in RTCells |-> Blank] ELSE radiotext
      BY <1>2 DEF Flush
    <2>3. rx.flag = lastFlag \/ BlankText'
      <3>1. CASE Toggled(rx)
        BY <2>2, <3>1 DEF BlankText
      <3>2. CASE ~Toggled(rx)
        <4>1. rx.flag = lastFlag \/ BlankText
          BY <3>2, <2>1, <1>1 DEF Toggled, FlushInv
        <4> QED  BY <4>1, <2>2, <3>2 DEF BlankText
      <3> QED  BY <3>1, <3>2
    <2> QED  BY <1>1, <2>1, <2>3 DEF FlushInv
  <1>3. CASE StoreFlag
    <2>1. /\ at = "flag" /\ at' = "text" /\ radiotext_AB_flag' = rx.flag
          /\ UNCHANGED <<rx, radiotext, lastFlag, to_clear>>
      BY <1>3 DEF StoreFlag, HandleGroup
    <2> QED  BY <1>1, <2>1, BlankTextUnchanged DEF FlushInv
  <1>4. CASE StoreText
    <2>1. /\ at = "text" /\ at' = "send text"
          /\ UNCHANGED <<rx, radiotext_AB_flag, lastFlag, to_clear>>
      BY <1>4 DEF StoreText, HandleGroup
    <2> QED  BY <1>1, <2>1 DEF FlushInv
  <1>5. CASE SendText
    <2>1. /\ at = "send text" /\ at' = "idle" /\ lastFlag' = rx.flag
          /\ UNCHANGED <<radiotext_AB_flag, to_clear>>
      BY <1>5 DEF SendText, Return, HandleGroup, textVars
    <2> QED  BY <1>1, <2>1 DEF FlushInv
  <1>6. CASE StoreName \/ SendName \/ SendClock \/ KeepFreeFormat \/ StoreOtherName
    <2> DEFINE Same == /\ at \notin {"flush", "flag", "text", "send text"}
                       /\ at' \in {"send name", "idle"}
                       /\ UNCHANGED <<radiotext, radiotext_AB_flag, to_clear>>
    <2>1. StoreName => Same
      BY DEF StoreName, textVars
    <2>2. SendName => Same
      BY DEF SendName, Return, textVars
    <2>3. SendClock => Same
      BY DEF SendClock, Return, textVars
    <2>4. KeepFreeFormat => Same
      BY DEF KeepFreeFormat, Return, textVars
    <2>5. StoreOtherName => Same
      BY DEF StoreOtherName, Return, textVars
    <2>6. Same
      BY <1>6, <2>1, <2>2, <2>3, <2>4, <2>5
    <2>7. lastFlag' = lastFlag
      BY <2>6 DEF HandleGroup
    <2> QED  BY <1>1, <2>6, <2>7, BlankTextUnchanged DEF FlushInv
  <1> QED  BY <1>1, <1>2, <1>3, <1>4, <1>5, <1>6 DEF Handle

\* Steps of reset() between two groups.
LEMMA ResetFlush ==
    ASSUME FlushInv, ResetRuns
    PROVE  FlushInv'
  <1> SUFFICES ASSUME ~raced' PROVE FlushInv'
    BY DEF FlushInv
  <1>1. ~raced /\ at = "idle" /\ Reset /\ UNCHANGED <<at, lastFlag>>
    BY DEF ResetRuns, Reset, ClearText, ClearName, ClearFlags
  <1>2. CASE ClearText
    <2>1. BlankText'
      BY <1>2 DEF ClearText, BlankText
    <2> QED  BY <1>1, <2>1 DEF FlushInv
  <1>3. CASE ClearName
    <2>1. to_clear = "name" /\ UNCHANGED <<radiotext, radiotext_AB_flag>>
      BY <1>3 DEF ClearName, textVars
    <2> QED  BY <1>1, <2>1, BlankTextUnchanged DEF FlushInv
  <1>4. CASE ClearFlags
    <2>1. to_clear = "flags" /\ UNCHANGED radiotext
      BY <1>4 DEF ClearFlags
    <2> QED  BY <1>1, <2>1, BlankTextUnchanged DEF FlushInv
  <1> QED  BY <1>1, <1>2, <1>3, <1>4 DEF Reset

LEMMA FlushInvariant == ParserSpec => []FlushInv
  <1>1. BroadcastInit => FlushInv
    BY DEF BroadcastInit, ParserInit, FlushInv, BlankText
  <1>2. FlushInv /\ [BroadcastNext]_vars => FlushInv'
    <2> SUFFICES ASSUME FlushInv, [BroadcastNext]_vars PROVE FlushInv'
      OBVIOUS
    <2>1. CASE (\E k \in PSCells : TransmitName(k)) \/ (\E k \in RTCells : TransmitText(k))
               \/ TransmitOther
      BY <2>1, TransmitFlush DEF TransmitName, TransmitText, TransmitOther
    <2>2. CASE HandleGroup
      BY <2>2, HandleFlush
    <2>3. CASE ResetRuns
      BY <2>3, ResetFlush
    <2>4. CASE UserResets
      <3>1. to_clear' = "text" /\ UNCHANGED <<at, rx, textVars, historyVars>>
        BY <2>4 DEF UserResets, ResetStart
      <3> QED  BY <3>1, BlankTextUnchanged DEF FlushInv, textVars, historyVars
    <2>5. CASE ChangeName \/ ChangeText \/ Retune \/ UNCHANGED vars
      <3>1. UNCHANGED <<at, rx, radiotext, radiotext_AB_flag, to_clear, lastFlag, raced>>
        BY <2>5 DEF ChangeName, ChangeText, Retune, vars, parserVars, textVars, historyVars
      <3> QED  BY <3>1, BlankTextUnchanged DEF FlushInv
    <2> QED  BY <2>1, <2>2, <2>3, <2>4, <2>5 DEF BroadcastNext, QuietNext
  <1> QED  BY <1>1, <1>2, PTL DEF ParserSpec

\* Each step of parse() is made at its own place.
LEMMA HandlersAt ==
    /\ StoreName \/ SendName \/ Flush \/ StoreFlag \/ SendText => at # "text"
    /\ SendClock \/ KeepFreeFormat \/ StoreOtherName => at # "text"
  <1>1. StoreName => at = "name"
    BY DEF StoreName
  <1>2. SendName => at = "send name"
    BY DEF SendName
  <1>3. Flush => at = "flush"
    BY DEF Flush
  <1>4. StoreFlag => at = "flag"
    BY DEF StoreFlag
  <1>5. SendText => at = "send text"
    BY DEF SendText
  <1>6. SendClock => at = "4A"
    BY DEF SendClock
  <1>7. KeepFreeFormat => at = "8A"
    BY SMT DEF KeepFreeFormat
  <1>8. StoreOtherName => at = "14A"
    BY DEF StoreOtherName
  <1> QED  BY <1>1, <1>2, <1>3, <1>4, <1>5, <1>6, <1>7, <1>8

\* A toggled flag flushes the radiotext unless reset() ran while a group was handled: it
\* is the missing mutex of parse(), and nothing else, that lets an old text survive.
THEOREM FlushedWithoutRace == ParserSpec => FlushedUnlessRaced
  <1>1. FlushInv /\ [BroadcastNext]_vars => (~raced => FlushStep)
    <2> SUFFICES ASSUME FlushInv, [BroadcastNext]_vars, ~raced,
                        at = "text", at' = "send text", rx.flag # lastFlag
                 PROVE  \A c \in RTCells \ Covered(rx) : radiotext'[c] = Blank
      BY DEF FlushStep
    <2>1. BlankText
      BY DEF FlushInv
    <2>2. StoreText
      <3>1. HandleGroup
        BY DEF BroadcastNext, QuietNext, TransmitName, TransmitText, TransmitOther, Transmit,
               Parse, ResetRuns, Reset, ClearText, ClearName, ClearFlags, ChangeName,
               ChangeText, Retune, UserResets, ResetStart, vars, parserVars
      <3> QED  BY <3>1, HandlersAt DEF HandleGroup, Handle
    <2> QED  BY <2>1, <2>2 DEF StoreText, BlankText
  <1> QED  BY <1>1, FlushInvariant, PTL DEF ParserSpec, FlushedUnlessRaced

-----------------------------------------------------------------------------
(* Alternative frequencies.                                                 *)

IsListed(freq) == \E pi \in PIs : freq \in Listed[pi]

\* The codes of a group that may stand for a VHF frequency are those of listed ones.
CodesListed(af) ==
    /\ af[1] \in 1 .. 204 => IsListed(100 * (af[1] + 875))
    /\ af[2] \in 1 .. 204 => af[1] = 250 \/ IsListed(100 * (af[2] + 875))

\* Between the groups one of the two bands is remembered; the group that is handled
\* was sent by one of the stations.
AFInv ==
    /\ vhf_or_lfmf \in 0 .. 1
    /\ rx.type = "0A" => CodesListed(rx.af)
    /\ VHFListed

LEMMA NameGroupsListed ==
    ASSUME OnAirOK, NEW k, NEW g \in NameGroups(k), g.type = "0A"
    PROVE  CodesListed(g.af)
  <1>1. g.af \in AFPairs[tuned] \cup {NoAF}
    BY DEF NameGroups
  <1>2. CASE g.af \in AFPairs[tuned]
    BY <1>2, FrequencyAssumption DEF OnAirOK, CodesListed, IsListed
  <1>3. CASE g.af = NoAF
    BY <1>3 DEF NoAF, CodesListed
  <1> QED  BY <1>1, <1>2, <1>3

\* A frequency of the LF band is below those of the VHF band.
LEMMA VHFFromCode ==
    ASSUME NEW code, NEW band, decode_af(code, band) > 80000
    PROVE  code \in 1 .. 204 /\ band = 1 /\ decode_af(code, band) = 100 * (code + 875)
  BY DEF decode_af

\* A frequency leaves the band as it is.
LEMMA BandKept ==
    ASSUME NEW code \in 1 .. 204, NEW band PROVE Band(code, band) = band
  BY DEF Band

LEMMA FrequenciesSent ==
    ASSUME AFInv, rx.type = "0A", DecodeAF
    PROVE  vhf_or_lfmf' \in 0 .. 1 /\ VHFListed'
  <1> DEFINE band1 == Band(rx.af[1], vhf_or_lfmf)
             band2 == Band(rx.af[2], band1)
             f1 == decode_af(rx.af[1], band1)
             f2 == decode_af(rx.af[2], band2)
  <1>1. vhf_or_lfmf' = band2 /\ af_string' = AfString(<<f1, f2>>)
    BY DEF DecodeAF
  <1>2. band1 \in 0 .. 1 /\ band2 \in 0 .. 1
    BY DEF AFInv, Band
  <1>3. f1 > 80000 => IsListed(f1)
    BY VHFFromCode DEF AFInv, CodesListed
  <1>4. f2 > 80000 => IsListed(f2)
    <2> SUFFICES ASSUME f2 > 80000 PROVE IsListed(f2)
      OBVIOUS
    <2>1. rx.af[2] \in 1 .. 204 /\ band2 = 1 /\ f2 = 100 * (rx.af[2] + 875)
      BY VHFFromCode
    <2>2. rx.af[1] # 250
      <3>1. rx.af[1] = 250 => band1 = 0
        BY DEF Band
      <3> HIDE DEF band1
      <3>2. band2 = band1
        BY <2>1, BandKept
      <3> QED  BY <2>1, <3>1, <3>2
    <2> QED  BY <2>1, <2>2 DEF AFInv, CodesListed
  <1> HIDE DEF f1, f2
  <1>5. \A f : Printed(f) > 80000 => Printed(f) = f /\ f > 80000
    BY DEF Printed
  <1>6. VHFListed'
    <2> SUFFICES ASSUME NEW i \in DOMAIN af_string', af_string'[i] > 80000
                 PROVE  IsListed(af_string'[i])
      BY DEF VHFListed, IsListed
    <2>1. CASE af_string' = af_string
      BY <2>1 DEF AFInv, VHFListed, IsListed
    <2>2. CASE af_string' = <<Printed(f1)>>
      BY <2>2, <1>3, <1>5
    <2>3. CASE af_string' = <<Printed(f2)>>
      BY <2>3, <1>4, <1>5
    <2>4. CASE af_string' = <<Printed(f1), Printed(f2)>>
      BY <2>4, <1>3, <1>4, <1>5
    <2>5. \/ af_string' = af_string \/ af_string' = <<Printed(f1)>>
          \/ af_string' = <<Printed(f2)>>
          \/ af_string' = <<Printed(f1), Printed(f2)>>
      BY <1>1 DEF AfString
    <2> QED  BY <2>1, <2>2, <2>3, <2>4, <2>5
  <1> QED  BY <1>1, <1>2, <1>6

LEMMA TransmitFrequencies ==
    ASSUME AFInv, NEW g, g.type = "0A" => CodesListed(g.af), Transmit(g)
    PROVE  AFInv'
  <1>1. (rx' = NoGroup \/ rx' = g) /\ UNCHANGED <<vhf_or_lfmf, af_string>>
    BY DEF Transmit, Parse, staticVars
  <1>2. rx'.type = "0A" => CodesListed(rx'.af)
    BY <1>1, NoGroupOK
  <1>3. VHFListed' /\ vhf_or_lfmf' \in 0 .. 1
    BY <1>1 DEF AFInv, VHFListed
  <1>4. (rx.type = "0A" => CodesListed(rx.af))'
    BY <1>2 DEF CodesListed
  <1> QED  BY <1>3, <1>4 DEF AFInv

LEMMA HandleFrequencies ==
    ASSUME AFInv, Handle
    PROVE  AFInv'
  <1> DEFINE Same == UNCHANGED <<vhf_or_lfmf, af_string>> /\ rx' \in {rx, NoGroup}
  <1>1. CASE SendName
    <2>1. rx' = NoGroup /\ DecodeAF
      BY <1>1 DEF SendName, Return
    <2>2. CASE rx.type = "0A"
      BY <2>1, <2>2, FrequenciesSent, NoGroupOK DEF AFInv
    <2>3. CASE rx.type # "0A"
      <3>1. UNCHANGED <<vhf_or_lfmf, af_string>>
        BY <2>1, <2>3 DEF DecodeAF
      <3> QED  BY <2>1, <3>1, NoGroupOK DEF AFInv, VHFListed
    <2> QED  BY <2>2, <2>3
  <1>2. StoreName => Same
    BY DEF StoreName, staticVars
  <1>3. Flush \/ StoreFlag \/ StoreText => Same
    BY DEF Flush, StoreFlag, StoreText, staticVars
  <1>4. SendText \/ SendClock => Same
    BY DEF SendText, SendClock, Return, staticVars
  <1>5. KeepFreeFormat => Same
    BY DEF KeepFreeFormat, Return
  <1>6. StoreOtherName => Same
    BY DEF StoreOtherName, Return
  <1>7. Same => AFInv'
    BY NoGroupOK DEF AFInv, VHFListed, CodesListed
  <1> QED  BY <1>1, <1>2, <1>3, <1>4, <1>5, <1>6, <1>7 DEF Handle

\* A VHF frequency that is sent is one that a station lists, although the band is kept
\* from group to group, from station to station, and across reset().
THEOREM FrequenciesListed == ParserSpec => []VHFListed
  <1>1. BroadcastInit => AFInv
    BY NoGroupOK DEF BroadcastInit, ParserInit, AFInv, VHFListed
  <1>2. OnAirOK /\ AFInv /\ [BroadcastNext]_vars => AFInv'
    <2> SUFFICES ASSUME OnAirOK, AFInv, [BroadcastNext]_vars PROVE AFInv'
      OBVIOUS
    <2>1. CASE \E k \in PSCells : TransmitName(k)
      BY <2>1, NameGroupsListed, TransmitFrequencies DEF TransmitName
    <2>2. CASE \E k \in RTCells : TransmitText(k)
      <3>1. PICK k \in RTCells : k \in TextSegments /\ Transmit(TextGroup(k))
        BY <2>2 DEF TransmitText
      <3>2. TextGroup(k).type # "0A"
        BY <3>1, TextGroupOK
      <3> QED  BY <3>1, <3>2, TransmitFrequencies
    <2>3. CASE TransmitOther
      <3>1. \A g \in Others : g.type # "0A"
        BY StationAssumption
      <3> QED  BY <2>3, <3>1, TransmitFrequencies DEF TransmitOther, OtherGroups
    <2>4. CASE HandleGroup
      BY <2>4, HandleFrequencies DEF HandleGroup
    <2>5. CASE ResetRuns \/ UserResets
      <3>1. UNCHANGED <<rx, vhf_or_lfmf, af_string>>
        BY <2>5 DEF ResetRuns, UserResets, ResetStart, Reset, ClearText, ClearName,
                    ClearFlags, staticVars
      <3> QED  BY <3>1 DEF AFInv, VHFListed, CodesListed
    <2>6. CASE ChangeName \/ ChangeText \/ Retune \/ UNCHANGED vars
      <3>1. UNCHANGED <<rx, vhf_or_lfmf, af_string>>
        BY <2>6 DEF ChangeName, ChangeText, Retune, vars, parserVars, staticVars
      <3> QED  BY <3>1 DEF AFInv, VHFListed, CodesListed
    <2> QED  BY <2>1, <2>2, <2>3, <2>4, <2>5, <2>6 DEF BroadcastNext, QuietNext
  <1>3. AFInv => VHFListed
    BY DEF AFInv
  <1> QED  BY <1>1, <1>2, <1>3, OnAirInvariant, PTL DEF ParserSpec
-----------------------------------------------------------------------------
(* Dates.  Years are counted from 1900 and begin in March, so that the day  *)
(* of a leap year is the last one: y is the number of the year, d that of   *)
(* the day in it, m the number of its month, from 4 on.                     *)

\* Of 1900 to 2099 every fourth year but the first is a leap year.
LEMMA LeapIs ==
    ASSUME NEW z \in Nat, z <= 199
    PROVE  Leap(1900 + z) <=> z % 4 = 0 /\ z # 0
  <1>1. (1900 + z) % 4 = 0 <=> z % 4 = 0
    OBVIOUS
  <1>2. (1900 + z) % 100 = 0 <=> z = 0 \/ z = 100
    OBVIOUS
  <1>3. (1900 + z) % 400 = 0 <=> z = 100
    OBVIOUS
  <1>4. 100 % 4 = 0
    OBVIOUS
  <1> QED  BY <1>1, <1>2, <1>3, <1>4 DEF Leap

LeapYears(z) == {year \in 1900 .. (1900 + z) : Leap(year)}

LEMMA LeapsAre ==
    ASSUME NEW z \in Nat, z <= 199
    PROVE  Cardinality(LeapYears(z)) = z \div 4
  <1> DEFINE Good == {k \in 0 .. z : /\ IsFiniteSet(LeapYears(k))
                                       /\ Cardinality(LeapYears(k)) = k \div 4}
  <1>1. 0 \in Good
    <2>1. ~Leap(1900 + 0)
      BY LeapIs
    <2>2. LeapYears(0) = {}
      BY <2>1 DEF LeapYears
    <2> QED  BY <2>2, FS_EmptySet
  <1>2. ASSUME NEW k \in 1 .. z, k - 1 \in Good PROVE k \in Good
    <2>1. /\ IsFiniteSet(LeapYears(k - 1))
          /\ Cardinality(LeapYears(k - 1)) = (k - 1) \div 4
      BY <1>2
    <2>2. 1900 + k \notin LeapYears(k - 1)
      BY DEF LeapYears
    <2>3. CASE k % 4 = 0
      <3>1. Leap(1900 + k)
        BY <2>3, LeapIs
      <3>2. LeapYears(k) = LeapYears(k - 1) \cup {1900 + k}
        BY <3>1 DEF LeapYears
      <3>3. /\ IsFiniteSet(LeapYears(k))
            /\ Cardinality(LeapYears(k)) = Cardinality(LeapYears(k - 1)) + 1
        BY <2>1, <2>2, <3>2, FS_AddElement
      <3>4. (k - 1) \div 4 + 1 = k \div 4
        BY <2>3
      <3> QED  BY <2>1, <3>3, <3>4
    <2>4. CASE k % 4 # 0
      <3>1. ~Leap(1900 + k)
        BY <2>4, LeapIs
      <3>2. LeapYears(k) = LeapYears(k - 1)
        BY <3>1 DEF LeapYears
      <3>3. (k - 1) \div 4 = k \div 4
        BY <2>4
      <3> QED  BY <2>1, <3>2, <3>3
    <2> QED  BY <2>3, <2>4
  <1> HIDE DEF Good
  <1>3. 0 .. z \subseteq Good
    BY <1>1, <1>2, UpTo
  <1> QED  BY <1>3 DEF Good

\* The numbers that the code computes for a day: of the year, of the days before it,
\* of the month; and of the day before the month.  The same from n, the days since
\* 1900-03-01, and d.
Numbered(mjd, y, e, m) ==
    /\ y = (100 * mjd - 1507820) \div 36525
    /\ e = (1461 * y) \div 4
    /\ m = (10000 * (mjd - e) - 149561000) \div 306001
Offset(m) == (306001 * m) \div 10000
YearOfDay(n) == (100 * n + 80) \div 36525
MonthOfDay(d) == (10000 * d + 1229000) \div 306001

\* The days of the year before each of its months, and the length of the months, from
\* March on.
MonthStarts == <<0, 31, 61, 92, 122, 153, 184, 214, 245, 275, 306, 337>>
MonthLengths == <<31, 30, 31, 30, 31, 31, 30, 31, 30, 31, 31, 29>>

LEMMA MonthOf ==
    ASSUME NEW d \in Nat, d <= 365, NEW m, m = MonthOfDay(d)
    PROVE  /\ m \in 4 .. 15
           /\ Offset(m) = 122 + MonthStarts[m - 3]
           /\ d - MonthStarts[m - 3] \in 0 .. (MonthLengths[m - 3] - 1)
  <1>1. m \in Int /\ 306001 * m <= 10000 * d + 1229000
        /\ 10000 * d + 1229000 < 306001 * m + 306001
    BY DEF MonthOfDay
  <1>2. m >= 4 /\ m <= 15
    BY <1>1
  <1>3. m \in {4, 5, 6, 7, 8, 9} \/ m \in {10, 11, 12, 13, 14, 15}
    BY <1>1, <1>2
  <1>4. CASE m \in {4, 5, 6, 7, 8, 9}
    BY <1>1, <1>4 DEF Offset, MonthStarts, MonthLengths
  <1>5. CASE m \in {10, 11, 12, 13, 14, 15}
    BY <1>1, <1>5 DEF Offset, MonthStarts, MonthLengths
  <1> QED  BY <1>3, <1>4, <1>5

LEMMA YearOf ==
    ASSUME NEW n \in Nat, n <= 73048,
           NEW y, y = YearOfDay(n), NEW d, d = n - (1461 * y) \div 4
    PROVE  /\ y \in Nat /\ y <= 199 /\ d \in Nat /\ d <= 365
           /\ (1461 * y) \div 4 = 365 * y + y \div 4
           /\ d = 365 => y % 4 = 3 /\ y # 199
  <1>1. y \in Int /\ 36525 * y <= 100 * n + 80 /\ 100 * n + 80 < 36525 * y + 36525
    BY DEF YearOfDay
  <1>2. y \in Nat /\ y <= 199
    BY <1>1
  <1>3. (1461 * y) \div 4 = 365 * y + y \div 4
    BY <1>1
  <1> DEFINE q == y \div 4
  <1>4. q \in Int /\ 4 * q <= y /\ y < 4 * q + 4 /\ y % 4 = y - 4 * q
    BY <1>1
  <1>5. d = n - 365 * y - q
    <2>1. d = n - (365 * y + q)
      BY ONLY <1>3, d = n - (1461 * y) \div 4
    <2> QED  BY ONLY <1>1, <1>4, <2>1, n \in Nat
  <1> HIDE DEF q
  <1>6. d \in Nat /\ d <= 365 /\ (d = 365 => y = 4 * q + 3)
    BY ONLY <1>1, <1>4, <1>5, n \in Nat, n <= 73048
  <1>7. d = 365 => y # 199
    BY ONLY <1>1, <1>4, <1>5, n \in Nat, n <= 73048
  <1>8. d = 365 => y % 4 = 3
    BY <1>4, <1>6
  <1> QED  BY ONLY <1>2, <1>3, <1>6, <1>7, <1>8

\* The days before a month, counted from January.
LEMMA MonthsAre ==
    ASSUME NEW date, NEW m \in 4 .. 15, date.year \in Int,
           date.month = IF m < 14 THEN m - 1 ELSE m - 13
    PROVE  /\ date.month \in 1 .. 12
           /\ DaysBefore(date) =
                  365 * (date.year - 1900)
                  + Cardinality({y \in 1900 .. (date.year - 1) : Leap(y)})
                  + IF m < 14 THEN MonthStarts[m - 3] + (IF Leap(date.year) THEN 60 ELSE 59)
                              ELSE MonthStarts[m - 3] - 306
           /\ MonthDays(date.year)[date.month] =
                  IF m = 15 /\ ~Leap(date.year) THEN 28 ELSE MonthLengths[m - 3]
  <1> DEFINE lengths == MonthDays(date.year)
             Eq(f) == f = [k \in 1 .. 12 |-> IF k = 1 THEN 0 ELSE f[k - 1] + lengths[k - 1]]
             days == CHOOSE f : Eq(f)
             leaps == Cardinality({y \in 1900 .. (date.year - 1) : Leap(y)})
             l == IF Leap(date.year) THEN 1 ELSE 0
             table == <<0, 31, 59 + l, 90 + l, 120 + l, 151 + l, 181 + l, 212 + l, 243 + l,
                        273 + l, 304 + l, 334 + l>>
  <1>1. DaysBefore(date) = 365 * (date.year - 1900) + leaps + days[date.month]
    BY Zenon DEF DaysBefore
  <1>2. lengths = <<31, 28 + l, 31, 30, 31, 30, 31, 31, 30, 31, 30, 31>>
    BY DEF MonthDays
  <1>3. l \in Int
    OBVIOUS
  <1> HIDE DEF lengths, leaps, l
  <1>4. Eq(table)
    BY <1>2, <1>3
  <1>5. Eq(days)
    <2> HIDE DEF Eq
    <2> QED  BY <1>4
  <1> HIDE DEF days
  <1>6. /\ days[1] = 0
        /\ \A k \in 2 .. 12 : days[k] = days[k - 1] + lengths[k - 1]
    BY <1>5
  <1>7. /\ days[1] = 0 /\ days[2] = 31 /\ days[3] = 59 + l /\ days[4] = 90 + l
        /\ days[5] = 120 + l /\ days[6] = 151 + l /\ days[7] = 181 + l
        /\ days[8] = 212 + l /\ days[9] = 243 + l /\ days[10] = 273 + l
        /\ days[11] = 304 + l /\ days[12] = 334 + l
    BY <1>2, <1>3, <1>6
  <1>8. days[date.month] =
            IF m < 14 THEN MonthStarts[m - 3] + 59 + l ELSE MonthStarts[m - 3] - 306
    BY <1>3, <1>7 DEF MonthStarts
  <1>9. lengths[date.month] = IF m = 15 THEN 28 + l ELSE MonthLengths[m - 3]
    BY <1>2 DEF MonthLengths
  <1>10. date.month \in 1 .. 12
    OBVIOUS
  <1>11. DaysBefore(date) =
             365 * (date.year - 1900) + leaps
             + IF m < 14 THEN MonthStarts[m - 3] + (IF Leap(date.year) THEN 60 ELSE 59)
                         ELSE MonthStarts[m - 3] - 306
    <2>1. MonthStarts[m - 3] \in Int
      BY DEF MonthStarts
    <2>2. days[date.month] =
              IF m < 14 THEN MonthStarts[m - 3] + (IF Leap(date.year) THEN 60 ELSE 59)
                        ELSE MonthStarts[m - 3] - 306
      BY <1>8, <2>1 DEF l
    <2> QED  BY <1>1, <2>2
  <1>12. lengths[date.month] =
             IF m = 15 /\ ~Leap(date.year) THEN 28 ELSE MonthLengths[m - 3]
    <2>1. m = 15 => MonthLengths[m - 3] = 29
      BY DEF MonthLengths
    <2> QED  BY <1>9, <2>1 DEF l
  <1> QED  BY ONLY <1>10, <1>11, <1>12, SMT DEF lengths, leaps

LEMMA DateIs ==
    ASSUME NEW mjd
    PROVE  \E y, e, m :
               /\ Numbered(mjd, y, e, m)
               /\ Date(mjd) = [day |-> mjd - 14956 - e - Offset(m),
                               month |-> m - (1 + Carry(m) * 12),
                               year |-> 1900 + y + Carry(m)]
  BY SMT DEF Date, Numbered, Offset

LEMMA DateCounted ==
    ASSUME NEW mjd \in Nat, 15079 <= mjd, mjd <= 88127,
           NEW y, NEW e, NEW m, Numbered(mjd, y, e, m),
           NEW n, n = mjd - 15079, NEW d, d = n - e
    PROVE  /\ n \in Nat /\ m = MonthOfDay(d)
           /\ y \in Nat /\ y <= 199 /\ d \in Nat /\ d <= 365
           /\ e = 365 * y + y \div 4
           /\ d = 365 => y % 4 = 3 /\ y # 199
  <1>1. n \in Nat /\ n <= 73048 /\ mjd = n + 15079
    BY ONLY mjd \in Nat, 15079 <= mjd, mjd <= 88127, n = mjd - 15079, SMT
  <1>2. 100 * mjd - 1507820 = 100 * n + 80
    BY ONLY <1>1, SMT
  <1>3. /\ y = (100 * mjd - 1507820) \div 36525 /\ e = (1461 * y) \div 4
        /\ m = (10000 * (mjd - e) - 149561000) \div 306001
    BY ONLY Numbered(mjd, y, e, m), SMT DEF Numbered
  <1>4. y = YearOfDay(n)
    BY ONLY <1>2, <1>3, SMT DEF YearOfDay
  <1>5. /\ y \in Nat /\ y <= 199 /\ d \in Nat /\ d <= 365
        /\ (1461 * y) \div 4 = 365 * y + y \div 4
        /\ d = 365 => y % 4 = 3 /\ y # 199
    <2>1. d = n - (1461 * y) \div 4
      BY ONLY d = n - e, <1>3, SMT
    <2> QED  BY ONLY <1>1, <1>4, <2>1, YearOf, SMT
  <1>6. e = 365 * y + y \div 4 /\ e \in Int
    BY ONLY <1>3, <1>5, SMT
  <1>7. 10000 * (mjd - e) - 149561000 = 10000 * d + 1229000
    BY ONLY <1>1, <1>6, d = n - e, SMT
  <1>8. m = MonthOfDay(d)
    BY ONLY <1>3, <1>7, SMT DEF MonthOfDay
  <1> QED  BY ONLY <1>1, <1>5, <1>6, <1>8, SMT

LEMMA DateRight ==
    ASSUME NEW mjd \in Nat, 15079 <= mjd, mjd <= 88127, NEW date, date = Date(mjd)
    PROVE  /\ date.month \in 1 .. 12
           /\ date.day \in 1 .. MonthDays(date.year)[date.month]
           /\ MJD(date) = mjd
  <1>a. PICK y, e, m :
            /\ Numbered(mjd, y, e, m)
            /\ date.year = 1900 + y + Carry(m) /\ date.month = m - (1 + Carry(m) * 12)
            /\ date.day = mjd - 14956 - e - Offset(m)
    BY DateIs
  <1>b. PICK n, d : n = mjd - 15079 /\ d = n - e
    OBVIOUS
  <1>1. /\ n \in Nat /\ m = MonthOfDay(d) /\ d = n - e
        /\ y \in Nat /\ y <= 199 /\ d \in Nat /\ d <= 365
        /\ e = 365 * y + y \div 4
        /\ d = 365 => y % 4 = 3 /\ y # 199
    BY <1>a, <1>b, DateCounted
  <1> DEFINE start == MonthStarts[m - 3]
             length == MonthLengths[m - 3]
  <1>2. /\ m \in 4 .. 15
        /\ Offset(m) = 122 + start
        /\ d - start \in 0 .. (length - 1)
    BY <1>1, MonthOf
  <1>3. start \in Int /\ length \in Int /\ (m = 15 => start = 337)
    BY <1>2 DEF MonthStarts, MonthLengths
  <1>4. PICK q : q = y \div 4
    OBVIOUS
  <1>5. PICK K : K = Carry(m)
    OBVIOUS
  <1>6. /\ K = IF m < 14 THEN 0 ELSE 1
        /\ date.year = 1900 + y + K /\ date.month = IF m < 14 THEN m - 1 ELSE m - 13
    BY <1>a, <1>2, <1>5 DEF Carry
  <1> HIDE DEF start, length
  <1>7. q \in Int /\ e = 365 * y + q /\ mjd = 15079 + 365 * y + q + d
    BY <1>1, <1>4, <1>b
  <1>8. date.day = d + 1 - start
    BY <1>a, <1>b, <1>1, <1>2, <1>3, <1>7
  <1> DEFINE leaps == Cardinality({k \in 1900 .. (date.year - 1) : Leap(k)})
             l == IF Leap(date.year) THEN 1 ELSE 0
  <1>9. /\ date.month \in 1 .. 12
        /\ DaysBefore(date) = 365 * (date.year - 1900) + leaps
                              + IF m < 14 THEN start + 59 + l ELSE start - 306
        /\ MonthDays(date.year)[date.month] =
               IF m = 15 /\ ~Leap(date.year) THEN 28 ELSE length
    <2>1. date.year \in Int
      BY <1>1, <1>6
    <2>2. /\ date.month \in 1 .. 12
          /\ DaysBefore(date) =
                 365 * (date.year - 1900) + leaps
                 + IF m < 14 THEN start + (IF Leap(date.year) THEN 60 ELSE 59)
                             ELSE start - 306
          /\ MonthDays(date.year)[date.month] =
                 IF m = 15 /\ ~Leap(date.year) THEN 28 ELSE length
      BY ONLY <1>2, <1>6, <2>1, MonthsAre, SMT DEF start, length
    <2>3. start + (IF Leap(date.year) THEN 60 ELSE 59) = start + 59 + l
      BY ONLY <1>3, SMT
    <2> QED  BY ONLY <2>2, <2>3, SMT
  \* From March to December the year is the one counted here, otherwise the next one.
  <1>10. m < 14 => leaps + l = q
    <2> SUFFICES ASSUME m < 14 PROVE leaps + l = q
      OBVIOUS
    <2>1. date.year = 1900 + y
      BY <1>1, <1>6
    <2>2. CASE y = 0
      <3>1. leaps = 0
        <4>1. {k \in 1900 .. (date.year - 1) : Leap(k)} = {}
          BY <2>1, <2>2
        <4> QED  BY <4>1, FS_EmptySet
      <3>2. l = 0
        BY <1>1, <2>1, <2>2, LeapIs
      <3> QED  BY <1>4, <2>2, <3>1, <3>2
    <2>3. CASE y # 0
      <3>1. y - 1 \in Nat /\ y - 1 <= 199 /\ date.year - 1 = 1900 + (y - 1)
        BY <1>1, <2>1, <2>3
      <3>2. leaps = (y - 1) \div 4
        BY <3>1, LeapsAre DEF LeapYears
      <3>3. l = IF y % 4 = 0 THEN 1 ELSE 0
        BY <1>1, <2>1, <2>3, LeapIs
      <3>4. (y - 1) \div 4 + (IF y % 4 = 0 THEN 1 ELSE 0) = y \div 4
        BY <1>1
      <3> QED  BY <1>4, <3>2, <3>3, <3>4
    <2> QED  BY <2>2, <2>3
  <1>11. m >= 14 => leaps = q
    <2> SUFFICES ASSUME m >= 14 PROVE leaps = q
      OBVIOUS
    <2>1. date.year - 1 = 1900 + y
      BY <1>1, <1>2, <1>6
    <2> QED  BY <1>1, <1>4, <2>1, LeapsAre DEF LeapYears
  <1>12. m = 15 /\ d = 365 => Leap(date.year)
    <2> SUFFICES ASSUME m = 15, d = 365 PROVE Leap(date.year)
      OBVIOUS
    <2>1. y + 1 \in Nat /\ y + 1 <= 199 /\ y + 1 # 0 /\ (y + 1) % 4 = 0
      BY <1>1
    <2>2. date.year = 1900 + (y + 1)
      BY <1>1, <1>6
    <2> QED  BY <2>1, <2>2, LeapIs
  <1>13. leaps \in Int /\ l \in Int
    <2> DEFINE before == 1900 .. (date.year - 1)
               years == {k \in before : Leap(k)}
    <2>1. PICK b \in Int : b = date.year - 1
      BY <1>1, <1>6
    <2>2. IsFiniteSet(before)
      <3>1. 1900 \in Int
        OBVIOUS
      <3>2. IsFiniteSet(1900 .. b)
        BY ONLY <3>1, b \in Int, FS_Interval
      <3> QED  BY <2>1, <3>2
    <2>3. years \in SUBSET before
      OBVIOUS
    <2> HIDE DEF before, years
    <2>4. Cardinality(years) \in Nat
      BY <2>2, <2>3, FS_Subset, FS_CardinalityType
    <2> QED  BY <2>4 DEF years, before
  <1> HIDE DEF leaps, l
  <1>14. MJD(date) = mjd
    <2>1. MJD(date) = 15019 + DaysBefore(date) + date.day
      BY DEF MJD
    <2> QED  BY ONLY <1>1, <1>2, <1>3, <1>6, <1>7, <1>8, <1>9, <1>10, <1>11, <1>13, <2>1
  <1>15. date.day \in 1 .. MonthDays(date.year)[date.month]
    <2>1. date.day \in Int /\ 1 <= date.day /\ date.day <= length
      BY <1>1, <1>2, <1>3, <1>8
    <2>2. m = 15 /\ ~Leap(date.year) => date.day <= 28
      BY <1>1, <1>3, <1>8, <1>12
    <2> QED  BY <1>3, <1>9, <2>1, <2>2
  <1> QED  BY <1>9, <1>14, <1>15

\* The handler of a date is given a group of a station, and the panel has a place for it.
ClockInv ==
    /\ at = "4A" => rx \in Others /\ rx.type = "4A"
    /\ 5 \in DOMAIN panel

LEMMA TransmitClock ==
    ASSUME ClockInv, NEW g, g.type = "4A" => g \in Others, Transmit(g)
    PROVE  ClockInv'
  <1>1. /\ at' = FirstStep(g) /\ (at' # "idle" => rx' = g)
        /\ panel' = [panel EXCEPT ![0] = g.pi]
    BY DEF Transmit, Parse
  <1>2. FirstStep(g) = "4A" => g.type = "4A"
    BY DEF FirstStep
  <1> QED  BY <1>1, <1>2 DEF ClockInv

LEMMA HandleClock ==
    ASSUME ClockInv, Handle
    PROVE  ClockInv' /\ at' # "4A"
  <1>1. StoreName => at' # "4A" /\ DOMAIN panel' = DOMAIN panel
    BY DEF StoreName
  <1>2. Flush => at' # "4A" /\ DOMAIN panel' = DOMAIN panel
    BY DEF Flush
  <1>3. StoreFlag => at' # "4A" /\ DOMAIN panel' = DOMAIN panel
    BY DEF StoreFlag
  <1>4. StoreText => at' # "4A" /\ DOMAIN panel' = DOMAIN panel
    BY DEF StoreText
  <1>5. KeepFreeFormat => at' # "4A" /\ DOMAIN panel' = DOMAIN panel
    BY DEF KeepFreeFormat, Return
  <1>6. StoreOtherName => at' # "4A" /\ DOMAIN panel' = DOMAIN panel
    BY DEF StoreOtherName, Return
  <1>7. SendName => at' # "4A" /\ DOMAIN panel' = DOMAIN panel
    BY DEF SendName, Return
  <1>8. SendText => at' # "4A" /\ DOMAIN panel' = DOMAIN panel
    BY DEF SendText, Return
  <1>9. SendClock => at' # "4A" /\ DOMAIN panel' = DOMAIN panel
    BY DEF SendClock, Return
  <1>10. at' # "4A" /\ DOMAIN panel' = DOMAIN panel
    BY <1>1, <1>2, <1>3, <1>4, <1>5, <1>6, <1>7, <1>8, <1>9 DEF Handle
  <1> QED  BY <1>10 DEF ClockInv

LEMMA ClockInvariant == ParserSpec => []ClockInv
  <1>1. BroadcastInit => ClockInv
    BY DEF BroadcastInit, ParserInit, ClockInv, BlankPanel
  <1>2. OnAirOK /\ ClockInv /\ [BroadcastNext]_vars => ClockInv'
    <2> SUFFICES ASSUME OnAirOK, ClockInv, [BroadcastNext]_vars PROVE ClockInv'
      OBVIOUS
    <2>1. CASE \E k \in PSCells : TransmitName(k)
      <3>1. PICK k \in PSCells : \E g \in NameGroups(k) : Transmit(g)
        BY <2>1 DEF TransmitName
      <3>a. PICK g \in NameGroups(k) : Transmit(g)
        BY <3>1
      <3>2. g.type # "4A"
        BY <3>a, NameGroupsOK
      <3> QED  BY <3>a, <3>2, TransmitClock
    <2>2. CASE \E k \in RTCells : TransmitText(k)
      <3>1. PICK k \in RTCells : k \in TextSegments /\ Transmit(TextGroup(k))
        BY <2>2 DEF TransmitText
      <3>2. TextGroup(k).type # "4A"
        BY <3>1, TextGroupOK
      <3> QED  BY <3>1, <3>2, TransmitClock
    <2>3. CASE TransmitOther
      BY <2>3, TransmitClock DEF TransmitOther, OtherGroups
    <2>4. CASE HandleGroup
      BY <2>4, HandleClock DEF HandleGroup
    <2>5. CASE ResetRuns \/ UserResets
      <3>1. UNCHANGED <<at, rx, panel>>
        BY <2>5 DEF ResetRuns, UserResets, ResetStart, Reset, ClearText, ClearName,
                    ClearFlags
      <3> QED  BY <3>1 DEF ClockInv
    <2>6. CASE ChangeName \/ ChangeText \/ UNCHANGED vars
      <3>1. UNCHANGED <<at, rx, panel>>
        BY <2>6 DEF ChangeName, ChangeText, vars, parserVars
      <3> QED  BY <3>1 DEF ClockInv
    <2>7. CASE Retune
      BY <2>7 DEF Retune, ClearPanel, BlankPanel, ClockInv
    <2> QED  BY <2>1, <2>2, <2>3, <2>4, <2>5, <2>6, <2>7 DEF BroadcastNext, QuietNext
  <1> QED  BY <1>1, <1>2, OnAirInvariant, PTL DEF ParserSpec

\* The date that is displayed for a modified Julian day from 1900-03-01 to 2100-02-28 is
\* a date of the Gregorian calendar, and counting the days up to it gives that number.
THEOREM DatesRight == ParserSpec => ClockRight
  <1>1. ClockInv /\ [BroadcastNext]_vars =>
            (at = "4A" /\ at' = "idle" =>
                /\ panel'[5].month \in 1 .. 12
                /\ panel'[5].day \in
                       1 .. MonthDays(panel'[5].year)[panel'[5].month]
                /\ MJD(panel'[5]) = rx.mjd)
    <2> SUFFICES ASSUME ClockInv, [BroadcastNext]_vars, at = "4A", at' = "idle"
                 PROVE  /\ panel'[5].month \in 1 .. 12
                        /\ panel'[5].day \in
                               1 .. MonthDays(panel'[5].year)[panel'[5].month]
                        /\ MJD(panel'[5]) = rx.mjd
      OBVIOUS
    <2>1. HandleGroup
      <3>1. ~(QuietNext /\ ~HandleGroup)
        BY DEF QuietNext, TransmitName, TransmitText, TransmitOther, Transmit, Parse,
               ResetRuns, Reset, ClearText, ClearName, ClearFlags
      <3>2. ~(ChangeName \/ ChangeText \/ Retune \/ UserResets \/ UNCHANGED vars)
        BY DEF ChangeName, ChangeText, Retune, UserResets, ResetStart, vars, parserVars
      <3> QED  BY <3>1, <3>2 DEF BroadcastNext
    <2>2. SendClock
      BY <2>1 DEF HandleGroup, Handle, StoreName, SendName, Flush, StoreFlag, StoreText,
                  SendText, KeepFreeFormat, StoreOtherName
    <2>3. panel'[5] = Date(rx.mjd)
      BY <2>2 DEF SendClock, ClockInv
    <2>4. rx.mjd \in Nat /\ 15079 <= rx.mjd /\ rx.mjd <= 88127
      BY ClockAssumption DEF ClockInv
    <2> HIDE DEF ClockInv
    <2> QED  BY ONLY <2>3, <2>4, DateRight
  <1> QED  BY <1>1, ClockInvariant, PTL DEF ParserSpec, ClockRight
=============================================================================

---------------------------- MODULE RdsLinkProofs ----------------------------
(***************************************************************************)
(* Proofs about RdsDecoder and RdsLink, for every block length, window and  *)
(* alphabet.  On free input: type correctness, and that every published     *)
(* group is whole and carries its offset characters in order.  Behind the   *)
(* channel the decoder behaves like the one on free input, stays in step    *)
(* with the station once it is, loses no intact group, joins no two groups  *)
(* and repeats none but the last.                                           *)
(*                                                                         *)
(* The lemmas are about the operations (SearchBit, StoreBlock, ...), so     *)
(* that the proofs about RedseaDecoder and RedseaLink, which are built from *)
(* the same operations, reuse them; they follow in the second part.  The    *)
(* constants and assumptions of those two modules occur there only.         *)
(***************************************************************************)
EXTENDS RdsLink, RedseaLink, SequenceTheorems, TLAPS

\* The messages with well-formed groups.
SoundMessage ==
    {m \in Message : m.meta = 0 => WellFormed(m.group, m.chars)}

\* The inductive invariant.  TypeOK alone is not inductive: that the counter
\* stays within 0 .. 5 needs its relation to the block number, and that a
\* published group is whole needs to know which blocks are stored.
DecoderInv ==
    /\ TypeOK
    /\ AssemblyConsistent
    /\ out \in Seq(SoundMessage)

-----------------------------------------------------------------------------
LEMMA StatusMessagesSound ==
    /\ SyncMsg(TRUE) \in SoundMessage /\ SyncMsg(FALSE) \in SoundMessage
    /\ \A w \in 0 .. WindowBlocks : RatioMsg(w, WindowBlocks) \in SoundMessage
  BY DEF SyncMsg, RatioMsg, SoundMessage, Message

LEMMA ConcatenationInSeq ==
    ASSUME NEW S, NEW s \in Seq(S), NEW t \in Seq(S)
    PROVE  s \o t \in Seq(S)
  OBVIOUS

\* The status messages of a block are sound.
LEMMA QualityReportSound ==
    ASSUME NEW lost \in BOOLEAN, NEW full \in BOOLEAN,
           NEW wrong \in 0 .. WindowBlocks, NEW blocks,
           full => blocks = WindowBlocks
    PROVE  QualityReport(lost, full, wrong, blocks) \in Seq(SoundMessage)
  <1> DEFINE loss == IF lost THEN <<SyncMsg(FALSE)>> ELSE <<>>
             ratio == IF full THEN <<RatioMsg(wrong, blocks)>> ELSE <<>>
  <1>1. loss \in Seq(SoundMessage)
    BY StatusMessagesSound DEF SyncMsg
  <1>2. ratio \in Seq(SoundMessage)
    BY StatusMessagesSound
  <1>3. QualityReport(lost, full, wrong, blocks) = loss \o ratio
    BY DEF QualityReport
  <1> HIDE DEF loss, ratio
  <1> QED  BY <1>1, <1>2, <1>3, ConcatenationInSeq

LEMMA WholeGroupSound ==
    ASSUME NEW g \in [Blocks -> Words \cup {Unset}],
           NEW c \in [Blocks -> OffsetChars \cup {Unset}],
           WellFormed(g, c)
    PROVE  <<GroupMsg(g, c)>> \in Seq(SoundMessage)
  BY DEF GroupMsg, SoundMessage, Message

-----------------------------------------------------------------------------
LEMMA InitInv == DecoderInit => DecoderInv
  <1> SUFFICES ASSUME DecoderInit PROVE DecoderInv  OBVIOUS
  <1>1. out \in Seq(SoundMessage)
    BY StatusMessagesSound DEF DecoderInit, SyncMsg
  <1>2. out \in Seq(Message)
    BY <1>1 DEF SoundMessage
  <1>3. TypeOK
    <2>1. /\ group \in [Blocks -> Words \cup {Unset}]
          /\ offset_chars \in [Blocks -> OffsetChars \cup {Unset}]
      BY DEF DecoderInit
    <2>2. /\ bit_distance \in 0 .. MaxDistance
          /\ block_bit_counter \in 0 .. (BlockBits - 1)
          /\ wrong_blocks_counter \in 0 .. blocks_counter
          /\ blocks_counter \in 0 .. (WindowBlocks - 1)
          /\ lastseen_offset \in Offsets /\ block_number \in Blocks
      BY BlockBitsAssumption, WindowAssumption
      DEF DecoderInit, Offsets, Blocks, MaxDistance
    <2> QED  BY <1>2, <2>1, <2>2 DEF DecoderInit, TypeOK
  <1>4. AssemblyConsistent
    BY DEF DecoderInit, AssemblyConsistent
  <1> QED  BY <1>1, <1>3, <1>4 DEF DecoderInv

\* The search for two offset words does not touch the assembly.
LEMMA SearchBitInv ==
    ASSUME DecoderInv, NEW shown, SearchBit(shown)
    PROVE  DecoderInv'
  <1>1. out' \in Seq(SoundMessage) /\ out' \in Seq(Message)
    <2>1. out' = <<>> \/ out' = <<SyncMsg(TRUE)>>
      BY DEF SearchBit, SeeNoOffset, RecordCandidate, DropCandidates, EnterSync
    <2>2. <<>> \in Seq(SoundMessage) /\ <<SyncMsg(TRUE)>> \in Seq(SoundMessage)
      BY StatusMessagesSound DEF SyncMsg
    <2>3. out' \in Seq(SoundMessage)
      BY <2>1, <2>2
    <2> QED  BY <2>3 DEF SoundMessage
  <1>2. /\ bit_distance' \in 0 .. MaxDistance
        /\ lastseen_offset' \in Offsets
    <2>1. /\ bit_distance \in 0 .. MaxDistance /\ lastseen_offset \in Offsets
          /\ MaxDistance \in Nat /\ MaxDistance > 1
      BY BlockBitsAssumption DEF DecoderInv, TypeOK, MaxDistance
    <2>2. bit_distance' \in {0, 1, bit_distance, DistanceAfterBit}
      BY DEF SearchBit, SeeNoOffset, RecordCandidate, DropCandidates, EnterSync
    <2>3. lastseen_offset' \in Offsets
      BY <2>1 DEF SearchBit, SeeNoOffset, RecordCandidate, DropCandidates,
                  EnterSync
    <2> QED  BY <2>1, <2>2, <2>3 DEF DistanceAfterBit
  <1>3. /\ d_state' = "NO_SYNC" \/ group_assembly_started' = FALSE
        /\ group_assembly_started' \in BOOLEAN
        /\ presync' \in BOOLEAN
        /\ d_state' \in {"NO_SYNC", "SYNC"}
    BY DEF DecoderInv, TypeOK, SearchBit, SeeNoOffset, RecordCandidate,
           DropCandidates, EnterSync, assembly
  <1>4. /\ block_bit_counter' \in 0 .. (BlockBits - 1)
        /\ block_number' \in Blocks
        /\ wrong_blocks_counter' \in 0 .. blocks_counter'
        /\ blocks_counter' \in 0 .. (WindowBlocks - 1)
    <2>1. CASE UNCHANGED <<block_bit_counter, block_number, window>>
      BY <2>1 DEF DecoderInv, TypeOK, window
    <2>2. CASE shown \in Offsets /\ EnterSync(shown)
      BY <2>2, BlockBitsAssumption, WindowAssumption
      DEF EnterSync, Offsets, Blocks
    <2> QED
      BY <2>1, <2>2 DEF SearchBit, SeeNoOffset, RecordCandidate, DropCandidates
  <1>5. UNCHANGED <<group_good_blocks_counter, group, offset_chars>>
    BY DEF SearchBit, SeeNoOffset, RecordCandidate, DropCandidates, EnterSync,
           assembly
  <1>6. TypeOK'
    BY <1>1, <1>2, <1>3, <1>4, <1>5 DEF DecoderInv, TypeOK
  <1>7. AssemblyConsistent'
    BY <1>3 DEF AssemblyConsistent
  <1> QED  BY <1>1, <1>6, <1>7 DEF DecoderInv

LEMMA AwaitBlockInv ==
    ASSUME DecoderInv, AwaitBlock
    PROVE  DecoderInv'
  <1>1. out' \in Seq(SoundMessage) /\ out' \in Seq(Message)
    BY DEF AwaitBlock
  <1> QED
    BY <1>1, BlockBitsAssumption
    DEF AwaitBlock, BlockComplete, DecoderInv, TypeOK, AssemblyConsistent,
        StoredBlocks, search, window, assembly

\* The types of the variables outside of the assembly.
ClockAndWindowOK ==
    /\ d_state \in {"NO_SYNC", "SYNC"}
    /\ presync \in BOOLEAN
    /\ lastseen_offset \in Offsets
    /\ bit_distance \in 0 .. MaxDistance
    /\ block_bit_counter \in 0 .. (BlockBits - 1)
    /\ wrong_blocks_counter \in 0 .. blocks_counter
    /\ blocks_counter \in 0 .. (WindowBlocks - 1)
    /\ out \in Seq(SoundMessage)
    /\ out \in Seq(Message)

\* What closes a block keeps the types of all variables but the assembly's,
\* if the groups that are published with it are sound.
LEMMA CloseBlockTypes ==
    ASSUME DecoderInv, NEW bad \in {0, 1}, NEW groups \in Seq(SoundMessage),
           BlockDue, CloseBlock(bad, groups)
    PROVE  /\ ClockAndWindowOK'
           /\ block_number' = (block_number + 1) % 4
           /\ block_number' \in Blocks
  <1> DEFINE wrong == wrong_blocks_counter + bad
             blocks == blocks_counter + 1
             full == blocks = WindowBlocks
             lost == full /\ TooManyWrong(wrong)
  <1> USE DEF DecoderInv, TypeOK
  <1>1. wrong \in 0 .. WindowBlocks /\ blocks \in 1 .. WindowBlocks
        /\ wrong <= blocks
    BY WindowAssumption
  <1>2. out' = groups \o QualityReport(lost, full, wrong, blocks)
    BY DEF CloseBlock
  <1>3. out' \in Seq(SoundMessage)
    <2>1. full \in BOOLEAN /\ lost \in BOOLEAN
      BY DEF TooManyWrong
    <2>2. full => blocks = WindowBlocks
      OBVIOUS
    <2> HIDE DEF wrong, blocks, full, lost
    <2>3. QualityReport(lost, full, wrong, blocks) \in Seq(SoundMessage)
      BY <1>1, <2>1, <2>2, QualityReportSound
    <2> QED  BY <1>2, <2>3, ConcatenationInSeq
  <1>4. out' \in Seq(Message)
    BY <1>3 DEF SoundMessage
  <1>5. /\ wrong_blocks_counter' \in 0 .. blocks_counter'
        /\ blocks_counter' \in 0 .. (WindowBlocks - 1)
    BY <1>1, WindowAssumption DEF CloseBlock
  <1>6. /\ d_state' \in {"NO_SYNC", "SYNC"} /\ presync' \in BOOLEAN
    BY DEF CloseBlock
  <1>7. /\ lastseen_offset' \in Offsets /\ bit_distance' \in 0 .. MaxDistance
        /\ block_bit_counter' \in 0 .. (BlockBits - 1)
    BY BlockBitsAssumption DEF CloseBlock
  <1>8. /\ block_number' = (block_number + 1) % 4
        /\ block_number' \in Blocks
    BY DEF CloseBlock, Blocks
  <1> QED  BY <1>3, <1>4, <1>5, <1>6, <1>7, <1>8 DEF ClockAndWindowOK

\* A good block keeps the assembly consistent, and what it publishes is the
\* group it completes.
LEMMA StoreBlockInv ==
    ASSUME DecoderInv, NEW word \in Words, NEW char \in ExpectedChar[block_number],
           StoreBlock(char, word)
    PROVE  DecoderInv'
  <1>1. /\ block_number \in Blocks /\ d_state = "SYNC" /\ BlockDue
        /\ group \in [Blocks -> Words \cup {Unset}]
        /\ offset_chars \in [Blocks -> OffsetChars \cup {Unset}]
        /\ group_good_blocks_counter \in 0 .. 5
        /\ group_assembly_started' = TRUE
        /\ group_good_blocks_counter' = CountGoodBlock
        /\ group' = [group EXCEPT ![block_number] = word]
        /\ offset_chars' = [offset_chars EXCEPT ![block_number] = char]
        /\ CloseBlock(0, Completed)
    BY DEF DecoderInv, TypeOK, StoreBlock, BlockDue
  <1>2. char \in OffsetChars
    BY <1>1 DEF Blocks, ExpectedChar, OffsetChars
  <1>3. /\ group' \in [Blocks -> Words \cup {Unset}]
        /\ offset_chars' \in [Blocks -> OffsetChars \cup {Unset}]
    BY <1>1, <1>2
  <1>4. group_good_blocks_counter' = block_number + 2
    BY <1>1 DEF CountGoodBlock, StoreBlock, InGroup, DecoderInv,
                AssemblyConsistent, Blocks
  <1>5. \A b \in 0 .. block_number : group'[b] \in Words /\ offset_chars'[b] \in ExpectedChar[b]
    <2>1. block_number # 0 => \A b \in 0 .. (block_number - 1) :
                     group[b] \in Words /\ offset_chars[b] \in ExpectedChar[b]
      BY <1>1 DEF StoreBlock, InGroup, DecoderInv, AssemblyConsistent, StoredBlocks
    <2> QED  BY <1>1, <2>1 DEF Blocks
  <1>6. Completed \in Seq(SoundMessage)
    <2>1. CASE block_number = 3
      <3>1. WellFormed(group', offset_chars')
        BY <1>5, <2>1 DEF WellFormed, Blocks
      <3>2. Completed = <<GroupMsg(group', offset_chars')>>
        BY <1>4, <2>1 DEF Completed
      <3> QED  BY <1>3, <3>1, <3>2, WholeGroupSound
    <2>2. CASE block_number # 3
      BY <1>1, <1>4, <2>2 DEF Completed, Blocks
    <2> QED  BY <2>1, <2>2
  <1>7. CloseBlock(0, Completed) /\ BlockDue
    BY <1>1
  <1>8. /\ ClockAndWindowOK'
        /\ block_number' = (block_number + 1) % 4
        /\ block_number' \in Blocks
    BY <1>6, <1>7, CloseBlockTypes
  <1>9. block_number' \in Blocks /\ group_good_blocks_counter' \in 0 .. 5
    BY <1>1, <1>4, <1>8 DEF Blocks
  <1>10. TypeOK'
    BY <1>1, <1>3, <1>8, <1>9 DEF TypeOK, ClockAndWindowOK
  <1>11. AssemblyConsistent'
    <2>1. StoredBlocks' = 0 .. block_number
      <3>1. CASE block_number = 3
        BY <1>8, <3>1 DEF StoredBlocks, Blocks
      <3>2. CASE block_number # 3
        <4>1. block_number' = block_number + 1 /\ block_number' # 0
          BY <1>1, <1>8, <3>2 DEF Blocks
        <4>2. block_number' - 1 = block_number
          BY <1>1, <4>1 DEF Blocks
        <4> QED  BY <4>1, <4>2 DEF StoredBlocks
      <3> QED  BY <3>1, <3>2
    <2>2. group_good_blocks_counter' =
             IF block_number' = 0 THEN 5 ELSE block_number' + 1
      BY <1>1, <1>4, <1>8 DEF Blocks
    <2> QED  BY <1>5, <2>1, <2>2 DEF AssemblyConsistent
  <1> QED  BY <1>8, <1>10, <1>11 DEF DecoderInv, ClockAndWindowOK

LEMMA PassOverBlockInv ==
    ASSUME DecoderInv, PassOverBlock
    PROVE  DecoderInv'
  <1>1. /\ BlockDue /\ CloseBlock(0, <<>>) /\ <<>> \in Seq(SoundMessage)
        /\ group_assembly_started = FALSE
        /\ UNCHANGED <<group_assembly_started, group_good_blocks_counter, group,
                       offset_chars>>
    BY DEF PassOverBlock, InGroup, DecoderInv, TypeOK, assembly
  <1>2. /\ ClockAndWindowOK'
        /\ block_number' = (block_number + 1) % 4
        /\ block_number' \in Blocks
    BY <1>1, CloseBlockTypes
  <1>3. TypeOK'
    BY <1>1, <1>2 DEF DecoderInv, TypeOK, ClockAndWindowOK
  <1>4. AssemblyConsistent'
    BY <1>1 DEF AssemblyConsistent
  <1> QED  BY <1>2, <1>3, <1>4 DEF DecoderInv, ClockAndWindowOK

\* A bad block ends the assembly; what it may publish is the group that was
\* completed just before it.
LEMMA RejectBlockInv ==
    ASSUME DecoderInv, RejectBlock
    PROVE  DecoderInv'
  <1> DEFINE again == IF group_assembly_started THEN Completed ELSE <<>>
  <1>1. /\ BlockDue /\ CloseBlock(1, again)
        /\ group_assembly_started' = FALSE
        /\ UNCHANGED <<group_good_blocks_counter, group, offset_chars>>
    BY DEF RejectBlock
  <1>2. again \in Seq(SoundMessage)
    <2>1. CASE group_assembly_started /\ group_good_blocks_counter = 5
      <3>1. block_number = 0
        BY <2>1, <1>1
        DEF DecoderInv, TypeOK, AssemblyConsistent, BlockDue, Blocks
      <3>2. WellFormed(group, offset_chars)
        BY <2>1, <1>1, <3>1
        DEF DecoderInv, AssemblyConsistent, BlockDue, StoredBlocks, WellFormed
      <3>3. again = <<GroupMsg(group, offset_chars)>>
        BY <1>1, <2>1 DEF Completed
      <3> QED
        BY <3>2, <3>3, WholeGroupSound DEF DecoderInv, TypeOK
    <2>2. CASE ~(group_assembly_started /\ group_good_blocks_counter = 5)
      BY <1>1, <2>2 DEF Completed
    <2> QED  BY <2>1, <2>2
  <1> HIDE DEF again
  <1>3. /\ ClockAndWindowOK'
        /\ block_number' = (block_number + 1) % 4
        /\ block_number' \in Blocks
    BY <1>1, <1>2, CloseBlockTypes
  <1>4. TypeOK'
    BY <1>1, <1>3 DEF DecoderInv, TypeOK, ClockAndWindowOK
  <1>5. AssemblyConsistent'
    BY <1>1 DEF AssemblyConsistent
  <1> QED  BY <1>3, <1>4, <1>5 DEF DecoderInv, ClockAndWindowOK

-----------------------------------------------------------------------------
LEMMA BitInv ==
    ASSUME DecoderInv, NEW shown \in Offsets \cup {NoOffset}, NEW word \in Words,
           Bit(shown, word)
    PROVE  DecoderInv'
  <1>1. CASE SearchBit(shown)
    BY <1>1, SearchBitInv
  <1>2. CASE AwaitBlock
    BY <1>2, AwaitBlockInv
  <1>3. CASE shown \in Accepted /\ StoreBlock(offset_name[shown], word)
    <2>1. offset_name[shown] \in ExpectedChar[block_number]
      <3>1. block_number \in Blocks
        BY DEF DecoderInv, TypeOK
      <3> QED
        BY <1>3, <3>1 DEF Accepted, offset_name, ExpectedChar, Blocks, Offsets, CTag
    <2> QED  BY <1>3, <2>1, StoreBlockInv
  <1>4. CASE shown \in Accepted /\ PassOverBlock
    BY <1>4, PassOverBlockInv
  <1>5. CASE shown \notin Accepted /\ RejectBlock
    BY <1>5, RejectBlockInv
  <1> QED  BY <1>1, <1>2, <1>3, <1>4, <1>5 DEF Bit

LEMMA StutterInv ==
    ASSUME DecoderInv, UNCHANGED decoderVars
    PROVE  DecoderInv'
  BY DEF DecoderInv, TypeOK, AssemblyConsistent, StoredBlocks, decoderVars,
         search, window, assembly

\* The inductive invariant holds in every state of the decoder, whatever bits
\* it receives.
THEOREM DecoderInvariant == DecoderSpec => []DecoderInv
  <1>1. DecoderInit => DecoderInv
    BY InitInv
  <1>2. DecoderInv /\ [DecoderNext]_decoderVars => DecoderInv'
    BY BitInv, StutterInv DEF DecoderNext
  <1> QED  BY <1>1, <1>2, PTL DEF DecoderSpec

\* Every variable keeps its type: the counters of the code stay within their
\* bounds on any input (group_good_blocks_counter, of which only the value 5 is
\* ever compared, never passes it).
THEOREM TypeCorrect == DecoderSpec => []TypeOK
  BY DecoderInvariant, PTL DEF DecoderInv

\* While a group is in assembly its counter agrees with the block number and
\* its blocks are in their places.
THEOREM AssemblyAlwaysConsistent == DecoderSpec => []AssemblyConsistent
  BY DecoderInvariant, PTL DEF DecoderInv

\* Every group that is published holds four received words with the offset
\* characters A, B, C or c, D.
LEMMA SoundOutIsWellFormed == DecoderInv => PublishedWellFormed
  <1> SUFFICES ASSUME DecoderInv, NEW i \in DOMAIN out, out[i].meta = 0
               PROVE  WellFormed(out[i].group, out[i].chars)
    BY DEF PublishedWellFormed
  <1>1. out[i] \in SoundMessage
    BY DEF DecoderInv
  <1> QED  BY <1>1 DEF SoundMessage

THEOREM PublishedGroupsWellFormed == DecoderSpec => []PublishedWellFormed
  BY DecoderInvariant, SoundOutIsWellFormed, PTL

LEMMA SmallConcatenations ==
    ASSUME NEW x, NEW y, NEW z
    PROVE  /\ <<x>> \o (<<y>> \o <<z>>) = <<x, y, z>>
           /\ <<x>> \o <<y>> = <<x, y>>
           /\ <<x>> \o <<>> = <<x>>
           /\ <<>> \o <<x>> = <<x>>
           /\ <<>> \o <<>> = <<>>
  <1> DEFINE S == {x, y, z}
  <1>1. /\ <<x>> \in Seq(S) /\ <<y>> \in Seq(S) /\ <<z>> \in Seq(S)
        /\ <<>> \in Seq(S) /\ <<x, y>> \in Seq(S) /\ <<y, z>> \in Seq(S)
        /\ <<x, y, z>> \in Seq(S)
    OBVIOUS
  <1> HIDE DEF S
  <1>2. ASSUME NEW u, NEW v, <<u>> \in Seq(S), <<v>> \in Seq(S),
               <<u, v>> \in Seq(S)
        PROVE  <<u>> \o <<v>> = <<u, v>>
    <2> DEFINE c == <<u>> \o <<v>>
    <2>1. /\ c \in Seq(S) /\ Len(c) = Len(<<u>>) + Len(<<v>>)
          /\ \A i \in 1 .. Len(<<u>>) + Len(<<v>>) :
                 c[i] = IF i <= Len(<<u>>) THEN <<u>>[i] ELSE <<v>>[i - Len(<<u>>)]
      BY <1>2, ConcatProperties
    <2> HIDE DEF c
    <2>2. Len(c) = 2 /\ c[1] = u /\ c[2] = v
      BY <2>1
    <2>3. c = <<u, v>>
      BY <1>2, <2>1, <2>2, SeqEqual
    <2> QED  BY <2>3 DEF c
  <1>3. <<x>> \o <<y, z>> = <<x, y, z>>
    <2> DEFINE c == <<x>> \o <<y, z>>
    <2>1. /\ c \in Seq(S) /\ Len(c) = Len(<<x>>) + Len(<<y, z>>)
          /\ \A i \in 1 .. Len(<<x>>) + Len(<<y, z>>) :
                 c[i] = IF i <= Len(<<x>>) THEN <<x>>[i]
                        ELSE <<y, z>>[i - Len(<<x>>)]
      BY <1>1, ConcatProperties
    <2> HIDE DEF c
    <2>2. Len(c) = 3 /\ c[1] = x /\ c[2] = y /\ c[3] = z
      BY <2>1
    <2>3. c = <<x, y, z>>
      BY <1>1, <2>1, <2>2, SeqEqual
    <2> QED  BY <2>3 DEF c
  <1>4. <<x>> \o <<>> = <<x>> /\ <<>> \o <<x>> = <<x>> /\ <<>> \o <<>> = <<>>
    BY <1>1, ConcatEmptySeq
  <1> QED  BY <1>1, <1>2, <1>3, <1>4

\* A sound step whose messages are at most one group and then a report
\* publishes that report in the sense of the service.
LEMMA PublishesReport ==
    ASSUME NEW groups, NEW report \in Seq(SoundMessage),
           out' = groups \o report, out' \in Seq(SoundMessage),
           groups = <<>> \/ \E g, c : groups = <<GroupMsg(g, c)>>
    PROVE  Service!Publish(report)
  <1>1. CASE groups = <<>>
    <2>1. out' = report
      BY <1>1, ConcatEmptySeq
    <2> QED  BY <2>1 DEF Service!Publish
  <1>2. ASSUME NEW g, NEW c, groups = <<GroupMsg(g, c)>>
        PROVE  Service!Publish(report)
    <2> DEFINE msg == GroupMsg(g, c)
               S == SoundMessage \cup {msg}
    <2>1. msg.meta = 0
      BY DEF GroupMsg
    <2> HIDE DEF msg
    <2>2. <<msg>> \in Seq(S) /\ report \in Seq(S)
      OBVIOUS
    <2> HIDE DEF S
    <2>3. out' = <<msg>> \o report
      BY <1>2 DEF msg
    <2>4. 1 \in DOMAIN out' /\ out'[1] = msg
      <3>1. /\ Len(out') = Len(<<msg>>) + Len(report)
            /\ \A i \in 1 .. Len(<<msg>>) + Len(report) :
                   out'[i] = IF i <= Len(<<msg>>) THEN <<msg>>[i]
                             ELSE report[i - Len(<<msg>>)]
        BY <2>2, <2>3, ConcatProperties
      <3>2. Len(<<msg>>) = 1 /\ <<msg>>[1] = msg /\ Len(report) \in Nat
        OBVIOUS
      <3> QED  BY <3>1, <3>2
    <2>5. msg \in SoundMessage
      BY <2>4
    <2>6. WellFormed(msg.group, msg.chars)
      BY <2>1, <2>5 DEF SoundMessage
    <2>7. Service!WholeGroup(msg)
      BY <2>1, <2>6
      DEF WellFormed, Service!WholeGroup, ExpectedChar, Service!ExpectedChar,
          Blocks, Service!Blocks
    <2> QED  BY <2>3, <2>4, <2>7 DEF Service!Publish
  <1> QED  BY <1>1, <1>2

\* The end of a block serves, assesses or loses the lock.
LEMMA CloseBlockServes ==
    ASSUME DecoderInv, DecoderInv',
           NEW bad \in 0 .. 1, NEW groups, BlockDue, CloseBlock(bad, groups),
           groups = <<>> \/ \E g, c : groups = <<GroupMsg(g, c)>>
    PROVE  Service!Next
  <1> DEFINE wrong == wrong_blocks_counter + bad
             blocks == blocks_counter + 1
             full == blocks = WindowBlocks
             lost == full /\ TooManyWrong(wrong)
             report == QualityReport(lost, full, wrong, blocks)
  <1>1. d_state = "SYNC"
    BY DEF BlockDue
  <1>2. /\ out' = groups \o report
        /\ d_state' = IF lost THEN "NO_SYNC" ELSE d_state
    BY DEF CloseBlock
  <1>3. wrong \in 0 .. WindowBlocks
    <2>1. /\ wrong_blocks_counter \in 0 .. blocks_counter
          /\ blocks_counter \in 0 .. (WindowBlocks - 1)
          /\ WindowBlocks \in Nat
      BY WindowAssumption DEF DecoderInv, TypeOK
    <2> QED  BY <2>1
  <1>4. Service!Publish(report)
    <2>1. report \in Seq(SoundMessage)
      <3>1. lost \in BOOLEAN /\ full \in BOOLEAN
        BY DEF TooManyWrong
      <3> QED  BY <1>3, <3>1, QualityReportSound
    <2> HIDE DEF report
    <2> QED  BY <1>2, <2>1, PublishesReport DEF DecoderInv
  <1> HIDE DEF wrong, blocks
  <1>5. CASE ~full
    <2>1. report = <<>>
      BY <1>5, SmallConcatenations DEF QualityReport
    <2>2. d_state' = d_state
      BY <1>2, <1>5
    <2> QED  BY <1>1, <1>4, <2>1, <2>2 DEF Service!Next, Service!Serve
  <1>6. CASE full /\ ~lost
    <2>1. report = <<RatioMsg(wrong, WindowBlocks)>>
      BY <1>6, SmallConcatenations DEF QualityReport
    <2>2. d_state' = d_state
      BY <1>2, <1>6
    <2>3. wrong \in 0 .. MaxWrongBlocks
      BY <1>3, <1>6, WindowAssumption DEF TooManyWrong
    <2> QED
      BY <1>1, <1>4, <2>1, <2>2, <2>3
      DEF Service!Next, Service!Assess, RatioMsg, Service!RatioMsg
  <1>7. CASE lost
    <2>1. report = <<SyncMsg(FALSE), RatioMsg(wrong, WindowBlocks)>>
      BY <1>7, SmallConcatenations DEF QualityReport
    <2>2. d_state' = "NO_SYNC"
      BY <1>2, <1>7
    <2>3. wrong \in (MaxWrongBlocks + 1) .. WindowBlocks
      BY <1>3, <1>7, WindowAssumption DEF TooManyWrong
    <2> QED
      BY <1>1, <1>4, <2>1, <2>2, <2>3
      DEF Service!Next, Service!Lose, RatioMsg, SyncMsg, Service!RatioMsg,
          Service!SyncMsg
  <1> QED  BY <1>5, <1>6, <1>7

LEMMA SearchBitServes ==
    ASSUME NEW shown, SearchBit(shown) \/ AwaitBlock
    PROVE  Service!Next
  <1>1. CASE shown \in Offsets /\ EnterSync(shown)
    BY <1>1 DEF EnterSync, Service!Next, Service!Gain, SyncMsg, Service!SyncMsg
  <1>2. CASE UNCHANGED d_state /\ d_state = "NO_SYNC" /\ out' = <<>>
    BY <1>2 DEF Service!Next, Service!Search
  <1>3. CASE AwaitBlock
    BY <1>3 DEF AwaitBlock, Service!Next, Service!Serve, Service!Publish
  <1> QED
    BY <1>1, <1>2, <1>3
    DEF SearchBit, SeeNoOffset, RecordCandidate, DropCandidates

\* Every block that is stored, passed over or rejected.
LEMMA BlockServes ==
    ASSUME DecoderInv, DecoderInv', NEW char, NEW word,
           StoreBlock(char, word) \/ PassOverBlock \/ RejectBlock
    PROVE  Service!Next
  <1>1. CASE StoreBlock(char, word)
    BY <1>1, CloseBlockServes DEF StoreBlock, Completed
  <1>2. CASE PassOverBlock
    BY <1>2, CloseBlockServes DEF PassOverBlock
  <1>3. CASE RejectBlock
    BY <1>3, CloseBlockServes DEF RejectBlock, Completed
  <1> QED  BY <1>1, <1>2, <1>3

LEMMA BitServes ==
    ASSUME DecoderInv, DecoderInv', NEW shown, NEW word, Bit(shown, word)
    PROVE  Service!Next
  BY SearchBitServes, BlockServes DEF Bit

\* The decoder implements the service, on any bit stream: gains and losses of
\* the lock are always reported, a loss exactly with a ratio that is too bad,
\* and groups are published whole, under a lock, before the report of the block
\* that completed them.
THEOREM DecoderServes == DecoderSpec => ServesAsPromised
  <1>1. DecoderInit => Service!Init
    BY DEF DecoderInit, Service!Init, SyncMsg, Service!SyncMsg
  <1>2. ASSUME DecoderInv, DecoderInv', [DecoderNext]_decoderVars
        PROVE  [Service!Next]_(Service!serviceVars)
    <2>1. CASE DecoderNext
      BY <1>2, <2>1, BitServes DEF DecoderNext
    <2>2. CASE UNCHANGED decoderVars
      BY <2>2 DEF decoderVars, Service!serviceVars
    <2> QED  BY <1>2, <2>1, <2>2
  <1> QED
    BY <1>1, <1>2, DecoderInvariant, PTL
    DEF DecoderSpec, ServesAsPromised, Service!Spec

-----------------------------------------------------------------------------
\* Whatever a block publishes as a group is the group as it stands after it.
LEMMA CloseBlockPublishes ==
    ASSUME NEW bad, NEW groups, NEW g, NEW c, CloseBlock(bad, groups),
           groups = <<>> \/ groups = <<GroupMsg(g, c)>>
    PROVE  \A i \in DOMAIN out' :
               out'[i].meta = 0 => out'[i].group = g /\ groups # <<>>
  <1> DEFINE wrong == wrong_blocks_counter + bad
             blocks == blocks_counter + 1
             full == blocks = WindowBlocks
             lost == full /\ TooManyWrong(wrong)
             ratio == RatioMsg(wrong, blocks)
             loss == SyncMsg(FALSE)
             msg == GroupMsg(g, c)
  <1>1. out' = groups \o QualityReport(lost, full, wrong, blocks)
    BY DEF CloseBlock
  <1>2. ratio.meta = 2 /\ loss.meta = 1 /\ msg.group = g
    BY DEF RatioMsg, SyncMsg, GroupMsg
  <1>3. QualityReport(lost, full, wrong, blocks)
          \in {<<>>, <<ratio>>, <<loss>> \o <<ratio>>}
    BY SmallConcatenations DEF QualityReport
  <1> HIDE DEF wrong, blocks, full, ratio, loss, msg
  <1>4. CASE groups = <<>>
    <2>1. out' \in {<<>>, <<ratio>>, <<loss, ratio>>}
      BY <1>1, <1>3, <1>4, SmallConcatenations
    <2> QED  BY <1>2, <2>1
  <1>5. CASE groups = <<msg>>
    <2>1. out' \in {<<msg>>, <<msg, ratio>>, <<msg, loss, ratio>>}
      <3>1. \/ out' = <<msg>> \o <<>>
            \/ out' = <<msg>> \o <<ratio>>
            \/ out' = <<msg>> \o (<<loss>> \o <<ratio>>)
        BY <1>1, <1>3, <1>5
      <3> QED  BY <3>1, SmallConcatenations
    <2> QED  BY <1>2, <1>5, <2>1
  <1> QED  BY <1>4, <1>5 DEF msg

\* A group that is handed to the end of a block is the first message of the bit.
LEMMA GroupIsPublished ==
    ASSUME NEW bad, NEW g, NEW c, CloseBlock(bad, <<GroupMsg(g, c)>>)
    PROVE  1 \in DOMAIN out' /\ out'[1] = GroupMsg(g, c) /\ out'[1].meta = 0
  <1> DEFINE wrong == wrong_blocks_counter + bad
             blocks == blocks_counter + 1
             full == blocks = WindowBlocks
             lost == full /\ TooManyWrong(wrong)
             ratio == RatioMsg(wrong, blocks)
             loss == SyncMsg(FALSE)
             msg == GroupMsg(g, c)
  <1>1. out' = <<msg>> \o QualityReport(lost, full, wrong, blocks)
    BY DEF CloseBlock
  <1>2. QualityReport(lost, full, wrong, blocks)
          \in {<<>>, <<ratio>>, <<loss>> \o <<ratio>>}
    BY SmallConcatenations DEF QualityReport
  <1>3. msg.meta = 0
    BY DEF GroupMsg
  <1> HIDE DEF wrong, blocks, full, ratio, loss, msg
  <1>4. out' \in {<<msg>>, <<msg, ratio>>, <<msg, loss, ratio>>}
    BY <1>1, <1>2, SmallConcatenations
  <1>5. 1 \in DOMAIN out' /\ out'[1] = msg
    BY <1>4
  <1> QED  BY <1>3, <1>5 DEF msg

-----------------------------------------------------------------------------
(* Behind the channel.                                                      *)

LEMMA SentIsInput ==
    ASSUME tx_block \in Blocks, tx_group \in 0 .. (GroupIds - 1)
    PROVE  SentOffset \in Offsets \cup {NoOffset} /\ SentWord \in Words
  BY LinkAssumption DEF SentOffset, SentWord, SentWords, Offsets, CTag, Blocks

\* The types of the station's variables.
StationOK ==
    /\ tx_bit \in 0 .. (BlockBits - 1) /\ tx_block \in Blocks
    /\ tx_version \in Versions /\ tx_group \in 0 .. (GroupIds - 1)
    /\ intact \in BOOLEAN

LEMMA StationStep ==
    ASSUME StationOK, Advance, NEW arrived \in BOOLEAN, Observe(arrived)
    PROVE  StationOK'
  <1>1. intact' \in BOOLEAN
    BY DEF Observe, StationOK, Aligned, BlockSent
  <1>2. tx_bit' \in 0 .. (BlockBits - 1) /\ tx_block' \in Blocks
    BY BlockBitsAssumption DEF Advance, StationOK, BlockSent, Blocks
  <1>3. tx_version' \in Versions /\ tx_group' \in 0 .. (GroupIds - 1)
    BY LinkAssumption DEF Advance, StationOK
  <1> QED  BY <1>1, <1>2, <1>3 DEF StationOK

LEMMA StationStart == LinkInit => StationOK
  <1> SUFFICES ASSUME LinkInit PROVE StationOK  OBVIOUS
  <1>1. GroupIds \in Nat \ {0}
    BY LinkAssumption
  <1>2. tx_group \in 0 .. (GroupIds - 1)
    BY <1>1 DEF LinkInit
  <1>3. intact \in BOOLEAN
    BY DEF LinkInit
  <1> QED  BY <1>2, <1>3 DEF LinkInit, StationOK

\* A bit of the channel is an input of the decoder.
LEMMA LinkStepIsDecoderStep ==
    ASSUME StationOK, [LinkNext]_vars
    PROVE  [DecoderNext]_decoderVars
  <1>1. CASE FaithfulBit
    BY <1>1, SentIsInput, LinkAssumption
    DEF FaithfulBit, DecoderNext, StationOK, NoOffset
  <1>2. CASE DisturbedBit
    BY <1>2, LinkAssumption DEF DisturbedBit, DecoderNext
  <1>3. CASE UNCHANGED vars
    BY <1>3 DEF vars
  <1> QED  BY <1>1, <1>2, <1>3 DEF LinkNext

LEMMA StationInvariant == LinkSpec => []StationOK
  <1>1. StationOK /\ [LinkNext]_vars => StationOK'
    <2>1. StationOK /\ LinkNext => StationOK'
      <3>1. LinkNext => Advance /\ \E arrived \in BOOLEAN : Observe(arrived)
        BY DEF LinkNext, FaithfulBit, DisturbedBit, BlockSent
      <3> QED  BY <3>1, StationStep
    <2>2. StationOK /\ UNCHANGED vars => StationOK'
      BY DEF vars, linkVars, StationOK
    <2> QED  BY <2>1, <2>2
  <1> QED  BY <1>1, StationStart, PTL DEF LinkSpec

\* Behind the channel the decoder behaves like the decoder on free input, so
\* that what is proved of DecoderSpec holds of it.
THEOREM LinkImplementsDecoder == LinkSpec => DecoderSpec
  <1>1. LinkInit => DecoderInit
    BY DEF LinkInit
  <1>2. StationOK /\ [LinkNext]_vars => [DecoderNext]_decoderVars
    BY LinkStepIsDecoderStep
  <1> QED  BY <1>1, <1>2, StationInvariant, PTL DEF LinkSpec, DecoderSpec

\* The type of the history of published groups, for the type of the whole link.
LEMMA GroupBitsType == GroupBits \in Nat /\ GroupBits >= 4
  BY BlockBitsAssumption DEF GroupBits

SinceGroupOK == since_group \in 1 .. GroupBits

LEMMA SinceGroupStep ==
    ASSUME SinceGroupOK, NEW arrived, Observe(arrived)
    PROVE  SinceGroupOK'
  <1>1. since_group \in 1 .. GroupBits
    BY DEF SinceGroupOK
  <1>2. \/ since_group' = 1
        \/ since_group < GroupBits /\ since_group' = since_group + 1
        \/ since_group' = since_group
    BY DEF Observe
  <1>3. since_group' \in 1 .. GroupBits
    BY <1>1, <1>2, GroupBitsType
  <1> QED  BY <1>3 DEF SinceGroupOK, GroupBits

LEMMA SinceGroupInvariant == LinkSpec => []SinceGroupOK
  <1>1. LinkInit => SinceGroupOK
    BY GroupBitsType DEF LinkInit, SinceGroupOK
  <1>2. SinceGroupOK /\ [LinkNext]_vars => SinceGroupOK'
    <2>1. SinceGroupOK /\ LinkNext => SinceGroupOK'
      <3>1. LinkNext => \E arrived : Observe(arrived)
        BY DEF LinkNext, FaithfulBit, DisturbedBit
      <3> QED  BY <3>1, SinceGroupStep
    <2>2. SinceGroupOK /\ UNCHANGED vars => SinceGroupOK'
      BY DEF vars, linkVars, SinceGroupOK, GroupBits
    <2> QED  BY <2>1, <2>2
  <1> QED  BY <1>1, <1>2, PTL DEF LinkSpec

\* Type correctness of the decoder and the station together, for every length
\* of the blocks and of the window and for every set of words.
THEOREM LinkTypeCorrect == LinkSpec => []LinkTypeOK
  <1>1. TypeOK /\ StationOK /\ SinceGroupOK => LinkTypeOK
    BY DEF StationOK, SinceGroupOK, LinkTypeOK
  <1> QED
    BY <1>1, LinkImplementsDecoder, TypeCorrect, StationInvariant,
       SinceGroupInvariant, PTL

\* What is proved of the decoder on free input is inherited.
THEOREM LinkAssemblyConsistent == LinkSpec => []AssemblyConsistent
  BY LinkImplementsDecoder, AssemblyAlwaysConsistent, PTL

\* Behind the channel, too, every published group is whole and in order.
THEOREM LinkPublishesWellFormed == LinkSpec => []PublishedWellFormed
  BY LinkImplementsDecoder, PublishedGroupsWellFormed, PTL

\* The decoder serves its consumers behind the channel as it does on free input.
THEOREM LinkServes == LinkSpec => ServesAsPromised
  BY LinkImplementsDecoder, DecoderServes, PTL

-----------------------------------------------------------------------------
\* What a bit does, in either decoder, whichever offset words it accepts.
Operation(shown, char, word) ==
    \/ SearchBit(shown)
    \/ AwaitBlock
    \/ StoreBlock(char, word)
    \/ PassOverBlock
    \/ RejectBlock

LEMMA BitIsOperation ==
    ASSUME NEW shown, NEW word, Bit(shown, word)
    PROVE  Operation(shown, offset_name[shown], word)
  BY DEF Bit, Operation

\* In lock the decoder's clock and block number move like the station's.
LEMMA AlignedStep ==
    ASSUME StationOK, Aligned, Advance,
           NEW shown, NEW char, NEW word, Operation(shown, char, word)
    PROVE  Aligned' \/ (d_state' = "NO_SYNC" /\ BlockSent)
  <1>1. d_state = "SYNC" /\ block_bit_counter = tx_bit /\ block_number = tx_block
        /\ ~SearchBit(shown)
    BY DEF Aligned, SearchBit, SeeNoOffset, RecordCandidate, DropCandidates,
           EnterSync
  <1>2. CASE AwaitBlock
    BY <1>1, <1>2, BlockBitsAssumption
    DEF AwaitBlock, BlockComplete, Advance, BlockSent, Aligned, StationOK
  <1>3. ASSUME NEW bad, NEW groups, BlockDue, CloseBlock(bad, groups)
        PROVE  Aligned' \/ (d_state' = "NO_SYNC" /\ BlockSent)
    <2>1. BlockSent
      BY <1>1, <1>3, BlockBitsAssumption
      DEF BlockDue, BlockComplete, BlockSent, StationOK
    <2>2. CASE d_state' = "SYNC"
      BY <1>1, <1>3, <2>1, <2>2 DEF CloseBlock, Advance, Aligned
    <2>3. CASE d_state' # "SYNC"
      <3>1. d_state' = "NO_SYNC"
        BY <1>1, <1>3, <2>3 DEF CloseBlock
      <3> QED  BY <2>1, <3>1
    <2> QED  BY <2>2, <2>3
  <1> QED
    BY <1>1, <1>2, <1>3 DEF Operation, StoreBlock, PassOverBlock, RejectBlock

\* A bit of the channel, as the decoder and the history see it.
LEMMA LinkStepCases ==
    ASSUME LinkNext
    PROVE  /\ Advance
           /\ \/ BlockSent /\ Bit(SentOffset, SentWord) /\ Observe(TRUE)
              \/ \E shown \in Offsets \cup {NoOffset}, word \in Garbage :
                     Bit(shown, word) /\ Observe(FALSE)
  <1>1. CASE FaithfulBit /\ BlockSent
    BY <1>1 DEF FaithfulBit
  <1>2. CASE FaithfulBit /\ ~BlockSent
    <2>1. Advance /\ Observe(FALSE)
      BY <1>2 DEF FaithfulBit, Observe
    <2>2. PICK word \in Garbage : Bit(NoOffset, word)
      BY <1>2 DEF FaithfulBit
    <2> QED  BY <2>1, <2>2
  <1>3. CASE DisturbedBit
    BY <1>3 DEF DisturbedBit
  <1> QED  BY <1>1, <1>2, <1>3 DEF LinkNext

\* The decoder never slips a bit or a block against the station: in lock it
\* stays in step until it gives the lock up.
THEOREM LinkLockNeverSlips == LinkSpec => LockNeverSlips
  <1>1. StationOK /\ [LinkNext]_vars => [LockStep]_vars
    <2> SUFFICES ASSUME StationOK, LinkNext, Aligned
                 PROVE  Aligned' \/ (d_state' = "NO_SYNC" /\ BlockSent)
      BY DEF LockStep
    <2>1. PICK shown, word : Advance /\ Bit(shown, word)
      BY LinkStepCases
    <2> QED  BY <2>1, BitIsOperation, AlignedStep
  <1> QED  BY <1>1, StationInvariant, PTL DEF LinkSpec, LockNeverSlips

-----------------------------------------------------------------------------
(* Every intact group is published.                                         *)

\* The blocks of the group that is being sent are in their places, if all of
\* them arrived while the decoder was in step.
IntactInv ==
    intact /\ Aligned /\ tx_block # 0 =>
        /\ group_assembly_started
        /\ \A b \in 0 .. (tx_block - 1) : group[b] = <<tx_group, b>>

LinkInv == DecoderInv /\ StationOK /\ IntactInv

\* A block that arrives in step is stored in its place.
LEMMA ArrivedBlockStored ==
    ASSUME LinkInv, Aligned, BlockSent, intact \/ tx_block = 0,
           Bit(SentOffset, SentWord)
    PROVE  /\ StoreBlock(offset_name[SentOffset], SentWord)
           /\ group' = [group EXCEPT ![tx_block] = <<tx_group, tx_block>>]
           /\ group_assembly_started'
  <1>1. d_state = "SYNC" /\ block_bit_counter = BlockBits - 1
        /\ block_number = tx_block
    BY DEF Aligned, BlockSent
  <1>2. BlockDue /\ ~AwaitBlock /\ ~SearchBit(SentOffset)
    BY <1>1, BlockBitsAssumption
    DEF BlockDue, BlockComplete, AwaitBlock, SearchBit, SeeNoOffset,
        RecordCandidate, DropCandidates, EnterSync
  <1>3. SentOffset \in Accepted
    BY <1>1 DEF SentOffset, Accepted, LinkInv, StationOK, Blocks
  <1>4. InGroup
    BY <1>1 DEF InGroup, LinkInv, IntactInv
  <1>5. StoreBlock(offset_name[SentOffset], SentWord)
    BY <1>2, <1>3, <1>4 DEF Bit, PassOverBlock
  <1> QED  BY <1>1, <1>5 DEF StoreBlock, SentWord

\* Within a block that is received in step nothing happens to the assembly.
LEMMA WithinBlock ==
    ASSUME DecoderInv, StationOK, Advance, NEW arrived, Observe(arrived),
           ~BlockSent, intact', Aligned', tx_block' # 0,
           NEW shown, NEW char, NEW word, Operation(shown, char, word)
    PROVE  /\ intact /\ Aligned /\ AwaitBlock
           /\ UNCHANGED <<tx_block, tx_group, tx_version>>
  <1>1. /\ UNCHANGED <<tx_block, tx_group, tx_version>>
        /\ tx_bit' = tx_bit + 1 /\ intact
    BY DEF Advance, Observe
  <1>2. block_bit_counter' > 0 /\ block_bit_counter' = tx_bit'
    BY <1>1 DEF Aligned, StationOK
  <1>3. ~SearchBit(shown)
    <2>1. SearchBit(shown) => d_state' = "NO_SYNC" \/ block_bit_counter' = 0
      BY DEF SearchBit, SeeNoOffset, RecordCandidate, DropCandidates, EnterSync
    <2> QED  BY <1>2, <2>1 DEF Aligned
  <1>4. ~StoreBlock(char, word) /\ ~PassOverBlock /\ ~RejectBlock
    <2>1. \A bad, groups : CloseBlock(bad, groups) => block_bit_counter' = 0
      BY DEF CloseBlock
    <2> QED  BY <1>2, <2>1 DEF StoreBlock, PassOverBlock, RejectBlock
  <1>5. AwaitBlock
    BY <1>3, <1>4 DEF Operation
  <1>6. Aligned
    BY <1>1, <1>2, <1>5
    DEF AwaitBlock, Aligned, StationOK, DecoderInv, TypeOK
  <1> QED  BY <1>1, <1>5, <1>6

LEMMA IntactStep ==
    ASSUME LinkInv, LinkNext
    PROVE  IntactInv'
  <1> SUFFICES ASSUME intact', Aligned', tx_block' # 0
               PROVE  /\ group_assembly_started'
                      /\ \A b \in 0 .. (tx_block' - 1) :
                             group'[b] = <<tx_group', b>>
    BY DEF IntactInv
  <1>1. Advance /\ DecoderInv /\ StationOK
        /\ group \in [Blocks -> Words \cup {Unset}]
    BY LinkStepCases DEF LinkInv, DecoderInv, TypeOK
  <1>2. CASE BlockSent
    <2>1. Bit(SentOffset, SentWord) /\ Aligned /\ (intact \/ tx_block = 0)
      BY <1>2, LinkStepCases DEF Observe
    <2>2. tx_group' = tx_group /\ tx_block' = tx_block + 1 /\ tx_block \in 0 .. 2
      BY <1>1, <1>2 DEF Advance, StationOK, Blocks
    <2>3. /\ group' = [group EXCEPT ![tx_block] = <<tx_group, tx_block>>]
          /\ group_assembly_started'
      BY <1>2, <2>1, ArrivedBlockStored
    <2>4. \A b \in 0 .. (tx_block - 1) : group[b] = <<tx_group, b>>
      BY <2>1, <2>2 DEF LinkInv, IntactInv
    <2> QED  BY <1>1, <2>2, <2>3, <2>4 DEF Blocks
  <1>3. CASE ~BlockSent
    <2>1. PICK shown, word, arrived : Bit(shown, word) /\ Observe(arrived)
      BY LinkStepCases
    <2>2. /\ intact /\ Aligned /\ AwaitBlock
          /\ UNCHANGED <<tx_block, tx_group>>
      BY <1>1, <1>3, <2>1, BitIsOperation, WithinBlock
    <2> QED  BY <2>2 DEF AwaitBlock, assembly, LinkInv, IntactInv
  <1> QED  BY <1>2, <1>3

LEMMA LinkInvHolds == LinkSpec => []LinkInv
  <1>1. LinkInit => IntactInv
    BY DEF LinkInit, IntactInv
  <1>2. LinkInv /\ [LinkNext]_vars => IntactInv'
    <2>1. LinkInv /\ LinkNext => IntactInv'
      BY IntactStep
    <2>2. LinkInv /\ UNCHANGED vars => IntactInv'
      BY DEF LinkInv, IntactInv, Aligned, vars, linkVars, decoderVars, assembly
    <2> QED  BY <2>1, <2>2
  <1>3. LinkSpec => []DecoderInv
    BY LinkImplementsDecoder, DecoderInvariant, PTL
  <1> QED
    BY <1>1, <1>2, <1>3, StationInvariant, PTL DEF LinkSpec, LinkInv

\* A group whose four blocks arrive while the decoder is in step is published,
\* whole, with the last of its bits, whatever happened before it.
THEOREM IntactGroupsPublished == LinkSpec => IntactGroupPublished
  <1>1. LinkInv /\ LinkNext => IntactGroupStep
    <2> SUFFICES ASSUME LinkInv, LinkNext, GroupEnds, intact'
                 PROVE  \E i \in DOMAIN out' :
                           out'[i].meta = 0 /\ out'[i].group = SentGroup
      BY DEF IntactGroupStep
    <2>1. BlockSent /\ tx_block = 3
      BY DEF GroupEnds
    <2>2. Bit(SentOffset, SentWord) /\ Aligned /\ intact
      <3>1. Bit(SentOffset, SentWord) /\ Aligned /\ (intact \/ tx_block = 0)
        BY <2>1, LinkStepCases DEF Observe
      <3> QED  BY <2>1, <3>1
    <2>3. /\ StoreBlock(offset_name[SentOffset], SentWord)
          /\ group' = [group EXCEPT ![3] = <<tx_group, 3>>]
      BY <2>1, <2>2, ArrivedBlockStored
    <2>4. /\ group_assembly_started /\ block_number = 3 /\ d_state = "SYNC"
          /\ \A b \in 0 .. 2 : group[b] = <<tx_group, b>>
          /\ group \in [Blocks -> Words \cup {Unset}]
      BY <2>1, <2>2 DEF LinkInv, IntactInv, Aligned, DecoderInv, TypeOK
    <2>5. group' = SentGroup
      <3>1. \A b \in Blocks : group'[b] = <<tx_group, b>>
        BY <2>3, <2>4 DEF Blocks
      <3>2. group' \in [Blocks -> Words \cup {Unset, <<tx_group, 3>>}]
        BY <2>3, <2>4 DEF Blocks
      <3> QED  BY <3>1, <3>2 DEF SentGroup
    <2>6. group_good_blocks_counter' = 5
      BY <2>3, <2>4
      DEF StoreBlock, CountGoodBlock, LinkInv, DecoderInv, AssemblyConsistent
    <2>7. CloseBlock(0, <<GroupMsg(group', offset_chars')>>)
      BY <2>3, <2>6 DEF StoreBlock, Completed
    <2>8. 1 \in DOMAIN out' /\ out'[1] = GroupMsg(group', offset_chars')
      BY <2>7, GroupIsPublished
    <2> QED  BY <2>5, <2>8 DEF GroupMsg
  <1>2. LinkInv /\ [LinkNext]_vars => [IntactGroupStep]_vars
    BY <1>1
  <1> QED  BY <1>2, LinkInvHolds, PTL DEF LinkSpec, IntactGroupPublished

-----------------------------------------------------------------------------
(* Blocks of two groups are never joined.                                   *)

\* In the given places the group in assembly has words of one sent group, and
\* garbage.
Joined(places, g) == \A b \in places : group[b] \in Garbage \cup {<<g, b>>}

\* Stored words that were sent were stored in step with the station, in the
\* group that is being sent, or (block_number = 0) was sent last.
JoinInv ==
    d_state = "SYNC" /\ group_assembly_started =>
        \/ \A b \in StoredBlocks : group[b] \in Garbage
        \/ /\ Aligned
           /\ \E g \in 0 .. (GroupIds - 1) :
                  /\ block_number # 0 => g = tx_group
                  /\ Joined(StoredBlocks, g)

\* A block that is stored joins words of one group.
LEMMA StoredBlockJoins ==
    ASSUME DecoderInv, StationOK, JoinInv, NEW char, NEW word,
           StoreBlock(char, word),
           word \in Garbage \/ (Aligned /\ word = SentWord)
    PROVE  \/ \A b \in 0 .. block_number : group'[b] \in Garbage
           \/ /\ Aligned
              /\ \A b \in 0 .. block_number :
                     group'[b] \in Garbage \cup {<<tx_group, b>>}
  <1>1. /\ group' = [group EXCEPT ![block_number] = word]
        /\ group \in [Blocks -> Words \cup {Unset}] /\ block_number \in Blocks
        /\ BlockDue /\ d_state = "SYNC" /\ InGroup /\ StationOK
        /\ block_bit_counter = BlockBits - 1
    BY BlockBitsAssumption
    DEF StoreBlock, DecoderInv, TypeOK, BlockDue, BlockComplete
  <1>2. \A b \in 0 .. block_number :
            group'[b] = IF b = block_number THEN word ELSE group[b]
    BY <1>1 DEF Blocks
  <1>3. \/ block_number = 0
        \/ \A b \in 0 .. (block_number - 1) : group[b] \in Garbage
        \/ (Aligned /\ \A b \in 0 .. (block_number - 1) :
                           group[b] \in Garbage \cup {<<tx_group, b>>})
    BY <1>1 DEF JoinInv, InGroup, StoredBlocks, Joined
  <1>4. word \in Garbage \/ (Aligned /\ word = <<tx_group, block_number>>)
    BY DEF SentWord, Aligned
  <1> QED  BY <1>1, <1>2, <1>3, <1>4 DEF Blocks

LEMMA JoinStep ==
    ASSUME DecoderInv, StationOK, JoinInv, Advance,
           NEW shown, NEW char, NEW word, Operation(shown, char, word),
           StoreBlock(char, word) =>
               word \in Garbage \/ (Aligned /\ word = SentWord)
    PROVE  JoinInv' /\ NoMixedGroup'
  <1>1. Operation(shown, char, word)
    OBVIOUS
  <1>2. Advance /\ StationOK /\ DecoderInv
    OBVIOUS
  <1>3. Aligned => Aligned' \/ d_state' = "NO_SYNC"
    BY <1>1, <1>2, AlignedStep
  <1> DEFINE SoundOut == \A i \in DOMAIN out' : out'[i].meta # 0
  <1>4. SoundOut => NoMixedGroup'
    BY DEF NoMixedGroup, GroupsOut
  <1>5. ASSUME NEW g, NEW grp, \A b \in Blocks : grp[b] \in Garbage \cup {<<g, b>>},
               \A i \in DOMAIN out' : out'[i].meta = 0 => out'[i].group = grp
        PROVE  NoMixedGroup'
    BY <1>5 DEF NoMixedGroup, GroupsOut
  <1> HIDE DEF SoundOut
  <1>6. CASE SearchBit(shown)
    <2>1. SoundOut
      <3>1. out' = <<>> \/ out' = <<[meta |-> 1, sync |-> TRUE]>>
        BY <1>6 DEF SearchBit, SeeNoOffset, RecordCandidate, DropCandidates,
                    EnterSync, SyncMsg
      <3>2. CASE out' = <<>>
        BY <3>2 DEF SoundOut
      <3>3. CASE out' = <<[meta |-> 1, sync |-> TRUE]>>
        BY <3>3 DEF SoundOut
      <3> QED  BY <3>1, <3>2, <3>3
    <2>2. d_state' = "NO_SYNC" \/ ~group_assembly_started'
      BY <1>6 DEF SearchBit, SeeNoOffset, RecordCandidate, DropCandidates,
                  EnterSync
    <2> QED  BY <1>4, <2>1, <2>2 DEF JoinInv
  <1>7. CASE AwaitBlock
    <2>1. SoundOut
      BY <1>7 DEF AwaitBlock, SoundOut
    <2>2. UNCHANGED <<d_state, block_number, group, group_assembly_started>>
      BY <1>7 DEF AwaitBlock, assembly
    <2>3. Aligned => tx_group' = tx_group
      BY <1>2, <1>7, BlockBitsAssumption
      DEF AwaitBlock, BlockComplete, Aligned, Advance, BlockSent, StationOK
    <2> QED
      BY <1>3, <1>4, <2>1, <2>2, <2>3 DEF JoinInv, Joined, StoredBlocks
  <1>8. CASE StoreBlock(char, word)
    <2>1. /\ CloseBlock(0, Completed) /\ block_number \in Blocks
          /\ block_number' = (block_number + 1) % 4 /\ BlockDue
          /\ group_good_blocks_counter' = CountGoodBlock
          /\ Completed \in {<<>>, <<GroupMsg(group', offset_chars')>>}
      BY <1>2, <1>8
      DEF StoreBlock, CloseBlock, DecoderInv, TypeOK, Completed
    <2>2. \/ \A b \in 0 .. block_number : group'[b] \in Garbage
          \/ /\ Aligned
             /\ \A b \in 0 .. block_number :
                    group'[b] \in Garbage \cup {<<tx_group, b>>}
      BY <1>8, StoredBlockJoins
    <2>3. StoredBlocks' = 0 .. block_number
      <3>1. CASE block_number = 3
        BY <2>1, <3>1 DEF StoredBlocks, Blocks
      <3>2. CASE block_number # 3
        <4>1. block_number' = block_number + 1 /\ block_number' # 0
              /\ block_number' - 1 = block_number
          BY <2>1, <3>2 DEF Blocks
        <4> QED  BY <4>1 DEF StoredBlocks
      <3> QED  BY <3>1, <3>2
    <2>4. Aligned /\ block_number' # 0 => tx_group' = tx_group
      BY <2>1, <1>2 DEF Aligned, Advance, StationOK, Blocks
    <2>5. JoinInv'
      BY <1>2, <1>3, <2>2, <2>3, <2>4 DEF JoinInv, Joined, StationOK
    <2>6. NoMixedGroup'
      <3>1. \A i \in DOMAIN out' : out'[i].meta = 0 =>
                out'[i].group = group' /\ Completed # <<>>
        BY <2>1, CloseBlockPublishes
      <3>2. CASE block_number = 3
        <4>1. \A b \in Blocks : group'[b] \in Garbage \cup {<<tx_group, b>>}
          BY <2>2, <3>2 DEF Blocks
        <4> QED  BY <1>5, <3>1, <4>1
      <3>3. CASE block_number # 3
        <4>1. Completed = <<>>
          BY <1>2, <1>8, <2>1, <3>3
          DEF Completed, CountGoodBlock, StoreBlock, InGroup, DecoderInv,
              AssemblyConsistent, BlockDue, Blocks
        <4> QED  BY <1>4, <3>1, <4>1 DEF SoundOut
      <3> QED  BY <3>2, <3>3
    <2> QED  BY <2>5, <2>6
  <1>9. CASE PassOverBlock
    <2>1. ~group_assembly_started' /\ CloseBlock(0, <<>>)
      BY <1>9 DEF PassOverBlock, InGroup, assembly
    <2>2. SoundOut
      BY <2>1, CloseBlockPublishes DEF SoundOut
    <2> QED  BY <1>4, <2>1, <2>2 DEF JoinInv
  <1>10. CASE RejectBlock
    <2>1. /\ ~group_assembly_started' /\ group' = group /\ BlockDue
          /\ UNCHANGED group_good_blocks_counter
          /\ CloseBlock(1, IF group_assembly_started THEN Completed ELSE <<>>)
      BY <1>10 DEF RejectBlock
    <2>2. JoinInv'
      BY <2>1 DEF JoinInv
    <2>3. CASE group_assembly_started /\ group_good_blocks_counter = 5
      <3>1. block_number = 0 /\ d_state = "SYNC"
        BY <1>2, <2>1, <2>3
        DEF DecoderInv, TypeOK, AssemblyConsistent, BlockDue, Blocks
      <3>2. \E g : \A b \in Blocks : group'[b] \in Garbage \cup {<<g, b>>}
        BY <2>1, <2>3, <3>1 DEF JoinInv, StoredBlocks, Joined
      <3>3. \A i \in DOMAIN out' : out'[i].meta = 0 => out'[i].group = group'
        BY <2>1, <2>3, CloseBlockPublishes DEF Completed
      <3> QED  BY <1>5, <2>2, <3>2, <3>3
    <2>4. CASE ~(group_assembly_started /\ group_good_blocks_counter = 5)
      <3>1. CloseBlock(1, <<>>)
        BY <2>1, <2>4 DEF Completed
      <3>2. SoundOut
        BY <3>1, CloseBlockPublishes DEF SoundOut
      <3> QED  BY <1>4, <2>2, <3>2
    <2> QED  BY <2>3, <2>4
  <1> QED  BY <1>1, <1>6, <1>7, <1>8, <1>9, <1>10 DEF Operation

\* A word of the channel that is stored was not sent, or it is stored in its
\* place, in step with the station.
LEMMA StoredWordSent ==
    ASSUME DecoderInv, StationOK, BlockSent,
           SentOffset \in Accepted, NEW char, NEW word, StoreBlock(char, word)
    PROVE  Aligned
  <1>1. d_state = "SYNC" /\ block_bit_counter = BlockBits - 1
    BY BlockBitsAssumption
    DEF StoreBlock, BlockDue, BlockComplete, DecoderInv, TypeOK
  <1>2. block_number = tx_block
    BY DEF Accepted, SentOffset, StationOK, DecoderInv, TypeOK, Blocks, CTag
  <1> QED  BY <1>1, <1>2 DEF Aligned, BlockSent

LEMMA LinkJoinStep ==
    ASSUME LinkInv, JoinInv, LinkNext
    PROVE  JoinInv' /\ NoMixedGroup'
  <1>1. DecoderInv /\ StationOK /\ Advance
    BY LinkStepCases DEF LinkInv
  <1>2. PICK shown, word :
            /\ Bit(shown, word)
            /\ word \in Garbage \/ (BlockSent /\ shown = SentOffset /\ word = SentWord)
    BY LinkStepCases
  <1>3. Operation(shown, offset_name[shown], word)
    BY <1>2, BitIsOperation
  <1>4. StoreBlock(offset_name[shown], word) =>
            word \in Garbage \/ (Aligned /\ word = SentWord)
    <2> SUFFICES ASSUME StoreBlock(offset_name[shown], word), word \notin Garbage
                 PROVE  Aligned /\ word = SentWord
      OBVIOUS
    <2>1. BlockDue /\ BlockSent /\ shown = SentOffset /\ word = SentWord
      BY <1>2 DEF StoreBlock
    <2>2. shown \in Accepted
      <3>1. ~SearchBit(shown) /\ ~AwaitBlock
        BY <2>1 DEF BlockDue, AwaitBlock, SearchBit, SeeNoOffset,
                    RecordCandidate, DropCandidates, EnterSync
      <3>2. ~RejectBlock
        BY DEF StoreBlock, RejectBlock
      <3> QED  BY <1>2, <3>1, <3>2 DEF Bit
    <2> QED  BY <1>1, <2>1, <2>2, StoredWordSent
  <1> QED  BY <1>1, <1>3, <1>4, JoinStep

LEMMA JoinStart == LinkInit => JoinInv /\ NoMixedGroup
  <1> SUFFICES ASSUME LinkInit PROVE JoinInv /\ NoMixedGroup  OBVIOUS
  <1>1. d_state = "NO_SYNC" /\ out = <<[meta |-> 1, sync |-> FALSE]>>
    BY DEF LinkInit, DecoderInit, SyncMsg
  <1>2. GroupsOut(out) = {}
    BY <1>1 DEF GroupsOut
  <1> QED  BY <1>1, <1>2 DEF JoinInv, NoMixedGroup

\* Blocks of different groups are never joined in a published group.
THEOREM GroupsNeverMixed == LinkSpec => []NoMixedGroup
  <1>1. LinkInv /\ JoinInv /\ NoMixedGroup /\ [LinkNext]_vars
          => (JoinInv /\ NoMixedGroup)'
    <2>1. LinkInv /\ JoinInv /\ LinkNext => (JoinInv /\ NoMixedGroup)'
      BY LinkJoinStep
    <2>2. JoinInv /\ NoMixedGroup /\ UNCHANGED vars => (JoinInv /\ NoMixedGroup)'
      BY DEF JoinInv, NoMixedGroup, GroupsOut, Joined, StoredBlocks, Aligned, vars,
             linkVars, decoderVars, assembly
    <2> QED  BY <2>1, <2>2
  <1> QED  BY <1>1, JoinStart, LinkInvHolds, PTL DEF LinkSpec

-----------------------------------------------------------------------------
(* A group is published a second time only on a bad block A after it.        *)

\* Since the last publication the whole block that is being received has gone
\* by, and the blocks of the group in assembly; in the block after a complete
\* group not a bit more.
RepeatInv ==
    d_state = "SYNC" =>
        /\ since_group > block_bit_counter
        /\ group_assembly_started =>
               IF block_number = 0
               THEN since_group = block_bit_counter + 1
               ELSE since_group > block_number * BlockBits + block_bit_counter

\* A group is published with a good block D, after GroupBits bits without one,
\* or once more with the bad block A after it.
LEMMA PublicationCases ==
    ASSUME DecoderInv, SinceGroupOK, RepeatInv, Publishes,
           NEW shown, NEW char, NEW word, Operation(shown, char, word)
    PROVE  /\ BlockDue /\ d_state = "SYNC"
           /\ \/ /\ StoreBlock(char, word)
                 /\ block_number = 3 /\ since_group >= GroupBits
              \/ /\ RejectBlock
                 /\ block_number = 0 /\ since_group = BlockBits
  <1>1. PICK i \in DOMAIN out' : out'[i].meta = 0
    BY DEF Publishes, GroupsOut
  <1>2. ~SearchBit(shown) /\ ~AwaitBlock /\ ~PassOverBlock
    <2>1. ASSUME SearchBit(shown) \/ AwaitBlock PROVE FALSE
      <3>1. out' = <<>> \/ out' = <<[meta |-> 1, sync |-> TRUE]>>
        BY <2>1 DEF SearchBit, SeeNoOffset, RecordCandidate, DropCandidates,
                    EnterSync, SyncMsg, AwaitBlock
      <3>2. CASE out' = <<>>
        BY <1>1, <3>2
      <3>3. CASE out' = <<[meta |-> 1, sync |-> TRUE]>>
        BY <1>1, <3>3
      <3> QED  BY <3>1, <3>2, <3>3
    <2>2. ASSUME PassOverBlock PROVE FALSE
      BY <1>1, <2>2, CloseBlockPublishes DEF PassOverBlock
    <2> QED  BY <2>1, <2>2
  <1>3. CASE StoreBlock(char, word)
    <2>1. BlockDue /\ d_state = "SYNC" /\ InGroup /\ CountGoodBlock = 5
      <3>1. Completed # <<>>
        BY <1>1, <1>3, CloseBlockPublishes DEF StoreBlock
      <3> QED  BY <1>3, <3>1 DEF StoreBlock, BlockDue, Completed
    <2>2. block_number = 3 /\ group_assembly_started
      BY <2>1 DEF CountGoodBlock, InGroup, DecoderInv, TypeOK,
                  AssemblyConsistent, Blocks
    <2>3. block_bit_counter = BlockBits - 1
      BY <2>1, BlockBitsAssumption
      DEF BlockDue, BlockComplete, DecoderInv, TypeOK
    <2> QED
      BY <1>3, <2>1, <2>2, <2>3, BlockBitsAssumption
      DEF RepeatInv, SinceGroupOK, GroupBits
  <1>4. CASE RejectBlock
    <2>1. BlockDue /\ d_state = "SYNC" /\ group_assembly_started
          /\ group_good_blocks_counter = 5
      <3> DEFINE again == IF group_assembly_started THEN Completed ELSE <<>>
      <3>1. CloseBlock(1, again)
        BY <1>4 DEF RejectBlock
      <3>2. again = <<>> \/ again = <<GroupMsg(group', offset_chars')>>
        BY DEF Completed
      <3>3. group_assembly_started /\ Completed # <<>>
        <4>1. again # <<>>
          <5> HIDE DEF again
          <5> QED  BY <1>1, <3>1, <3>2, CloseBlockPublishes
        <4> QED  BY <4>1
      <3> QED  BY <1>4, <3>3 DEF RejectBlock, BlockDue, Completed
    <2>2. block_number = 0
      BY <2>1 DEF DecoderInv, TypeOK, AssemblyConsistent, Blocks
    <2>3. block_bit_counter = BlockBits - 1
      BY <2>1, BlockBitsAssumption
      DEF BlockDue, BlockComplete, DecoderInv, TypeOK
    <2> QED  BY <1>4, <2>1, <2>2, <2>3, BlockBitsAssumption DEF RepeatInv
  <1> QED  BY <1>2, <1>3, <1>4 DEF Operation

LEMMA RepeatStep ==
    ASSUME DecoderInv, SinceGroupOK, RepeatInv,
           NEW shown, NEW char, NEW word, Operation(shown, char, word),
           NEW arrived, Observe(arrived)
    PROVE  RepeatInv'
  <1>1. /\ since_group \in 1 .. GroupBits /\ BlockBits \in Nat \ {0}
        /\ block_bit_counter \in 0 .. (BlockBits - 1) /\ block_number \in 0 .. 3
        /\ group_good_blocks_counter \in 0 .. 5
    BY BlockBitsAssumption DEF SinceGroupOK, DecoderInv, TypeOK, Blocks
  <1>2. since_group' = IF Publishes THEN 1
                       ELSE IF since_group < GroupBits THEN since_group + 1
                       ELSE since_group
    BY DEF Observe
  <1>3. CASE SearchBit(shown)
    <2>1. \/ d_state' = "NO_SYNC"
          \/ ~group_assembly_started' /\ block_bit_counter' = 0
      BY <1>3 DEF SearchBit, SeeNoOffset, RecordCandidate, DropCandidates,
                  EnterSync
    <2>2. since_group' > 0
      BY <1>1, <1>2, GroupBitsType
    <2> QED  BY <2>1, <2>2 DEF RepeatInv
  <1>4. CASE AwaitBlock
    <2>1. /\ d_state = "SYNC" /\ block_bit_counter < BlockBits - 1
          /\ block_bit_counter' = block_bit_counter + 1
          /\ UNCHANGED <<group_assembly_started, block_number>>
      BY <1>1, <1>4 DEF AwaitBlock, BlockComplete, assembly
    <2>2. ~Publishes
      BY <1>4, PublicationCases DEF Operation, BlockDue, AwaitBlock
    <2>3. since_group' = IF since_group < GroupBits THEN since_group + 1
                         ELSE since_group
      BY <1>2, <2>2
    <2>4. since_group' > block_bit_counter'
      BY <1>1, <2>1, <2>3 DEF RepeatInv, GroupBits
    <2>5. ASSUME group_assembly_started, block_number = 0
          PROVE  since_group' = block_bit_counter' + 1
      BY <1>1, <2>1, <2>3, <2>5 DEF RepeatInv, GroupBits
    <2>6. ASSUME group_assembly_started, block_number # 0
          PROVE  since_group' > block_number * BlockBits + block_bit_counter'
      <3>1. since_group > block_number * BlockBits + block_bit_counter
        BY <2>1, <2>6 DEF RepeatInv
      <3>2. CASE block_number = 1
        BY <1>1, <2>1, <2>3, <3>1, <3>2 DEF GroupBits
      <3>3. CASE block_number = 2
        BY <1>1, <2>1, <2>3, <3>1, <3>3 DEF GroupBits
      <3>4. CASE block_number = 3
        BY <1>1, <2>1, <2>3, <3>1, <3>4 DEF GroupBits
      <3> QED  BY <1>1, <2>6, <3>2, <3>3, <3>4
    <2> QED  BY <2>1, <2>4, <2>5, <2>6 DEF RepeatInv
  <1>5. CASE StoreBlock(char, word)
    <2>1. /\ d_state = "SYNC" /\ block_bit_counter = BlockBits - 1
          /\ block_bit_counter' = 0 /\ block_number' = (block_number + 1) % 4
          /\ InGroup
      BY <1>1, <1>5 DEF StoreBlock, CloseBlock, BlockDue, BlockComplete
    <2>2. since_group' > 0
      BY <1>1, <1>2, GroupBitsType
    <2>3. CASE block_number = 3
      <3>1. group_assembly_started
        BY <2>1, <2>3 DEF InGroup
      <3>2. CountGoodBlock = 5
        BY <1>1, <2>1, <2>3, <3>1
        DEF CountGoodBlock, DecoderInv, AssemblyConsistent
      <3>3. Publishes
        <4>1. Completed = <<GroupMsg(group', offset_chars')>>
          BY <1>5, <3>2 DEF StoreBlock, Completed
        <4>2. CloseBlock(0, <<GroupMsg(group', offset_chars')>>)
          BY <1>5, <4>1 DEF StoreBlock
        <4> QED  BY <4>2, GroupIsPublished DEF Publishes, GroupsOut
      <3>4. since_group' = 1
        BY <1>2, <3>3
      <3> QED  BY <2>1, <2>3, <3>4 DEF RepeatInv
    <2>4. CASE block_number # 3
      <3>1. ~Publishes
        <4>1. ASSUME Publishes PROVE FALSE
          <5>1. \/ block_number = 3
                \/ RejectBlock
            BY <1>5, <4>1, PublicationCases DEF Operation
          <5>2. ~RejectBlock
            BY <1>5 DEF RejectBlock, StoreBlock
          <5> QED  BY <2>4, <5>1, <5>2
        <4> QED  BY <4>1
      <3>2. since_group' = IF since_group < GroupBits THEN since_group + 1
                           ELSE since_group
        BY <1>2, <3>1
      <3>3. block_number' = block_number + 1 /\ block_number' # 0
        BY <1>1, <2>1, <2>4
      <3>4. CASE block_number = 0
        BY <1>1, <2>1, <3>2, <3>3, <3>4 DEF RepeatInv, GroupBits
      <3>5. CASE block_number # 0
        <4>1. since_group > block_number * BlockBits + block_bit_counter
          BY <2>1, <3>5 DEF RepeatInv, InGroup
        <4>2. since_group' > block_number' * BlockBits
          <5>1. CASE block_number = 1
            <6>1. block_number' = 2 /\ since_group >= 2 * BlockBits
              BY <1>1, <2>1, <3>3, <4>1, <5>1
            <6> QED  BY <1>1, <3>2, <6>1 DEF GroupBits
          <5>2. CASE block_number = 2
            <6>1. block_number' = 3 /\ since_group >= 3 * BlockBits
              BY <1>1, <2>1, <3>3, <4>1, <5>2
            <6> QED  BY <1>1, <3>2, <6>1 DEF GroupBits
          <5> QED  BY <1>1, <2>4, <3>5, <5>1, <5>2
        <4> QED  BY <1>1, <2>1, <2>2, <3>3, <4>2 DEF RepeatInv
      <3> QED  BY <3>4, <3>5
    <2> QED  BY <2>3, <2>4
  <1>6. CASE PassOverBlock \/ RejectBlock
    <2>1. ~group_assembly_started' /\ block_bit_counter' = 0
      <3>1. CASE PassOverBlock
        <4>1. ~group_assembly_started /\ CloseBlock(0, <<>>)
              /\ UNCHANGED group_assembly_started
          BY <3>1 DEF PassOverBlock, InGroup, assembly
        <4> QED  BY <4>1 DEF CloseBlock
      <3>2. CASE RejectBlock
        BY <3>2 DEF RejectBlock, CloseBlock
      <3> QED  BY <1>6, <3>1, <3>2
    <2>2. since_group' > 0
      BY <1>1, <1>2, GroupBitsType
    <2> QED  BY <2>1, <2>2 DEF RepeatInv
  <1> QED  BY <1>3, <1>4, <1>5, <1>6 DEF Operation

\* What a repeated publication is.
Repeated == Publishes /\ since_group < GroupBits =>
                /\ since_group = BlockBits
                /\ group' = group /\ offset_chars' = offset_chars
                /\ block_number = 0 /\ ~group_assembly_started'

LEMMA RepeatedHolds ==
    ASSUME DecoderInv, SinceGroupOK, RepeatInv,
           NEW shown, NEW char, NEW word, Operation(shown, char, word)
    PROVE  Repeated
  <1> SUFFICES ASSUME Publishes, since_group < GroupBits
               PROVE  /\ since_group = BlockBits
                      /\ group' = group /\ offset_chars' = offset_chars
                      /\ block_number = 0 /\ ~group_assembly_started'
    BY DEF Repeated
  <1>1. RejectBlock /\ block_number = 0 /\ since_group = BlockBits
    BY PublicationCases, GroupBitsType DEF SinceGroupOK
  <1> QED  BY <1>1 DEF RejectBlock

LEMMA RepeatInvHolds == LinkSpec => []RepeatInv
  <1>1. LinkInit => RepeatInv
    BY DEF LinkInit, DecoderInit, RepeatInv
  <1>2. LinkInv /\ SinceGroupOK /\ RepeatInv /\ [LinkNext]_vars => RepeatInv'
    <2>1. LinkInv /\ SinceGroupOK /\ RepeatInv /\ LinkNext => RepeatInv'
      <3> SUFFICES ASSUME LinkInv, SinceGroupOK, RepeatInv, LinkNext
                   PROVE  RepeatInv'
        OBVIOUS
      <3>1. PICK shown, word, arrived : Bit(shown, word) /\ Observe(arrived)
        BY LinkStepCases
      <3> QED  BY <3>1, BitIsOperation, RepeatStep DEF LinkInv
    <2>2. RepeatInv /\ UNCHANGED vars => RepeatInv'
      BY DEF RepeatInv, vars, linkVars, decoderVars, assembly
    <2> QED  BY <2>1, <2>2
  <1> QED  BY <1>1, <1>2, LinkInvHolds, SinceGroupInvariant, PTL DEF LinkSpec

\* Within the bits of one group a second publication happens only on the bad
\* block A after the first one, and shows the same four words again.
THEOREM RepeatsIdentical == LinkSpec => RepeatIsIdentical
  <1>1. LinkInv /\ SinceGroupOK /\ RepeatInv /\ [LinkNext]_vars => [Repeated]_vars
    <2> SUFFICES ASSUME LinkInv, SinceGroupOK, RepeatInv, LinkNext
                 PROVE  Repeated
      OBVIOUS
    <2>1. PICK shown, word : Bit(shown, word)
      BY LinkStepCases
    <2> QED  BY <2>1, BitIsOperation, RepeatedHolds DEF LinkInv
  <1> QED
    BY <1>1, LinkInvHolds, SinceGroupInvariant, RepeatInvHolds, PTL
    DEF LinkSpec, RepeatIsIdentical, Repeated

-----------------------------------------------------------------------------
(***************************************************************************)
(* The decoder with burst correction keeps the same promise to its          *)
(* consumers as the other one, for every block length, window and alphabet, *)
(* although work() starts every call with an arbitrary variant bit.  It is  *)
(* built from the operations of RdsDecoder, and so is its proof.            *)
(* Behind the channel it publishes only what comes from four blocks in a    *)
(* row, repeats no group but the last, and repairs every group that the     *)
(* variant bit it finds lets it repair.                                     *)
(***************************************************************************)

\* What is known of the variant bit: it picks the offset word C or C'.
RedseaInv == DecoderInv /\ variant \in {0, 1}

\* The character of a corrected block is that of its place in the group.
LEMMA ExpectedFits ==
    ASSUME block_number \in Blocks
    PROVE  /\ offset_name[Expected] \in ExpectedChar[block_number]
  BY DEF Expected, offset_name, ExpectedChar, Blocks, Offsets, CTag

\* Every bit keeps the invariant and is a step of the service.
LEMMA RedseaBitServes ==
    ASSUME RedseaInv, NEW shown, NEW word \in Words \cup {Bad},
           RedseaBit(shown, word)
    PROVE  RedseaInv' /\ Service!Next
  <1>1. DecoderInv /\ block_number \in Blocks
    BY DEF RedseaInv, DecoderInv, TypeOK
  <1>2. CASE SearchBit(shown) /\ UNCHANGED variant
    BY <1>1, <1>2, SearchBitInv, SearchBitServes DEF RedseaInv
  <1>3. CASE AwaitBlock /\ UNCHANGED variant
    BY <1>1, <1>3, AwaitBlockInv, SearchBitServes DEF RedseaInv
  <1>4. CASE word # Bad /\ StoreBlock(offset_name[Expected], word)
             /\ ReadVariant(word)
    <2>1. DecoderInv'
      BY <1>1, <1>4, ExpectedFits, StoreBlockInv
    <2>2. variant' \in {0, 1}
      BY <1>4 DEF ReadVariant, RedseaInv
    <2> QED  BY <1>1, <1>4, <2>1, <2>2, BlockServes DEF RedseaInv
  <1>5. CASE PassOverBlock /\ ReadVariant(word)
    <2>1. DecoderInv'
      BY <1>1, <1>5, PassOverBlockInv
    <2>2. variant' \in {0, 1}
      BY <1>5 DEF ReadVariant, RedseaInv
    <2> QED  BY <1>1, <1>5, <2>1, <2>2, BlockServes DEF RedseaInv
  <1>6. CASE RejectBlock /\ UNCHANGED variant
    <2>1. DecoderInv'
      BY <1>1, <1>6, RejectBlockInv
    <2> QED  BY <1>1, <1>6, <2>1, BlockServes DEF RedseaInv
  <1> QED  BY <1>2, <1>3, <1>4, <1>5, <1>6 DEF RedseaBit

LEMMA RedseaStep ==
    ASSUME RedseaInv, [RedseaNext]_redseaVars
    PROVE  RedseaInv' /\ [Service!Next]_(Service!serviceVars)
  <1>1. CASE WorkCalled \/ UNCHANGED redseaVars
    <2>1. UNCHANGED decoderVars /\ variant' \in {0, 1}
      BY <1>1 DEF WorkCalled, redseaVars, RedseaInv
    <2>2. DecoderInv'
      BY <2>1, StutterInv DEF RedseaInv
    <2>3. UNCHANGED Service!serviceVars
      BY <2>1 DEF decoderVars, Service!serviceVars
    <2> QED  BY <2>1, <2>2, <2>3 DEF RedseaInv
  <1>2. CASE \E shown \in Offsets \cup {NoOffset}, word \in Words \cup {Bad} :
                 RedseaBit(shown, word)
    BY <1>2, RedseaBitServes
  <1> QED  BY <1>1, <1>2 DEF RedseaNext

\* Whatever bits it corrects, and whatever the variant bit happens to be, the
\* decoder publishes whole groups under a lock and reports every gain and loss.
THEOREM RedseaServes == RedseaSpec => ServesAsPromised
  <1>1. RedseaInit => RedseaInv /\ Service!Init
    BY InitInv
    DEF RedseaInit, RedseaInv, DecoderInit, Service!Init, SyncMsg,
        Service!SyncMsg
  <1>2. RedseaInv /\ [RedseaNext]_redseaVars
          => RedseaInv' /\ [Service!Next]_(Service!serviceVars)
    BY RedseaStep
  <1> QED
    BY <1>1, <1>2, PTL DEF RedseaSpec, ServesAsPromised, Service!Spec

-----------------------------------------------------------------------------
(* Behind the channel.                                                      *)

\* What the decoder can read at a bit: of a block that arrives (as sent, or with
\* a short burst) the word that was sent, altered at most; of everything else
\* what was not sent.
Reading(arrived, word) ==
    IF arrived THEN BlockSent /\ word \in ReadOfBurst ELSE word \in Noise \cup {Bad}

LEMMA ReadingIsInput ==
    ASSUME StationOK, NEW arrived \in BOOLEAN, NEW word, Reading(arrived, word)
    PROVE  word \in Words \cup {Bad}
  <1>1. SentWord \in Words /\ Garbage \subseteq Words
    BY SentIsInput, LinkAssumption DEF StationOK
  <1>2. Altered(SentWord) \subseteq AlteredWords
    BY DEF Altered, AlteredWords, SentWord, StationOK
  <1> QED  BY <1>1, <1>2, AlteredAssumption DEF Reading, ReadOfBurst, Noise

LEMMA RedseaLinkStepCases ==
    ASSUME StationOK, RedseaLinkNext
    PROVE  \/ WorkCallStarts
           \/ /\ Advance /\ ObserveCalls
              /\ \E shown \in Offsets \cup {NoOffset},
                    word \in Words \cup {Bad}, arrived \in BOOLEAN :
                     /\ RedseaBit(shown, word)
                     /\ Observe(arrived)
                     /\ Reading(arrived, word)
  <1>1. SentOffset \in Offsets \cup {NoOffset}
    BY SentIsInput DEF StationOK
  <1>2. CASE RedseaFaithfulBit /\ BlockSent
    <2>1. PICK word \in ReadOfSent : RedseaBit(SentOffset, word)
      BY <1>2 DEF RedseaFaithfulBit
    <2>2. Observe(TRUE) /\ Advance /\ ObserveCalls
      BY <1>2 DEF RedseaFaithfulBit, Observe
    <2>3. Reading(TRUE, word)
      BY <1>2, <2>1 DEF ReadOfSent, ReadOfBurst, Reading
    <2>4. word \in Words \cup {Bad}
      BY <2>3, ReadingIsInput
    <2> QED  BY <1>1, <2>1, <2>2, <2>3, <2>4
  <1>3. CASE RedseaFaithfulBit /\ ~BlockSent
    <2>1. RedseaBit(NoOffset, Bad) /\ Observe(FALSE) /\ Advance /\ ObserveCalls
      BY <1>3 DEF RedseaFaithfulBit, Observe
    <2>2. Reading(FALSE, Bad)
      BY DEF Reading
    <2> QED  BY <2>1, <2>2
  <1>4. CASE BurstBit
    <2>1. PICK shown \in Mistaken[SentOffset] \cup {NoOffset}, word \in ReadOfBurst :
               RedseaBit(shown, word)
      BY <1>4 DEF BurstBit
    <2>2. shown \in Offsets \cup {NoOffset}
      BY <2>1 DEF Mistaken, Offsets, CTag, SentOffset, StationOK, Blocks
    <2>3. Reading(TRUE, word)
      BY <1>4, <2>1 DEF Reading, BurstBit
    <2>4. Observe(TRUE) /\ Advance /\ ObserveCalls
      BY <1>4 DEF BurstBit
    <2>5. word \in Words \cup {Bad}
      BY <2>3, ReadingIsInput
    <2> QED  BY <2>1, <2>2, <2>3, <2>4, <2>5
  <1>5. CASE RedseaDisturbedBit
    <2>1. PICK shown \in Offsets \cup {NoOffset}, word \in Noise \cup {Bad} :
               RedseaBit(shown, word)
      BY <1>5 DEF RedseaDisturbedBit
    <2>2. Observe(FALSE) /\ Advance /\ ObserveCalls
      BY <1>5 DEF RedseaDisturbedBit
    <2>3. Reading(FALSE, word)
      BY <2>1 DEF Reading
    <2>4. word \in Words \cup {Bad}
      BY <2>3, ReadingIsInput
    <2> QED  BY <2>1, <2>2, <2>3, <2>4
  <1> QED  BY <1>2, <1>3, <1>4, <1>5 DEF RedseaLinkNext

LEMMA RedseaBitIsOperation ==
    ASSUME NEW shown, NEW word, RedseaBit(shown, word)
    PROVE  Operation(shown, offset_name[Expected], word)
  BY DEF RedseaBit, Operation

\* A call of work() leaves the station, the history and the decoder alone.
LEMMA WorkCallLeaves ==
    ASSUME WorkCallStarts
    PROVE  /\ UNCHANGED vars /\ variant' \in {0, 1}
           /\ called' = (called \/ tx_block = 2)
  BY DEF WorkCallStarts, WorkCalled, vars

LEMMA RedseaLinkIsRedsea ==
    ASSUME StationOK, [RedseaLinkNext]_redseaLinkVars
    PROVE  [RedseaNext]_redseaVars
  <1>1. CASE RedseaLinkNext
    BY <1>1, RedseaLinkStepCases DEF RedseaNext, WorkCallStarts
  <1>2. CASE UNCHANGED redseaLinkVars
    BY <1>2 DEF redseaLinkVars, vars, redseaVars
  <1> QED  BY <1>1, <1>2

RedseaStationInv == StationOK /\ SinceGroupOK

LEMMA RedseaStationInvariant == RedseaLinkSpec => []RedseaStationInv
  <1>1. RedseaLinkInit => RedseaStationInv
    BY StationStart, GroupBitsType
    DEF RedseaLinkInit, LinkInit, SinceGroupOK, RedseaStationInv
  <1>2. RedseaStationInv /\ [RedseaLinkNext]_redseaLinkVars => RedseaStationInv'
    <2> SUFFICES ASSUME RedseaStationInv, [RedseaLinkNext]_redseaLinkVars
                 PROVE  RedseaStationInv'
      OBVIOUS
    <2>1. CASE UNCHANGED vars
      BY <2>1 DEF RedseaStationInv, StationOK, SinceGroupOK, GroupBits, vars,
                  linkVars
    <2>2. CASE Advance /\ \E arrived \in BOOLEAN : Observe(arrived)
      BY <2>2, StationStep, SinceGroupStep DEF RedseaStationInv
    <2>3. \/ UNCHANGED vars
          \/ Advance /\ \E arrived \in BOOLEAN : Observe(arrived)
      BY RedseaLinkStepCases, WorkCallLeaves
      DEF RedseaStationInv, redseaLinkVars
    <2> QED  BY <2>1, <2>2, <2>3
  <1> QED  BY <1>1, <1>2, PTL DEF RedseaLinkSpec

\* Behind the channel the decoder behaves like the one on free input.
THEOREM RedseaLinkImplements == RedseaLinkSpec => RedseaSpec
  <1>1. RedseaLinkInit => RedseaInit
    BY DEF RedseaLinkInit, LinkInit, RedseaInit
  <1>2. RedseaStationInv /\ [RedseaLinkNext]_redseaLinkVars
            => [RedseaNext]_redseaVars
    BY RedseaLinkIsRedsea DEF RedseaStationInv
  <1> QED
    BY <1>1, <1>2, RedseaStationInvariant, PTL DEF RedseaLinkSpec, RedseaSpec

\* It serves its consumers behind the channel as it does on free input.
THEOREM RedseaLinkServes == RedseaLinkSpec => ServesAsPromised
  BY RedseaLinkImplements, RedseaServes, PTL

LEMMA RedseaInvariant == RedseaSpec => []RedseaInv
  <1>1. RedseaInit => RedseaInv
    BY InitInv DEF RedseaInit, RedseaInv
  <1>2. RedseaInv /\ [RedseaNext]_redseaVars => RedseaInv'
    BY RedseaStep
  <1> QED  BY <1>1, <1>2, PTL DEF RedseaSpec

RedseaLinkInv == RedseaInv /\ StationOK /\ SinceGroupOK

LEMMA RedseaLinkInvariant == RedseaLinkSpec => []RedseaLinkInv
  BY RedseaLinkImplements, RedseaInvariant, RedseaStationInvariant, PTL
  DEF RedseaLinkInv, RedseaStationInv

-----------------------------------------------------------------------------
(* What is published comes from four blocks in a row.                       *)

\* The station's block at which the group in assembly began, or the one that is just
\* complete (block_number = 0), if the decoder's blocks end with the station's.
AssemblyStart ==
    IF block_number = 0 THEN <<Before(tx_group), tx_block>>
    ELSE BlockA(SentWord, block_number)

\* Words of the station are in the assembly only if the decoder's blocks end with the
\* station's, and all of them have the same beginning.
OrderInv ==
    d_state = "SYNC" /\ group_assembly_started =>
        \A b \in StoredBlocks : OfStation(group[b]) =>
            block_bit_counter = tx_bit /\ BlockA(group[b], b) = AssemblyStart

\* From block to block station and decoder move on together.
LEMMA BothMoveOn ==
    ASSUME StationOK, DecoderInv, Advance, BlockSent,
           block_number' = (block_number + 1) % 4
    PROVE  AssemblyStart' = BlockA(SentWord, block_number)
  <1>1. /\ tx_group \in 0 .. (GroupIds - 1) /\ GroupIds \in Nat \ {0}
        /\ tx_block \in 0 .. 3 /\ block_number \in 0 .. 3
        /\ tx_block' = IF tx_block = 3 THEN 0 ELSE tx_block + 1
        /\ block_number' = IF block_number = 3 THEN 0 ELSE block_number + 1
    BY LinkAssumption DEF StationOK, DecoderInv, TypeOK, Blocks, Advance
  <1>2. tx_group' = IF tx_block = 3
                    THEN IF tx_group = GroupIds - 1 THEN 0 ELSE tx_group + 1
                    ELSE tx_group
    BY <1>1 DEF Advance
  <1>3. tx_block = 3 => Before(tx_group') = tx_group
    BY <1>1, <1>2 DEF Before
  <1>4. tx_block # 3 => tx_group' = tx_group
    BY <1>2
  <1>5. SentWord[1] = tx_group /\ SentWord[2] = tx_block
        /\ SentWord'[1] = tx_group' /\ SentWord'[2] = tx_block'
    BY DEF SentWord
  <1>6. AssemblyStart' =
            IF block_number' = 0 THEN <<Before(tx_group'), tx_block'>>
            ELSE IF tx_block' >= block_number'
                 THEN <<tx_group', tx_block' - block_number'>>
                 ELSE <<Before(tx_group'), tx_block' + 4 - block_number'>>
    BY <1>5 DEF AssemblyStart, BlockA, Before
  <1>7. BlockA(SentWord, block_number) =
            IF tx_block >= block_number THEN <<tx_group, tx_block - block_number>>
            ELSE <<Before(tx_group), tx_block + 4 - block_number>>
    BY <1>5 DEF BlockA
  <1>8. CASE tx_block = 3
    <2>1. tx_block >= block_number /\ tx_block' = 0 /\ Before(tx_group') = tx_group
      BY <1>1, <1>3, <1>8
    <2>2. block_number' # 0 =>
              /\ ~(tx_block' >= block_number')
              /\ tx_block' + 4 - block_number' = tx_block - block_number
      BY <1>1, <1>8
    <2>3. block_number' = 0 => tx_block' = tx_block - block_number
      BY <1>1, <1>8
    <2> QED  BY <1>6, <1>7, <2>1, <2>2, <2>3
  <1>9. CASE tx_block # 3
    <2>1. tx_group' = tx_group /\ tx_block' = tx_block + 1
      BY <1>1, <1>4, <1>9
    <2>2. block_number' = 0 =>
              /\ ~(tx_block >= block_number)
              /\ tx_block' = tx_block + 4 - block_number
      BY <1>1, <1>9
    <2>3. block_number' # 0 =>
              /\ tx_block' >= block_number' <=> tx_block >= block_number
              /\ tx_block' - block_number' = tx_block - block_number
              /\ tx_block' + 4 - block_number' = tx_block + 4 - block_number
      BY <1>1, <1>9
    <2> QED  BY <1>6, <1>7, <2>1, <2>2, <2>3
  <1> QED  BY <1>8, <1>9

\* The word of a block of the station fits where it is stored.
LEMMA StoredInOrder ==
    ASSUME StationOK, RedseaInv, Advance, NEW shown, NEW word,
           NEW arrived \in BOOLEAN, Reading(arrived, word), OrderInv,
           NEW char, StoreBlock(char, word)
    PROVE  \A b \in 0 .. block_number : OfStation(group'[b]) =>
               block_bit_counter = tx_bit /\ BlockA(group'[b], b) = AssemblyStart'
  <1>1. /\ group' = [group EXCEPT ![block_number] = word]
        /\ group \in [Blocks -> Words \cup {Unset}] /\ block_number \in Blocks
        /\ BlockDue /\ d_state = "SYNC" /\ InGroup /\ DecoderInv
        /\ block_bit_counter = BlockBits - 1
        /\ block_number' = (block_number + 1) % 4
    BY BlockBitsAssumption
    DEF StoreBlock, CloseBlock, RedseaInv, DecoderInv, TypeOK, BlockDue, BlockComplete
  <1>2. \A b \in 0 .. block_number :
            group'[b] = IF b = block_number THEN word ELSE group[b]
    BY <1>1 DEF Blocks
  <1>3. ASSUME NEW b \in 0 .. block_number, b # block_number, OfStation(group'[b])
        PROVE  block_bit_counter = tx_bit /\ BlockA(group'[b], b) = AssemblyStart'
    <2>1. block_number # 0 /\ b \in 0 .. (block_number - 1)
      BY <1>1, <1>3 DEF Blocks
    <2>2. group'[b] = group[b]
      BY <1>2, <1>3
    <2>3. block_bit_counter = tx_bit /\ BlockA(group[b], b) = AssemblyStart
      BY <1>1, <1>3, <2>1, <2>2 DEF OrderInv, StoredBlocks, InGroup
    <2>4. BlockSent
      BY <1>1, <2>3 DEF BlockSent
    <2>5. AssemblyStart' = AssemblyStart
      BY <1>1, <2>1, <2>4, BothMoveOn DEF AssemblyStart
    <2> QED  BY <2>2, <2>3, <2>5
  <1>4. ASSUME OfStation(word)
        PROVE  /\ block_bit_counter = tx_bit /\ BlockSent
               /\ word[1] = tx_group /\ word[2] = tx_block
    <2>1. word # Bad
      BY <1>4, AlteredAssumption, LinkAssumption, RedseaAssumption DEF OfStation
    <2>2. arrived
      BY <1>4, <2>1, LinkAssumption DEF OfStation, Reading, Noise
    <2>3. BlockSent /\ word \in {SentWord} \cup Altered(SentWord)
      BY <2>1, <2>2 DEF Reading, ReadOfBurst
    <2>4. word[1] = tx_group /\ word[2] = tx_block
      BY <2>3 DEF SentWord, Altered
    <2> QED  BY <1>1, <2>3, <2>4 DEF BlockSent
  <1>5. ASSUME OfStation(word)
        PROVE  BlockA(word, block_number) = AssemblyStart'
    <2>1. AssemblyStart' = BlockA(SentWord, block_number)
      BY <1>1, <1>4, <1>5, BothMoveOn
    <2>2. word[1] = SentWord[1] /\ word[2] = SentWord[2]
      BY <1>4, <1>5 DEF SentWord
    <2> QED  BY <2>1, <2>2 DEF BlockA
  <1> QED  BY <1>2, <1>3, <1>4, <1>5

\* Words that begin together are in order.
LEMMA PublishedInOrder ==
    ASSUME \A i \in DOMAIN out' : out'[i].meta = 0 => out'[i].group = group',
           \A b, c \in Blocks : OfStation(group'[b]) /\ OfStation(group'[c]) =>
               BlockA(group'[b], b) = BlockA(group'[c], c),
           InStep' => \A b \in Blocks :
                          OfStation(group'[b]) => BlockA(group'[b], b)[2] = 0
    PROVE  JoinedInOrder'
  <1>1. ASSUME InStep', NEW b \in Blocks, OfStation(group'[b])
        PROVE  group'[b][2] = b
    <2>1. group'[b][2] \in 0 .. 3
      BY <1>1 DEF OfStation, SentWords, AlteredWords, Blocks
    <2>2. BlockA(group'[b], b)[2] = 0
      BY <1>1
    <2> QED  BY <2>1, <2>2 DEF Blocks, BlockA
  <1> QED  BY <1>1 DEF JoinedInOrder, GroupsOut

LEMMA OrderStep ==
    ASSUME StationOK, RedseaInv, OrderInv, Advance, (StationOK /\ RedseaInv)',
           NEW shown, NEW word, NEW arrived \in BOOLEAN,
           RedseaBit(shown, word), Reading(arrived, word)
    PROVE  OrderInv' /\ JoinedInOrder'
  <1> DEFINE Quiet == \A i \in DOMAIN out' : out'[i].meta # 0
             char == offset_name[Expected]
  <1>1. Operation(shown, char, word)
    BY RedseaBitIsOperation
  <1>2. Quiet => JoinedInOrder'
    BY DEF JoinedInOrder, GroupsOut
  <1>3. DecoderInv /\ DecoderInv'
    BY DEF RedseaInv
  <1> HIDE DEF Quiet, char
  <1>4. CASE SearchBit(shown)
    <2>1. Quiet
      <3>1. out' = <<>> \/ out' = <<[meta |-> 1, sync |-> TRUE]>>
        BY <1>4 DEF SearchBit, SeeNoOffset, RecordCandidate, DropCandidates,
                    EnterSync, SyncMsg
      <3> QED  BY <3>1 DEF Quiet
    <2>2. d_state' = "NO_SYNC" \/ ~group_assembly_started'
      BY <1>4 DEF SearchBit, SeeNoOffset, RecordCandidate, DropCandidates,
                  EnterSync
    <2> QED  BY <1>2, <2>1, <2>2 DEF OrderInv
  <1>5. CASE AwaitBlock
    <2>1. Quiet
      BY <1>5 DEF AwaitBlock, Quiet
    <2>2. /\ UNCHANGED <<d_state, block_number, group, group_assembly_started>>
          /\ block_bit_counter' = block_bit_counter + 1
      BY <1>5 DEF AwaitBlock, assembly
    <2>3. block_bit_counter = tx_bit =>
              /\ block_bit_counter' = tx_bit'
              /\ UNCHANGED <<tx_block, tx_group>>
      BY <1>5, <2>2, BlockBitsAssumption
      DEF AwaitBlock, BlockComplete, Advance, BlockSent, StationOK
    <2> QED
      BY <1>2, <2>1, <2>2, <2>3 DEF OrderInv, StoredBlocks, AssemblyStart, SentWord
  <1>6. CASE StoreBlock(char, word)
    <2>1. /\ CloseBlock(0, Completed) /\ block_number \in Blocks
          /\ block_number' = (block_number + 1) % 4 /\ BlockDue
          /\ block_bit_counter' = 0 /\ block_bit_counter = BlockBits - 1
          /\ group_good_blocks_counter' = CountGoodBlock
          /\ Completed \in {<<>>, <<GroupMsg(group', offset_chars')>>}
      BY <1>3, <1>6, BlockBitsAssumption
      DEF StoreBlock, CloseBlock, DecoderInv, TypeOK, Completed, BlockDue, BlockComplete
    <2>2. \A b \in 0 .. block_number : OfStation(group'[b]) =>
              block_bit_counter = tx_bit /\ BlockA(group'[b], b) = AssemblyStart'
      BY <1>6, StoredInOrder
    <2>3. StoredBlocks' = 0 .. block_number
      <3>1. CASE block_number = 3
        BY <2>1, <3>1 DEF StoredBlocks, Blocks
      <3>2. CASE block_number # 3
        <4>1. block_number' = block_number + 1 /\ block_number' # 0
              /\ block_number' - 1 = block_number
          BY <2>1, <3>2 DEF Blocks
        <4> QED  BY <4>1 DEF StoredBlocks
      <3> QED  BY <3>1, <3>2
    <2>4. block_bit_counter = tx_bit => block_bit_counter' = tx_bit'
      BY <2>1 DEF Advance, BlockSent
    <2>5. OrderInv'
      BY <2>2, <2>3, <2>4 DEF OrderInv
    <2>6. JoinedInOrder'
      <3>1. \A i \in DOMAIN out' : out'[i].meta = 0 =>
                out'[i].group = group' /\ Completed # <<>>
        BY <2>1, CloseBlockPublishes
      <3>2. CASE block_number = 3
        <4>1. Blocks = 0 .. block_number
          BY <3>2 DEF Blocks
        <4>2. block_number' = 0
          BY <2>1, <3>2
        <4>3. AssemblyStart' = <<Before(tx_group'), tx_block'>>
          BY <4>2 DEF AssemblyStart, Before
        <4>4. InStep' => AssemblyStart'[2] = 0
          BY <4>2, <4>3 DEF InStep
        <4> QED  BY <2>2, <3>1, <4>1, <4>4, PublishedInOrder
      <3>3. CASE block_number # 3
        <4>1. Completed = <<>>
          BY <1>3, <1>6, <2>1, <3>3
          DEF Completed, CountGoodBlock, StoreBlock, InGroup, DecoderInv,
              AssemblyConsistent, BlockDue, Blocks
        <4> QED  BY <1>2, <3>1, <4>1 DEF Quiet
      <3> QED  BY <3>2, <3>3
    <2> QED  BY <2>5, <2>6
  <1>7. CASE PassOverBlock
    <2>1. ~group_assembly_started' /\ CloseBlock(0, <<>>)
      BY <1>7 DEF PassOverBlock, InGroup, assembly
    <2>2. Quiet
      BY <2>1, CloseBlockPublishes DEF Quiet
    <2> QED  BY <1>2, <2>1, <2>2 DEF OrderInv
  <1>8. CASE RejectBlock
    <2>1. /\ ~group_assembly_started' /\ group' = group /\ BlockDue
          /\ UNCHANGED group_good_blocks_counter
          /\ CloseBlock(1, IF group_assembly_started THEN Completed ELSE <<>>)
      BY <1>8 DEF RejectBlock
    <2>2. OrderInv'
      BY <2>1 DEF OrderInv
    <2>3. CASE group_assembly_started /\ group_good_blocks_counter = 5
      <3>1. /\ block_number = 0 /\ d_state = "SYNC"
            /\ block_bit_counter = BlockBits - 1
            /\ block_number' = (block_number + 1) % 4
        BY <1>3, <2>1, <2>3, BlockBitsAssumption
        DEF DecoderInv, TypeOK, AssemblyConsistent, BlockDue, BlockComplete, Blocks,
            CloseBlock
      <3>2. ASSUME NEW b \in Blocks, OfStation(group'[b])
            PROVE  /\ block_bit_counter = tx_bit
                   /\ BlockA(group'[b], b) = <<Before(tx_group), tx_block>>
        BY <2>1, <2>3, <3>1, <3>2 DEF OrderInv, StoredBlocks, AssemblyStart
      <3>3. \A i \in DOMAIN out' : out'[i].meta = 0 => out'[i].group = group'
        BY <2>1, <2>3, CloseBlockPublishes DEF Completed
      <3>4. ASSUME InStep', block_bit_counter = tx_bit PROVE tx_block = 0
        <4>1. tx_block' = 1 /\ tx_block' = (tx_block + 1) % 4 /\ tx_block \in 0 .. 3
          BY <3>1, <3>4 DEF InStep, Advance, BlockSent, StationOK, Blocks
        <4> QED  BY <4>1
      <3>5. JoinedInOrder'
        BY <3>2, <3>3, <3>4, PublishedInOrder
      <3> QED  BY <2>2, <3>5
    <2>4. CASE ~(group_assembly_started /\ group_good_blocks_counter = 5)
      <3>1. CloseBlock(1, <<>>)
        BY <2>1, <2>4 DEF Completed
      <3>2. Quiet
        BY <3>1, CloseBlockPublishes DEF Quiet
      <3> QED  BY <1>2, <2>2, <3>2
    <2> QED  BY <2>3, <2>4
  <1> QED  BY <1>1, <1>4, <1>5, <1>6, <1>7, <1>8 DEF Operation

\* The station's words in a published group, altered ones among them, come from
\* four blocks in a row, whatever the decoder has taken for a block; from one group
\* if it is in step with the station.
THEOREM RedseaJoinsInOrder == RedseaLinkSpec => []JoinedInOrder
  <1>1. RedseaLinkInit => OrderInv /\ JoinedInOrder
    <2> SUFFICES ASSUME RedseaLinkInit PROVE OrderInv /\ JoinedInOrder  OBVIOUS
    <2>1. d_state = "NO_SYNC" /\ out = <<[meta |-> 1, sync |-> FALSE]>>
      BY DEF RedseaLinkInit, LinkInit, DecoderInit, SyncMsg
    <2>2. GroupsOut(out) = {}
      BY <2>1 DEF GroupsOut
    <2> QED  BY <2>1, <2>2 DEF OrderInv, JoinedInOrder
  <1>2. RedseaLinkInv /\ RedseaLinkInv' /\ OrderInv /\ JoinedInOrder
          /\ [RedseaLinkNext]_redseaLinkVars => (OrderInv /\ JoinedInOrder)'
    <2>1. OrderInv /\ JoinedInOrder /\ UNCHANGED vars => (OrderInv /\ JoinedInOrder)'
      BY DEF OrderInv, AssemblyStart, SentWord, JoinedInOrder, InStep, GroupsOut,
             StoredBlocks, vars, linkVars, decoderVars, assembly
    <2>2. RedseaLinkInv /\ RedseaLinkInv' /\ OrderInv /\ RedseaLinkNext
              => UNCHANGED vars \/ (OrderInv /\ JoinedInOrder)'
      BY RedseaLinkStepCases, WorkCallLeaves, OrderStep DEF RedseaLinkInv
    <2> QED  BY <2>1, <2>2 DEF redseaLinkVars
  <1> QED
    BY <1>1, <1>2, RedseaLinkInvariant, PTL DEF RedseaLinkSpec

LEMMA RedseaRepeatStep ==
    ASSUME RedseaLinkInv, RepeatInv, RedseaLinkNext
    PROVE  RepeatInv' /\ [Repeated]_vars
  <1>1. DecoderInv /\ StationOK /\ SinceGroupOK
    BY DEF RedseaLinkInv, RedseaInv
  <1>2. CASE UNCHANGED vars
    BY <1>2 DEF RepeatInv, vars, linkVars, decoderVars, assembly
  <1>3. ASSUME NEW shown, NEW word, NEW arrived,
               RedseaBit(shown, word), Observe(arrived)
        PROVE  RepeatInv' /\ Repeated
    BY <1>1, <1>3, RedseaBitIsOperation, RepeatStep, RepeatedHolds
  <1> QED  BY <1>1, <1>2, <1>3, RedseaLinkStepCases, WorkCallLeaves

\* The second publication of a group, on the bad block A after it, repeats the
\* same words here too: a block A that is corrected is a good one.
THEOREM RedseaRepeatsIdentical == RedseaLinkSpec => RepeatIsIdentical
  <1>1. RedseaLinkInit => RepeatInv
    BY DEF RedseaLinkInit, LinkInit, DecoderInit, RepeatInv
  <1>2. RedseaLinkInv /\ RepeatInv /\ [RedseaLinkNext]_redseaLinkVars
            => RepeatInv' /\ [Repeated]_vars
    <2>1. RepeatInv /\ UNCHANGED redseaLinkVars => RepeatInv' /\ [Repeated]_vars
      BY DEF RepeatInv, redseaLinkVars, vars, linkVars, decoderVars, assembly
    <2> QED  BY <2>1, RedseaRepeatStep
  <1> QED
    BY <1>1, <1>2, RedseaLinkInvariant, PTL
    DEF RedseaLinkSpec, RepeatIsIdentical, Repeated

-----------------------------------------------------------------------------
(* Every group that can be repaired is published.                           *)

\* What the assembly holds of the group that is being sent, if all of its blocks could
\* be read while the decoder was in step: its own words, the third one altered
\* perhaps; all of them as sent if the variant bit is the one of the version, which it
\* is when block 3 begins and stays unless a call of work() finds another.
OwnWord(b) ==
    group[b] = <<tx_group, b>> \/ (b = 2 /\ group[b] \in Altered(<<tx_group, b>>))

RepairInv ==
    intact /\ Aligned /\ tx_block # 0 =>
        /\ group_assembly_started => \A b \in 0 .. (tx_block - 1) : OwnWord(b)
        /\ TellsVersion /\ ~called =>
              /\ group_assembly_started
              /\ \A b \in 0 .. (tx_block - 1) :
                     group[b] = <<tx_group, b>> /\ offset_chars[b] = SentChars[b]
              /\ tx_block = 2 => variant = IF tx_version = "B" THEN 1 ELSE 0

\* A block that arrives in step ends the assembly or is stored in its place, where its
\* word is its own.
LEMMA ArrivedInStep ==
    ASSUME RedseaLinkInv, Aligned, BlockSent,
           NEW shown, NEW word, RedseaBit(shown, word), Reading(TRUE, word)
    PROVE  \/ ~group_assembly_started' /\ \A i \in DOMAIN out' :
                  out'[i].meta = 0 => tx_block = 0
           \/ /\ StoreBlock(offset_name[Expected], word) /\ ReadVariant(word)
              /\ word = SentWord \/ (tx_block = 2 /\ word \in Altered(SentWord))
  <1>1. /\ d_state = "SYNC" /\ block_bit_counter = BlockBits - 1
        /\ block_number = tx_block /\ StationOK /\ tx_block \in Blocks /\ DecoderInv
    BY DEF Aligned, BlockSent, RedseaLinkInv, RedseaInv, StationOK
  <1>2. BlockDue /\ ~AwaitBlock /\ ~SearchBit(shown)
    BY <1>1, BlockBitsAssumption
    DEF BlockDue, BlockComplete, AwaitBlock, SearchBit, SeeNoOffset,
        RecordCandidate, DropCandidates, EnterSync
  <1>3. CASE PassOverBlock
    <2>1. ~group_assembly_started' /\ CloseBlock(0, <<>>)
      BY <1>3 DEF PassOverBlock, InGroup, assembly
    <2> QED  BY <2>1, CloseBlockPublishes
  <1>4. CASE RejectBlock
    <2>1. /\ ~group_assembly_started' /\ UNCHANGED group_good_blocks_counter
          /\ CloseBlock(1, IF group_assembly_started THEN Completed ELSE <<>>)
      BY <1>4 DEF RejectBlock
    <2>2. CASE group_assembly_started /\ group_good_blocks_counter = 5
      BY <1>1, <2>1, <2>2 DEF DecoderInv, TypeOK, AssemblyConsistent, Blocks
    <2>3. CASE ~(group_assembly_started /\ group_good_blocks_counter = 5)
      <3>1. CloseBlock(1, <<>>)
        BY <2>1, <2>3 DEF Completed
      <3> QED  BY <2>1, <3>1, CloseBlockPublishes
    <2> QED  BY <2>2, <2>3
  <1>5. ASSUME word # Bad, StoreBlock(offset_name[Expected], word), ReadVariant(word)
        PROVE  word = SentWord \/ (tx_block = 2 /\ word \in Altered(SentWord))
    <2>1. tx_block # 2 => Expected = SentOffset
      BY <1>1 DEF Expected, SentOffset
    <2> QED  BY <1>5, <2>1 DEF Reading, ReadOfBurst
  <1> QED  BY <1>2, <1>3, <1>4, <1>5 DEF RedseaBit

\* It is stored as it was sent if the variant is known.
LEMMA KnownBlockStored ==
    ASSUME RedseaLinkInv, RepairInv, TellsVersion, ~called, Aligned, BlockSent,
           intact \/ tx_block = 0,
           NEW shown, NEW word, RedseaBit(shown, word), Reading(TRUE, word)
    PROVE  /\ StoreBlock(SentChars[tx_block], SentWord)
           /\ ReadVariant(SentWord)
  <1>1. /\ d_state = "SYNC" /\ block_bit_counter = BlockBits - 1
        /\ block_number = tx_block /\ StationOK /\ tx_block \in Blocks
    BY DEF Aligned, BlockSent, RedseaLinkInv, StationOK
  <1>2. BlockDue /\ ~AwaitBlock /\ ~SearchBit(shown)
    BY <1>1, BlockBitsAssumption
    DEF BlockDue, BlockComplete, AwaitBlock, SearchBit, SeeNoOffset,
        RecordCandidate, DropCandidates, EnterSync
  <1>3. Expected = SentOffset
    <2>1. tx_block = 2 => variant = IF tx_version = "B" THEN 1 ELSE 0
      BY DEF RepairInv
    <2> QED  BY <1>1, <2>1 DEF Expected, SentOffset
  <1>4. word = SentWord /\ word # Bad
    BY <1>1, <1>3, SentIsInput, RedseaAssumption DEF Reading, ReadOfBurst, StationOK
  <1>5. InGroup
    BY <1>1 DEF InGroup, RepairInv
  <1>6. StoreBlock(offset_name[Expected], SentWord) /\ ReadVariant(SentWord)
    BY <1>2, <1>4, <1>5 DEF RedseaBit, PassOverBlock
  <1>7. offset_name[Expected] = SentChars[tx_block]
    BY <1>1, <1>3
    DEF SentOffset, SentChars, offset_name, Offsets, CTag, Blocks
  <1> QED  BY <1>6, <1>7

\* A stored block joins the ones before it.
LEMMA OwnWordsGrow ==
    ASSUME RedseaLinkInv, RepairInv, Aligned, BlockSent, intact \/ tx_block = 0,
           NEW char, NEW word, StoreBlock(char, word),
           word = SentWord \/ (tx_block = 2 /\ word \in Altered(SentWord))
    PROVE  \A b \in 0 .. tx_block :
               \/ group'[b] = <<tx_group, b>>
               \/ b = 2 /\ group'[b] \in Altered(<<tx_group, b>>)
  <1>1. /\ block_number = tx_block /\ tx_block \in Blocks
        /\ group \in [Blocks -> Words \cup {Unset}]
        /\ group' = [group EXCEPT ![tx_block] = word]
        /\ tx_block = 0 \/ group_assembly_started
    BY DEF Aligned, RedseaLinkInv, RedseaInv, DecoderInv, TypeOK, StoreBlock, InGroup
  <1>2. \A b \in 0 .. tx_block :
            group'[b] = IF b = tx_block THEN word ELSE group[b]
    BY <1>1 DEF Blocks
  <1>3. \A b \in 0 .. (tx_block - 1) : OwnWord(b)
    BY <1>1 DEF RepairInv, Blocks
  <1> QED  BY <1>1, <1>2, <1>3 DEF OwnWord, SentWord, Blocks

LEMMA RepairStep ==
    ASSUME RedseaLinkInv, RepairInv, RedseaLinkNext
    PROVE  RepairInv'
  <1>1. /\ DecoderInv /\ StationOK /\ BlockBits \in Nat \ {0}
        /\ group \in [Blocks -> Words \cup {Unset}]
        /\ offset_chars \in [Blocks -> OffsetChars \cup {Unset}]
    BY BlockBitsAssumption DEF RedseaLinkInv, RedseaInv, DecoderInv, TypeOK
  <1>2. CASE WorkCallStarts
    <2>1. UNCHANGED vars /\ called' = (called \/ tx_block = 2)
      BY <1>2, WorkCallLeaves
    <2>2. /\ Aligned' = Aligned /\ TellsVersion' = TellsVersion
          /\ SentChars' = SentChars
      BY <2>1 DEF vars, linkVars, decoderVars, Aligned, TellsVersion, SentChars
    <2> QED
      BY <2>1, <2>2 DEF RepairInv, OwnWord, vars, linkVars, decoderVars, assembly
  <1>3. ASSUME Advance, ObserveCalls,
               NEW shown, NEW word, NEW arrived \in BOOLEAN,
               RedseaBit(shown, word), Observe(arrived), Reading(arrived, word),
               intact', Aligned', tx_block' # 0, BlockSent
        PROVE  RepairInv'
    <2>1. arrived /\ Aligned /\ (intact \/ tx_block = 0)
      BY <1>3 DEF Observe
    <2>2. /\ UNCHANGED <<tx_group, tx_version>>
          /\ tx_block' = tx_block + 1 /\ tx_block \in 0 .. 2
      BY <1>1, <1>3 DEF Advance, StationOK, Blocks
    <2>3. called <=> called'
      <3>1. ~GroupEnds
        BY <2>2 DEF GroupEnds
      <3> QED  BY <1>3, <3>1, Zenon DEF ObserveCalls
    <2>4. (TellsVersion <=> TellsVersion') /\ SentChars' = SentChars
      BY <2>2 DEF TellsVersion, SentChars
    <2>5. block_number = tx_block
      BY <2>1 DEF Aligned
    <2>6. group_assembly_started' => (\A b \in 0 .. (tx_block - 1) : OwnWord(b))'
      <3>1. CASE ~group_assembly_started'
        BY <3>1
      <3>2. CASE StoreBlock(offset_name[Expected], word)
                 /\ (word = SentWord \/ (tx_block = 2 /\ word \in Altered(SentWord)))
        <4>1. \A b \in 0 .. tx_block :
                  \/ group'[b] = <<tx_group, b>>
                  \/ b = 2 /\ group'[b] \in Altered(<<tx_group, b>>)
          BY <1>3, <2>1, <3>2, OwnWordsGrow
        <4> QED  BY <2>2, <4>1 DEF OwnWord
      <3> QED  BY <1>3, <2>1, <3>1, <3>2, ArrivedInStep
    <2>7. ASSUME TellsVersion, ~called
          PROVE  /\ group_assembly_started'
                 /\ \A b \in 0 .. (tx_block' - 1) :
                        /\ group'[b] = <<tx_group', b>>
                        /\ offset_chars'[b] = SentChars'[b]
                 /\ tx_block' = 2 =>
                        variant' = IF tx_version' = "B" THEN 1 ELSE 0
      <3>1. StoreBlock(SentChars[tx_block], SentWord) /\ ReadVariant(SentWord)
        BY <1>3, <2>1, <2>7, KnownBlockStored
      <3>2. /\ group' = [group EXCEPT ![tx_block] = <<tx_group, tx_block>>]
            /\ offset_chars' = [offset_chars EXCEPT ![tx_block] = SentChars[tx_block]]
            /\ group_assembly_started'
        BY <2>5, <3>1 DEF StoreBlock, SentWord
      <3>3. \A b \in 0 .. (tx_block - 1) :
                group[b] = <<tx_group, b>> /\ offset_chars[b] = SentChars[b]
        BY <2>1, <2>2, <2>7 DEF RepairInv
      <3>4. \A b \in 0 .. (tx_block' - 1) :
                /\ group'[b] = <<tx_group', b>>
                /\ offset_chars'[b] = SentChars'[b]
        BY <1>1, <2>2, <2>4, <3>2, <3>3 DEF Blocks
      <3>5. tx_block' = 2 => variant' = IF tx_version' = "B" THEN 1 ELSE 0
        BY <2>2, <2>5, <2>7, <3>1 DEF ReadVariant, SentWord, TellsVersion
      <3> QED  BY <3>2, <3>4, <3>5
    <2> QED  BY <2>2, <2>3, <2>4, <2>6, <2>7 DEF RepairInv
  <1>4. ASSUME Advance, ObserveCalls,
               NEW shown, NEW word, NEW arrived \in BOOLEAN,
               RedseaBit(shown, word), Observe(arrived),
               intact', Aligned', tx_block' # 0, ~BlockSent
        PROVE  RepairInv'
    <2>1. /\ intact /\ Aligned /\ AwaitBlock
          /\ UNCHANGED <<tx_block, tx_group, tx_version>>
      BY <1>1, <1>4, RedseaBitIsOperation, WithinBlock
    <2>2. UNCHANGED variant
      BY <2>1, <1>4
      DEF RedseaBit, AwaitBlock, StoreBlock, PassOverBlock, RejectBlock, BlockDue
    <2>3. (TellsVersion <=> TellsVersion') /\ SentChars' = SentChars /\ tx_block # 0
      BY <1>4, <2>1 DEF TellsVersion, SentChars
    <2>4. called <=> called'
      BY <1>4 DEF ObserveCalls, GroupEnds
    <2> QED  BY <2>1, <2>2, <2>3, <2>4 DEF AwaitBlock, assembly, RepairInv, OwnWord
  <1>5. ~(intact' /\ Aligned' /\ tx_block' # 0) => RepairInv'
    BY DEF RepairInv
  <1> QED  BY <1>1, <1>2, <1>3, <1>4, <1>5, RedseaLinkStepCases

LEMMA RepairedStep ==
    ASSUME RedseaLinkInv, RepairInv, RedseaLinkNext
    PROVE  [RepairedGroupStep]_vars
  <1>1. CASE UNCHANGED vars
    BY <1>1
  <1>2. ASSUME Advance, NEW shown, NEW word, NEW arrived \in BOOLEAN,
               RedseaBit(shown, word), Observe(arrived), Reading(arrived, word),
               GroupEnds, intact'
        PROVE  BlockSent /\ tx_block = 3 /\ arrived /\ Aligned /\ intact
    <2>1. BlockSent /\ tx_block = 3
      BY <1>2 DEF GroupEnds
    <2>2. arrived /\ Aligned /\ (intact \/ tx_block = 0)
      BY <1>2, <2>1 DEF Observe
    <2> QED  BY <2>1, <2>2
  <1>3. ASSUME Advance, NEW shown, NEW word, NEW arrived \in BOOLEAN,
               RedseaBit(shown, word), Observe(arrived), Reading(arrived, word),
               GroupEnds, intact', TellsVersion, ~called
        PROVE  GroupMsg(SentGroup, SentChars) \in {out'[i] : i \in DOMAIN out'}
    <2>1. BlockSent /\ tx_block = 3 /\ arrived /\ Aligned /\ intact
      BY <1>2, <1>3
    <2>2. StoreBlock(SentChars[3], SentWord)
      BY <1>3, <2>1, KnownBlockStored
    <2>3. /\ group_assembly_started /\ block_number = 3 /\ d_state = "SYNC"
          /\ \A b \in 0 .. 2 :
                 group[b] = <<tx_group, b>> /\ offset_chars[b] = SentChars[b]
          /\ group \in [Blocks -> Words \cup {Unset}]
          /\ offset_chars \in [Blocks -> OffsetChars \cup {Unset}]
          /\ DecoderInv
      BY <1>3, <2>1 DEF RedseaLinkInv, RedseaInv, RepairInv, Aligned, DecoderInv, TypeOK
    <2>4. /\ group' = [group EXCEPT ![3] = <<tx_group, 3>>]
          /\ offset_chars' = [offset_chars EXCEPT ![3] = SentChars[3]]
      BY <2>1, <2>2, <2>3 DEF StoreBlock, SentWord
    <2>5. group' = SentGroup
      <3>1. \A b \in Blocks : group'[b] = <<tx_group, b>>
        BY <2>3, <2>4 DEF Blocks
      <3>2. group' \in [Blocks -> Words \cup {Unset, <<tx_group, 3>>}]
        BY <2>3, <2>4 DEF Blocks
      <3> QED  BY <3>1, <3>2 DEF SentGroup
    <2>6. offset_chars' = SentChars
      <3>1. \A b \in Blocks : offset_chars'[b] = SentChars[b]
        BY <2>3, <2>4 DEF Blocks
      <3>2. offset_chars' \in [Blocks -> OffsetChars \cup {Unset, SentChars[3]}]
        BY <2>3, <2>4 DEF Blocks
      <3> QED  BY <3>1, <3>2 DEF SentChars
    <2>7. CloseBlock(0, <<GroupMsg(group', offset_chars')>>)
      <3>1. group_good_blocks_counter' = 5
        BY <2>2, <2>3
        DEF StoreBlock, CountGoodBlock, DecoderInv, AssemblyConsistent
      <3> QED  BY <2>2, <3>1 DEF StoreBlock, Completed
    <2>8. 1 \in DOMAIN out' /\ out'[1] = GroupMsg(group', offset_chars')
      BY <2>7, GroupIsPublished
    <2> QED  BY <2>5, <2>6, <2>8
  <1>4. ASSUME Advance, NEW shown, NEW word, NEW arrived \in BOOLEAN,
               RedseaBit(shown, word), Observe(arrived), Reading(arrived, word),
               GroupEnds, intact', NEW i \in GroupsOut(out')
        PROVE  OwnWords(out'[i].group)
    <2>1. BlockSent /\ tx_block = 3 /\ arrived /\ Aligned /\ intact
      BY <1>2, <1>4
    <2>2. out'[i].meta = 0
      BY <1>4 DEF GroupsOut
    <2>3. /\ StoreBlock(offset_name[Expected], word)
          /\ word = SentWord \/ (tx_block = 2 /\ word \in Altered(SentWord))
      <3>1. arrived = TRUE /\ i \in DOMAIN out' /\ tx_block # 0
        BY <1>4, <2>1 DEF GroupsOut
      <3>2. Reading(TRUE, word)
        BY <1>4, <3>1
      <3> QED  BY <1>4, <2>1, <2>2, <3>1, <3>2, ArrivedInStep
    <2>4. \A b \in 0 .. tx_block :
              \/ group'[b] = <<tx_group, b>>
              \/ b = 2 /\ group'[b] \in Altered(<<tx_group, b>>)
      BY <2>1, <2>3, OwnWordsGrow
    <2>5. out'[i].group = group'
      <3>1. /\ CloseBlock(0, Completed)
            /\ Completed \in {<<>>, <<GroupMsg(group', offset_chars')>>}
        BY <2>3 DEF StoreBlock, Completed
      <3> QED  BY <1>4, <2>2, <3>1, CloseBlockPublishes DEF GroupsOut
    <2> QED  BY <2>1, <2>4, <2>5 DEF OwnWords, SentGroup, Blocks
  <1>5. StationOK
    BY DEF RedseaLinkInv
  <1> QED
    BY <1>1, <1>3, <1>4, <1>5, RedseaLinkStepCases, WorkCallLeaves
    DEF RepairedGroupStep

\* A group whose blocks all arrive with at most a short burst of errors each, while
\* the decoder is in step, is published whole if its variant bit is the one of its
\* version and no call of work() begins between its second and its third block (where
\* the local variable `variant` is lost); and no such group, whatever its variant
\* and the calls, is published with a word of its first, second or last block
\* that is not its own.
THEOREM RedseaRepairs == RedseaLinkSpec => RepairedGroupPublished
  <1>1. RedseaLinkInit => RepairInv
    BY DEF RedseaLinkInit, LinkInit, RepairInv
  <1>2. RedseaLinkInv /\ RepairInv /\ [RedseaLinkNext]_redseaLinkVars
            => RepairInv' /\ [RepairedGroupStep]_vars
    <2>1. RepairInv /\ UNCHANGED redseaLinkVars
              => RepairInv' /\ [RepairedGroupStep]_vars
      <3> SUFFICES ASSUME RepairInv, UNCHANGED redseaLinkVars
                   PROVE  RepairInv' /\ [RepairedGroupStep]_vars
        OBVIOUS
      <3>1. UNCHANGED <<vars, variant, called>>
        BY DEF redseaLinkVars
      <3>2. /\ Aligned' = Aligned /\ TellsVersion' = TellsVersion
            /\ SentChars' = SentChars
        BY <3>1 DEF vars, linkVars, decoderVars, Aligned, TellsVersion, SentChars
      <3> QED
        BY <3>1, <3>2 DEF RepairInv, OwnWord, vars, linkVars, decoderVars, assembly
    <2> QED  BY <2>1, RepairStep, RepairedStep
  <1> QED
    BY <1>1, <1>2, RedseaLinkInvariant, PTL
    DEF RedseaLinkSpec, RepairedGroupPublished
=============================================================================

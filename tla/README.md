# A TLA+ development of gr-multirds

gr-multirds receives RDS, the data channel of FM radio, from several stations
at once (GNU Radio blocks in C++, tables and traffic messages in Python 2). This
directory holds TLA+ modules for the parts whose logic spans many steps, TLC
configurations that check them on small instances, and theorems checked by
TLAPS. Paths below are relative to `src/`.

## 1. The system

    demodulator -> sync_decim -> rds_decoder[_redsea] -> parser / station table -> tmc_parser -> map, data base
      (bits)                          (groups, status)        |
    encoder -> modulator                                max_freq (tunes the decoders)   stream_router (audio)

Blocks are connected by streams (bits) or by message ports. GNU Radio runs each
block in one thread, which calls `work()` and, between two such calls, the
handlers of messages; messages of a port arrive in order and are not lost.

| Component | State | Operations | What makes it correct |
|---|---|---|---|
| Synchroniser `lib/rds_decoder_impl.cc` (`decoder_impl.cc` is the same without status messages) | search: last offset word and where it was seen; lock: bit and block clock, quality window, the group in assembly | one iteration of the loop of `work()` per bit | finds the station, does not slip, publishes every intact group whole and no mixture, reports gain and loss of the lock |
| The same with burst correction `lib/rds_decoder_redsea_impl.cc` | as above, and the variant bit (a local variable without initial value) | as above, `correctBurstErrors` | as above, and correction changes no good data |
| Block check `calc_syndrome`, `makeErrorLookupTable`, `lib/constants.h` | none | CRC, table of errors | the two tests for a block agree; damage is detected |
| Encoder `lib/encoder_impl.cc` | parameters, one buffer per group of the cycle, segment counters, send position, `d_mutex` | commands (`rds_in`, `set_ps`), `rebuild`, `work` | what is sent has been prepared, is current, and is complete |
| TMC assembly and dictionary `python/tmc_parser.py`, `python/tmc_classes.py` | message objects, the dictionary by place and class, unfinished messages by station and continuity index, the table of the data base | single, first and further group; confirmation, cancellation | messages are put together from their own groups, shown once, kept up to date |
| Station table `python/rds_parser_table_qt.py` | per station: names, radiotext, alternative frequencies, counters; per decoder: the station it hears | one handler for status and group messages, decay every 10 s | stations are accepted only when seen often, names are never mixtures, status goes to the right station |
| C++ parser `lib/parser_impl.cc`, and the panel `python/rdspanel.py` that shows its messages | name, radiotext and its A/B flag, other flags; static variables of the handlers (alternative frequencies, announced name, number of TMC groups); the labels | one handler per group type; `reset()` on the thread of the user interface | a toggled flag flushes the text, the panel comes to show the station, dates and frequencies are converted rightly |
| Tuner `python/max_freq.py` | the centre frequency, the index each decoder was tuned to | `work()`, with one spectrum; a new centre frequency, on the thread of the user interface; a control message | every strong station is found, has one decoder, and the decoder is sent to its frequency |
| `lib/sync_decim_impl.cc`, `lib/stream_router_impl.cc` | mode and counters; the routing table | `work()`, a routing message | not modelled, see section 5 |

Hard behaviours, which the properties aim at (PROJECT.json, `hazards`, has each
with its line):

* the bit stream: errors anywhere, locks by chance, locks that are off by a
  block, a window that ends in the middle of a group, members that keep the words
  of an abandoned group;
* tests that must describe the same code although they are written twice
  (syndromes and checkwords; the two listings of the encoder's groups);
* two threads at the encoder, with the mutex around the buffers only, and at the parser,
  where only `reset()` takes the mutex and a group may be handled at any place of it; at the tuner, where
  the centre may change between two indices that are turned into frequencies;
* groups of traffic messages that are lost, repeated, or continued by those of
  another message with the same index;
* names and texts that change while their segments are received in any order, with
  losses: marks of received characters that must not outlive their text;
* state that is stale when used: the variant bit between two calls of `work()`,
  the object in the dictionary that is not the one being completed, the length of a
  radiotext, the row of a station in the data base, the band of the alternative frequencies
  of the last station, the indices of the decoders after the band was moved;
* boundaries: ends of windows, lists and groups of indices, and of months and years in a
  date that is computed with truncated real numbers.

## 2. The modules

| Module | Models |
|---|---|
| `RdsFormat` | what both decoders and the channel share: blocks, offset words in the order of `constants.h`, positions and names; which offset words can be mistaken (checked by `RdsCrc`) |
| `DecoderService` | the abstract specification of a decoder: what its messages promise to the parser, the tables and the tuner, and nothing of how blocks are found. Both decoders implement it (`ServesAsPromised`); `synced` is mapped to the state being `SYNC` |
| `RdsDecoder` | the synchroniser on free input; a step is one bit |
| `RdsChannel` | external: a station that sends groups of versions A and B for ever, as `encoder_impl.cc` does; history variables (which groups arrived intact, how long ago one was published); the properties that relate the two |
| `RdsLink` | `RdsDecoder` behind `RdsChannel`: faithful and disturbed bits |
| `RedseaDecoder`, `RedseaLink` | the decoder with correction, made of the same operations, and its link. A block that is accepted in the place of a neighbouring offset word is an altered word: the one that was sent, with a bit or two changed, which still belongs to its group. A call of `work()` is a step that may come between any two bits |
| `RdsCrc` | CRC, offset words, error table and corrections at full width (16 + 10 bits); words are sets of bits, XOR their symmetric difference |
| `RdsEncoder` | the encoder with its two threads; a step writes one segment of a text, prepares one group or sends one block |
| `TmcMessages` | `handle_msg`, `tmc_message`, `tmc_dict`; a step is one group |
| `TmcBroadcast` | external: stations that send alerts group by group, each any number of times or not at all; composed with `TmcMessages` |
| `StationTable` | `handle_msg` of the station table: acceptance of stations, names, radiotexts and their prediction, frequencies, announced networks, the table of the data base; a step is one group |
| `StationBroadcast` | external: stations that send the segments of names and texts in any order, announce others and change what they send; composed with `StationTable`; history variables say how often all segments of what is on the air were received |
| `GroupParser` | `parse()`, every handler that changes state, `reset()` and the panel. A step is what one thread does between two places where the other one can be noticed: a group with radiotext is handled in four steps, the test of the flag, the new flag, the text and the message |
| `ParserBroadcast` | external: stations that send groups in any order, lose any of them and change name and text, and a user who retunes and resets; composed with `GroupParser`; history variables: the flag of the last radiotext group, whether `reset()` ever ran while a group was handled, and whether the text on the air came with a toggle or was followed by a reset |
| `Tuner` | `work()` of `max_freq`, from the spectrum to the frequencies: the carrier is deleted, streaks above the mean are found, close ones joined, the strongest ones assigned to the decoders. This is one step, as it reads nothing that another thread writes; then one index after the other is turned into a frequency with the `center_freq` of that moment. The timer is never set again (line 94), so that every call after the first second works |
| `TunerBand` | external: transmitters that come and go, their spectrum, and a user who moves the centre at any time, which reaches the block and the spectrum in any order |
| `RdsLinkProofs` (both decoders), `CrcProofs`, `EncoderProofs`, `TmcProofs`, `StationProofs`, `ParserProofs`, `TunerProofs` | the theorems |
| `NumberTheorems` | what these proofs need of numbers, recursion over them and the places of things in sequences |
| `MC...` | the values of an instance: words, group types, alerts |

How state and code correspond: variables carry the names of the members. In
`RdsDecoder` the 26-bit register is represented by what the code asks of it: which
offset word it shows, and the data word. `RdsCrc` is what justifies that. The
distance counter is kept only while a candidate is recorded, and saturates where
it can no longer match. Counters of the encoder count segments and blocks, not
characters and bits. In `TmcMessages` the objects are the entries of
`message_list`, which really has every object in it; the others refer to them by
index. A tag of a traffic message lies within one group. In `StationTable` the entry
`RDS_data[PI]["x"]` is `x[PI]`, and texts are functions from segment addresses: the code
sets the marks of all characters of a segment together. In `GroupParser` they are functions from
addresses to pairs of characters, which is what a group carries; the labels of the panel are what
was sent last of each type of message; a type that is only logged changes no label but that of the
PI. In `Tuner` bins and frequencies are integers, and sums are compared with totals where the code
divides them.

Definitions named `Mutant...` are variants of the definition that follows them,
with a bug such as code of this kind has. Each property is checked to fail when the
variant takes the place of the original; PROJECT.json, `mutants`, has the pairs.

## 3. The runs

Runs that pass:

| Run | Instance | Shows |
|---|---|---|
| `link` | blocks of 2 bits, windows of 6 blocks (more than 4 wrong: lost), both versions, 3 group numbers, one garbage word; 152 thousand states | With any errors: an aligned decoder stays aligned until it reports the loss (`LockNeverSlips`); a group that arrives intact is published with its last bit (`IntactGroupPublished`); published words are never joined from two groups (`NoMixedGroup`), which rests on what is known of an assembly (`AssemblyConsistent`); a group that is published twice within 104 bits is the same one, after a bad block A (`RepeatIsIdentical`). The decoder implements `DecoderService` (`ServesAsPromised`): groups are whole and come under a lock only, gain and loss of the lock are reported, a loss with the ratio that caused it. Once the errors stop, the decoder locks and stays locked, from every state they left, unless it locks on a C' again and again (`LocksUnlessOnCTag`; the exception is the run `ctag_livelock`) |
| `redsea` | windows of 3 blocks (more than 1 wrong: lost), both versions, even and odd types, calls of `work()` between any two bits; 171 thousand states | The decoder with correction: `ServesAsPromised` as above. A group with a short burst in each block is published whole if bit 12 tells its version and no call of `work()` fell between its second and third block; whatever is published of such groups are their own words (`RepairedGroupPublished`). Published words come from four blocks in a row, of one group if the decoder is in step (`JoinedInOrder`) |
| `crc` | three data words, every offset word, every burst of up to five bits; 5520 states (one data word would do: `OneWordStandsForAll`) | The two tests agree (`TestsAgree`), damage is detected (`DamageDetected`), correction never changes data (`NeverMiscorrected`); the list `Mistaken` is right (`MistakesListed`) |
| `encoder` | 2 segments each, group types 0, 2, 3, two texts and settings; 183 thousand states | In every interleaving of commands the buffers are complete (`CycleComplete`) and in the end current (`BuffersCurrent`), and none is sent that was not prepared (`SentWasPrepared`); once the commands stop every segment is sent again and again (`EverySegmentSent`) |
| `tmc` | two stations, one place, one index; a cancellation, two alerts of two groups that begin alike, one of four groups; three objects; 737 thousand states | A complete message has the announced groups in order (`CompleteInSequence`), is shown once (`ShownOnce`), an alert whose groups all arrived is shown (`IntactAlertShown`), messages are mixed only after the loss of a first group (`MixedOnlyAfterLoss`); the dictionary agrees with the list (`DictionaryMatchesList`) |
| `station_table` | one decoder, two stations of one network; names of 2 segments (three, two of which share one), radiotexts of up to 3 (three, of different lengths), one remembered text; names and texts in separate behaviours; 826 thousand states | After each segment of a name was received no other name is left of it (`NameNeverStale`); after a second time it is complete and was stored (`NameSettles`), also in the row of the station if the update was the last to write it (`RowFollowsName`). The same of radiotexts: segments that are marked are those on the air (`TextNeverStale`); after a third time the text was stored unless another one was predicted (`TextSettles`) |
| `parser` | two stations; names of 2 pairs, radiotexts of up to 4 (two of one station, in groups 2A and 2B), two lists of alternative frequencies, the first and last days of the months of five years from 1900 to 2100; `reset()` and retuning at any place; 120 thousand states | A toggled flag leaves nothing of the old radiotext unless `reset()` ran while a group was handled (`FlushedUnlessRaced`); once the user and the station leave things alone, the panel comes to show name, text and flags of the station and stays with them, whatever resets have cleared, with nothing behind the end of the text if it came with a toggle or was followed by a reset (`ShowsStation`); a VHF frequency that is shown is one that a station lists (`VHFListed`); dates are right (`ClockRight`) |
| `tuner` | 160 bins of 20 kHz, three decoders, five transmitters in all combinations of strength (72), two centres 600 kHz apart, changed at any place of a call; 24 thousand states | What is found are stations, and each audible one but the highest is found once (`StationsFound`); a decoder near one of the strongest of them stays near where it is, none is idle while a new one is not received, and unless stations or decoders are too close to each other each is received by exactly one decoder, by the one that is already there if there is one (`DecodableReceived`); if the centre is that of the spectrum throughout the call, a decoder is sent exactly to its station below the carrier, and to the next place of the raster below it above the carrier, where the indices are five bins too low (`SentToStation`) |

Runs that find a violation, each of something that the repository says and the
code does not do (PROJECT.json, `findings`, quotes the lines):

| Run | Violated | What happens |
|---|---|---|
| `ctag_livelock` | `LocksWhenQuiet` | A lock that begins on C' numbers the blocks wrongly (the index of the offset word is taken for its position). With groups of version B and windows of 2 modulo 4 blocks (50 is one) the lock is lost and found wrongly for ever. The run has windows of 2 blocks. |
| `redsea_variant` | `IntactGroupPublished` | The variant is read from bit 12, the lowest bit of the type, in place of bit 11: intact groups of odd types and version A are never published. |
| `parser_flush` | `ToggleFlushes` | A group is handled between two assignments of `reset()`: its text is kept, its flag is cleared, and when the flag is toggled back the next text is written over the old one. |
| `tuner_last` | `LastStationFound` | The last group of close indices is never closed: the highest station of the band is not found, and a single one is never found. |

Other things that the models show and no run is needed for:

* Burst correction takes blocks with the neighbouring offset word for good ones
  (`Mistaken`), so that a lock of the redsea decoder that is off by a block is kept for ever. What it publishes
  then are the last blocks of one group and the first ones of the next, with altered bits: `JoinedInOrder`
  says that it is nothing worse, and that a decoder in step does not do it.
* A call of `work()` between the second and the third block of a group finds any value in `variant`, which
  has no initial value, and may cost the decoder with correction the group.
* A repeated first group of a traffic message confirms the object in the dictionary, while the
  groups that follow go to a new one: the object in the dictionary stays incomplete.
* `print_tmc_msg` binds hash and station to each other's columns
  (`python/tmc_parser.py:112`), and REPLACE deletes other messages.
* The end of a radiotext is looked for before the group is applied and used after it
  (`python/rds_parser_table_qt.py:534`): a text is stored as valid that is a part of the one on the
  air, or has the tail of another one. `TextSettles` says how long that lasts.
* The band of `decode_af` is initially 0, under a comment that calls 0 VHF
  (`lib/parser_impl.cc:180`), but 1 is VHF: until a list begins, its codes are converted to LF and MF
  frequencies. Those of the MF band have 531 added twice (line 207).
* The first statement of `handle_ctrl_msg` of the tuner raises on every message
  (`pmt.is_dict()` lacks its argument), so that stations can never be held and modes never
  changed. A station near two slots takes both (`python/max_freq.py:184`), of two stations near one slot
  the weaker is received, and a station within 0.5 MHz of the lower end is near every free slot, as a
  free slot has index 0. Indices are not moved when the band is, and those above the carrier are five
  bins too low, so that a decoder is sent to 100 kHz below its station there.
* Without a toggle of the A/B flag or a reset (a parameter of the parser, which `apps/rds_rx.grc` leaves
  at 0) the tail of an older, longer radiotext is shown behind the new one for ever.

### Bounds, and why they are enough

* `BlockBits` (26): what matters is the first, an inner and the last bit of a
  block; 2 has the first and the last one, and the theorems hold for every number. `crc` is at full width.
* `WindowBlocks`, `MaxWrongBlocks` (50 and 35; 40 and 28): what matters of the window is where in a group it
  ends, and whether it divides into groups. `link` has 6 and 4, as 6 is like 50 of residue 2 modulo 4, the one
  for which the search may come back to the same C' for ever (`ctag_livelock`, with 2 and 1). With 3 and 1, in
  `redsea`, a window ends at every place of a group. The safety theorems hold for all values.
* `GroupIds`: three group numbers tell a group from the one before it and the one
  before that; a group that is older cannot be in the members, since one
  assembly overwrites all of them. One garbage word, as words are only copied.
* `VIEW LiveState` makes TLC identify states that differ in the leftovers of an
  abandoned assembly, which no step reads before they are assigned
  (`AssemblyConsistent`; proved). In `redsea` it also keeps of the messages only whether they are joined in
  order, and the variant and the calls only where the next block reads them.
* `PSSegments`, `RTSegments` (4 and 16): two segments have a first and a last one; a
  text may fill one or both. Groups without a counter behave like the settings.
* In `station_table` two segments of a name and three of a text: a text can end before,
  in and after the middle one. `HistoryLength` 1 (10): with one remembered text the
  prediction already goes wrong. `MinCount` -1 bounds the decay of a counter, which has no
  bound in the code. Names and texts share no variable but those of acceptance, so that a
  behaviour has the one or the other (`Services`).
* `MaxMessages` = 3 objects: an object in the dictionary, one that confirms,
  cancels or replaces it, and one in between. One place and class, because entries of
  different keys do not touch each other; one index, for the same reason.

* In `parser` a group with radiotext of 2A covers two pairs and of 2B one: four pairs have two
  segments of the one and room beyond the other. Names, texts and the other types share only the place
  of `parse()` and the panel, so that a behaviour has one kind of groups (`Services`); `reset()` and
  retuning belong to all of them. The group that is being handled stands for
  those on the way when the receiver is tuned. Dates are checked where they can go wrong, on the first
  and last days of months, in years with and without a leap day, from March 1900 to February 2100, the time
  for which the formula is made.
* In `tuner` a bin is as wide as with the 1024 bins of a 20 MHz receiver, so that all constants of the
  code keep their relation to it. Transmitters are 300, 500 and 800 kHz apart, near the lower end and
  near the carrier, and one can be strong enough to raise the mean above others. `VIEW BandView` keeps what the
  rest of a call and the next one depend on; the properties are about steps. What a call finds in a spectrum
  is computed once for each spectrum (`Heard`).

Deadlock is checked everywhere but in `crc`, which ends after one step.

### Fairness

* `FairLinkSpec`: bits keep arriving and the scheduler calls
  `work()` as long as there is input. That the errors stop is the premise of the
  property, not an assumption of the specification.
* `FairEncoderSpec`: a function that has been entered runs on; `d_mutex` is granted to a
  thread that asks for it again and again, and the sink keeps taking bits (strong
  fairness, as the mutex is free only from time to time). Commands are not fair.
* `FairParserSpec`: a handler that has been called runs on, and so does `reset()` (weak fairness); the
  station repeats every segment of what it sends and some repetition is received (strong fairness for each
  segment, as the parser is busy from time to time). That station and user become quiet is the premise of
  `ShowsStation`.
* Traffic messages, the station table and the tuner have safety properties only: a station need not send.
  That a name settles is said by counting what was received.

## 4. The theorems

All are for every value of the constants, under the named assumptions of the
modules. `CrcAssumption`: blocks have 26 bits, and bursts span two to five, the length
that the list of error vectors once was made for (`lib/rds_decoder_redsea_impl.cc:139`). `BlockBitsAssumption`, `WindowAssumption`, `UnsetAssumption`, `LinkAssumption`,
`RedseaAssumption`, `AlteredAssumption`: numbers are positive, the threshold is below the window, the words of the
station are not garbage, and neither are they those that correction makes of them. `MaxAssumption`, `AlertAssumption`, `SegmentsAssumption`, `BroadcastAssumption`,
`ParserAssumption`, `StationAssumption`: what stations send is well-formed; `FrequencyAssumption`: the codes
of a station are those of the frequencies it lists, unless the code before says that they are in LF or MF; `ClockAssumption`: dates lie between March 1900 and
February 2100, for which the formula is made. `TunerAssumption`: a streak has at least three bins (six in the code), without which one
may be found at index 0, which stands for no station; `BandAssumption`: there are finitely many
transmitters. `EncoderAssumption`: segment counts are positive and
the group types are different ones.

* `RdsLinkProofs`, the decoder on free input: the inductive invariant is `DecoderInv`: `TypeOK`, `AssemblyConsistent` and that
  all messages in `out` are sound. `TypeOK` is not inductive: that
  `group_good_blocks_counter` stays within 0..5 needs its relation to the block number,
  and that a published group is whole needs which blocks are stored (the members have
  no initial values). There is one lemma per operation; from
  them `TypeCorrect`, `AssemblyAlwaysConsistent`, `PublishedGroupsWellFormed`, and `DecoderServes`: under the
  invariant every operation is a step of `DecoderService` or changes nothing of it.
* `RdsLinkProofs`, second part: the decoder with correction is made of the same operations, so that their lemmas
  apply; `RedseaInv` adds that the variant bit is a bit, whatever `work()` finds in it (`RedseaServes`).
  Behind the channel, every bit is the operation that the decoder without correction would do on the
  words that correction leaves, so that the lemmas about operations carry over:
  `RedseaLinkImplements`, `RedseaLinkServes`, `RedseaRepeatsIdentical`. `RedseaJoinsInOrder` rests on
  `OrderInv`: the words of an assembly that are the station's, as sent or altered, stand where the
  same block A would have them, and that one is as far from the block on the way as the decoder's
  block number is from the first (`AssemblyStart`); decoder and station move on together (`BothMoveOn`), and a
  block that is in step is accepted in its own place only. `RedseaRepairs`
  rests on `RepairInv`: while a group arrives with nothing but short bursts and the decoder is in step,
  its blocks so far are stored, and while the third one arrives the variant bit is the one of its second
  word unless a call of `work()` has begun since. It needs no assumption on the calls.
* `RdsLinkProofs`, the decoder behind a station: `LinkImplementsDecoder`: every step of the link is a step of the decoder
  or none of its variables change; the invariants of the decoder and its service are inherited
  (`LinkServes`). `LinkTypeCorrect` adds the types of the station.
  `LinkLockNeverSlips` compares the two clocks step by step. `IntactGroupsPublished` rests on `IntactInv`: while
  a group has arrived intact so far, its blocks are those stored. `GroupsNeverMixed`
  rests on `JoinInv`: the stored words of an assembly that are the station's come from
  one group, which in an aligned or misaligned lock is the current one or the one
  before. `RepeatsIdentical` rests on `RepeatInv`: the bits since the last publication are
  at least those of the assembly in progress, so that a group that was assembled block by block ends a
  whole group later, and only the bad block A right after a group, which leaves the words as they are, is sooner.
* `CrcProofs`: the invariants of `RdsCrc` for every data word, where the run tries three; and
  `OneWordStandsForAll`, for any damage at all: which offset words a block shows does not depend on the data
  word, and what is read of it differs by just that word. The rounds of `calc_syndrome` are linear
  (`TakeBitsLinear`) and, as the polynomial has bit 0, lose nothing (`TakeBitInjective`). So the syndrome of a block is what
  ten rounds make of the difference between its check word and the computed one (`SyndromeOfBlock`), and
  the syndromes of `constants.h` are what they make of its offset words (`SyndromesAre`, round by round):
  `TestsAlwaysAgree`. A burst of up to `MaxSpan` bits (at most five) has a syndrome, as nothing is reduced before its last bit is in
  (`BurstShows`): `DamageAlwaysDetected`. What one bit, or two, leave in the register after each number of rounds,
  and before, is listed (`Marks`; `PowerIs` shows that the list is right). None of the
  values but the first is the beginning of a burst (`OrbitsAre`), so that no burst has the syndrome of a
  different error vector (`OneOrbit`): `NothingMiscorrected`; and the differences of two offset words that are
  in the list are those that `Mistaken` names (`MistakenIs`): `MistakesAlwaysListed`. `CrcInv`, which is
  inductive, says that the register holds the block and the damage.
* `EncoderProofs`: `EncoderInv` says who holds the mutex and that he has the rest of the cycle left to
  build, that the buffers before the current one are prepared, and that a buffer which is not up to
  date will be prepared again (`Renewed`): a thread that is writing a text has its rebuild before it.
  `EncoderTypeCorrect`, `PreparedSent` and `CurrentSent` follow. For `CyclesComplete`, `NumberInv` adds that the
  groups of a kind are numbered in their order from any segment on, modulo the number of segments:
  the counters are not reset by a rebuild, so where they begin is not known, only that a
  cycle has as many groups of a kind as it has segments. All of them rest on `ListingsAgree`:
  `count_groups()`, which determines how many buffers there are, and `rebuild()`, which creates the groups,
  list them with the same length. Both listings are recursive functions over the group types; that they
  satisfy their recursion, and what follows from it by induction, is derived in
  `NumberTheorems` from the least element of a set of numbers (`WFMin`), as the induction theorems of the library
  cannot be instantiated.
* `TmcProofs`: `TmcInv` has the types and `Assembled`: the count of a message tells which of its
  groups it has. `TmcTypeCorrect`, `GroupsInSequence` and `MessagesShownOnce` follow. `AlertInv` relates the alert
  on the air to the tables: if its first group was received it was shown with all its groups
  (`Done`), or the unfinished message of its index has its first groups, up to one that was not received yet
  (`Underway`). It is the reason for `IntactAlertsShown`, and for `MixedAfterLoss`: only a lost first group can
  leave the message of another alert there. `DictionaryAgrees` rests on `DictionaryInv`: the entry of each key
  is a place in the list with its key, from which on all messages say the same, and its
  confirmations, stations and cancellation are those of the list from there on. Each of the three things that
  `tmc_dict.add` does with a message has its lemma (`EntryConfirmed`, `EntryCancelled`, `EntryReplaced`).
* `StationProofs`: four inductive invariants. `NameInv` relates what was received of the name on
  the air to `PSN`: in the first round the segments that were received may have been lost again
  (a changed segment resets the others), after it nothing of another name is left, after the
  second one the name is complete and marked, and so was stored. `NamesNeverStale` and `NamesSettle` follow.
  `RowInv` adds the row of the data base (`RowsFollowNames`). `TextInv` is the same argument for
  marked segments of radiotexts; a predicted text is one of the remembered ones with the new
  segment in its place (`TextsNeverStale`), for which the maximum of a set of positions must be shown to be in
  it (`MaxMember`, by well-foundedness). `TextsSettle` adds `SettleInv`, the argument of `NameInv` with one round
  more: after two rounds the buffer is the text with all its marks, whatever it was before, and
  the third round, in which the end is found before the group is applied, stores it. `TableInv` has the other types (`TableTypeCorrect`):
  that a marked character is there needs the history of texts to hold whole texts only.
  `BroadcastAssumption` is that texts end with an end marker or fill all segments; what a segment
  is cut to at the marker (`Cut`) is any function.
* `ParserProofs`: `ParserTypeCorrect` from the type invariant and what is on the air.
  `FlushedWithoutRace` rests on `FlushInv`: unless `reset()` ever overlapped a group, between two groups the
  flag is that of the last one or the text is blank, and `reset()` clears the text before the flag.
  `FrequenciesListed` rests on `AFInv`: the band that is remembered is one of the two, and the codes of the
  group that is handled are those of a station; that they are converted with the right
  band is left to the code before them. `DatesRight` is about the calendar: the real numbers of the code are
  truncated quotients, months have their lengths if years are counted from March (`MonthsAre`), every fourth
  year has a leap day (`YearOf`, `LeapsAre`), and so the days up to the date that is displayed are the number that was
  received (`DateCounted`). `ClockInv` carries that to the groups being handled.
* `TunerProofs`: `StrongestReceived` holds for every spectrum. What is found is ascending (`StreakOK`,
  `GroupOK`: a streak lies above all those before it, and so does a group of joined ones), so that every
  station is listed once and no index is 0, which stands for a free decoder. The strongest ones are as many as there are
  decoders (`Ranks`), those that are kept where they are leave enough free slots for the others
  (`EnoughSlots`), and so each of them is written into one slot (`AssignedOnce`). Without that condition, a slot
  near a station keeps the last of those near it, and one that is left over has no new station behind it
  (`StaysOrHelpsIs`).

Only model-checked: liveness (`LocksUnlessOnCTag`, `EverySegmentSent`, `ShowsStation`), which is out of the
prover's reach; `StationsFound` and `SentToStation` of the tuner, which depend on how the
spectrum of the instance is made.

## 5. What is not modelled

* `lib/sync_decim_impl.cc`: signal processing. Its modes come to one: `dosync_counter` is incremented only in
  the branch that needs it to be 7 (line 110), so that COPY is never left and the block is a
  decimator by a constant.
* `lib/stream_router_impl.cc`, `python/stream_selector.py`: a message replaces the whole routing table, with a
  loop variable that has no initial value (line 98); no state spans two messages.
* The handlers of the station table for status messages, RT+ and other open data (3A and the groups it
  announces), and for the groups that keep the latest value only (1A, 4A, 6A); `PI_dict` of stations that are
  known, which only the details window reads. A decoder's status is attributed to the station it
  heard last (line 302), also after it was tuned elsewhere.
* What the tags of a complete traffic message do to the fields of its event (`add_group`, after the
  last group), and with it that a speed limit ends the decoding (`python/tmc_classes.py:636` calls a
  method that does not exist, and the error is caught); the metadata of group 3A, which is logged.
* Of the station table, a group that lists the tuned frequency twice, whose second INSERT raises
  (`python/rds_parser_table_qt.py:404`), and control codes in names, which `decode_chars` writes out in four
  characters each (line 1038).
* Of the parser, logging, and the texts of events and places of a group 8A.
* Of the tuner, the transform and its decibels, and all that `handle_ctrl_msg` would switch.
* Memory: `rebuild()` allocates without freeing, the lists of messages grow for ever.
* Counters and output of single values (`decoder_compare.py`, the printers, `pilot_SNR.py`), widgets,
  flow graphs, bindings and build files.
* The tables of events and places: `lib/tmc_events.h` and `lib/tmc_locations_italy.h` are 17 thousand of the
  21 thousand lines of the implementation and hold data only, which is why no model can stand for more
  than about a sixth of it. Of the C++ code that `lib/CMakeLists.txt` builds (both decoders, `sync_decim`,
  `stream_router`) everything but the last two is modelled; the encoder and the parser are modelled
  although they are not built there.

## 6. Plan

Done, in this order: `RdsFormat`, `RdsDecoder`, `RdsChannel` and `RdsLink` with their
proofs; `RedseaDecoder` and `RedseaLink`; `RdsCrc`; `RdsEncoder`; `TmcMessages` and `TmcBroadcast`;
`StationTable` and `StationBroadcast` with their proofs; `GroupParser` and `ParserBroadcast` with their
proofs; `DecoderService` and the proofs that both decoders implement it; `Tuner` and `TunerBand`; the proofs of
the traffic messages and the encoder; the proofs of the link with correction, of repeated groups, of radiotexts that
settle, of the dictionary, of alternative frequencies and dates; those of the tuner and of the block check.

What is left:

1. `StationsFound` and `SentToStation` for every spectrum in which the carriers rise enough above the mean:
   how a peak makes a streak, and the streak an index near its carrier.
2. Status messages and their attribution in `StationTable`, behind the messages of `DecoderService`;
   RT+ and open data.
3. The tags of a complete traffic message.

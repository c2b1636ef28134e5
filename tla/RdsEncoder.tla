------------------------------ MODULE RdsEncoder ------------------------------
(***************************************************************************)
(* The encoder of lib/encoder_impl.cc: it keeps one buffer of bits for      *)
(* every group of its cycle and sends the buffers round and round.  A       *)
(* command changes a parameter and then rebuilds all buffers.               *)
(*                                                                         *)
(* Two threads use it.  The thread of the block calls work() and, between   *)
(* two calls, rds_in() for a message; the thread of the user interface      *)
(* calls set_ps() (grc/rds_encoder.xml).  d_mutex guards rebuild() and      *)
(* work(), not the parameters: a text is written segment by segment while   *)
(* the other thread may read it.                                            *)
(*                                                                         *)
(* A buffer is represented by what was encoded into it, the 104 bits by the *)
(* four blocks.  PTY, TP, TA, MS, PI and AF1, which are set alike and go    *)
(* into the groups alike, are one parameter `settings`.                     *)
(***************************************************************************)
EXTENDS Integers, SequencesExt

CONSTANTS
    PSSegments,   \* segments of the programme service name: 4
    RTSegments,   \* segments of the radiotext: 16
    Kinds,        \* the group types that are set, in the order of `groups`
    Texts,        \* what a command may set a text to
    Settings,     \* ... and the other parameters
    Long,         \* the texts that fill a name; the others fill one segment
    Blank

Threads == {"block", "ui"}

ASSUME EncoderAssumption ==
    /\ PSSegments \in Nat \ {0} /\ RTSegments \in Nat \ {0}
    /\ Kinds \in Seq({"0A", "1A", "2A", "3A", "4A", "8A", "11A"}) /\ Kinds # <<>>
    /\ IsInjective(Kinds)
    /\ Long \subseteq Texts /\ Blank \notin Texts /\ Texts # {} /\ Settings # {}

VARIABLES
    PS, radiotext, settings,         \* the parameters
    buffer, nbuffers,                \* the buffers
    d_current_buffer,                \* the one being prepared or sent
    d_buffer_bit_counter,            \* in blocks
    d_g0_counter, d_g2_counter,      \* the next segments to be encoded
    count3a,                         \* the static `count` of prepare_group3a
    d_mutex,                         \* the thread that holds it, or "free"
    call,                            \* what each thread is doing
    sent                             \* what the last step sent, or Nothing

parameters == <<PS, radiotext, settings>>
counters == <<d_g0_counter, d_g2_counter, count3a>>
buffers == <<buffer, nbuffers, d_current_buffer, d_buffer_bit_counter>>
encoderVars == <<parameters, counters, buffers, d_mutex, call, sent>>

-----------------------------------------------------------------------------
Idle == [does |-> "nothing"]

\* Writing a text: segment `next` is written next; `rebuilds` follow.
Write(what, text, rebuilds) ==
    [does |-> "write", what |-> what, text |-> text, next |-> 0,
     blank |-> FALSE, rebuilds |-> rebuilds]
Rebuild(rebuilds) == [does |-> "rebuild", rebuilds |-> rebuilds]
Build(left, rebuilds) ==
    [does |-> "build", left |-> left, rebuilds |-> rebuilds]

Segments(what) == IF what = "PS" THEN PSSegments ELSE RTSegments
Filled(what, text) == IF text \in Long THEN Segments(what) ELSE 1

\* The groups of a cycle as rebuild() creates them ...
CreateCalls(kind) == CASE kind = "0A" -> PSSegments
                       [] kind = "2A" -> RTSegments
                       [] kind = "3A" -> 2
                       [] OTHER -> 1
\* ... and as count_groups() counts them.  (The mutant counts a group 3 once.)
MutantCounted(kind) == CASE kind = "0A" -> PSSegments
                         [] kind = "2A" -> RTSegments
                         [] OTHER -> 1
Counted(kind) == CASE kind = "0A" -> PSSegments
                   [] kind = "2A" -> RTSegments
                   [] kind = "3A" -> 2
                   [] OTHER -> 1

\* The listings of the groups of the first k kinds.
created[k \in 0 .. Len(Kinds)] ==
    IF k = 0 THEN <<>>
    ELSE created[k - 1] \o [n \in 1 .. CreateCalls(Kinds[k]) |-> Kinds[k]]
counted[k \in 0 .. Len(Kinds)] ==
    IF k = 0 THEN 0 ELSE counted[k - 1] + Counted(Kinds[k])

Cycle == created[Len(Kinds)]
count_groups == counted[Len(Kinds)]

\* How many groups of its own kind are before group n of the cycle.
Before(n) == Cardinality({i \in 1 .. n - 1 : Cycle[i] = Cycle[n]})

Empty == [kind |-> "empty"]
Nothing == [block |-> 0, of |-> [kind |-> "nothing"]]

\* What prepare_group* put into a group of this kind.
Content(kind, name, text, set, g0, g2, c3) ==
    CASE kind = "0A" -> [kind |-> kind, set |-> set, adr |-> g0, text |-> name[g0]]
      [] kind = "2A" -> [kind |-> kind, set |-> set, adr |-> g2, text |-> text[g2]]
      [] kind = "3A" -> [kind |-> kind, set |-> set, adr |-> c3]
      [] OTHER -> [kind |-> kind, set |-> set]

\* The constructor: all groups are prepared before the threads start.
EncoderInit ==
    \E t \in Long, s \in Settings :
        /\ PS = [k \in 0 .. PSSegments - 1 |-> t]
        /\ radiotext = [k \in 0 .. RTSegments - 1 |-> t]
        /\ settings = s
        /\ nbuffers = count_groups
        /\ buffer = [n \in 0 .. nbuffers - 1 |->
                        LET nth == Before(n + 1)
                        IN  Content(Cycle[n + 1], PS, radiotext, s, nth, nth, nth)]
        /\ d_current_buffer = 0 /\ d_buffer_bit_counter = 0
        /\ d_g0_counter = 0 /\ d_g2_counter = 0 /\ count3a = 0
        /\ d_mutex = "free"
        /\ call = [th \in Threads |-> Idle]
        /\ sent = Nothing

-----------------------------------------------------------------------------
(* Commands.  set_ps() of the user interface; rds_in() of the block, which  *)
(* calls set_ps() (and with it a first rebuild) or another setter and then  *)
(* rebuilds in any case.                                                    *)

SetPsCalled(text) ==
    /\ call["ui"] = Idle
    /\ call' = [call EXCEPT !["ui"] = Write("PS", text, 1)]
    /\ sent' = Nothing
    /\ UNCHANGED <<parameters, counters, buffers, d_mutex>>

RdsInText(what, text) ==
    /\ call["block"] = Idle
    /\ call' = [call EXCEPT !["block"] =
                    Write(what, text, IF what = "PS" THEN 2 ELSE 1)]
    /\ sent' = Nothing
    /\ UNCHANGED <<parameters, counters, buffers, d_mutex>>

\* Every command ends in a rebuild.  (The mutant forgets it.)
MutantAfterSetting == Idle
AfterSetting == Rebuild(1)

\* One of the other parameters; a value that is refused, or a command that is
\* not understood, leaves all of them alone.
RdsInSetting(value) ==
    /\ call["block"] = Idle
    /\ settings' = value
    /\ call' = [call EXCEPT !["block"] = AfterSetting]
    /\ sent' = Nothing
    /\ UNCHANGED <<PS, radiotext, counters, buffers, d_mutex>>

\* set_ps and set_radiotext: the whole text is filled with blanks, then the new
\* text is copied over it.
Step(what, text, k) == IF what = "PS" THEN [PS EXCEPT ![k] = text]
                                      ELSE [radiotext EXCEPT ![k] = text]

WriteSegment(th) ==
    /\ call[th].does = "write"
    /\ LET c == call[th]
           last == IF c.blank THEN Filled(c.what, c.text) ELSE Segments(c.what)
           written == Step(c.what, IF c.blank THEN c.text ELSE Blank, c.next)
       IN  /\ IF c.what = "PS" THEN PS' = written /\ UNCHANGED radiotext
                               ELSE radiotext' = written /\ UNCHANGED PS
           /\ call' = [call EXCEPT ![th] =
                  IF c.next + 1 < last THEN [c EXCEPT !.next = c.next + 1]
                  ELSE IF c.blank THEN Rebuild(c.rebuilds)
                  ELSE [c EXCEPT !.next = 0, !.blank = TRUE]]
    /\ sent' = Nothing
    /\ UNCHANGED <<settings, counters, buffers, d_mutex>>

-----------------------------------------------------------------------------
(* rebuild(), with d_mutex held.                                            *)

\* The buffers are counted and allocated.
RebuildStarts(th) ==
    /\ call[th].does = "rebuild" /\ d_mutex = "free"
    /\ d_mutex' = th
    /\ nbuffers' = count_groups
    /\ d_current_buffer' = 0
    /\ buffer' = [n \in 0 .. nbuffers' - 1 |-> Empty]
    /\ call' = [call EXCEPT ![th] = Build(Cycle, @.rebuilds)]
    /\ sent' = Nothing
    /\ UNCHANGED <<parameters, counters, d_buffer_bit_counter>>

\* The wrap of the segment counter of a group 0.  (The mutant wraps late.)
MutantNextG0 == IF d_g0_counter + 1 > PSSegments THEN 0 ELSE d_g0_counter + 1
NextG0 == IF d_g0_counter + 1 > PSSegments - 1 THEN 0 ELSE d_g0_counter + 1

\* create_group for the next group of the cycle.
CreateGroup(th) ==
    /\ call[th].does = "build" /\ call[th].left # <<>>
    /\ LET kind == Head(call[th].left)
       IN  /\ buffer' = [buffer EXCEPT ![d_current_buffer] =
                             Content(kind, PS, radiotext, settings,
                                     d_g0_counter, d_g2_counter, count3a)]
           /\ d_g0_counter' = IF kind = "0A" THEN NextG0 ELSE d_g0_counter
           /\ d_g2_counter' = IF kind = "2A" THEN (d_g2_counter + 1) % RTSegments
                              ELSE d_g2_counter
           /\ count3a' = IF kind = "3A" THEN (count3a + 1) % 2 ELSE count3a
    /\ d_current_buffer' = d_current_buffer + 1
    /\ call' = [call EXCEPT ![th].left = Tail(@)]
    /\ sent' = Nothing
    /\ UNCHANGED <<parameters, nbuffers, d_buffer_bit_counter, d_mutex>>

\* The position in the group that is being sent is kept.
RebuildEnds(th) ==
    /\ call[th].does = "build" /\ call[th].left = <<>>
    /\ d_current_buffer' = 0
    /\ d_mutex' = "free"
    /\ call' = [call EXCEPT ![th] = IF @.rebuilds > 1 THEN Rebuild(@.rebuilds - 1)
                                    ELSE Idle]
    /\ sent' = Nothing
    /\ UNCHANGED <<parameters, counters, buffer, nbuffers, d_buffer_bit_counter>>

-----------------------------------------------------------------------------
\* work() takes d_mutex.  (The mutant does not.)
MutantMayWork == call["block"] = Idle
MayWork == call["block"] = Idle /\ d_mutex = "free"

\* The buffer after the last bit of a group.  (The mutant counts one too few.)
MutantNextBuffer == (d_current_buffer + 1) % (IF nbuffers > 1 THEN nbuffers - 1 ELSE 1)
NextBuffer == (d_current_buffer + 1) % nbuffers

\* work() sends the next block of the current group.
Work ==
    /\ MayWork
    /\ sent' = [block |-> d_buffer_bit_counter, of |-> buffer[d_current_buffer]]
    /\ IF d_buffer_bit_counter + 1 > 3
       THEN d_buffer_bit_counter' = 0 /\ d_current_buffer' = NextBuffer
       ELSE d_buffer_bit_counter' = d_buffer_bit_counter + 1
            /\ UNCHANGED d_current_buffer
    /\ UNCHANGED <<parameters, counters, buffer, nbuffers, d_mutex, call>>

Commands ==
    \/ \E text \in Texts : SetPsCalled(text)
    \/ \E what \in {"PS", "RT"}, text \in Texts : RdsInText(what, text)
    \/ \E value \in Settings : RdsInSetting(value)

Proceed(th) == WriteSegment(th) \/ RebuildStarts(th) \/ CreateGroup(th)
               \/ RebuildEnds(th)

EncoderNext == Commands \/ Work \/ \E th \in Threads : Proceed(th)

EncoderSpec == EncoderInit /\ [][EncoderNext]_encoderVars

\* A call that has begun is carried on, the mutex is granted to the thread that
\* keeps asking for it, and the sink keeps taking bits.
FairEncoderSpec == /\ EncoderSpec
                   /\ SF_encoderVars(Work)
                   /\ \A th \in Threads : SF_encoderVars(Proceed(th))

-----------------------------------------------------------------------------
Contents ==
    LET Set == Range(Kinds)
        Text == Texts \cup {Blank}
    IN  [kind : Set \cap {"0A"}, set : Settings, adr : 0 .. PSSegments - 1, text : Text]
        \cup [kind : Set \cap {"2A"}, set : Settings, adr : 0 .. RTSegments - 1, text : Text]
        \cup [kind : Set \cap {"3A"}, set : Settings, adr : 0 .. 1]
        \cup [kind : Set \ {"0A", "2A", "3A"}, set : Settings]

\* The type of every variable: no counter ever points outside of its array
\* (the arrays are allocated from one listing of the groups and filled from
\* another one).
EncoderTypeOK ==
    /\ PS \in [0 .. PSSegments - 1 -> Texts \cup {Blank}]
    /\ radiotext \in [0 .. RTSegments - 1 -> Texts \cup {Blank}]
    /\ settings \in Settings
    /\ DOMAIN buffer = 0 .. nbuffers - 1
    /\ \A n \in DOMAIN buffer : buffer[n] \in Contents \cup {Empty}
    /\ d_buffer_bit_counter \in 0 .. 3
    /\ d_g0_counter \in 0 .. PSSegments - 1
    /\ d_g2_counter \in 0 .. RTSegments - 1
    /\ count3a \in 0 .. 1
    /\ d_mutex \in Threads \cup {"free"}
    /\ \A th \in Threads : (d_mutex = th) <=> (call[th].does = "build")
    /\ d_mutex = "free" \/ call[d_mutex].left # <<>>
           => d_current_buffer \in DOMAIN buffer

\* Whenever no buffer is being prepared, all of them have been: nothing is sent
\* that was never encoded, and the segment counters are back at the start, so
\* that every segment is in the cycle once, whatever interleaving of commands
\* has gone before.
CycleComplete ==
    d_mutex = "free" =>
        /\ \A n \in DOMAIN buffer : buffer[n].kind = Cycle[n + 1]
        /\ Len(Cycle) = nbuffers
        /\ \A n, p \in DOMAIN buffer :
               n # p /\ buffer[n].kind \in {"0A", "2A", "3A"}
               /\ buffer[n].kind = buffer[p].kind => buffer[n].adr # buffer[p].adr

\* When no command is being carried out, what is sent is what was set: the
\* parameters are written without the mutex, but each write is followed by a
\* rebuild of the thread that wrote.
BuffersCurrent ==
    (\A th \in Threads : call[th] = Idle) =>
        \A n \in DOMAIN buffer :
            /\ buffer[n].set = settings
            /\ buffer[n].kind = "0A" => buffer[n].text = PS[buffer[n].adr]
            /\ buffer[n].kind = "2A" => buffer[n].text = radiotext[buffer[n].adr]

\* Half-built buffers are never sent.
SentWasPrepared == sent.of # Empty

\* When no more commands come, every group of the cycle is sent again and
\* again, from its first block on.
EverySegmentSent ==
    <>[][~Commands]_encoderVars =>
        \A k \in {Kinds[i] : i \in DOMAIN Kinds} :
            \A a \in 0 .. CreateCalls(k) - 1 :
                []<>(/\ sent.block = 0 /\ sent.of.kind = k
                     /\ k \in {"0A", "2A", "3A"} => sent.of.adr = a)
=============================================================================

----------------------------- MODULE TmcMessages -----------------------------
(***************************************************************************)
(* How traffic messages (TMC, Alert-C) are put together and kept:           *)
(* python/tmc_parser.py handle_msg, and tmc_message and tmc_dict of         *)
(* python/tmc_classes.py.                                                   *)
(*                                                                         *)
(* A message is one group, or a first group and one to four further ones    *)
(* that are told apart by a continuity index only and are put together by   *)
(* a count that runs down.  The object of a message exists, and is in the   *)
(* dictionary, from its first group on.                                     *)
(*                                                                         *)
(* The objects are the entries of message_list, which every new object is   *)
(* appended to; the dictionary, the table of unfinished messages and the    *)
(* display refer to them by their index, 0 being no object.                 *)
(*                                                                         *)
(* The words of a first (or single) group are represented by `first`, which *)
(* is also their hash, and by what is read from them.  The bits of a        *)
(* further group are represented by the alert they belong to, and a         *)
(* complete message by the groups in it: what their tags say of the event   *)
(* (mgm_list) is read from them when the last one has come.                 *)
(***************************************************************************)
EXTENDS Integers, SequencesExt

CONSTANTS
    Stations,     \* the values of PI
    Locations,    \* location codes (lcn)
    Classes,      \* update classes
    Indices,      \* continuity indices (ci)
    MaxMessages   \* bound: objects created

ASSUME MaxAssumption == MaxMessages \in Nat

VARIABLES
    message_list,          \* tmc_dict.message_list
    messages,              \* tmc_dict.messages
    unfinished_messages,
    shown,                 \* the messages in the order they were printed
    TMC                    \* the table of the data base

tmcVars == <<message_list, messages, unfinished_messages, shown, TMC>>

None == 0
Objects == 1 .. Len(message_list)

TmcInit ==
    /\ message_list = <<>>
    /\ messages = [key \in Locations \X Classes |-> None]
    /\ unfinished_messages = [PI \in Stations |-> [ci \in Indices |-> None]]
    /\ shown = <<>>
    /\ TMC = {}

-----------------------------------------------------------------------------
\* tmc_message.__init__, for the words of a first or of a single group.
tmc_message(PI, words) ==
    [PI |-> PI, PIs |-> {PI}, confirmations |-> 1, cancelled |-> FALSE,
     hash |-> words.first, key |-> words.key, cancels |-> words.cancels,
     is_single |-> words.is_single, ci |-> words.ci,
     is_complete |-> words.is_single, second |-> FALSE, length |-> 0, count |-> 0,
     data_arr |-> <<>>]

\* The test for a repeated message.  (The mutant never finds one.)
MutantSameMessage(old, msg) == FALSE
SameMessage(old, msg) == old.hash = msg.hash

\* tmc_dict.add: the new object is number n of `list`.  It cancels, confirms or
\* replaces the object that the dictionary has for its location and class.
add(msg) ==
    LET list == Append(message_list, msg)
        n == Len(list)
        old == messages[msg.key]
        store == [messages EXCEPT ![msg.key] = n]
    IN  \/ /\ msg.cancels /\ old # None
           /\ message_list' = [list EXCEPT ![old].cancelled = TRUE]
           /\ UNCHANGED messages
        \/ /\ ~msg.cancels /\ old # None /\ SameMessage(message_list[old], msg)
           /\ message_list' = [list EXCEPT ![old].confirmations = @ + 1,
                                           ![old].PIs = @ \cup {msg.PI}]
           /\ UNCHANGED messages
        \/ /\ old # None => ~msg.cancels /\ ~SameMessage(message_list[old], msg)
           /\ message_list' = list /\ messages' = store

\* print_tmc_msg for object n.  Cancellations are not stored.  The statement
\* binds the station to the column `hash` and the hash to the column `PI`;
\* lcn, updateclass and hash are the primary key.
print_tmc_msg(n, msg) ==
    /\ shown' = Append(shown, n)
    /\ TMC' = LET row == [key |-> msg.key, hash |-> msg.PI, PI |-> msg.hash]
              IN  IF msg.cancels THEN TMC
                  ELSE {r \in TMC : <<r.key, r.hash>> # <<row.key, row.hash>>} \cup {row}

-----------------------------------------------------------------------------
(* tmc_message.add_group.                                                   *)

\* The second group tells the number of those that follow; a repetition of it
\* does not start the count again.  (The mutant does.)
MutantCountStarts(msg, group) == group.sg
CountStarts(msg, group) == group.sg /\ ~msg.second

\* Before the second group there is no count, and no group is in sequence.
\* (The mutant takes a group although one is missing before it.)
MutantInSequence(msg, group) == msg.second /\ group.gsi <= msg.count
InSequence(msg, group) == msg.second /\ group.gsi = msg.count

add_group(msg, group) ==
    LET counted == IF CountStarts(msg, group)
                   THEN [msg EXCEPT !.second = TRUE, !.length = group.gsi,
                                    !.count = group.gsi]
                   ELSE msg
        taken == [counted EXCEPT !.data_arr = Append(@, group), !.count = @ - 1]
    IN  IF ~InSequence(counted, group) THEN counted
        ELSE [taken EXCEPT !.is_complete = (counted.count = 0)]

-----------------------------------------------------------------------------
(* handle_msg, for the groups that carry messages.                          *)

SingleGroup(PI, words) ==
    LET msg == tmc_message(PI, words)
    IN  /\ words.is_single
        /\ Len(message_list) < MaxMessages
        /\ add(msg)
        /\ print_tmc_msg(Len(message_list) + 1, msg)
        /\ UNCHANGED unfinished_messages

\* The first group of a message takes the place of an unfinished one with its
\* index.  (The mutant keeps the unfinished one.)
MutantBegin(PI, ci, n) ==
    [unfinished_messages EXCEPT ![PI][ci] = IF @ = None THEN n ELSE @]
Begin(PI, ci, n) == [unfinished_messages EXCEPT ![PI][ci] = n]

FirstGroup(PI, words) ==
    /\ ~words.is_single
    /\ Len(message_list) < MaxMessages
    /\ add(tmc_message(PI, words))
    /\ unfinished_messages' = Begin(PI, words.ci, Len(message_list) + 1)
    /\ UNCHANGED <<shown, TMC>>

\* A finished message is deleted.  (The mutant forgets to.)
MutantFinish(PI, ci) == unfinished_messages
Finish(PI, ci) == [unfinished_messages EXCEPT ![PI][ci] = None]

FurtherGroup(PI, group) ==
    LET n == unfinished_messages[PI][group.ci]
    IN  /\ n # None
        /\ message_list' = [message_list EXCEPT ![n] = add_group(@, group)]
        /\ IF message_list'[n].is_complete
           THEN /\ print_tmc_msg(n, message_list'[n])
                /\ unfinished_messages' = Finish(PI, message_list[n].ci)
           ELSE UNCHANGED <<shown, TMC, unfinished_messages>>
        /\ UNCHANGED messages

\* The first group was not received: the group is discarded.
DiscardedGroup(PI, group) ==
    /\ unfinished_messages[PI][group.ci] = None
    /\ UNCHANGED tmcVars

-----------------------------------------------------------------------------
\* The type of the variables.  An unfinished message is what its name says, and
\* it is in the table under its own station and index.
TmcTypeOK ==
    /\ Len(message_list) <= MaxMessages
    /\ \A n \in Objects :
           LET m == message_list[n]
           IN  /\ m.PI \in Stations /\ m.PIs \subseteq Stations
               /\ m.key \in Locations \X Classes
               /\ m.confirmations \in 1 .. MaxMessages
               /\ m.length \in 0 .. 3 /\ m.count \in -1 .. 3
    /\ messages \in [Locations \X Classes -> Objects \cup {None}]
    /\ unfinished_messages \in [Stations -> [Indices -> Objects \cup {None}]]
    /\ shown \in Seq(Objects)
    /\ \A PI \in Stations, ci \in Indices :
           LET n == unfinished_messages[PI][ci]
           IN  n # None => /\ ~message_list[n].is_complete
                           /\ message_list[n].PI = PI /\ message_list[n].ci = ci

\* Whatever groups are lost, repeated or taken from another message, a complete
\* message has exactly the groups that its second one announced, each once and
\* in their order (add_group).
CompleteInSequence ==
    \A n \in Objects :
        LET m == message_list[n]
        IN  m.is_complete /\ ~m.is_single =>
                /\ Len(m.data_arr) = m.length + 1
                /\ \A i \in DOMAIN m.data_arr : m.data_arr[i].gsi = m.length + 1 - i
                /\ m.data_arr[1].sg

\* Every complete message is printed, once, and no other one is.
ShownOnce ==
    /\ \A n \in Objects : message_list[n].is_complete <=> n \in ToSet(shown)
    /\ IsInjective(shown)

\* The dictionary agrees with the list of all messages: the object it has for a
\* location and class was the last to differ from the one before it, counts
\* those that repeated it since, knows their stations, and is cancelled if and
\* only if a cancellation has come since (tmc_dict.add).
DictionaryMatchesList ==
    \A key \in Locations \X Classes :
        LET Here == {n \in Objects : message_list[n].key = key}
            n == messages[key]
            e == message_list[n]
            Announced == {i \in Here : ~message_list[i].cancels}
            Since == {i \in Announced : i >= n}
            Before == Announced \ Since
        IN  IF n = None THEN Here = {}
            ELSE /\ e.key = key
                 /\ e.cancelled <=> \E i \in Here : i > n /\ message_list[i].cancels
                 /\ \A i \in Since : message_list[i].hash = e.hash
                 /\ Before # {} => message_list[Max(Before)].hash # e.hash
                 /\ ~e.cancels => /\ e.confirmations = Cardinality(Since)
                                  /\ e.PIs = {message_list[i].PI : i \in Since}
                 /\ e.cancels => Announced = {} /\ n = Min(Here)
=============================================================================

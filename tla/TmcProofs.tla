------------------------------ MODULE TmcProofs ------------------------------
(***************************************************************************)
(* Proofs about TmcBroadcast, the traffic messages of any stations, groups  *)
(* of which are repeated and lost in any way: how messages are put together *)
(* and shown, for every number of messages, stations and indices.           *)
(***************************************************************************)
EXTENDS TmcBroadcast, NumberTheorems

Firsts == {a.first : a \in AlertSet}
Keys == Locations \X Classes
GroupSet == [of : AlertSet, ci : Indices, sg : BOOLEAN, gsi : 0 .. 3]
MessageSet ==
    [PI : Stations, PIs : SUBSET Stations, confirmations : Nat, cancelled : BOOLEAN,
     hash : Firsts, key : Keys, cancels : BOOLEAN, is_single : BOOLEAN,
     ci : Indices, is_complete : BOOLEAN, second : BOOLEAN, length : 0 .. 3,
     count : -1 .. 3, data_arr : Seq(GroupSet)]

\* What the stations send.
SendingOK ==
    /\ alert \in [Stations -> AlertSet]
    /\ \A PI \in Stations : alert[PI] \in Alerts[PI]
    /\ position \in [Stations -> 0 .. 4]
    /\ heard \in [Stations -> SUBSET (0 .. 4)]
    /\ \A PI \in Stations :
           /\ position[PI] <= alert[PI].further
           /\ heard[PI] \subseteq 0 .. position[PI]
    /\ firstLost \in [Stations -> SUBSET Indices]

\* The count of a message tells how many of its groups it has: the first ones of
\* those that were announced.
Assembled(m) ==
    /\ ~m.second => m.data_arr = <<>>
    /\ m.second =>
           /\ Len(m.data_arr) > 0 /\ m.data_arr[1].sg
           /\ Len(m.data_arr) = m.length - m.count
           /\ \A i \in 1 .. Len(m.data_arr) : m.data_arr[i].gsi = m.length + 1 - i
    /\ m.is_complete <=> m.is_single \/ (m.second /\ m.count = -1)
    /\ m.is_single => m.data_arr = <<>>

TablesOK ==
    /\ message_list \in Seq(MessageSet)
    /\ Len(message_list) <= MaxMessages
    /\ \A n \in Objects :
           message_list[n].confirmations \in 1 .. (Len(message_list) - n + 1)
    /\ messages \in [Keys -> Objects \cup {None}]
    /\ unfinished_messages \in [Stations -> [Indices -> Objects \cup {None}]]
    /\ \A PI \in Stations, ci \in Indices :
           LET n == unfinished_messages[PI][ci]
           IN  n # None => /\ ~message_list[n].is_complete
                           /\ message_list[n].PI = PI /\ message_list[n].ci = ci

ShownOK ==
    /\ shown \in Seq(Objects)
    /\ ShownOnce

TmcInv ==
    /\ SendingOK /\ TablesOK /\ ShownOK
    /\ \A n \in Objects : Assembled(message_list[n])

-----------------------------------------------------------------------------
LEMMA AlertIs ==
    ASSUME NEW PI \in Stations, NEW a \in Alerts[PI]
    PROVE  /\ a \in AlertSet /\ a.key \in Keys /\ a.cancels \in BOOLEAN
           /\ a.ci \in Indices /\ a.further \in 0 .. 4 /\ a.first \in Firsts
  <1>1. a \in AlertSet
    BY AlertAssumption DEF AlertSet, Range
  <1> QED  BY <1>1, AlertAssumption DEF Keys, Firsts

LEMMA SendingInvariant == BroadcastSpec => []SendingOK
  <1>1. BroadcastInit => SendingOK
    <2> SUFFICES ASSUME BroadcastInit PROVE SendingOK
      OBVIOUS
    <2>1. \A PI \in Stations : alert[PI].further \in 0 .. 4
      BY AlertIs DEF BroadcastInit
    <2> QED  BY <2>1 DEF BroadcastInit, SendingOK
  <1>2. SendingOK /\ [BroadcastNext]_broadcastVars => SendingOK'
    <2> SUFFICES ASSUME SendingOK, [BroadcastNext]_broadcastVars PROVE SendingOK'
      OBVIOUS
    <2> USE DEF SendingOK
    <2>1. ASSUME NEW PI \in Stations, ReceiveFirst(PI) PROVE SendingOK'
      BY <2>1 DEF ReceiveFirst
    <2>2. ASSUME NEW PI \in Stations, ReceiveFurther(PI) PROVE SendingOK'
      BY <2>2 DEF ReceiveFurther
    <2>3. ASSUME NEW PI \in Stations, NextGroup(PI) PROVE SendingOK'
      <3>1. alert[PI].further \in 0 .. 4 /\ alert[PI].ci \in Indices
        BY AlertIs
      <3>2. firstLost' \in [Stations -> SUBSET Indices]
        BY <2>3, <3>1 DEF NextGroup
      <3> QED  BY <2>3, <3>1, <3>2 DEF NextGroup
    <2>4. ASSUME NEW PI \in Stations, NextAlert(PI) PROVE SendingOK'
      <3>1. PICK a \in Alerts[PI] : alert' = [alert EXCEPT ![PI] = a]
        BY <2>4 DEF NextAlert
      <3>2. a \in AlertSet /\ a.further \in 0 .. 4
        BY AlertIs
      <3> QED  BY <2>4, <3>1, <3>2 DEF NextAlert
    <2>5. CASE UNCHANGED broadcastVars
      BY <2>5 DEF broadcastVars
    <2> QED  BY <2>1, <2>2, <2>3, <2>4, <2>5 DEF BroadcastNext
  <1> QED  BY <1>1, <1>2, PTL DEF BroadcastSpec

-----------------------------------------------------------------------------
(* What a group does to the objects.                                        *)

\* The parts of a message that the messages after it do not change.
Kept(m, k) ==
    /\ k.PI = m.PI /\ k.hash = m.hash /\ k.key = m.key /\ k.cancels = m.cancels
    /\ k.is_single = m.is_single /\ k.ci = m.ci /\ k.is_complete = m.is_complete
    /\ k.second = m.second /\ k.length = m.length /\ k.count = m.count
    /\ k.data_arr = m.data_arr

LEMMA KeptAssembled ==
    ASSUME NEW m, NEW k, Kept(m, k), Assembled(m)
    PROVE  Assembled(k)
  BY DEF Kept, Assembled

Added(msg) ==
    /\ message_list' \in Seq(MessageSet)
    /\ Len(message_list') = Len(message_list) + 1
    /\ message_list'[Len(message_list) + 1] = msg
    /\ \A n \in Objects :
           /\ Kept(message_list[n], message_list'[n])
           /\ message_list'[n].confirmations \in 1 .. (Len(message_list') - n + 1)
    /\ messages' \in [Keys -> 1 .. (Len(message_list) + 1) \cup {None}]

LEMMA AddAdds ==
    ASSUME TablesOK, NEW msg \in MessageSet, add(msg)
    PROVE  Added(msg)
  <1> DEFINE list == Append(message_list, msg)
             n == Len(message_list) + 1
             old == messages[msg.key]
  <1>1. /\ list \in Seq(MessageSet) /\ Len(list) = n /\ list[n] = msg
        /\ \A i \in Objects : list[i] = message_list[i]
        /\ n \in Nat /\ n \in 1 .. n /\ Objects = 1 .. (n - 1)
    BY DEF TablesOK, Objects
  <1>2. \A i \in Objects : message_list[i] \in MessageSet
                           /\ message_list[i].confirmations \in 1 .. (n - i)
    BY DEF TablesOK, Objects
  <1>3. msg.key \in Keys /\ old \in Objects \cup {None} /\ msg.PI \in Stations
    BY DEF TablesOK, MessageSet
  <1>4. messages \in [Keys -> 1 .. n \cup {None}]
    BY <1>1 DEF TablesOK, Objects
  <1>x. \A i \in Objects : Kept(list[i], list[i]) /\ list[i] = message_list[i]
                           /\ list[i].confirmations \in 1 .. (n - i + 1)
    BY <1>1, <1>2 DEF Objects, Kept
  <1> HIDE DEF list, n, old
  <1>m. ASSUME old # None, NEW m \in MessageSet, Kept(list[old], m),
               m.confirmations \in 1 .. (n - old + 1),
               message_list' = [list EXCEPT ![old] = m], UNCHANGED messages
        PROVE  Added(msg)
    <2>1. old \in Objects /\ old # n /\ old \in 1 .. n
      BY <1>1, <1>3, <1>m
    <2>2. [list EXCEPT ![old] = m] \in Seq(MessageSet)
          /\ Len([list EXCEPT ![old] = m]) = n
      BY <1>1, <2>1, <1>m
    <2>3. /\ message_list' \in Seq(MessageSet) /\ Len(message_list') = n
          /\ message_list'[n] = msg /\ message_list'[old] = m
          /\ \A i \in Objects \ {old} : message_list'[i] = list[i]
      BY <1>1, <2>1, <1>m, <2>2
    <2> QED  BY <1>1, <1>x, <1>4, <1>m, <2>1, <2>3 DEF Added, n
  <1>o. ASSUME old # None
        PROVE  /\ list[old] \in MessageSet /\ list[old].confirmations \in 1 .. (n - old)
               /\ old \in Nat /\ n - old \in Nat /\ old \in 1 .. n
    BY <1>1, <1>2, <1>3, <1>o
  <1>5. CASE /\ old # None
             /\ message_list' = [list EXCEPT ![old].cancelled = TRUE]
             /\ UNCHANGED messages
    <2> DEFINE m == [list[old] EXCEPT !.cancelled = TRUE]
    <2>1. m \in MessageSet /\ Kept(list[old], m)
      BY <1>o, <1>5 DEF MessageSet, Kept
    <2>2. m.confirmations \in 1 .. (n - old + 1)
      <3>1. m.confirmations = list[old].confirmations
        BY <1>o, <1>5 DEF MessageSet
      <3> QED  BY <3>1, <1>o, <1>1, <1>5
    <2>3. message_list' = [list EXCEPT ![old] = m]
      BY <1>1, <1>5, <1>o
    <2> QED  BY <1>m, <1>5, <2>1, <2>2, <2>3
  <1>6. CASE /\ old # None
             /\ message_list' = [list EXCEPT ![old].confirmations = @ + 1,
                                             ![old].PIs = @ \cup {msg.PI}]
             /\ UNCHANGED messages
    <2> DEFINE m == [list[old] EXCEPT !.confirmations = @ + 1, !.PIs = @ \cup {msg.PI}]
    <2>1. m \in MessageSet /\ Kept(list[old], m)
      <3>1. /\ list[old] \in MessageSet
            /\ list[old].confirmations + 1 \in Nat
            /\ list[old].PIs \cup {msg.PI} \in SUBSET Stations
        BY <1>o, <1>3, <1>6 DEF MessageSet
      <3> HIDE DEF m
      <3>2. m = [list[old] EXCEPT !.confirmations = list[old].confirmations + 1,
                                  !.PIs = list[old].PIs \cup {msg.PI}]
        BY DEF m
      <3>3. m \in MessageSet
        BY <3>1, <3>2 DEF MessageSet
      <3> QED  BY <3>1, <3>2, <3>3 DEF MessageSet, Kept
    <2>2. m.confirmations \in 1 .. (n - old + 1)
      <3>1. m.confirmations = list[old].confirmations + 1
        BY <1>o, <1>6 DEF MessageSet
      <3> QED  BY <3>1, <1>o, <1>1, <1>6
    <2>3. message_list' = [list EXCEPT ![old] = m]
      BY <1>1, <1>6, <1>o
    <2> QED  BY <1>m, <1>6, <2>1, <2>2, <2>3
  <1>7. CASE message_list' = list /\ messages' = [messages EXCEPT ![msg.key] = n]
    <2>1. messages' \in [Keys -> 1 .. n \cup {None}]
      BY <1>1, <1>3, <1>4, <1>7
    <2> QED  BY <1>1, <1>x, <1>7, <2>1 DEF Added, n
  <1> QED  BY <1>1, <1>5, <1>6, <1>7 DEF add, list, n, old

LEMMA NewMessage ==
    ASSUME NEW PI \in Stations, NEW a \in Alerts[PI]
    PROVE  LET msg == tmc_message(PI, Words(a))
           IN  /\ msg \in MessageSet /\ Assembled(msg)
               /\ msg.PI = PI /\ msg.hash = a.first /\ msg.ci = a.ci
               /\ msg.confirmations = 1 /\ ~msg.second /\ msg.data_arr = <<>>
               /\ msg.is_complete = (a.further = 0)
               /\ msg.is_single = (a.further = 0)
  BY AlertIs DEF tmc_message, Words, MessageSet, Assembled

\* The group is the next one of the message.
Takes(m, g) == IF m.second THEN g.gsi = m.count ELSE g.sg

LEMMA AddGroupTakes ==
    ASSUME NEW m \in MessageSet, NEW g \in GroupSet, Assembled(m), ~m.is_complete
    PROVE  LET k == add_group(m, g)
           IN  /\ ~Takes(m, g) => k = m
               /\ Takes(m, g) =>
                      k = [m EXCEPT !.second = TRUE,
                                    !.length = IF m.second THEN m.length ELSE g.gsi,
                                    !.count = g.gsi - 1,
                                    !.data_arr = Append(m.data_arr, g),
                                    !.is_complete = (g.gsi = 0)]
  <1>1. CASE ~m.second /\ g.sg
    <2> DEFINE c == [m EXCEPT !.second = TRUE, !.length = g.gsi, !.count = g.gsi]
               t == [c EXCEPT !.data_arr = Append(c.data_arr, g), !.count = c.count - 1]
    <2>0. g.gsi \in 0 .. 3 /\ g.gsi \in -1 .. 3
      BY DEF GroupSet
    <2>1. /\ c \in MessageSet /\ c.second /\ c.count = g.gsi
          /\ c.data_arr = m.data_arr
      BY <2>0 DEF MessageSet
    <2>2. add_group(m, g) = [t EXCEPT !.is_complete = (c.count = 0)]
      BY <1>1, <2>1 DEF add_group, CountStarts, InSequence
    <2> QED  BY <1>1, <2>1, <2>2 DEF Takes, MessageSet
  <1>2. CASE ~m.second /\ ~g.sg
    BY <1>2 DEF add_group, CountStarts, InSequence, Takes
  <1>3. CASE m.second
    BY <1>3 DEF add_group, CountStarts, InSequence, Takes, MessageSet
  <1> QED  BY <1>1, <1>2, <1>3 DEF MessageSet, GroupSet

LEMMA TakenAssembled ==
    ASSUME NEW m \in MessageSet, NEW g \in GroupSet, Assembled(m), ~m.is_complete,
           Takes(m, g)
    PROVE  LET k == add_group(m, g)
           IN  /\ k \in MessageSet /\ Assembled(k)
               /\ k.PI = m.PI /\ k.hash = m.hash /\ k.ci = m.ci
               /\ k.confirmations = m.confirmations
               /\ k.second /\ k.count = g.gsi - 1
               /\ k.data_arr = Append(m.data_arr, g)
               /\ k.is_complete = (g.gsi = 0)
  <1> DEFINE k == add_group(m, g)
             d == Append(m.data_arr, g)
             l == IF m.second THEN m.length ELSE g.gsi
  <1>1. /\ g.gsi \in 0 .. 3 /\ g.gsi - 1 \in -1 .. 3 /\ l \in 0 .. 3
        /\ d \in Seq(GroupSet) /\ (g.gsi = 0) \in BOOLEAN
        /\ m.data_arr \in Seq(GroupSet) /\ Len(m.data_arr) \in Nat
        /\ m.count \in -1 .. 3 /\ m.length \in 0 .. 3
    BY DEF MessageSet, GroupSet
  <1>2. k = [m EXCEPT !.second = TRUE, !.length = l, !.count = g.gsi - 1,
                      !.data_arr = d, !.is_complete = (g.gsi = 0)]
    BY AddGroupTakes
  <1>3. ~m.is_single
    BY DEF Assembled
  <1>4. /\ Len(d) > 0 /\ d[1].sg
        /\ Len(d) = l - (g.gsi - 1)
        /\ \A i \in 1 .. Len(d) : d[i].gsi = l + 1 - i
    <2>1. CASE m.second
      <3>1. /\ Len(m.data_arr) > 0 /\ m.data_arr[1].sg /\ g.gsi = m.count
            /\ Len(m.data_arr) = m.length - m.count /\ l = m.length
            /\ \A i \in 1 .. Len(m.data_arr) : m.data_arr[i].gsi = m.length + 1 - i
        BY <2>1 DEF Assembled, Takes
      <3>2. /\ Len(d) = Len(m.data_arr) + 1 /\ d[Len(d)] = g
            /\ \A i \in 1 .. Len(m.data_arr) : d[i] = m.data_arr[i]
        BY <1>1
      <3>3. Len(m.data_arr) >= 1
        BY <1>1, <3>1
      <3>4. Len(d) > 0
        BY <1>1, <3>2, <3>3
      <3> HIDE DEF d, l
      <3>n. /\ Len(m.data_arr) \in Nat /\ m.length \in Nat /\ m.count \in Int
            /\ g.gsi \in Int /\ l \in Nat /\ Len(d) \in Nat
        BY <1>1, <3>2
      <3>a. d[1] = m.data_arr[1]
        BY <3>2, <3>3, <3>n
      <3>5. d[1].sg /\ Len(d) = l - (g.gsi - 1)
        BY <3>1, <3>2, <3>n, <3>a
      <3>6. \A i \in 1 .. Len(d) : d[i].gsi = l + 1 - i
        <4> SUFFICES ASSUME NEW i \in 1 .. Len(d) PROVE d[i].gsi = l + 1 - i
          OBVIOUS
        <4>1. CASE i \in 1 .. Len(m.data_arr)
          BY <3>1, <3>2, <4>1
        <4>2. CASE i = Len(d)
          <5>1. d[i] = g /\ l + 1 - i = g.gsi
            BY <3>1, <3>2, <3>n, <3>5, <4>2
          <5> QED  BY <5>1
        <4> QED  BY <3>n, <3>2, <4>1, <4>2
      <3> QED  BY <3>4, <3>5, <3>6
    <2>2. CASE ~m.second
      <3>1. m.data_arr = <<>> /\ g.sg /\ l = g.gsi
        BY <2>2 DEF Assembled, Takes
      <3>2. Len(d) = 1 /\ d[1] = g
        BY <3>1
      <3> HIDE DEF d, l
      <3>3. \A i \in 1 .. Len(d) : i = 1
        BY <3>2
      <3> QED  BY <1>1, <3>1, <3>2, <3>3
    <2> QED  BY <2>1, <2>2 DEF MessageSet
  <1> HIDE DEF d, l, k
  <1>5. k \in MessageSet
    BY <1>1, <1>2 DEF MessageSet
  <1>6. /\ k.second = TRUE /\ k.length = l /\ k.count = g.gsi - 1
        /\ k.data_arr = d /\ k.is_complete = (g.gsi = 0)
        /\ k.PI = m.PI /\ k.hash = m.hash /\ k.ci = m.ci
        /\ k.confirmations = m.confirmations /\ k.is_single = m.is_single
    BY <1>2 DEF MessageSet
  <1>7. (g.gsi = 0) <=> (g.gsi - 1 = -1)
    BY <1>1
  <1>8. Assembled(k)
    BY <1>3, <1>4, <1>6, <1>7 DEF Assembled
  <1> QED  BY <1>5, <1>6, <1>8 DEF k, d

\* What a station sends can be added.
LEMMA GroupIs ==
    ASSUME SendingOK, NEW PI \in Stations, position[PI] > 0
    PROVE  LET a == alert[PI]
               p == position[PI]
               g == Group(a, p)
           IN  /\ a \in AlertSet /\ a.ci \in Indices /\ a.further \in 0 .. 4
               /\ p \in 1 .. a.further
               /\ g \in GroupSet /\ g.of = a /\ g.ci = a.ci /\ g.sg = (p = 1)
               /\ g.gsi = a.further - p
  <1>1. /\ alert[PI] \in AlertSet /\ alert[PI].ci \in Indices
        /\ alert[PI].further \in 0 .. 4 /\ position[PI] \in 0 .. 4
        /\ position[PI] <= alert[PI].further
    BY AlertIs DEF SendingOK
  <1>2. position[PI] \in 1 .. alert[PI].further
        /\ alert[PI].further - position[PI] \in 0 .. 3
    BY <1>1
  <1> QED  BY <1>1, <1>2 DEF Group, GroupSet

-----------------------------------------------------------------------------
(* The invariant.                                                           *)

LEMMA ShownAppended ==
    ASSUME NEW S, NEW s \in Seq(S), NEW x \in S
    PROVE  /\ Append(s, x) \in Seq(S)
           /\ ToSet(Append(s, x)) = ToSet(s) \cup {x}
           /\ IsInjective(s) /\ x \notin ToSet(s) => IsInjective(Append(s, x))
  <1> DEFINE t == Append(s, x)
  <1>1. /\ t \in Seq(S) /\ Len(s) \in Nat /\ DOMAIN s = 1 .. Len(s)
        /\ DOMAIN t = 1 .. (Len(s) + 1) /\ t[Len(s) + 1] = x
        /\ \A i \in 1 .. Len(s) : t[i] = s[i]
    OBVIOUS
  <1>2. DOMAIN t = DOMAIN s \cup {Len(s) + 1}
    BY <1>1
  <1> HIDE DEF t
  <1>3. ToSet(t) = ToSet(s) \cup {x}
    BY <1>1, <1>2 DEF ToSet
  <1>4. ASSUME IsInjective(s), x \notin ToSet(s) PROVE IsInjective(t)
    <2>1. \A i \in DOMAIN s : t[i] = s[i] /\ t[i] # x
      BY <1>1, <1>4 DEF ToSet
    <2> QED  BY <1>1, <1>2, <1>4, <2>1 DEF IsInjective
  <1> QED  BY <1>1, <1>3, <1>4 DEF t

\* A first or single group: the new message is the last one, and the others keep
\* what the invariant is about.
LEMMA AddedKeeps ==
    ASSUME TmcInv, NEW PI \in Stations, NEW a \in Alerts[PI],
           Added(tmc_message(PI, Words(a))), Len(message_list) < MaxMessages
    PROVE  LET n == Len(message_list) + 1
           IN  /\ n \in Nat /\ n \notin Objects /\ Objects' = Objects \cup {n}
               /\ message_list'[n] = tmc_message(PI, Words(a))
               /\ message_list' \in Seq(MessageSet)
               /\ Len(message_list') <= MaxMessages
               /\ \A i \in Objects' :
                      /\ Assembled(message_list'[i])
                      /\ message_list'[i].confirmations
                             \in 1 .. (Len(message_list') - i + 1)
               /\ \A i \in Objects : Kept(message_list[i], message_list'[i])
               /\ messages' \in [Keys -> Objects' \cup {None}]
  <1> DEFINE n == Len(message_list) + 1
             msg == tmc_message(PI, Words(a))
  <1>1. Len(message_list) \in Nat
    BY DEF TmcInv, TablesOK
  <1>2. /\ n \in Nat /\ n \notin Objects /\ Objects' = Objects \cup {n}
        /\ Objects' = 1 .. n /\ Len(message_list') = n
    BY <1>1 DEF Added, Objects
  <1>3. n <= MaxMessages
    BY <1>1, MaxAssumption
  <1>4. Assembled(message_list'[n]) /\ message_list'[n].confirmations = 1
    BY NewMessage DEF Added
  <1>5. \A i \in Objects : Assembled(message_list'[i])
    BY KeptAssembled DEF Added, TmcInv
  <1>6. 1 \in 1 .. (Len(message_list') - n + 1)
    BY <1>2
  <1> QED  BY <1>2, <1>3, <1>4, <1>5, <1>6 DEF Added

LEMMA SingleKeeps ==
    ASSUME TmcInv, NEW PI \in Stations, NEW a \in Alerts[PI], SingleGroup(PI, Words(a))
    PROVE  /\ TablesOK' /\ ShownOK'
           /\ \A n \in Objects' : Assembled(message_list'[n])
           /\ Added(tmc_message(PI, Words(a)))
           /\ shown' = Append(shown, Len(message_list) + 1)
           /\ UNCHANGED unfinished_messages
  <1> DEFINE n == Len(message_list) + 1
             msg == tmc_message(PI, Words(a))
  <1>1. /\ Added(msg) /\ Len(message_list) < MaxMessages
        /\ shown' = Append(shown, n) /\ UNCHANGED unfinished_messages
        /\ a.further = 0
    BY AddAdds, NewMessage DEF SingleGroup, print_tmc_msg, TmcInv, Words
  <1>2. /\ n \in Nat /\ n \notin Objects /\ Objects' = Objects \cup {n}
        /\ message_list'[n] = msg
        /\ message_list' \in Seq(MessageSet)
        /\ Len(message_list') <= MaxMessages
        /\ \A i \in Objects' :
               /\ Assembled(message_list'[i])
               /\ message_list'[i].confirmations \in 1 .. (Len(message_list') - i + 1)
        /\ \A i \in Objects : Kept(message_list[i], message_list'[i])
        /\ messages' \in [Keys -> Objects' \cup {None}]
    BY <1>1, AddedKeeps
  <1>3. msg.is_complete
    BY <1>1, NewMessage
  <1> HIDE DEF n, msg
  <1>4. TablesOK'
    <2>1. unfinished_messages' \in [Stations -> [Indices -> Objects' \cup {None}]]
      BY <1>1, <1>2 DEF TmcInv, TablesOK
    <2>2. ASSUME NEW P \in Stations, NEW ci \in Indices, unfinished_messages'[P][ci] # None
          PROVE  LET i == unfinished_messages'[P][ci]
                 IN  /\ ~message_list'[i].is_complete
                     /\ message_list'[i].PI = P /\ message_list'[i].ci = ci
      <3>1. unfinished_messages[P][ci] \in Objects
        BY <1>1, <2>2 DEF TmcInv, TablesOK
      <3>2. LET i == unfinished_messages[P][ci]
            IN  /\ ~message_list[i].is_complete
                /\ message_list[i].PI = P /\ message_list[i].ci = ci
        BY <1>1, <2>2 DEF TmcInv, TablesOK
      <3> QED  BY <1>1, <1>2, <3>1, <3>2 DEF Kept
    <2> QED  BY <1>1, <1>2, <2>1, <2>2 DEF TablesOK
  <1>5. ShownOK'
    <2>1. /\ shown \in Seq(Objects) /\ IsInjective(shown) /\ n \notin ToSet(shown)
          /\ \A i \in Objects : message_list[i].is_complete <=> i \in ToSet(shown)
      BY <1>2 DEF TmcInv, ShownOK, ShownOnce, ToSet
    <2>2. shown \in Seq(Objects')
      BY <1>2, <2>1
    <2>3. /\ shown' \in Seq(Objects') /\ ToSet(shown') = ToSet(shown) \cup {n}
          /\ IsInjective(shown')
      BY <1>1, <1>2, <2>1, <2>2, ShownAppended
    <2>4. \A i \in Objects' : message_list'[i].is_complete <=> i \in ToSet(shown')
      BY <1>2, <1>3, <2>1, <2>3 DEF Kept
    <2> QED  BY <2>3, <2>4 DEF ShownOK, ShownOnce
  <1> QED  BY <1>1, <1>2, <1>4, <1>5 DEF n, msg

LEMMA FirstKeeps ==
    ASSUME TmcInv, NEW PI \in Stations, NEW a \in Alerts[PI], FirstGroup(PI, Words(a))
    PROVE  /\ TablesOK' /\ ShownOK'
           /\ \A n \in Objects' : Assembled(message_list'[n])
           /\ Added(tmc_message(PI, Words(a)))
           /\ unfinished_messages' = [unfinished_messages EXCEPT
                                          ![PI][a.ci] = Len(message_list) + 1]
           /\ UNCHANGED shown
  <1> DEFINE n == Len(message_list) + 1
             msg == tmc_message(PI, Words(a))
  <1>1. /\ Added(msg) /\ Len(message_list) < MaxMessages
        /\ unfinished_messages' = [unfinished_messages EXCEPT ![PI][a.ci] = n]
        /\ UNCHANGED shown /\ ~(a.further = 0)
    BY AddAdds, NewMessage DEF FirstGroup, Begin, TmcInv, Words
  <1>2. /\ n \in Nat /\ n \notin Objects /\ Objects' = Objects \cup {n}
        /\ message_list'[n] = msg
        /\ message_list' \in Seq(MessageSet)
        /\ Len(message_list') <= MaxMessages
        /\ \A i \in Objects' :
               /\ Assembled(message_list'[i])
               /\ message_list'[i].confirmations \in 1 .. (Len(message_list') - i + 1)
        /\ \A i \in Objects : Kept(message_list[i], message_list'[i])
        /\ messages' \in [Keys -> Objects' \cup {None}]
    BY <1>1, AddedKeeps
  <1>3. ~msg.is_complete /\ msg.PI = PI /\ msg.ci = a.ci /\ a.ci \in Indices
    BY <1>1, NewMessage, AlertIs
  <1> HIDE DEF n, msg
  <1>4. TablesOK'
    <2>1. unfinished_messages' \in [Stations -> [Indices -> Objects' \cup {None}]]
      BY <1>1, <1>2, <1>3 DEF TmcInv, TablesOK
    <2>2. ASSUME NEW P \in Stations, NEW ci \in Indices, unfinished_messages'[P][ci] # None
          PROVE  LET i == unfinished_messages'[P][ci]
                 IN  /\ ~message_list'[i].is_complete
                     /\ message_list'[i].PI = P /\ message_list'[i].ci = ci
      <3>1. CASE P = PI /\ ci = a.ci
        <4>1. unfinished_messages'[P][ci] = n
          BY <1>1, <1>3, <3>1 DEF TmcInv, TablesOK
        <4> QED  BY <1>2, <1>3, <3>1, <4>1
      <3>2. CASE ~(P = PI /\ ci = a.ci)
        <4>1. unfinished_messages'[P][ci] = unfinished_messages[P][ci]
          BY <1>1, <1>3, <3>2 DEF TmcInv, TablesOK
        <4>2. unfinished_messages[P][ci] \in Objects
          BY <2>2, <4>1 DEF TmcInv, TablesOK
        <4>3. LET i == unfinished_messages[P][ci]
              IN  /\ i # None /\ ~message_list[i].is_complete
                  /\ message_list[i].PI = P /\ message_list[i].ci = ci
          BY <2>2, <4>1 DEF TmcInv, TablesOK
        <4> QED  BY <1>2, <4>1, <4>2, <4>3 DEF Kept
      <3> QED  BY <3>1, <3>2
    <2> QED  BY <1>1, <1>2, <2>1, <2>2 DEF TablesOK
  <1>5. ShownOK'
    <2>1. /\ shown \in Seq(Objects) /\ IsInjective(shown) /\ n \notin ToSet(shown)
          /\ \A i \in Objects : message_list[i].is_complete <=> i \in ToSet(shown)
      BY <1>2 DEF TmcInv, ShownOK, ShownOnce, ToSet
    <2>2. shown \in Seq(Objects')
      BY <1>2, <2>1
    <2>3. \A i \in Objects' : message_list'[i].is_complete <=> i \in ToSet(shown)
      BY <1>2, <1>3, <2>1 DEF Kept
    <2> QED  BY <1>1, <2>1, <2>2, <2>3 DEF ShownOK, ShownOnce
  <1> QED  BY <1>1, <1>2, <1>4, <1>5 DEF n, msg

\* A further group goes to the unfinished message with its index, which it may
\* complete.
FurtherTo(PI, n, g) ==
    /\ n \in Objects /\ n = unfinished_messages[PI][g.ci]
    /\ ~message_list[n].is_complete
    /\ message_list[n].PI = PI /\ message_list[n].ci = g.ci
    /\ message_list[n] \in MessageSet /\ Assembled(message_list[n])
    /\ Len(message_list') = Len(message_list) /\ message_list' \in Seq(MessageSet)
    /\ message_list'[n] = add_group(message_list[n], g)
    /\ \A i \in Objects \ {n} : message_list'[i] = message_list[i]
    /\ message_list'[n].PI = PI /\ message_list'[n].ci = g.ci
    /\ message_list'[n].hash = message_list[n].hash
    /\ message_list'[n].confirmations = message_list[n].confirmations
    /\ Assembled(message_list'[n])
    /\ UNCHANGED messages
    /\ \/ /\ message_list'[n].is_complete
          /\ shown' = Append(shown, n)
          /\ unfinished_messages' = [unfinished_messages EXCEPT ![PI][g.ci] = None]
       \/ /\ ~message_list'[n].is_complete
          /\ UNCHANGED <<shown, unfinished_messages>>

\* An index of the list stands for a message.
LEMMA ObjectIsSome == \A n \in Objects : n # None
  BY DEF Objects, None

LEMMA FurtherGoes ==
    ASSUME TmcInv, NEW PI \in Stations, NEW g \in GroupSet, FurtherGroup(PI, g)
    PROVE  FurtherTo(PI, unfinished_messages[PI][g.ci], g)
  <1> DEFINE n == unfinished_messages[PI][g.ci]
             m == message_list[n]
             k == add_group(m, g)
  <1>1. g.ci \in Indices
    BY DEF GroupSet
  <1>2. /\ n \in Objects /\ n # None /\ ~m.is_complete /\ m.PI = PI /\ m.ci = g.ci
        /\ m \in MessageSet /\ Assembled(m) /\ message_list \in Seq(MessageSet)
    BY <1>1 DEF FurtherGroup, TmcInv, TablesOK, Objects
  <1>3. k \in MessageSet /\ Assembled(k) /\ k.PI = PI /\ k.ci = g.ci
        /\ k.hash = m.hash /\ k.confirmations = m.confirmations
    <2>1. CASE Takes(m, g)
      BY <1>2, <2>1, TakenAssembled
    <2>2. CASE ~Takes(m, g)
      <3>1. k = m
        BY <1>2, <2>2, AddGroupTakes
      <3> QED  BY <1>2, <3>1
    <2> QED  BY <2>1, <2>2
  <1>4. message_list' = [message_list EXCEPT ![n] = k] /\ UNCHANGED messages
        /\ IF message_list'[n].is_complete
           THEN /\ shown' = Append(shown, n)
                /\ unfinished_messages' =
                       [unfinished_messages EXCEPT ![PI][m.ci] = None]
           ELSE UNCHANGED <<shown, unfinished_messages>>
    BY <1>2 DEF FurtherGroup, print_tmc_msg, Finish
  <1> HIDE DEF n, m, k
  <1>5. /\ Len(message_list') = Len(message_list) /\ message_list' \in Seq(MessageSet)
        /\ message_list'[n] = k
        /\ \A i \in Objects \ {n} : message_list'[i] = message_list[i]
    BY <1>2, <1>3, <1>4 DEF Objects
  <1>6. \/ /\ message_list'[n].is_complete
           /\ shown' = Append(shown, n)
           /\ unfinished_messages' = [unfinished_messages EXCEPT ![PI][g.ci] = None]
        \/ /\ ~message_list'[n].is_complete
           /\ UNCHANGED <<shown, unfinished_messages>>
    BY <1>2, <1>4
  <1>7. m = message_list[n] /\ n = unfinished_messages[PI][g.ci]
    BY DEF m, n
  <1> QED  BY <1>2, <1>3, <1>4, <1>5, <1>6, <1>7 DEF FurtherTo, k, n, m

LEMMA FurtherKeeps ==
    ASSUME TmcInv, NEW PI \in Stations, NEW g \in GroupSet, NEW n,
           FurtherTo(PI, n, g)
    PROVE  TablesOK' /\ ShownOK' /\ \A i \in Objects' : Assembled(message_list'[i])
  <1>1. /\ Objects' = Objects /\ n \in Objects /\ g.ci \in Indices
        /\ Len(message_list') = Len(message_list)
        /\ \A i \in Objects : Assembled(message_list[i])
        /\ \A i \in Objects \ {n} : message_list'[i] = message_list[i]
        /\ Assembled(message_list'[n])
    BY DEF FurtherTo, Objects, GroupSet, TmcInv
  <1>2. TablesOK'
    <2>1. \A i \in Objects : /\ message_list'[i].confirmations
                                    = message_list[i].confirmations
                             /\ message_list'[i].PI = message_list[i].PI
                             /\ message_list'[i].ci = message_list[i].ci
      BY <1>1 DEF FurtherTo
    <2>2. unfinished_messages' \in [Stations -> [Indices -> Objects \cup {None}]]
      <3>1. unfinished_messages \in [Stations -> [Indices -> Objects \cup {None}]]
        BY DEF TmcInv, TablesOK
      <3>2. \/ UNCHANGED unfinished_messages
            \/ unfinished_messages' = [unfinished_messages EXCEPT ![PI][g.ci] = None]
        BY DEF FurtherTo
      <3> QED  BY <1>1, <3>1, <3>2
    <2>3. ASSUME NEW P \in Stations, NEW ci \in Indices, unfinished_messages'[P][ci] # None
          PROVE  LET i == unfinished_messages'[P][ci]
                 IN  /\ ~message_list'[i].is_complete
                     /\ message_list'[i].PI = P /\ message_list'[i].ci = ci
      <3> DEFINE i == unfinished_messages[P][ci]
      <3>0. unfinished_messages \in [Stations -> [Indices -> Objects \cup {None}]]
            /\ \/ UNCHANGED unfinished_messages
               \/ unfinished_messages' = [unfinished_messages EXCEPT ![PI][g.ci] = None]
        BY DEF FurtherTo, TmcInv, TablesOK
      <3>1. unfinished_messages'[P][ci] = i
        BY <1>1, <2>3, <3>0
      <3>2. /\ i \in Objects /\ ~message_list[i].is_complete
            /\ message_list[i].PI = P /\ message_list[i].ci = ci
        BY <2>3, <3>1 DEF TmcInv, TablesOK
      <3> HIDE DEF i
      <3>3. CASE i = n
        <4>1. P = PI /\ ci = g.ci
          BY <3>2, <3>3 DEF FurtherTo
        <4>2. ~message_list'[n].is_complete
          <5> SUFFICES ASSUME message_list'[n].is_complete PROVE FALSE
            OBVIOUS
          <5>1. unfinished_messages' = [unfinished_messages EXCEPT ![PI][g.ci] = None]
            BY DEF FurtherTo
          <5> QED  BY <1>1, <2>3, <4>1, <5>1 DEF TmcInv, TablesOK
        <4> QED  BY <2>1, <3>1, <3>2, <3>3, <4>2
      <3>4. CASE i # n
        BY <1>1, <2>1, <3>1, <3>2, <3>4
      <3> QED  BY <3>3, <3>4
    <2> QED  BY <1>1, <2>1, <2>2, <2>3 DEF FurtherTo, TmcInv, TablesOK
  <1>3. ShownOK'
    <2>1. /\ shown \in Seq(Objects) /\ IsInjective(shown)
          /\ \A i \in Objects : message_list[i].is_complete <=> i \in ToSet(shown)
          /\ ~message_list[n].is_complete
      BY DEF TmcInv, ShownOK, ShownOnce, FurtherTo
    <2>2. CASE message_list'[n].is_complete
      <3>1. shown' = Append(shown, n) /\ n \notin ToSet(shown)
        BY <1>1, <2>1, <2>2 DEF FurtherTo
      <3>2. /\ shown' \in Seq(Objects) /\ ToSet(shown') = ToSet(shown) \cup {n}
            /\ IsInjective(shown')
        BY <1>1, <2>1, <3>1, ShownAppended
      <3>3. \A i \in Objects : message_list'[i].is_complete <=> i \in ToSet(shown')
        BY <1>1, <2>1, <2>2, <3>2
      <3> QED  BY <1>1, <3>2, <3>3 DEF ShownOK, ShownOnce
    <2>3. CASE ~message_list'[n].is_complete
      <3>1. UNCHANGED shown
        BY <2>3 DEF FurtherTo
      <3>2. \A i \in Objects : message_list'[i].is_complete <=> i \in ToSet(shown)
        BY <1>1, <2>1, <2>3
      <3> QED  BY <1>1, <2>1, <3>1, <3>2 DEF ShownOK, ShownOnce
    <2> QED  BY <2>2, <2>3
  <1> QED  BY <1>1, <1>2, <1>3

LEMMA TmcInvariant == BroadcastSpec => []TmcInv
  <1>1. BroadcastInit => TablesOK /\ ShownOK
                         /\ \A n \in Objects : Assembled(message_list[n])
    <2> SUFFICES ASSUME BroadcastInit PROVE TablesOK /\ ShownOK /\ Objects = {}
      OBVIOUS
    <2>1. Objects = {} /\ message_list = <<>> /\ shown = <<>>
      BY DEF BroadcastInit, TmcInit, Objects
    <2>2. TablesOK
      BY <2>1, MaxAssumption DEF BroadcastInit, TmcInit, TablesOK, None, Keys
    <2>3. ShownOK
      BY <2>1 DEF ShownOK, ShownOnce, ToSet, IsInjective
    <2> QED  BY <2>1, <2>2, <2>3
  <1>2. TmcInv /\ SendingOK' /\ [BroadcastNext]_broadcastVars => TmcInv'
    <2> SUFFICES ASSUME TmcInv, [BroadcastNext]_broadcastVars
                 PROVE  /\ TablesOK' /\ ShownOK'
                        /\ \A n \in Objects' : Assembled(message_list'[n])
      BY DEF TmcInv
    <2>1. ASSUME NEW PI \in Stations, ReceiveFirst(PI)
          PROVE  /\ TablesOK' /\ ShownOK'
                 /\ \A n \in Objects' : Assembled(message_list'[n])
      <3>1. alert[PI] \in Alerts[PI]
        BY DEF TmcInv, SendingOK
      <3> QED  BY <2>1, <3>1, SingleKeeps, FirstKeeps DEF ReceiveFirst
    <2>2. CASE UNCHANGED tmcVars
      BY <2>2 DEF tmcVars, TmcInv, TablesOK, ShownOK, ShownOnce, Objects
    <2>3. ASSUME NEW PI \in Stations, ReceiveFurther(PI)
          PROVE  /\ TablesOK' /\ ShownOK'
                 /\ \A n \in Objects' : Assembled(message_list'[n])
      <3> DEFINE g == Group(alert[PI], position[PI])
      <3>1. g \in GroupSet
        BY <2>3, GroupIs DEF ReceiveFurther, TmcInv
      <3> HIDE DEF g
      <3>2. CASE FurtherGroup(PI, g)
        BY <3>1, <3>2, FurtherGoes, FurtherKeeps
      <3>3. CASE DiscardedGroup(PI, g)
        BY <2>2, <3>3 DEF DiscardedGroup
      <3> QED  BY <2>3, <3>2, <3>3 DEF ReceiveFurther, g
    <2>4. ASSUME NEW PI \in Stations, NextGroup(PI) \/ NextAlert(PI)
          PROVE  UNCHANGED tmcVars
      BY <2>4 DEF NextGroup, NextAlert
    <2> QED  BY <2>1, <2>2, <2>3, <2>4 DEF BroadcastNext, broadcastVars
  <1> QED  BY <1>1, <1>2, SendingInvariant, PTL DEF BroadcastSpec, TmcInv

\* Types of the messages and tables; an unfinished message is what its name says,
\* and is kept under its own station and index (handle_msg).
THEOREM TmcTypeCorrect == BroadcastSpec => []TmcTypeOK
  <1>1. TmcInv => TmcTypeOK
    <2> SUFFICES ASSUME TmcInv PROVE TmcTypeOK
      OBVIOUS
    <2>1. \A n \in Objects :
             /\ message_list[n] \in MessageSet
             /\ message_list[n].confirmations \in 1 .. MaxMessages
      BY MaxAssumption DEF TmcInv, TablesOK, Objects
    <2>2. \A n \in Objects :
             LET m == message_list[n]
             IN  /\ m.PI \in Stations /\ m.PIs \subseteq Stations
                 /\ m.key \in Locations \X Classes
                 /\ m.length \in 0 .. 3 /\ m.count \in -1 .. 3
      BY <2>1 DEF MessageSet, Keys
    <2> QED  BY <2>1, <2>2 DEF TmcInv, TablesOK, ShownOK, TmcTypeOK, Keys
  <1> QED  BY <1>1, TmcInvariant, PTL

\* A complete message has the groups that its second one announced, each once and
\* in their order, whatever groups were lost, repeated or taken from another
\* message (add_group).
THEOREM GroupsInSequence == BroadcastSpec => []CompleteInSequence
  <1>1. TmcInv => CompleteInSequence
    <2> SUFFICES ASSUME TmcInv, NEW n \in Objects,
                        message_list[n].is_complete, ~message_list[n].is_single
                 PROVE  LET m == message_list[n]
                        IN  /\ Len(m.data_arr) = m.length + 1
                            /\ \A i \in DOMAIN m.data_arr :
                                   m.data_arr[i].gsi = m.length + 1 - i
                            /\ m.data_arr[1].sg
      BY DEF CompleteInSequence
    <2> DEFINE m == message_list[n]
    <2>1. m \in MessageSet /\ Assembled(m) /\ m.is_complete /\ ~m.is_single
      BY DEF TmcInv, TablesOK, Objects
    <2> HIDE DEF m
    <2>2. /\ m.length \in 0 .. 3 /\ m.data_arr \in Seq(GroupSet)
      BY <2>1 DEF MessageSet
    <2>3. /\ m.count = -1 /\ m.data_arr[1].sg
          /\ Len(m.data_arr) = m.length - m.count
          /\ \A i \in 1 .. Len(m.data_arr) : m.data_arr[i].gsi = m.length + 1 - i
      BY <2>1 DEF Assembled
    <2>4. DOMAIN m.data_arr = 1 .. Len(m.data_arr)
      BY <2>2
    <2> QED  BY <2>2, <2>3, <2>4 DEF m
  <1> QED  BY <1>1, TmcInvariant, PTL

\* Every complete message is printed, once, and no other one is.
THEOREM MessagesShownOnce == BroadcastSpec => []ShownOnce
  <1>1. TmcInv => ShownOnce
    BY DEF TmcInv, ShownOK
  <1> QED  BY <1>1, TmcInvariant, PTL

-----------------------------------------------------------------------------
(* The alert that is on the air, and the message it becomes.                *)

Groups(a) == [k \in 1 .. a.further |-> Group(a, k)]
Intact(PI, a, m) == m.PI = PI /\ m.hash = a.first /\ m.data_arr = Groups(a)
Done(PI) == \E n \in ToSet(shown) : Intact(PI, alert[PI], message_list[n])

\* Its first groups have been added, up to one that was not received yet.
Begun(a, h, m) ==
    LET d == m.data_arr
    IN  /\ m.hash = a.first
        /\ Len(d) < a.further /\ Len(d) + 1 \notin h
        /\ \A k \in 1 .. Len(d) : d[k] = Group(a, k)
        /\ m.second = (Len(d) > 0)
        /\ m.second => m.count = a.further - 1 - Len(d)
Underway(PI, m) == Begun(alert[PI], heard[PI], m)

AlertOK(PI) ==
    LET n == unfinished_messages[PI][alert[PI].ci]
    IN  /\ 0 \in heard[PI] =>
               IF alert[PI].further = 0 \/ n = None THEN Done(PI)
               ELSE Underway(PI, message_list[n])
        /\ position[PI] > 0 /\ alert[PI].ci \notin firstLost[PI] => 0 \in heard[PI]

AlertInv == \A PI \in Stations : AlertOK(PI)

\* What is shown stays as it is.
Persists ==
    /\ ToSet(shown) \subseteq ToSet(shown')
    /\ \A n \in ToSet(shown) : /\ message_list'[n].PI = message_list[n].PI
                               /\ message_list'[n].hash = message_list[n].hash
                               /\ message_list'[n].data_arr = message_list[n].data_arr

\* Nothing happens to the message of a station.
Undisturbed(PI) ==
    LET n == unfinished_messages[PI][alert[PI].ci]
    IN  /\ Persists
        /\ alert'[PI] = alert[PI]
        /\ unfinished_messages'[PI][alert[PI].ci] = n
        /\ n # None => /\ message_list'[n].hash = message_list[n].hash
                       /\ message_list'[n].data_arr = message_list[n].data_arr
                       /\ message_list'[n].second = message_list[n].second
                       /\ message_list'[n].count = message_list[n].count

LEMMA DonePersists ==
    ASSUME NEW PI \in Stations, Done(PI), Persists, alert'[PI] = alert[PI]
    PROVE  Done(PI)'
  <1>1. PICK n \in ToSet(shown) : Intact(PI, alert[PI], message_list[n])
    BY DEF Done
  <1>2. n \in ToSet(shown') /\ Intact(PI, alert'[PI], message_list'[n])
    BY <1>1 DEF Persists, Intact
  <1> QED  BY <1>2 DEF Done

LEMMA UndisturbedOK ==
    ASSUME NEW PI \in Stations, AlertOK(PI), Undisturbed(PI),
           heard'[PI] = heard[PI], position'[PI] = position[PI],
           firstLost'[PI] = firstLost[PI]
    PROVE  AlertOK(PI)'
  <1> DEFINE n == unfinished_messages[PI][alert[PI].ci]
  <1>1. Done(PI) => Done(PI)'
    BY DonePersists DEF Undisturbed
  <1>3. alert'[PI] = alert[PI] /\ unfinished_messages'[PI][alert'[PI].ci] = n
    BY DEF Undisturbed
  <1>2. ASSUME n # None, Underway(PI, message_list[n])
        PROVE  Underway(PI, message_list[n])'
    <2> DEFINE m == message_list[n]
    <2>1. /\ m'.hash = m.hash /\ m'.data_arr = m.data_arr /\ m'.second = m.second
          /\ m'.count = m.count
      BY <1>2, <1>3 DEF Undisturbed
    <2>2. Underway(PI, m)
      BY <1>2
    <2> HIDE DEF m
    <2>3. Underway(PI, m)'
      BY <1>3, <2>1, <2>2 DEF Underway, Begun
    <2> QED  BY <2>3 DEF m
  <1> QED  BY <1>1, <1>2, <1>3 DEF AlertOK

\* A group that begins a message disturbs no other one.
LEMMA AddedPersists ==
    ASSUME TmcInv, NEW msg, Added(msg),
           shown' = shown \/ shown' = Append(shown, Len(message_list) + 1)
    PROVE  /\ Persists
           /\ \A n \in Objects : Kept(message_list[n], message_list'[n])
  <1>1. shown \in Seq(Objects) /\ ToSet(shown) \subseteq Objects
    BY DEF TmcInv, ShownOK, ToSet
  <1>2. \A n \in Objects : Kept(message_list[n], message_list'[n])
    BY DEF Added
  <1>3. shown \in Seq(Nat) /\ Len(message_list) + 1 \in Nat
    BY <1>1 DEF TmcInv, TablesOK, Objects
  <1>4. ToSet(Append(shown, Len(message_list) + 1))
            = ToSet(shown) \cup {Len(message_list) + 1}
    BY <1>3, ShownAppended
  <1>5. ToSet(shown) \subseteq ToSet(shown')
    BY <1>4
  <1> QED  BY <1>1, <1>2, <1>5 DEF Persists, Kept

LEMMA FirstAlert ==
    ASSUME TmcInv, AlertInv, NEW PI \in Stations, ReceiveFirst(PI)
    PROVE  AlertInv'
  <1>n. PICK n : n = Len(message_list) + 1
    OBVIOUS
  <1>a. PICK a : a = alert[PI]
    OBVIOUS
  <1> DEFINE msg == tmc_message(PI, Words(a))
  <1>1. a \in Alerts[PI] /\ a.ci \in Indices /\ a.further \in 0 .. 4
    BY <1>a, AlertIs DEF TmcInv, SendingOK
  <1>2. /\ alert' = alert /\ position' = position /\ position[PI] = 0
        /\ heard' = [heard EXCEPT ![PI] = {0}]
        /\ firstLost' = [firstLost EXCEPT ![PI] = @ \ {a.ci}]
    BY <1>a DEF ReceiveFirst
  <1>3. /\ Added(msg)
        /\ \/ /\ a.further = 0 /\ UNCHANGED unfinished_messages
              /\ shown' = Append(shown, n)
           \/ /\ a.further # 0 /\ UNCHANGED shown
              /\ unfinished_messages' = [unfinished_messages EXCEPT ![PI][a.ci] = n]
    BY <1>a, <1>n, <1>1, SingleKeeps, FirstKeeps DEF ReceiveFirst, SingleGroup, FirstGroup, Words
  <1>4. Persists /\ \A i \in Objects : Kept(message_list[i], message_list'[i])
    BY <1>n, <1>3, AddedPersists
  <1>5. /\ message_list'[n] = msg /\ msg.PI = PI /\ msg.hash = a.first
        /\ msg.data_arr = <<>> /\ ~msg.second /\ msg.second \in BOOLEAN
    BY <1>n, <1>1, <1>3, NewMessage DEF Added, MessageSet
  <1>6. n \in Nat /\ n # None
    BY <1>n DEF TmcInv, TablesOK, None
  <1> HIDE DEF msg
  <1>7. ASSUME NEW P \in Stations, P # PI PROVE AlertOK(P)'
    <2>1. heard'[P] = heard[P] /\ position'[P] = position[P] /\ firstLost'[P] = firstLost[P]
      BY <1>2, <1>7 DEF TmcInv, SendingOK
    <2>2. alert[P].ci \in Indices
      BY AlertIs DEF TmcInv, SendingOK
    <2>3. /\ unfinished_messages'[P][alert[P].ci] = unfinished_messages[P][alert[P].ci]
          /\ unfinished_messages[P][alert[P].ci] \in Objects \cup {None}
      BY <1>3, <1>7, <2>2 DEF TmcInv, TablesOK
    <2>4. Undisturbed(P)
      BY <1>2, <1>4, <2>3 DEF Undisturbed, Kept
    <2> QED  BY <2>1, <2>4, UndisturbedOK DEF AlertInv
  <1>8. AlertOK(PI)'
    <2>1. heard'[PI] = {0} /\ ~(position'[PI] > 0)
      BY <1>2 DEF TmcInv, SendingOK
    <2>2. CASE a.further = 0
      <3>1. n \in ToSet(shown')
        <4>1. shown \in Seq(Nat)
          BY DEF TmcInv, ShownOK, Objects
        <4>2. ToSet(Append(shown, n)) = ToSet(shown) \cup {n}
          BY <1>6, <4>1, ShownAppended
        <4> QED  BY <1>3, <2>2, <4>2
      <3>2. <<>> = Groups(a)
        BY <2>2 DEF Groups
      <3>3. Intact(PI, alert'[PI], message_list'[n])
        BY <1>a, <1>2, <1>5, <3>2 DEF Intact
      <3>4. Done(PI)'
        BY <3>1, <3>3 DEF Done
      <3> QED  BY <1>a, <1>2, <2>1, <2>2, <3>4 DEF AlertOK
    <2>3. CASE a.further # 0
      <3>1. unfinished_messages'[PI][a.ci] = n
        BY <1>1, <1>3, <2>3 DEF TmcInv, TablesOK
      <3>2. /\ Len(msg.data_arr) = 0 /\ msg.second = (Len(msg.data_arr) > 0)
            /\ Len(msg.data_arr) < a.further
        BY <1>1, <1>5, <2>3
      <3>3. Underway(PI, message_list[n])'
        <4>1. \A k \in 1 .. Len(msg.data_arr) : FALSE
          BY <3>2
        <4>2. Len(msg.data_arr) + 1 \notin heard'[PI]
          BY <2>1, <3>2
        <4> QED  BY <1>a, <1>2, <1>5, <3>2, <4>1, <4>2 DEF Underway, Begun
      <3> QED  BY <1>a, <1>2, <1>6, <2>1, <2>3, <3>1, <3>3 DEF AlertOK
    <2> QED  BY <2>2, <2>3
  <1> QED  BY <1>7, <1>8 DEF AlertInv

\* The message that is under way takes the group after those it has, and no other.
LEMMA BegunTakes ==
    ASSUME NEW a \in AlertSet, a.further \in 0 .. 4, NEW p \in 1 .. a.further,
           NEW h \in SUBSET (0 .. p), Group(a, p) \in GroupSet,
           NEW m \in MessageSet, Assembled(m), ~m.is_complete, Begun(a, h, m),
           NEW k, k = add_group(m, Group(a, p))
    PROVE  \/ ~k.is_complete /\ Begun(a, h \cup {p}, k)
           \/ k.is_complete /\ k.data_arr = Groups(a) /\ k.hash = a.first
  <1>g. PICK g : g = Group(a, p)
    OBVIOUS
  <1>d. PICK d : d = m.data_arr
    OBVIOUS
  <1>1. /\ g \in GroupSet /\ g.sg = (p = 1) /\ g.gsi = a.further - p
        /\ a.further \in Nat /\ p \in Nat /\ p >= 1 /\ p <= a.further
    BY <1>g DEF Group
  <1>2. /\ d \in Seq(GroupSet) /\ Len(d) \in Nat /\ m.second \in BOOLEAN
        /\ m.count \in Int
    BY <1>d DEF MessageSet
  <1>3. /\ m.hash = a.first /\ Len(d) < a.further /\ Len(d) + 1 \notin h
        /\ \A i \in 1 .. Len(d) : d[i] = Group(a, i)
        /\ m.second = (Len(d) > 0)
        /\ m.second => m.count = a.further - 1 - Len(d)
    BY <1>d DEF Begun
  <1>4. Takes(m, g) <=> p = Len(d) + 1
    <2>1. CASE m.second
      <3>1. m.count = a.further - 1 - Len(d)
        BY <1>3, <2>1
      <3>2. Takes(m, g) <=> g.gsi = m.count
        BY <2>1 DEF Takes
      <3>3. g.gsi = m.count <=> p = Len(d) + 1
        BY <1>1, <1>2, <3>1
      <3> QED  BY <3>2, <3>3
    <2>2. CASE ~m.second
      <3>1. ~(Len(d) > 0)
        BY <1>3, <2>2
      <3>2. Takes(m, g) <=> g.sg
        BY <2>2 DEF Takes
      <3>3. g.sg <=> p = 1
        BY <1>1
      <3> QED  BY <1>2, <3>1, <3>2, <3>3
    <2> QED  BY <2>1, <2>2
  <1>5. CASE p = Len(d) + 1
    <2>e. PICK e : e = Append(d, g)
      OBVIOUS
    <2>1. /\ k.hash = a.first /\ k.second /\ k.count = g.gsi - 1
          /\ k.data_arr = e /\ k.is_complete = (g.gsi = 0)
          /\ k \in MessageSet
      BY <1>g, <1>d, <1>1, <1>3, <1>4, <1>5, <2>e, TakenAssembled
    <2>2. /\ e \in Seq(GroupSet) /\ Len(e) = p /\ DOMAIN e = 1 .. p /\ e[p] = g
          /\ \A i \in 1 .. Len(d) : e[i] = d[i]
      BY <1>1, <1>2, <1>5, <2>e
    <2>3. \A i \in 1 .. p : e[i] = Group(a, i)
      <3> SUFFICES ASSUME NEW i \in 1 .. p PROVE e[i] = Group(a, i)
        OBVIOUS
      <3>1. CASE i = p
        BY <1>g, <2>2, <3>1
      <3>2. CASE i # p
        <4>1. i \in 1 .. Len(d)
          BY <1>2, <1>5, <3>2
        <4> QED  BY <1>3, <2>2, <4>1
      <3> QED  BY <3>1, <3>2
    <2>4. CASE p = a.further
      <3>1. e = Groups(a)
        BY <2>2, <2>3, <2>4 DEF Groups
      <3>2. g.gsi = 0
        BY <1>1, <2>4
      <3>3. k.is_complete
        BY <2>1, <3>2
      <3> QED  BY <2>1, <3>1, <3>3
    <2>5. CASE p # a.further
      <3>1. g.gsi # 0 /\ g.gsi - 1 = a.further - 1 - p /\ p < a.further /\ p > 0
        BY <1>1, <2>5
      <3>2. p + 1 \notin h \cup {p}
        BY <1>1
      <3>3. ~k.is_complete /\ k.count = a.further - 1 - p
        BY <2>1, <3>1
      <3>4. k.second \in BOOLEAN
        BY <2>1 DEF MessageSet
      <3>5. k.second = (p > 0)
        BY <2>1, <3>1, <3>4
      <3> QED  BY <2>1, <2>2, <2>3, <3>1, <3>2, <3>3, <3>5 DEF Begun
    <2> QED  BY <2>4, <2>5
  <1>6. CASE p # Len(d) + 1
    <2>1. k = m
      BY <1>g, <1>1, <1>4, <1>6, AddGroupTakes
    <2>2. Begun(a, h \cup {p}, m)
      BY <1>d, <1>3, <1>6 DEF Begun
    <2> QED  BY <2>1, <2>2
  <1> QED  BY <1>5, <1>6

\* A further group changes nothing that is shown, and no message of another station.
LEMMA FurtherPersists ==
    ASSUME TmcInv, NEW PI \in Stations, NEW g \in GroupSet, NEW n,
           FurtherTo(PI, n, g), alert' = alert
    PROVE  /\ Persists
           /\ message_list'[n].is_complete => n \in ToSet(shown')
           /\ \A P \in Stations : P # PI => Undisturbed(P)
  <1>1. /\ n \in Objects /\ g.ci \in Indices /\ ~message_list[n].is_complete
        /\ message_list[n].PI = PI
        /\ \A i \in Objects \ {n} : message_list'[i] = message_list[i]
    BY DEF FurtherTo, GroupSet
  <1>2. /\ shown \in Seq(Objects)
        /\ \A i \in Objects : message_list[i].is_complete <=> i \in ToSet(shown)
    BY DEF TmcInv, ShownOK, ShownOnce
  <1>6. ToSet(shown) \subseteq Objects
    BY <1>2 DEF ToSet
  <1>7. ToSet(Append(shown, n)) = ToSet(shown) \cup {n}
    BY <1>1, <1>2, ShownAppended
  <1>3. /\ ToSet(shown) \subseteq ToSet(shown')
        /\ message_list'[n].is_complete => n \in ToSet(shown')
    BY <1>7 DEF FurtherTo
  <1>4. Persists
    BY <1>1, <1>2, <1>3, <1>6 DEF Persists
  <1>5. ASSUME NEW P \in Stations, P # PI PROVE Undisturbed(P)
    <2> DEFINE i == unfinished_messages[P][alert[P].ci]
    <2>1. alert[P].ci \in Indices
      BY AlertIs DEF TmcInv, SendingOK
    <2>2. unfinished_messages'[P] = unfinished_messages[P]
      BY <1>5, <1>1 DEF FurtherTo, TmcInv, TablesOK
    <2>3. i # None => i \in Objects \ {n}
      BY <1>1, <1>5, <2>1 DEF TmcInv, TablesOK
    <2> QED  BY <1>1, <1>4, <2>2, <2>3 DEF Undisturbed
  <1> QED  BY <1>3, <1>4, <1>5

LEMMA FurtherAlert ==
    ASSUME TmcInv, AlertInv, NEW PI \in Stations, ReceiveFurther(PI)
    PROVE  AlertInv'
  <1>a. PICK a : a = alert[PI]
    OBVIOUS
  <1>p. PICK p : p = position[PI]
    OBVIOUS
  <1>g. PICK g : g = Group(a, p)
    OBVIOUS
  <1>n. PICK n : n = unfinished_messages[PI][a.ci]
    OBVIOUS
  <1>h. PICK h : h = heard[PI]
    OBVIOUS
  <1>1. /\ a \in AlertSet /\ a.ci \in Indices /\ a.further \in 0 .. 4
        /\ p \in 1 .. a.further /\ g \in GroupSet /\ g.ci = a.ci
        /\ h \in SUBSET (0 .. p)
    BY <1>a, <1>p, <1>g, <1>h, GroupIs DEF ReceiveFurther, TmcInv, SendingOK
  <1>2. /\ alert' = alert /\ position' = position /\ firstLost' = firstLost
        /\ heard'[PI] = h \cup {p}
        /\ \A P \in Stations : P # PI => heard'[P] = heard[P]
    BY <1>p, <1>h DEF ReceiveFurther, TmcInv, SendingOK
  <1>3. FurtherTo(PI, n, g) \/ DiscardedGroup(PI, g)
    BY <1>1, <1>a, <1>p, <1>g, <1>n, FurtherGoes DEF ReceiveFurther
  <1>d. ASSUME DiscardedGroup(PI, g)
        PROVE  /\ UNCHANGED tmcVars /\ n = None
               /\ \A P \in Stations : Undisturbed(P)
    BY <1>1, <1>2, <1>n, <1>d DEF DiscardedGroup, tmcVars, Undisturbed, Persists
  <1>4. ASSUME NEW P \in Stations, P # PI PROVE AlertOK(P)'
    <2>1. Undisturbed(P)
      BY <1>1, <1>2, <1>3, <1>4, <1>d, FurtherPersists
    <2> QED  BY <1>2, <1>4, <2>1, UndisturbedOK DEF AlertInv
  <1>5. AlertOK(PI)'
    <2>1. AlertOK(PI)
      BY DEF AlertInv
    <2>2. (position[PI] > 0 /\ a.ci \notin firstLost[PI] => 0 \in heard[PI])
          /\ (0 \in h \cup {p} => 0 \in heard[PI]) /\ a.further # 0
      BY <1>1, <1>a, <1>h, <2>1 DEF AlertOK
    <2>3. ASSUME 0 \in heard[PI]
          PROVE  IF a.further = 0 \/ unfinished_messages'[PI][a.ci] = None THEN Done(PI)'
                 ELSE Underway(PI, message_list[unfinished_messages[PI][a.ci]])'
      <3>1. IF n = None THEN Done(PI) ELSE Underway(PI, message_list[n])
        BY <1>a, <1>n, <2>1, <2>2, <2>3 DEF AlertOK
      <3>2. CASE DiscardedGroup(PI, g)
        <4>1. Done(PI)'
          BY <1>2, <1>d, <3>1, <3>2, DonePersists DEF Undisturbed
        <4>2. unfinished_messages'[PI][a.ci] = None
          BY <1>d, <1>n, <3>2 DEF tmcVars
        <4> QED  BY <4>1, <4>2
      <3>3. CASE FurtherTo(PI, n, g)
        <4> DEFINE m == message_list[n]
                   k == add_group(m, g)
        <4>0. n # None
          BY <3>3, ObjectIsSome DEF FurtherTo
        <4>1. /\ n \in Objects /\ m \in MessageSet /\ Assembled(m)
              /\ ~m.is_complete /\ message_list'[n] = k /\ message_list'[n].PI = PI
          BY <3>3 DEF FurtherTo
        <4>2. Begun(a, h, m)
          BY <1>a, <1>h, <3>1, <4>0 DEF Underway
        <4>3. \/ ~k.is_complete /\ Begun(a, h \cup {p}, k)
              \/ k.is_complete /\ k.data_arr = Groups(a) /\ k.hash = a.first
          BY <1>1, <1>g, <4>1, <4>2, BegunTakes
        <4> HIDE DEF m, k
        <4>4. CASE ~k.is_complete
          <5>1. unfinished_messages'[PI][a.ci] = n
            BY <1>n, <3>3, <4>1, <4>4 DEF FurtherTo
          <5>2. Begun(a, h \cup {p}, message_list'[n])
            BY <4>1, <4>3, <4>4
          <5>3. alert'[PI] = a /\ heard'[PI] = h \cup {p}
            BY <1>2, <1>a
          <5>4. Underway(PI, message_list[unfinished_messages[PI][a.ci]])'
            BY <5>1, <5>2, <5>3 DEF Underway
          <5> QED  BY <2>2, <4>0, <5>1, <5>4
        <4>5. CASE k.is_complete
          <5>1. n \in ToSet(shown')
            BY <1>1, <1>2, <3>3, <4>1, <4>5, FurtherPersists
          <5>2. Intact(PI, alert'[PI], message_list'[n])
            BY <1>2, <1>a, <4>1, <4>3, <4>5 DEF Intact
          <5>3. Done(PI)'
            BY <5>1, <5>2 DEF Done
          <5>4. unfinished_messages'[PI][a.ci] = None
            BY <1>1, <1>n, <3>3, <4>1, <4>5 DEF FurtherTo, TmcInv, TablesOK
          <5> QED  BY <5>3, <5>4
        <4> QED  BY <4>4, <4>5
      <3> QED  BY <1>3, <3>2, <3>3
    <2>4. alert'[PI] = a /\ heard'[PI] = h \cup {p} /\ heard[PI] \subseteq heard'[PI]
      BY <1>2, <1>a, <1>h
    <2> QED  BY <1>2, <2>2, <2>3, <2>4 DEF AlertOK
  <1> QED  BY <1>4, <1>5 DEF AlertInv

LEMMA NextGroupAlert ==
    ASSUME TmcInv, AlertInv, NEW PI \in Stations, NextGroup(PI)
    PROVE  AlertInv'
  <1>1. UNCHANGED <<message_list, unfinished_messages, shown, alert, heard>>
    BY DEF NextGroup, tmcVars
  <1>2. ASSUME NEW P \in Stations PROVE AlertOK(P)'
    <2>1. AlertOK(P)
      BY DEF AlertInv
    <2>2. position'[P] > 0 /\ alert[P].ci \notin firstLost'[P] => 0 \in heard[P]
      <3>1. CASE P = PI
        <4>1. firstLost'[PI] = IF 0 \in heard[PI] THEN firstLost[PI]
                               ELSE firstLost[PI] \cup {alert[PI].ci}
          BY DEF NextGroup, TmcInv, SendingOK
        <4> QED  BY <3>1, <4>1
      <3>2. CASE P # PI
        <4>1. firstLost'[P] = firstLost[P] /\ position'[P] = position[P]
          BY <3>2 DEF NextGroup, TmcInv, SendingOK
        <4> QED  BY <2>1, <4>1 DEF AlertOK
      <3> QED  BY <3>1, <3>2
    <2> QED  BY <1>1, <2>1, <2>2 DEF AlertOK, Done, Underway
  <1> QED  BY <1>2 DEF AlertInv

LEMMA NextAlertAlert ==
    ASSUME TmcInv, AlertInv, NEW PI \in Stations, NextAlert(PI)
    PROVE  AlertInv'
  <1>1. /\ UNCHANGED <<message_list, unfinished_messages, shown, firstLost>>
        /\ heard'[PI] = {} /\ position'[PI] = 0
        /\ \A P \in Stations : P # PI => /\ alert'[P] = alert[P]
                                         /\ heard'[P] = heard[P]
                                         /\ position'[P] = position[P]
    BY DEF NextAlert, tmcVars, TmcInv, SendingOK
  <1>2. ASSUME NEW P \in Stations, P # PI PROVE AlertOK(P)'
    <2>1. Undisturbed(P)
      BY <1>1, <1>2 DEF Undisturbed, Persists
    <2> QED  BY <1>1, <1>2, <2>1, UndisturbedOK DEF AlertInv
  <1>3. AlertOK(PI)'
    BY <1>1 DEF AlertOK
  <1> QED  BY <1>2, <1>3 DEF AlertInv

LEMMA AlertInvariant == BroadcastSpec => []AlertInv
  <1>1. BroadcastInit => AlertInv
    <2> SUFFICES ASSUME BroadcastInit, NEW PI \in Stations PROVE AlertOK(PI)
      BY DEF AlertInv
    <2>1. heard[PI] = {} /\ ~(position[PI] > 0)
      BY DEF BroadcastInit
    <2> QED  BY <2>1 DEF AlertOK
  <1>2. TmcInv /\ AlertInv /\ [BroadcastNext]_broadcastVars => AlertInv'
    <2> SUFFICES ASSUME TmcInv, AlertInv, [BroadcastNext]_broadcastVars PROVE AlertInv'
      OBVIOUS
    <2>1. CASE UNCHANGED broadcastVars
      BY <2>1 DEF broadcastVars, tmcVars, AlertInv, AlertOK, Done, Underway
    <2> QED  BY <2>1, FirstAlert, FurtherAlert, NextGroupAlert, NextAlertAlert
             DEF BroadcastNext
  <1> QED  BY <1>1, <1>2, TmcInvariant, PTL DEF BroadcastSpec

\* An alert of which every group was received is shown with all its groups and no
\* other one, for any sizes and any losses and repetitions of the other alerts
\* (handle_msg and add_group).
THEOREM IntactAlertsShown == BroadcastSpec => []IntactAlertShown
  <1>1. TmcInv /\ AlertInv => IntactAlertShown
    <2> SUFFICES ASSUME TmcInv, AlertInv, NEW PI \in Stations,
                        heard[PI] = 0 .. alert[PI].further
                 PROVE  Done(PI)
      BY DEF IntactAlertShown, Done, Intact, Groups
    <2> DEFINE n == unfinished_messages[PI][alert[PI].ci]
               m == message_list[n]
    <2>1. alert[PI].further \in 0 .. 4 /\ alert[PI].ci \in Indices
      BY AlertIs DEF TmcInv, SendingOK
    <2>2. AlertOK(PI) /\ 0 \in heard[PI]
      BY <2>1 DEF AlertInv
    <2>3. ASSUME n # None, Underway(PI, m) PROVE FALSE
      <3>1. m \in MessageSet
        BY <2>1, <2>3 DEF TmcInv, TablesOK, Objects
      <3> HIDE DEF m
      <3>2. Len(m.data_arr) \in Nat
        BY <3>1 DEF MessageSet
      <3>3. Len(m.data_arr) + 1 \in 0 .. alert[PI].further
            /\ Len(m.data_arr) + 1 \notin heard[PI]
        BY <2>1, <2>3, <3>2 DEF Underway, Begun
      <3> QED  BY <3>3
    <2> QED  BY <2>2, <2>3 DEF AlertOK
  <1> QED  BY <1>1, TmcInvariant, AlertInvariant, PTL

\* No step completes a message with groups of another alert, unless a first group
\* with its index was lost since its own: the next group then goes to the message
\* that is there (handle_msg).
THEOREM MixedAfterLoss == BroadcastSpec => MixedOnlyAfterLoss
  <1> DEFINE Unmixed(n) ==
          ~message_list[n].is_complete /\ message_list'[n].is_complete =>
              LET m == message_list'[n]
              IN  \/ m.ci \in firstLost[m.PI]
                  \/ \A i \in DOMAIN m.data_arr : /\ m.data_arr[i].of.first = m.hash
                                                  /\ m.data_arr[i].of = m.data_arr[1].of
  <1>1. TmcInv /\ AlertInv /\ [BroadcastNext]_broadcastVars
            => [\A n \in Objects : Unmixed(n)]_broadcastVars
    <2> SUFFICES ASSUME TmcInv, AlertInv, BroadcastNext, NEW n \in Objects,
                        ~message_list[n].is_complete, message_list'[n].is_complete
                 PROVE  Unmixed(n)
      OBVIOUS
    <2>1. ASSUME NEW PI \in Stations, ReceiveFirst(PI) PROVE FALSE
      <3>1. alert[PI] \in Alerts[PI]
        BY DEF TmcInv, SendingOK
      <3>2. Added(tmc_message(PI, Words(alert[PI])))
        BY <2>1, <3>1, SingleKeeps, FirstKeeps DEF ReceiveFirst
      <3> QED  BY <3>2 DEF Added, Kept
    <2>2. ASSUME NEW PI \in Stations, NextGroup(PI) \/ NextAlert(PI) PROVE FALSE
      BY <2>2 DEF NextGroup, NextAlert, tmcVars
    <2>3. ASSUME NEW PI \in Stations, ReceiveFurther(PI) PROVE Unmixed(n)
      <3>a. PICK a : a = alert[PI]
        OBVIOUS
      <3>p. PICK p : p = position[PI]
        OBVIOUS
      <3>g. PICK g : g = Group(a, p)
        OBVIOUS
      <3>1. /\ a \in AlertSet /\ a.ci \in Indices /\ a.further \in 0 .. 4
            /\ p \in 1 .. a.further /\ g \in GroupSet /\ g.ci = a.ci
            /\ heard[PI] \in SUBSET (0 .. p)
        BY <2>3, <3>a, <3>p, <3>g, GroupIs DEF ReceiveFurther, TmcInv, SendingOK
      <3>2. FurtherTo(PI, unfinished_messages[PI][g.ci], g) \/ DiscardedGroup(PI, g)
        BY <2>3, <3>1, <3>a, <3>p, <3>g, FurtherGoes DEF ReceiveFurther
      <3>3. ~DiscardedGroup(PI, g)
        BY DEF DiscardedGroup, tmcVars
      <3>4. FurtherTo(PI, n, g)
        BY <3>2, <3>3 DEF FurtherTo
      <3>5. /\ n = unfinished_messages[PI][a.ci] /\ n # None
            /\ message_list[n] \in MessageSet /\ Assembled(message_list[n])
            /\ message_list'[n] = add_group(message_list[n], g)
            /\ message_list'[n].PI = PI /\ message_list'[n].ci = a.ci
        <4>1. n # None
          BY <3>4, ObjectIsSome DEF FurtherTo
        <4>2. g.ci = a.ci
          BY <3>1
        <4> QED  BY <3>4, <4>1, <4>2 DEF FurtherTo
      <3>6. CASE 0 \in heard[PI]
        <4>1. Begun(a, heard[PI], message_list[n])
          <5>1. AlertOK(PI) /\ a.further # 0
            BY <3>1 DEF AlertInv
          <5>2. Underway(PI, message_list[n])
            BY <3>5, <3>6, <3>a, <5>1 DEF AlertOK
          <5> QED  BY <3>a, <5>2 DEF Underway
        <4>2. PICK k : k = message_list'[n]
          OBVIOUS
        <4>3. \/ ~k.is_complete /\ Begun(a, heard[PI] \cup {p}, k)
              \/ k.is_complete /\ k.data_arr = Groups(a) /\ k.hash = a.first
          <5> DEFINE m == message_list[n]
          <5>1. /\ m \in MessageSet /\ Assembled(m) /\ ~m.is_complete
                /\ Begun(a, heard[PI], m) /\ k = add_group(m, Group(a, p))
                /\ Group(a, p) \in GroupSet
            BY <3>1, <3>5, <3>g, <4>1, <4>2
          <5> HIDE DEF m
          <5> QED  BY <3>1, <5>1, BegunTakes
        <4>4. k.data_arr = Groups(a) /\ k.hash = a.first
          BY <4>2, <4>3
        <4>5. DOMAIN Groups(a) = 1 .. a.further /\ 1 \in 1 .. a.further
          BY <3>1 DEF Groups
        <4>6. \A i \in 1 .. a.further : Groups(a)[i].of = a
          <5> SUFFICES ASSUME NEW i \in 1 .. a.further PROVE Groups(a)[i].of = a
            OBVIOUS
          <5>1. Groups(a)[i] = Group(a, i)
            BY DEF Groups
          <5>2. Group(a, i).of = a
            BY DEF Group
          <5> QED  BY <5>1, <5>2
        <4> HIDE DEF Unmixed
        <4>7. message_list'[n].data_arr = Groups(a) /\ message_list'[n].hash = a.first
          BY <4>2, <4>4
        <4>8. Unmixed(n)
          BY <4>5, <4>6, <4>7 DEF Unmixed
        <4> QED  BY <4>8
      <3>7. CASE 0 \notin heard[PI]
        <4>1. a.ci \in firstLost[PI]
          BY <2>3, <3>7, <3>a DEF ReceiveFurther, AlertInv, AlertOK
        <4> QED  BY <3>5, <4>1
      <3> QED  BY <3>6, <3>7
    <2> QED  BY <2>1, <2>2, <2>3 DEF BroadcastNext
  <1> QED  BY <1>1, TmcInvariant, AlertInvariant, PTL DEF BroadcastSpec, MixedOnlyAfterLoss
-----------------------------------------------------------------------------
(* The dictionary agrees with the list of all messages.                     *)

\* The messages of a list with a key, those of them that announce something, and
\* those of these from number n on and before it.
With(list, key) == {i \in 1 .. Len(list) : list[i].key = key}
Announcing(list, key) == {i \in With(list, key) : ~list[i].cancels}
SinceIn(list, key, n) == {i \in Announcing(list, key) : i >= n}
BeforeIn(list, key, n) == Announcing(list, key) \ SinceIn(list, key, n)

Latest(S, b) == b \in S /\ \A c \in S : c <= b

\* That message n of the list is the one to have for a key.
Entry(list, key, n) ==
    IF n = None THEN With(list, key) = {}
    ELSE /\ n \in With(list, key)
         /\ list[n].cancelled <=> \E i \in With(list, key) : i > n /\ list[i].cancels
         /\ \A i \in SinceIn(list, key, n) : list[i].hash = list[n].hash
         /\ BeforeIn(list, key, n) # {} =>
                \E b : Latest(BeforeIn(list, key, n), b) /\ list[b].hash # list[n].hash
         /\ ~list[n].cancels =>
                /\ \E b : Latest(SinceIn(list, key, n), b)
                /\ list[n].confirmations = Cardinality(SinceIn(list, key, n))
                /\ list[n].PIs = {list[i].PI : i \in SinceIn(list, key, n)}
         /\ list[n].cancels => /\ Announcing(list, key) = {}
                               /\ \A i \in With(list, key) : n <= i

\* The words of a message that were received determine its key and what it is.
Sent(m) == \E a \in AlertSet : m.hash = a.first /\ m.key = a.key /\ m.cancels = a.cancels

DictionaryInv ==
    /\ \A i \in Objects : Sent(message_list[i])
    /\ \A key \in Keys : Entry(message_list, key, messages[key])

\* What the dictionary has of a message.
Same(m, k) ==
    /\ k.hash = m.hash /\ k.cancels = m.cancels /\ k.PI = m.PI
    /\ k.cancelled = m.cancelled /\ k.confirmations = m.confirmations /\ k.PIs = m.PIs

LEMMA EntryKept ==
    ASSUME NEW list, NEW next, NEW key, NEW n, With(next, key) = With(list, key),
           \A i \in With(list, key) : Same(list[i], next[i]), Entry(list, key, n)
    PROVE  Entry(next, key, n)
  <1>1. CASE n = None
    BY <1>1 DEF Entry
  <1>2. CASE n # None
    <2>1. Announcing(next, key) = Announcing(list, key)
      BY DEF Announcing, Same
    <2>2. SinceIn(next, key, n) = SinceIn(list, key, n)
          /\ BeforeIn(next, key, n) = BeforeIn(list, key, n)
      BY <2>1 DEF SinceIn, BeforeIn
    <2>3. SinceIn(list, key, n) \subseteq With(list, key)
          /\ BeforeIn(list, key, n) \subseteq With(list, key)
      BY DEF SinceIn, BeforeIn, Announcing
    <2>4. {next[i].PI : i \in SinceIn(list, key, n)}
              = {list[i].PI : i \in SinceIn(list, key, n)}
      BY <2>3 DEF Same
    <2>5. n \in With(list, key) /\ Same(list[n], next[n])
      BY <1>2 DEF Entry
    <2>6. next[n].cancelled <=> \E i \in With(next, key) : i > n /\ next[i].cancels
      BY <1>2, <2>5 DEF Entry, Same
    <2>7. \A i \in SinceIn(next, key, n) : next[i].hash = next[n].hash
      BY <1>2, <2>2, <2>3, <2>5 DEF Entry, Same
    <2>8. BeforeIn(next, key, n) # {} =>
              \E b : Latest(BeforeIn(next, key, n), b) /\ next[b].hash # next[n].hash
      BY <1>2, <2>2, <2>3, <2>5 DEF Entry, Same, Latest
    <2>9. ~next[n].cancels =>
              /\ \E b : Latest(SinceIn(next, key, n), b)
              /\ next[n].confirmations = Cardinality(SinceIn(next, key, n))
              /\ next[n].PIs = {next[i].PI : i \in SinceIn(next, key, n)}
      BY <1>2, <2>2, <2>4, <2>5 DEF Entry, Same
    <2>10. next[n].cancels => /\ Announcing(next, key) = {}
                              /\ \A i \in With(next, key) : n <= i
      BY <1>2, <2>1, <2>5 DEF Entry, Same
    <2> QED  BY <1>2, <2>5, <2>6, <2>7, <2>8, <2>9, <2>10 DEF Entry
  <1> QED  BY <1>1, <1>2

\* A list with one more message.
Longer(list, next, msg) ==
    /\ list \in Seq(MessageSet) /\ next \in Seq(MessageSet) /\ msg \in MessageSet
    /\ Len(next) = Len(list) + 1 /\ next[Len(list) + 1] = msg
    /\ \A i \in 1 .. Len(list) : Kept(list[i], next[i])

LEMMA LongerList ==
    ASSUME NEW list, NEW next, NEW msg, Longer(list, next, msg), NEW key
    PROVE  LET m == Len(list) + 1
           IN  /\ m \in Nat /\ m # None /\ m \notin With(list, key)
               /\ With(list, key) \subseteq 1 .. Len(list) /\ Len(list) \in Nat
               /\ With(next, key) = IF msg.key = key THEN With(list, key) \cup {m}
                                    ELSE With(list, key)
               /\ Announcing(list, key) \subseteq With(list, key)
               /\ Announcing(next, key) = IF msg.key = key /\ ~msg.cancels
                                          THEN Announcing(list, key) \cup {m}
                                          ELSE Announcing(list, key)
  <1> DEFINE m == Len(list) + 1
  <1>1. /\ Len(list) \in Nat /\ m \in Nat /\ m # None
        /\ 1 .. Len(next) = (1 .. Len(list)) \cup {m} /\ m \notin 1 .. Len(list)
        /\ next[m] = msg
        /\ \A i \in 1 .. Len(list) : next[i].key = list[i].key
                                     /\ next[i].cancels = list[i].cancels
    BY DEF Longer, Kept, None
  <1> HIDE DEF m
  <1>2. With(next, key) = IF msg.key = key THEN With(list, key) \cup {m}
                          ELSE With(list, key)
    BY <1>1 DEF With
  <1>3. With(list, key) \subseteq 1 .. Len(list) /\ m \notin With(list, key)
    BY <1>1 DEF With
  <1>4. \A i \in With(list, key) : next[i].cancels = list[i].cancels
    BY <1>1, <1>3
  <1>5. Announcing(next, key) = IF msg.key = key /\ ~msg.cancels
                                THEN Announcing(list, key) \cup {m}
                                ELSE Announcing(list, key)
    BY <1>1, <1>2, <1>3, <1>4 DEF Announcing
  <1> QED  BY <1>1, <1>2, <1>3, <1>5 DEF m, Announcing

\* A cancellation of the entry.
LEMMA EntryCancelled ==
    ASSUME NEW list, NEW next, NEW msg, Longer(list, next, msg), NEW n,
           n # None, Entry(list, msg.key, n), msg.cancels,
           next[n].cancelled,
           next[n].confirmations = list[n].confirmations, next[n].PIs = list[n].PIs
    PROVE  Entry(next, msg.key, n)
  <1> DEFINE key == msg.key
             m == Len(list) + 1
  <1>1. /\ m \in Nat /\ With(list, key) \subseteq 1 .. Len(list) /\ Len(list) \in Nat
        /\ With(next, key) = With(list, key) \cup {m}
        /\ Announcing(list, key) \subseteq With(list, key)
        /\ Announcing(next, key) = Announcing(list, key)
    BY LongerList
  <1>2. next[m].cancels
    BY DEF Longer
  <1> HIDE DEF m, key
  <1>3. /\ n \in With(list, key) /\ n \in 1 .. Len(list) /\ n < m /\ n \in Nat
    BY <1>1 DEF Entry, key, m
  <1>4. \A i \in With(list, key) : Kept(list[i], next[i])
    BY <1>1 DEF Longer
  <1>5. /\ SinceIn(next, key, n) = SinceIn(list, key, n)
        /\ BeforeIn(next, key, n) = BeforeIn(list, key, n)
        /\ SinceIn(list, key, n) \subseteq With(list, key)
        /\ BeforeIn(list, key, n) \subseteq With(list, key)
    BY <1>1 DEF SinceIn, BeforeIn
  <1>6. {next[i].PI : i \in SinceIn(list, key, n)}
            = {list[i].PI : i \in SinceIn(list, key, n)}
    BY <1>4, <1>5 DEF Kept
  <1>7. /\ next[n].hash = list[n].hash /\ next[n].cancels = list[n].cancels
        /\ Entry(list, key, n)
    BY <1>3, <1>4 DEF Kept, key
  <1>8. next[n].cancelled <=> \E i \in With(next, key) : i > n /\ next[i].cancels
    BY <1>1, <1>2, <1>3
  <1>9. \A i \in SinceIn(next, key, n) : next[i].hash = next[n].hash
    BY <1>4, <1>5, <1>7 DEF Entry, Kept
  <1>10. BeforeIn(next, key, n) # {} =>
             \E b : Latest(BeforeIn(next, key, n), b) /\ next[b].hash # next[n].hash
    BY <1>4, <1>5, <1>7 DEF Entry, Kept, Latest
  <1>11. ~next[n].cancels =>
             /\ \E b : Latest(SinceIn(next, key, n), b)
             /\ next[n].confirmations = Cardinality(SinceIn(next, key, n))
             /\ next[n].PIs = {next[i].PI : i \in SinceIn(next, key, n)}
    BY <1>5, <1>6, <1>7 DEF Entry
  <1>12. next[n].cancels => /\ Announcing(next, key) = {}
                            /\ \A i \in With(next, key) : n <= i
    BY <1>1, <1>3, <1>7 DEF Entry
  <1> QED  BY <1>1, <1>3, <1>8, <1>9, <1>10, <1>11, <1>12 DEF Entry, key

\* A repetition of the entry.
LEMMA EntryConfirmed ==
    ASSUME NEW list, NEW next, NEW msg, Longer(list, next, msg), NEW n,
           n # None, Entry(list, msg.key, n), ~msg.cancels, ~list[n].cancels,
           list[n].hash = msg.hash, next[n].cancelled = list[n].cancelled,
           next[n].confirmations = list[n].confirmations + 1,
           next[n].PIs = list[n].PIs \cup {msg.PI}
    PROVE  Entry(next, msg.key, n)
  <1> DEFINE key == msg.key
             m == Len(list) + 1
  <1>1. /\ m \in Nat /\ With(list, key) \subseteq 1 .. Len(list) /\ Len(list) \in Nat
        /\ With(next, key) = With(list, key) \cup {m}
        /\ Announcing(list, key) \subseteq With(list, key)
        /\ Announcing(next, key) = Announcing(list, key) \cup {m}
        /\ m \notin With(list, key)
    BY LongerList
  <1>2. ~next[m].cancels /\ next[m].hash = msg.hash /\ next[m].PI = msg.PI
    BY DEF Longer
  <1> HIDE DEF m, key
  <1>3. /\ n \in With(list, key) /\ n \in 1 .. Len(list) /\ n < m /\ n \in Nat
    BY <1>1 DEF Entry, key, m
  <1>4. \A i \in With(list, key) : Kept(list[i], next[i])
    BY <1>1 DEF Longer
  <1>5. /\ SinceIn(next, key, n) = SinceIn(list, key, n) \cup {m}
        /\ BeforeIn(next, key, n) = BeforeIn(list, key, n)
        /\ SinceIn(list, key, n) \subseteq With(list, key)
        /\ BeforeIn(list, key, n) \subseteq With(list, key)
        /\ m \notin SinceIn(list, key, n)
    BY <1>1, <1>3 DEF SinceIn, BeforeIn
  <1>6. {next[i].PI : i \in SinceIn(next, key, n)}
            = {list[i].PI : i \in SinceIn(list, key, n)} \cup {msg.PI}
    BY <1>2, <1>4, <1>5 DEF Kept
  <1>7. /\ next[n].hash = list[n].hash /\ next[n].cancels = list[n].cancels
        /\ Entry(list, key, n)
    BY <1>3, <1>4 DEF Kept, key
  <1>8. next[n].cancelled <=> \E i \in With(next, key) : i > n /\ next[i].cancels
    BY <1>1, <1>2, <1>4, <1>7 DEF Entry, Kept
  <1>9. \A i \in SinceIn(next, key, n) : next[i].hash = next[n].hash
    BY <1>2, <1>4, <1>5, <1>7 DEF Entry, Kept
  <1>10. BeforeIn(next, key, n) # {} =>
             \E b : Latest(BeforeIn(next, key, n), b) /\ next[b].hash # next[n].hash
    BY <1>4, <1>5, <1>7 DEF Entry, Kept, Latest
  <1>11. Latest(SinceIn(next, key, n), m)
    BY <1>1, <1>5 DEF Latest, m
  <1>12. next[n].confirmations = Cardinality(SinceIn(next, key, n))
    <2>1. IsFiniteSet(1 .. Len(list))
      BY <1>1, FS_Interval
    <2>2. IsFiniteSet(SinceIn(list, key, n))
      BY <1>1, <1>5, <2>1, FS_Subset
    <2>3. Cardinality(SinceIn(list, key, n) \cup {m}) = Cardinality(SinceIn(list, key, n)) + 1
      BY <1>5, <2>2, FS_AddElement
    <2>4. list[n].confirmations = Cardinality(SinceIn(list, key, n))
      BY <1>7 DEF Entry
    <2> QED  BY <1>5, <2>3, <2>4
  <1>13. next[n].PIs = {next[i].PI : i \in SinceIn(next, key, n)}
    BY <1>6, <1>7 DEF Entry
  <1> QED  BY <1>1, <1>3, <1>7, <1>8, <1>9, <1>10, <1>11, <1>12, <1>13 DEF Entry, key

\* Another message than the entry, or the first one.
LEMMA EntryReplaced ==
    ASSUME NEW list, NEW next, NEW msg, Longer(list, next, msg), NEW n,
           Entry(list, msg.key, n),
           n # None => ~msg.cancels /\ list[n].hash # msg.hash,
           ~msg.cancelled, msg.confirmations = 1, msg.PIs = {msg.PI}
    PROVE  Entry(next, msg.key, Len(list) + 1)
  <1> DEFINE key == msg.key
             m == Len(list) + 1
  <1>1. /\ m \in Nat /\ With(list, key) \subseteq 1 .. Len(list) /\ Len(list) \in Nat
        /\ With(next, key) = With(list, key) \cup {m} /\ m # None
        /\ Announcing(list, key) \subseteq With(list, key)
        /\ ~msg.cancels => Announcing(next, key) = Announcing(list, key) \cup {m}
        /\ msg.cancels => Announcing(next, key) = Announcing(list, key)
        /\ m \notin With(list, key)
    BY LongerList
  <1>2. next[m] = msg
    BY DEF Longer
  <1> HIDE DEF m
  <1>3. \A i \in With(list, key) : i < m /\ Kept(list[i], next[i])
    BY <1>1 DEF Longer, m
  <1>4. /\ SinceIn(next, key, m) = IF ~msg.cancels THEN {m} ELSE {}
        /\ BeforeIn(next, key, m) = Announcing(list, key)
    BY <1>1, <1>3 DEF SinceIn, BeforeIn
  <1>5. ~\E i \in With(next, key) : i > m
    BY <1>1, <1>3
  <1>s. ASSUME ~msg.cancels
        PROVE  /\ Latest(SinceIn(next, key, m), m)
               /\ Cardinality(SinceIn(next, key, m)) = 1
               /\ {next[i].PI : i \in SinceIn(next, key, m)} = {msg.PI}
    <2>1. SinceIn(next, key, m) = {m} /\ m <= m
      BY <1>1, <1>4, <1>s
    <2>2. Cardinality({m}) = 1
      BY FS_Singleton
    <2> QED  BY <1>2, <2>1, <2>2 DEF Latest
  <1>6. CASE n = None
    <2>1. With(list, key) = {} /\ Announcing(list, key) = {}
      BY <1>1, <1>6 DEF Entry
    <2>2. ~msg.cancels => /\ Latest(SinceIn(next, key, m), m)
                          /\ Cardinality(SinceIn(next, key, m)) = 1
                          /\ {next[i].PI : i \in SinceIn(next, key, m)} = {msg.PI}
      BY <1>s
    <2>3. BeforeIn(next, key, m) = {}
          /\ \A i \in SinceIn(next, key, m) : next[i].hash = next[m].hash
      BY <1>4, <2>1
    <2>4. msg.cancels => /\ Announcing(next, key) = {}
                         /\ \A i \in With(next, key) : m <= i
      BY <1>1, <2>1
    <2> QED  BY <1>1, <1>2, <1>5, <2>2, <2>3, <2>4 DEF Entry, m
  <1>7. CASE n # None
    <2>1. ~msg.cancels /\ list[n].hash # msg.hash
      BY <1>7
    <2>2. /\ Latest(SinceIn(next, key, m), m)
          /\ Cardinality(SinceIn(next, key, m)) = 1
          /\ {next[i].PI : i \in SinceIn(next, key, m)} = {msg.PI}
      BY <1>s, <2>1
    <2>3. \A i \in SinceIn(next, key, m) : next[i].hash = next[m].hash
      BY <1>4
    <2>4. BeforeIn(next, key, m) # {} =>
              \E b : Latest(BeforeIn(next, key, m), b) /\ next[b].hash # next[m].hash
      <3> SUFFICES ASSUME Announcing(list, key) # {}
                   PROVE  \E b : /\ Latest(Announcing(list, key), b)
                                 /\ next[b].hash # msg.hash
        BY <1>2, <1>4
      <3>1. PICK b : Latest(SinceIn(list, key, n), b)
        BY <1>7 DEF Entry
      <3>2. b \in Announcing(list, key) /\ b >= n
            /\ \A i \in SinceIn(list, key, n) : list[i].hash = list[n].hash
        BY <1>7, <3>1 DEF Entry, Latest, SinceIn
      <3>3. n \in Nat /\ \A i \in Announcing(list, key) : i \in Nat
        BY <1>1, <1>7 DEF Entry
      <3>4. \A i \in Announcing(list, key) : i <= b
        BY <3>1, <3>2, <3>3 DEF Latest, SinceIn
      <3>5. next[b].hash = list[n].hash
        BY <1>1, <1>3, <3>1, <3>2 DEF Latest, Kept
      <3> QED  BY <2>1, <3>2, <3>4, <3>5 DEF Latest
    <2> QED  BY <1>1, <1>2, <1>5, <2>1, <2>2, <2>3, <2>4 DEF Entry, m
  <1> QED  BY <1>6, <1>7

\* How a new message changes the list and the dictionary.
AddedTo(msg) ==
    LET old == messages[msg.key]
        Others == \A i \in Objects \ {old} : Same(message_list[i], message_list'[i])
    IN  \/ /\ msg.cancels /\ old # None /\ UNCHANGED messages /\ Others
           /\ message_list'[old].cancelled
           /\ message_list'[old].confirmations = message_list[old].confirmations
           /\ message_list'[old].PIs = message_list[old].PIs
        \/ /\ ~msg.cancels /\ old # None /\ UNCHANGED messages /\ Others
           /\ message_list[old].hash = msg.hash
           /\ message_list'[old].cancelled = message_list[old].cancelled
           /\ message_list'[old].confirmations = message_list[old].confirmations + 1
           /\ message_list'[old].PIs = message_list[old].PIs \cup {msg.PI}
        \/ /\ old # None => ~msg.cancels /\ message_list[old].hash # msg.hash
           /\ messages' = [messages EXCEPT ![msg.key] = Len(message_list) + 1]
           /\ \A i \in Objects : Same(message_list[i], message_list'[i])

LEMMA AddGoes ==
    ASSUME TablesOK, NEW msg \in MessageSet, add(msg)
    PROVE  AddedTo(msg)
  <1> DEFINE list == Append(message_list, msg)
             n == Len(message_list) + 1
             old == messages[msg.key]
  <1>1. /\ list \in Seq(MessageSet) /\ Len(list) = n /\ DOMAIN list = 1 .. n
        /\ \A i \in Objects : list[i] = message_list[i]
        /\ n \in Nat /\ Objects = 1 .. (n - 1)
    BY DEF TablesOK, Objects
  <1>2. /\ msg.key \in Keys /\ old \in Objects \cup {None}
        /\ \A i \in Objects : i \in DOMAIN list /\ message_list[i] \in MessageSet
    <2>1. msg.key \in Keys
      BY DEF MessageSet
    <2>2. old \in Objects \cup {None}
      BY <2>1 DEF TablesOK
    <2>3. \A i \in Objects : i \in 1 .. n /\ message_list[i] \in MessageSet
      BY <1>1 DEF TablesOK, Objects
    <2> QED  BY <1>1, <2>1, <2>2, <2>3
  <1> HIDE DEF list, n, old
  <1>3. CASE /\ msg.cancels /\ old # None
             /\ message_list' = [list EXCEPT ![old].cancelled = TRUE]
             /\ UNCHANGED messages
    <2> PICK m : m = message_list[old]
      OBVIOUS
    <2>1. old \in Objects /\ list[old] = m /\ m \in MessageSet
      BY <1>1, <1>2, <1>3
    <2>2. /\ message_list'[old] = [m EXCEPT !.cancelled = TRUE]
          /\ \A i \in Objects \ {old} : message_list'[i] = message_list[i]
      BY <1>1, <1>2, <1>3, <2>1
    <2>3. /\ message_list'[old].cancelled = TRUE
          /\ message_list'[old].confirmations = m.confirmations
          /\ message_list'[old].PIs = m.PIs
      BY <2>1, <2>2 DEF MessageSet
    <2> QED  BY <1>3, <2>2, <2>3 DEF AddedTo, old, Same
  <1>4. CASE /\ ~msg.cancels /\ old # None /\ message_list[old].hash = msg.hash
             /\ message_list' = [list EXCEPT ![old].confirmations = @ + 1,
                                             ![old].PIs = @ \cup {msg.PI}]
             /\ UNCHANGED messages
    <2> PICK m : m = message_list[old]
      OBVIOUS
    <2>1. old \in Objects /\ list[old] = m /\ m \in MessageSet
      BY <1>1, <1>2, <1>4
    <2>2. /\ message_list'[old] = [m EXCEPT !.confirmations = m.confirmations + 1,
                                            !.PIs = m.PIs \cup {msg.PI}]
          /\ \A i \in Objects \ {old} : message_list'[i] = message_list[i]
      BY <1>1, <1>2, <1>4, <2>1
    <2>3. /\ message_list'[old].cancelled = m.cancelled
          /\ message_list'[old].confirmations = m.confirmations + 1
          /\ message_list'[old].PIs = m.PIs \cup {msg.PI}
      BY <2>1, <2>2 DEF MessageSet
    <2> QED  BY <1>4, <2>2, <2>3 DEF AddedTo, old, Same
  <1>5. CASE /\ old # None => ~msg.cancels /\ message_list[old].hash # msg.hash
             /\ message_list' = list /\ messages' = [messages EXCEPT ![msg.key] = n]
    BY <1>1, <1>5 DEF AddedTo, old, n, Same
  <1> QED  BY <1>1, <1>3, <1>4, <1>5 DEF add, SameMessage, list, n, old

\* The first group of a message, or a single one.
LEMMA AddedEntries ==
    ASSUME TmcInv, DictionaryInv, NEW PI \in Stations, NEW a \in Alerts[PI],
           add(tmc_message(PI, Words(a)))
    PROVE  DictionaryInv'
  <1>m. PICK msg : msg = tmc_message(PI, Words(a))
    OBVIOUS
  <1>1. /\ msg \in MessageSet /\ Added(msg) /\ AddedTo(msg) /\ msg.key \in Keys
        /\ Sent(msg) /\ ~msg.cancelled /\ msg.confirmations = 1 /\ msg.PIs = {msg.PI}
    <2>1. msg \in MessageSet
      BY <1>m, NewMessage
    <2>2. a \in AlertSet /\ a.key \in Keys
      BY AlertIs
    <2>3. /\ msg.key = a.key /\ msg.hash = a.first /\ msg.cancels = a.cancels
          /\ msg.cancelled = FALSE /\ msg.confirmations = 1
          /\ msg.PI = PI /\ msg.PIs = {PI}
      BY <1>m DEF tmc_message, Words
    <2>4. Sent(msg)
      BY <2>2, <2>3 DEF Sent
    <2>5. Added(msg) /\ AddedTo(msg)
      BY <1>m, <2>1, AddAdds, AddGoes DEF TmcInv
    <2> QED  BY <2>1, <2>2, <2>3, <2>4, <2>5
  <1>2. Longer(message_list, message_list', msg) /\ Objects = 1 .. Len(message_list)
    BY <1>1 DEF Longer, Added, TmcInv, TablesOK, Objects
  <1>3. /\ Objects' = Objects \cup {Len(message_list) + 1}
        /\ message_list'[Len(message_list) + 1] = msg
        /\ \A i \in Objects : Kept(message_list[i], message_list'[i])
    BY <1>2 DEF Longer, Objects
  <1>4. \A i \in Objects' : Sent(message_list'[i])
    BY <1>1, <1>3 DEF DictionaryInv, Sent, Kept
  <1> DEFINE key == msg.key
             old == messages[key]
  <1>5. Entry(message_list, key, old) /\ DOMAIN messages = Keys
    BY <1>1 DEF DictionaryInv, TmcInv, TablesOK
  <1>6. old # None => /\ old \in Objects /\ message_list[old].key = key
                      /\ Sent(message_list[old])
    BY <1>2, <1>5 DEF Entry, With, DictionaryInv, Objects
  <1>7. ASSUME NEW other \in Keys, other # key
        PROVE  Entry(message_list', other, messages'[other])
    <2>1. /\ With(message_list', other) = With(message_list, other)
          /\ Entry(message_list, other, messages[other])
      BY <1>2, <1>7, LongerList DEF DictionaryInv
    <2>2. messages'[other] = messages[other]
      BY <1>1, <1>5, <1>7 DEF AddedTo
    <2>3. \A i \in With(message_list, other) : i \in Objects /\ i # old
      BY <1>2, <1>6, <1>7 DEF With, Objects, None
    <2>4. \A i \in With(message_list, other) : Same(message_list[i], message_list'[i])
      BY <1>1, <2>3 DEF AddedTo
    <2> QED  BY <2>1, <2>2, <2>4, EntryKept
  <1>8. Entry(message_list', key, messages'[key])
    <2>1. CASE /\ msg.cancels /\ old # None /\ UNCHANGED messages
               /\ message_list'[old].cancelled
               /\ message_list'[old].confirmations = message_list[old].confirmations
               /\ message_list'[old].PIs = message_list[old].PIs
      BY <1>2, <1>5, <2>1, EntryCancelled
    <2>2. CASE /\ ~msg.cancels /\ old # None /\ UNCHANGED messages
               /\ message_list[old].hash = msg.hash
               /\ message_list'[old].cancelled = message_list[old].cancelled
               /\ message_list'[old].confirmations = message_list[old].confirmations + 1
               /\ message_list'[old].PIs = message_list[old].PIs \cup {msg.PI}
      <3>1. ~message_list[old].cancels
        BY <1>1, <1>6, <2>2, AlertAssumption DEF Sent
      <3> QED  BY <1>2, <1>5, <2>2, <3>1, EntryConfirmed
    <2>3. CASE /\ old # None => ~msg.cancels /\ message_list[old].hash # msg.hash
               /\ messages' = [messages EXCEPT ![msg.key] = Len(message_list) + 1]
      <3>1. messages'[key] = Len(message_list) + 1
        BY <1>1, <1>5, <2>3
      <3> QED  BY <1>1, <1>2, <1>5, <2>3, <3>1, EntryReplaced
    <2> QED  BY <1>1, <2>1, <2>2, <2>3 DEF AddedTo
  <1> QED  BY <1>4, <1>7, <1>8 DEF DictionaryInv

\* A further group of a message.
LEMMA FurtherEntries ==
    ASSUME TmcInv, DictionaryInv, NEW PI \in Stations, NEW g \in GroupSet,
           FurtherGroup(PI, g)
    PROVE  DictionaryInv'
  <1> DEFINE n == unfinished_messages[PI][g.ci]
  <1>1. FurtherTo(PI, n, g)
    BY FurtherGoes
  <1> HIDE DEF n
  <1>2. /\ n \in Objects /\ message_list[n] \in MessageSet /\ Assembled(message_list[n])
        /\ ~message_list[n].is_complete
        /\ message_list'[n] = add_group(message_list[n], g)
        /\ Len(message_list') = Len(message_list) /\ UNCHANGED messages
        /\ \A i \in Objects \ {n} : message_list'[i] = message_list[i]
    BY <1>1 DEF FurtherTo
  <1>3. Same(message_list[n], message_list'[n])
        /\ message_list'[n].key = message_list[n].key
    <2> PICK m : m = message_list[n]
      OBVIOUS
    <2> PICK k : k = message_list'[n]
      OBVIOUS
    <2>1. \/ k = m
          \/ k = [m EXCEPT !.second = TRUE,
                           !.length = IF m.second THEN m.length ELSE g.gsi,
                           !.count = g.gsi - 1,
                           !.data_arr = Append(m.data_arr, g),
                           !.is_complete = (g.gsi = 0)]
      BY <1>2, AddGroupTakes
    <2>2. m \in MessageSet
      BY <1>2
    <2>3. Same(m, k) /\ k.key = m.key
      BY <2>1, <2>2 DEF MessageSet, Same
    <2> QED  BY <2>3
  <1>4. /\ Objects' = Objects
        /\ \A i \in Objects : Same(message_list[i], message_list'[i])
                              /\ message_list'[i].key = message_list[i].key
    BY <1>2, <1>3 DEF Objects, Same
  <1>5. \A i \in Objects' : Sent(message_list'[i])
    BY <1>4 DEF DictionaryInv, Sent, Same
  <1>6. ASSUME NEW key \in Keys PROVE Entry(message_list', key, messages'[key])
    <2>1. With(message_list', key) = With(message_list, key)
          /\ With(message_list, key) \subseteq Objects
      BY <1>2, <1>4 DEF With, Objects
    <2> QED  BY <1>2, <1>4, <2>1, EntryKept DEF DictionaryInv
  <1> QED  BY <1>5, <1>6 DEF DictionaryInv

LEMMA DictionaryInvariant == BroadcastSpec => []DictionaryInv
  <1>1. BroadcastInit => DictionaryInv
    <2> SUFFICES ASSUME BroadcastInit PROVE DictionaryInv
      OBVIOUS
    <2>1. message_list = <<>> /\ Objects = {} /\ \A key \in Keys : messages[key] = None
      BY DEF BroadcastInit, TmcInit, Objects, Keys
    <2>2. \A key : With(message_list, key) = {}
      BY <2>1 DEF With, Objects
    <2> QED  BY <2>1, <2>2 DEF DictionaryInv, Entry
  <1>2. TmcInv /\ DictionaryInv /\ [BroadcastNext]_broadcastVars => DictionaryInv'
    <2> SUFFICES ASSUME TmcInv, DictionaryInv, [BroadcastNext]_broadcastVars
                 PROVE  DictionaryInv'
      OBVIOUS
    <2>1. CASE UNCHANGED <<message_list, messages>>
      BY <2>1 DEF DictionaryInv, Objects
    <2>2. ASSUME NEW PI \in Stations, ReceiveFirst(PI) PROVE DictionaryInv'
      <3>1. alert[PI] \in Alerts[PI]
        BY DEF TmcInv, SendingOK
      <3> QED  BY <2>2, <3>1, AddedEntries DEF ReceiveFirst, SingleGroup, FirstGroup
    <2>3. ASSUME NEW PI \in Stations, ReceiveFurther(PI) PROVE DictionaryInv'
      <3>1. Group(alert[PI], position[PI]) \in GroupSet
        BY <2>3, GroupIs DEF ReceiveFurther, TmcInv
      <3> QED  BY <2>1, <2>3, <3>1, FurtherEntries
               DEF ReceiveFurther, DiscardedGroup, tmcVars
    <2> QED  BY <2>1, <2>2, <2>3
             DEF BroadcastNext, NextGroup, NextAlert, broadcastVars, tmcVars
  <1> QED  BY <1>1, <1>2, TmcInvariant, PTL DEF BroadcastSpec

\* The dictionary agrees with the list of all messages, for every number of
\* messages, stations and keys: its entries are the last that differed from those
\* before them, and know what confirmed and cancelled them since (tmc_dict.add).
THEOREM DictionaryAgrees == BroadcastSpec => []DictionaryMatchesList
  <1>1. TmcInv /\ DictionaryInv => DictionaryMatchesList
    <2> SUFFICES ASSUME TmcInv, DictionaryInv, NEW key \in Keys
                 PROVE  LET n == messages[key]
                            e == message_list[n]
                            Own == With(message_list, key)
                            Since == SinceIn(message_list, key, n)
                            Before == BeforeIn(message_list, key, n)
                        IN  IF n = None THEN Own = {}
                            ELSE /\ e.key = key
                                 /\ e.cancelled <=>
                                        \E i \in Own : i > n /\ message_list[i].cancels
                                 /\ \A i \in Since : message_list[i].hash = e.hash
                                 /\ Before # {} =>
                                        message_list[Max(Before)].hash # e.hash
                                 /\ ~e.cancels =>
                                        /\ e.confirmations = Cardinality(Since)
                                        /\ e.PIs = {message_list[i].PI : i \in Since}
                                 /\ e.cancels => Announcing(message_list, key) = {}
                                                 /\ n = Min(Own)
      BY DEF DictionaryMatchesList, With, Announcing, SinceIn, BeforeIn, Objects, Keys
    <2> DEFINE n == messages[key]
               Own == With(message_list, key)
               Before == BeforeIn(message_list, key, n)
    <2>1. Entry(message_list, key, n) /\ message_list \in Seq(MessageSet)
      BY DEF DictionaryInv, TmcInv, TablesOK
    <2>2. Own \subseteq Nat /\ Before \subseteq Nat
      BY <2>1 DEF With, BeforeIn, Announcing
    <2> HIDE DEF n, Own, Before
    <2>3. ASSUME n # None, Before # {}
          PROVE  message_list[Max(Before)].hash # message_list[n].hash
      <3>1. PICK b : Latest(Before, b) /\ message_list[b].hash # message_list[n].hash
        BY <2>1, <2>3 DEF Entry, Before
      <3>2. Max(Before) = b
        BY <2>2, <3>1, MaxIs DEF Latest
      <3> QED  BY <3>1, <3>2
    <2>4. ASSUME n # None, message_list[n].cancels PROVE n = Min(Own)
      <3>1. n \in Own /\ \A i \in Own : n <= i
        BY <2>1, <2>4 DEF Entry, Own
      <3> QED  BY <2>2, <3>1, MinIs
    <2>5. n # None => message_list[n].key = key
      BY <2>1 DEF Entry, With
    <2> QED  BY <2>1, <2>3, <2>4, <2>5 DEF Entry, n, Own, Before
  <1> QED  BY <1>1, TmcInvariant, DictionaryInvariant, PTL
=============================================================================

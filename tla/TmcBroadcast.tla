----------------------------- MODULE TmcBroadcast -----------------------------
(***************************************************************************)
(* The messages of several stations, and TmcMessages which receives them.   *)
(* Each station sends its messages group after group; a group is sent any   *)
(* number of times (broadcasters repeat each), any of which may be lost.    *)
(*                                                                         *)
(* An alert is [first, key, cancels, ci, further, rest]: what its first     *)
(* group says, the number of further groups (0: a single group), and what   *)
(* these say.                                                               *)
(***************************************************************************)
EXTENDS TmcMessages

CONSTANT Alerts   \* what each station sends

AlertSet == UNION Range(Alerts)

\* The words of a first group determine what is read from them, and a message
\* has up to five groups.
ASSUME AlertAssumption ==
    /\ DOMAIN Alerts = Stations
    /\ \A a \in AlertSet : /\ a.key \in Locations \X Classes
                           /\ a.cancels \in BOOLEAN /\ a.ci \in Indices
                           /\ a.further \in 0 .. 4
    /\ \A a, b \in AlertSet :
           a.first = b.first => /\ a.key = b.key /\ a.cancels = b.cancels
                                /\ a.ci = b.ci
                                /\ (a.further = 0) = (b.further = 0)

VARIABLES
    alert,       \* what each station is sending
    position,    \* the group of it, 0 being the first
    heard,       \* the groups of it that were received
    firstLost    \* the indices for which a first group was lost since one was
                 \* received, by station

broadcastVars == <<tmcVars, alert, position, heard, firstLost>>

Words(a) == [first |-> a.first, key |-> a.key, cancels |-> a.cancels, ci |-> a.ci,
             is_single |-> a.further = 0]
Group(a, k) == [of |-> a, ci |-> a.ci, sg |-> k = 1, gsi |-> a.further - k]

BroadcastInit ==
    /\ TmcInit
    /\ alert \in [Stations -> AlertSet]
    /\ \A PI \in Stations : alert[PI] \in Alerts[PI]
    /\ position = [PI \in Stations |-> 0]
    /\ heard = [PI \in Stations |-> {}]
    /\ firstLost = [PI \in Stations |-> Indices]

\* The group on the air is received (again).
ReceiveFirst(PI) ==
    /\ position[PI] = 0
    /\ SingleGroup(PI, Words(alert[PI])) \/ FirstGroup(PI, Words(alert[PI]))
    /\ heard' = [heard EXCEPT ![PI] = {0}]
    /\ firstLost' = [firstLost EXCEPT ![PI] = @ \ {alert[PI].ci}]
    /\ UNCHANGED <<alert, position>>

ReceiveFurther(PI) ==
    /\ position[PI] > 0
    /\ LET group == Group(alert[PI], position[PI])
       IN  FurtherGroup(PI, group) \/ DiscardedGroup(PI, group)
    /\ heard' = [heard EXCEPT ![PI] = @ \cup {position[PI]}]
    /\ UNCHANGED <<alert, position, firstLost>>

NextGroup(PI) ==
    /\ position[PI] < alert[PI].further
    /\ position' = [position EXCEPT ![PI] = @ + 1]
    /\ firstLost' = [firstLost EXCEPT ![PI] =
                         IF 0 \in heard[PI] THEN @ ELSE @ \cup {alert[PI].ci}]
    /\ UNCHANGED <<tmcVars, alert, heard>>

NextAlert(PI) ==
    /\ position[PI] = alert[PI].further
    /\ \E a \in Alerts[PI] : alert' = [alert EXCEPT ![PI] = a]
    /\ position' = [position EXCEPT ![PI] = 0]
    /\ heard' = [heard EXCEPT ![PI] = {}]
    /\ UNCHANGED <<tmcVars, firstLost>>

BroadcastNext == \E PI \in Stations : \/ ReceiveFirst(PI) \/ ReceiveFurther(PI)
                                      \/ NextGroup(PI) \/ NextAlert(PI)

BroadcastSpec == BroadcastInit /\ [][BroadcastNext]_broadcastVars

-----------------------------------------------------------------------------
\* An alert of which every group was received is shown, with all its groups and
\* no other one, however often each was received and whatever came before
\* (handle_msg and add_group).
IntactAlertShown ==
    \A PI \in Stations :
        LET a == alert[PI]
        IN  heard[PI] = 0 .. a.further =>
                \E n \in ToSet(shown) :
                    /\ message_list[n].PI = PI
                    /\ message_list[n].hash = a.first
                    /\ message_list[n].data_arr =
                           [k \in 1 .. a.further |-> Group(a, k)]

\* A message is completed with groups of another alert only when a first group
\* with its index was lost since its own first group.
MixedOnlyAfterLoss ==
    [][\A n \in Objects :
           ~message_list[n].is_complete /\ message_list'[n].is_complete =>
               LET m == message_list'[n]
               IN  \/ m.ci \in firstLost[m.PI]
                   \/ \A i \in DOMAIN m.data_arr :
                          /\ m.data_arr[i].of.first = m.hash
                          /\ m.data_arr[i].of = m.data_arr[1].of]_broadcastVars
=============================================================================

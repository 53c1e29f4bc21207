------------------------------ MODULE EventBridge ------------------------------
(***************************************************************************)
(* From a change of the license state to the renderer that shows it: the   *)
(* SDK's broadcast channel (client.rs), the bridge of the Tauri plugin     *)
(* that forwards its events (lib.rs), and subscribeState of the guest      *)
(* bindings (index.ts), which answers an event by reading the whole state  *)
(* and handing it to the application's listener.                           *)
(*                                                                         *)
(* The state is the number of its changes; one subscription is followed    *)
(* from its start to its end.                                              *)
(***************************************************************************)
EXTENDS Naturals, Sequences, FiniteSets, SequencesExt, FiniteSetsExt

CONSTANTS
    Names,       \* events subscribeState listens to
    Capacity,    \* of the broadcast channel
    MaxChanges,  \* bound: changes of the state
    MaxChatter,  \* bound: events that announce no change
    MaxFailures  \* bound: reads and listeners that fail

ASSUME NamesType == Names # {} /\ IsFiniteSet(Names)
ASSUME CapacityType == Capacity \in Nat \ {0}
ASSUME BoundsType == MaxChanges \in Nat /\ MaxChatter \in Nat /\ MaxFailures \in Nat

VARIABLES
    version,    \* SDK: the state, as the number of its changes
    owed,       \* SDK: changes whose event is still to be sent
    channel,    \* events the bridge has not received, oldest first
    lagged,     \* the bridge has missed events and does not know it yet
    bus,        \* events emitted to the webview, oldest first
    phase,      \* the subscription: see Phases
    current,    \* option emitCurrent
    registered, \* names with a listener in the webview
    refused,    \* names whose registration failed
    active,     \* subscribeState: active
    queue,      \* deliveryQueue, the delivery under way first
    chatter,    \* bound: events sent that announce nothing
    failures,   \* bound: failures so far
    announced,  \* history: the newest change announced to a subscriber
    lost,       \* history: the announcement of it was dropped
    shown,      \* history: the newest state given to the listener
    told        \* history: the newest change the application was told of, or of its failed read

sdk == <<version, owed>>
bridge == <<channel, lagged>>
subscription == <<phase, current, registered, refused, active>>
bounds == <<chatter, failures>>
heard == <<shown, told>>
vars == <<sdk, bridge, bus, subscription, queue, bounds, announced, lost, heard>>

Phases == {"none", "registering", "reading", "on", "stopping", "draining", "off", "failed"}
Other == "other"
Versions == 0..MaxChanges

(* A delivery: the change it announces, how far it is, the state it read,  *)
(* and whether subscribeState waits for it                                 *)
Delivery(v) == [for |-> v, pc |-> "queued", state |-> 0, awaited |-> FALSE]
Deliveries == [for : Versions, pc : {"queued", "reading", "read", "listening"},
               state : Versions, awaited : BOOLEAN]

Init ==
    /\ version = 0 /\ owed = {}
    /\ channel = <<>> /\ lagged = FALSE /\ bus = <<>>
    /\ phase = "none" /\ current \in BOOLEAN
    /\ registered = {} /\ refused = {} /\ active = FALSE /\ queue = <<>>
    /\ chatter = 0 /\ failures = 0
    /\ announced = 0 /\ lost = FALSE /\ shown = 0 /\ told = 0

-----------------------------------------------------------------------------
(* The SDK and its channel                                                 *)

(* Bug: a full channel refuses the new event                               *)
SendIfRoom(e) ==
    IF Len(channel) < Capacity THEN channel' = Append(channel, e) /\ UNCHANGED lagged
    ELSE UNCHANGED <<channel, lagged>>

(* Bug: one event more than the channel has room for                       *)
SendOneMore(e) ==
    IF Len(channel) <= Capacity THEN channel' = Append(channel, e) /\ UNCHANGED lagged
    ELSE channel' = Append(Tail(channel), e) /\ lagged' = TRUE

(* emit: a full channel drops its oldest event                             *)
Send(e) ==
    IF Len(channel) < Capacity THEN channel' = Append(channel, e) /\ UNCHANGED lagged
    ELSE channel' = Append(Tail(channel), e) /\ lagged' = TRUE

Overwritten == IF Len(channel) = Capacity THEN {Head(channel)} ELSE {}

(* An operation commits a change under the state lock ...                  *)
Commit ==
    /\ version < MaxChanges
    /\ version' = version + 1
    /\ owed' = owed \cup {version + 1}
    /\ UNCHANGED <<bridge, bus, subscription, queue, bounds, announced, lost, heard>>

(* ... and sends its event after that, as others do                        *)
Announce == \E v \in owed, n \in Names : LET e == [name |-> n, for |-> v] IN
    /\ Send(e)
    /\ owed' = owed \ {v}
    /\ announced' = Max({announced, v})
    /\ lost' = IF v >= announced THEN FALSE
               ELSE lost \/ \E o \in Overwritten : o.for = announced
    /\ UNCHANGED <<version, bus, subscription, queue, bounds, heard>>

(* A heartbeat answered with an inactive license, or denied, changes the   *)
(* state and sends an event subscribeState does not listen to.             *)
Unannounced == \E v \in owed :
    /\ chatter < MaxChatter /\ chatter' = chatter + 1
    /\ Send([name |-> Other, for |-> 0])
    /\ owed' = owed \ {v}
    /\ lost' = (lost \/ \E o \in Overwritten : o.for = announced)
    /\ UNCHANGED <<version, bus, subscription, queue, failures, announced, heard>>

(* Events of operations that change nothing                                *)
Chatter ==
    /\ chatter < MaxChatter /\ chatter' = chatter + 1
    /\ Send([name |-> Other, for |-> 0])
    /\ lost' = (lost \/ \E o \in Overwritten : o.for = announced)
    /\ UNCHANGED <<sdk, bus, subscription, queue, failures, announced, heard>>

(* The bridge is told that it lagged and goes on with what is left         *)
Lagged ==
    /\ lagged /\ lagged' = FALSE
    /\ UNCHANGED <<sdk, channel, bus, subscription, queue, bounds, announced, lost, heard>>

Forward ==
    /\ ~lagged /\ channel # <<>>
    /\ channel' = Tail(channel)
    /\ bus' = Append(bus, Head(channel))
    /\ UNCHANGED <<sdk, lagged, subscription, queue, bounds, announced, lost, heard>>

-----------------------------------------------------------------------------
(* subscribeState                                                          *)

(* What was announced before there was a subscriber is not its business    *)
Subscribe ==
    /\ phase = "none" /\ phase' = "registering"
    /\ active' = TRUE
    /\ UNCHANGED <<sdk, bridge, bus, current, registered, refused, queue, bounds, announced, lost, heard>>

Register == \E n \in Names \ (registered \cup refused) :
    /\ phase = "registering"
    /\ \/ registered' = registered \cup {n} /\ UNCHANGED <<refused, failures>>
       \/ /\ failures < MaxFailures /\ failures' = failures + 1
          /\ refused' = refused \cup {n} /\ UNCHANGED registered
    /\ UNCHANGED <<sdk, bridge, bus, phase, current, active, queue, chatter, announced, lost, heard>>

AllSettled == phase = "registering" /\ registered \cup refused = Names

(* One name could not be registered: subscribeState takes all back         *)
SubscribeFails ==
    /\ AllSettled /\ refused # {}
    /\ active' = FALSE /\ phase' = "failed"
    /\ UNCHANGED <<sdk, bridge, bus, current, registered, refused, queue, bounds, announced, lost, heard>>

(* emitCurrent: a first delivery, which subscribeState waits for           *)
EmitCurrent ==
    /\ AllSettled /\ refused = {} /\ current
    /\ queue' = Append(queue, [Delivery(announced) EXCEPT !.awaited = TRUE])
    /\ phase' = "reading"
    /\ UNCHANGED <<sdk, bridge, bus, current, registered, refused, active, bounds, announced, lost, heard>>

(* The subscription stands; without emitCurrent the application reads the  *)
(* state by itself if it wants it                                          *)
Subscribed ==
    /\ \/ AllSettled /\ refused = {} /\ ~current /\ told' = Max({told, announced})
       \/ phase = "reading" /\ ~(\E d \in Range(queue) : d.awaited) /\ UNCHANGED told
    /\ phase' = "on"
    /\ UNCHANGED <<sdk, bridge, bus, current, registered, refused, active, queue, bounds, announced, lost, shown>>

(* An event reaches the webview; its handler, if any, queues a delivery    *)
Dispatch ==
    /\ bus # <<>> /\ bus' = Tail(bus)
    /\ queue' = IF Head(bus).name \in registered THEN Append(queue, Delivery(Head(bus).for)) ELSE queue
    /\ UNCHANGED <<sdk, bridge, subscription, bounds, announced, lost, heard>>

(* Bug: deliveries do not wait for one another                             *)
AnyTurn(i) == TRUE
Turn(i) == i = 1

Becomes(i, pc) == queue' = [queue EXCEPT ![i].pc = pc]
Done(i) == queue' = RemoveAt(queue, i)

(* A delivery begins by asking for the state, unless unsubscribed          *)
Ask(i) ==
    /\ Turn(i) /\ queue[i].pc = "queued"
    /\ IF active THEN Becomes(i, "reading") ELSE Done(i)
    /\ UNCHANGED <<sdk, bridge, bus, subscription, bounds, announced, lost, heard>>

(* get_state in the SDK: one coherent observation                          *)
Read(i) ==
    /\ queue[i].pc = "reading"
    /\ queue' = [queue EXCEPT ![i].pc = "read", ![i].state = version]
    /\ UNCHANGED <<sdk, bridge, bus, subscription, bounds, announced, lost, heard>>

(* Bug: not asked again after the read                                     *)
ListenAnyway(i) == TRUE
MayListen(i) == active

Listen(i) ==
    /\ queue[i].pc = "read"
    /\ IF MayListen(i) THEN /\ Becomes(i, "listening")
                            /\ shown' = queue[i].state
                            /\ told' = Max({told, queue[i].state})
                       ELSE Done(i) /\ UNCHANGED heard
    /\ UNCHANGED <<sdk, bridge, bus, subscription, bounds, announced, lost>>

Listened(i) ==
    /\ queue[i].pc = "listening" /\ Done(i)
    /\ UNCHANGED <<sdk, bridge, bus, subscription, bounds, announced, lost, heard>>

(* Bug: a rejected delivery rejects those that wait for it                 *)
RejectChain(i) == queue' = SubSeq(queue, 1, i - 1)
Rejected(i) == Done(i)

(* The read or the listener fails: onError, if there is one, is told       *)
Fails(i) ==
    /\ queue[i].pc \in {"reading", "listening"}
    /\ failures < MaxFailures /\ failures' = failures + 1
    /\ Rejected(i)
    /\ told' = Max({told, queue[i].for})
    /\ UNCHANGED <<sdk, bridge, bus, subscription, chatter, announced, lost, shown>>

Unsubscribe ==
    /\ phase = "on" /\ phase' = "stopping"
    /\ active' = FALSE
    /\ UNCHANGED <<sdk, bridge, bus, current, registered, refused, queue, bounds, announced, lost, heard>>

(* Listeners are removed one by one, by unsubscribe or the failure         *)
Unlisten == \E n \in registered :
    /\ phase \in {"stopping", "failed"}
    /\ registered' = registered \ {n}
    /\ phase' = IF phase = "stopping" /\ registered' = {} THEN "draining" ELSE phase
    /\ UNCHANGED <<sdk, bridge, bus, current, refused, active, queue, bounds, announced, lost, heard>>

(* unsubscribe waits for the queue                                         *)
Drained ==
    /\ phase = "draining" /\ queue = <<>> /\ phase' = "off"
    /\ UNCHANGED <<sdk, bridge, bus, current, registered, refused, active, queue, bounds, announced, lost, heard>>

Deliver == \E i \in DOMAIN queue : Ask(i) \/ Read(i) \/ Listen(i) \/ Listened(i)

Setup == Register \/ SubscribeFails \/ EmitCurrent \/ Subscribed \/ Unlisten \/ Drained

Next ==
    \/ Commit \/ Announce \/ Unannounced \/ Chatter
    \/ Lagged \/ Forward \/ Dispatch
    \/ Subscribe \/ Setup \/ Unsubscribe
    \/ Deliver \/ \E i \in DOMAIN queue : Fails(i)

Spec == Init /\ [][Next]_vars

(* The bridge is a task of its own, the webview's loop dispatches what it  *)
(* is sent, reads are answered, and the listener returns.                  *)
Fairness ==
    /\ WF_vars(Announce) /\ WF_vars(Lagged \/ Forward) /\ WF_vars(Dispatch)
    /\ WF_vars(Setup) /\ WF_vars(Deliver)
FairSpec == Spec /\ Fairness

-----------------------------------------------------------------------------
(* Properties                                                              *)

TypeOK ==
    /\ version \in Versions /\ owed \subseteq Versions
    /\ Len(channel) <= Capacity /\ lagged \in BOOLEAN
    /\ \A e \in Range(channel) \cup Range(bus) : e.name \in Names \cup {Other} /\ e.for \in Versions
    /\ phase \in Phases /\ current \in BOOLEAN /\ active \in BOOLEAN
    /\ registered \subseteq Names /\ refused \subseteq Names
    /\ Range(queue) \subseteq Deliveries
    /\ announced \in Versions /\ lost \in BOOLEAN /\ shown \in Versions /\ told \in Versions

(* "serializes refresh and handler delivery so slow async handlers cannot  *)
(* overlap or observe snapshots out of order" (README.md of the plugin):   *)
(* the listener never sees the state go back, and is never called while it *)
(* still runs.                                                             *)
DeliveredInOrder == [][
    /\ shown' >= shown
    /\ Cardinality({i \in DOMAIN queue' : queue'[i].pc = "listening"}) <= 1]_vars

(* "Unsubscribe stops new delivery, removes every native listener, and     *)
(* drains the already queued work": nothing is begun once it was called,   *)
(* and once it has returned nothing runs.  A failed subscription is silent *)
(* as well.                                                                *)
NothingAfterUnsubscribe == [][
    /\ ~active => UNCHANGED shown /\ \A i \in DOMAIN queue' :
            queue'[i].pc = "listening" => \E j \in DOMAIN queue : queue[j] = queue'[i]
    /\ phase' = "off" => \A i \in DOMAIN queue' : queue'[i].pc = "queued"]_vars

(* However events, reads, failures and bursts interleave, a subscriber is  *)
(* in the end told of the newest change announced, or of a failure to read *)
(* it, unless a full channel has dropped that very announcement.           *)
EventuallyTold == []<>(phase = "on" => told >= announced \/ lost)

-----------------------------------------------------------------------------
(* What the code does not keep                                             *)

(* "heartbeat grant changes are included in the default refresh events"    *)
(* (README.md of the plugin): a subscriber is in the end shown the state, *)
(* whichever operation changed it.                                         *)
EveryChangeIsTold == []<>(phase = "on" /\ current /\ failures = 0 /\ owed = {} => told >= version \/ lost)
=============================================================================

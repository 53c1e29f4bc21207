--------------------------- MODULE EventBridge_proof ---------------------------
(***************************************************************************)
(* The delivery queue of a subscription, for any number of names, changes, *)
(* bursts and failures and any capacity of the channel: types, order of    *)
(* delivery, silence after unsubscribing.                                  *)
(***************************************************************************)
EXTENDS EventBridge, FiniteSetTheorems, SequenceTheorems, TLAPS

-----------------------------------------------------------------------------
(* Sequences                                                               *)

LEMMA AppendIs ==
    ASSUME NEW S, NEW s \in Seq(S), NEW e \in S
    PROVE  /\ Append(s, e) \in Seq(S) /\ Len(Append(s, e)) = Len(s) + 1
           /\ DOMAIN Append(s, e) = 1..(Len(s) + 1)
           /\ \A j \in 1..Len(s) : Append(s, e)[j] = s[j]
           /\ Append(s, e)[Len(s) + 1] = e
  OBVIOUS

LEMMA TailIs ==
    ASSUME NEW S, NEW s \in Seq(S), s # <<>>
    PROVE  /\ Tail(s) \in Seq(S) /\ Len(s) \in Nat \ {0} /\ Len(Tail(s)) = Len(s) - 1
           /\ DOMAIN Tail(s) = 1..(Len(s) - 1)
           /\ \A j \in 1..(Len(s) - 1) : j + 1 \in 1..Len(s) /\ Tail(s)[j] = s[j + 1]
           /\ Head(s) = s[1] /\ Head(s) \in S
  OBVIOUS

LEMMA RemoveFirstIsTail ==
    ASSUME NEW S, NEW s \in Seq(S), 1 \in DOMAIN s
    PROVE  RemoveAt(s, 1) = Tail(s) /\ s # <<>>
<1>1. SubSeq(s, 1, 0) = <<>> /\ SubSeq(s, 2, Len(s)) = Tail(s) /\ Tail(s) \in Seq(S) /\ s # <<>>
  OBVIOUS
<1>2. RemoveAt(s, 1) = <<>> \o Tail(s)
  <2>1. 1 - 1 = 0 /\ 1 + 1 = 2
    OBVIOUS
  <2> QED
    BY <1>1, <2>1, Zenon DEF RemoveAt
<1>3. <<>> \o Tail(s) = Tail(s)
  BY <1>1, ConcatEmptySeq
<1> QED
  BY <1>1, <1>2, <1>3

LEMMA MaxOfTwo ==
    ASSUME NEW a \in Nat, NEW b \in Nat
    PROVE  Max({a, b}) \in {a, b} /\ Max({a, b}) >= a /\ Max({a, b}) >= b
<1>1. \E x \in {a, b} : \A y \in {a, b} : x >= y
  OBVIOUS
<1> QED
  BY <1>1 DEF Max

-----------------------------------------------------------------------------
(* The invariant                                                           *)

Events == [name : Names \cup {Other}, for : Versions]

Types ==
    /\ version \in Versions /\ owed \subseteq Versions
    /\ channel \in Seq(Events) /\ Len(channel) <= Capacity /\ lagged \in BOOLEAN
    /\ bus \in Seq(Events) /\ queue \in Seq(Deliveries)
    /\ phase \in Phases /\ current \in BOOLEAN /\ active \in BOOLEAN
    /\ registered \subseteq Names /\ refused \subseteq Names
    /\ announced \in Versions /\ lost \in BOOLEAN /\ shown \in Versions /\ told \in Versions

(* Only the first delivery of the queue is under way                       *)
OneAtATime == \A i \in DOMAIN queue : queue[i].pc # "queued" => i = 1

(* What has been read is no older than what the listener has seen          *)
InOrder ==
    /\ shown <= version
    /\ \A i \in DOMAIN queue :
         queue[i].state <= version /\ (queue[i].pc = "read" => shown <= queue[i].state)

(* The end of a subscription is reached through its deactivation, and      *)
(* after its end nothing is under way                                      *)
Ended ==
    /\ phase \in {"stopping", "draining", "off", "failed"} => ~active
    /\ phase = "off" => \A i \in DOMAIN queue : queue[i].pc = "queued"

IInv == Types /\ OneAtATime /\ InOrder /\ Ended

QueueInv == queue \in Seq(Deliveries) /\ OneAtATime /\ InOrder

(* A step begins no call of the listener                                   *)
NoCall == shown' = shown /\ \A i \in DOMAIN queue' :
    queue'[i].pc = "listening" => \E j \in DOMAIN queue : queue[j] = queue'[i]

USE BoundsType, CapacityType DEF Versions

-----------------------------------------------------------------------------
(* What a step does to the queue                                           *)

LEMMA QueueKept ==
    ASSUME QueueInv, queue' = queue, shown' = shown, version' \in Nat, version' >= version,
           version \in Nat, shown \in Nat
    PROVE  QueueInv' /\ NoCall
<1>1. \A i \in DOMAIN queue : queue[i] \in Deliveries /\ queue[i].state \in Nat
  <2>1. \A i \in DOMAIN queue : queue[i] \in Deliveries
    BY DEF QueueInv
  <2> QED
    BY <2>1 DEF Deliveries
<1> QED
  BY <1>1 DEF QueueInv, OneAtATime, InOrder, NoCall

LEMMA QueueAppended ==
    ASSUME QueueInv, NEW d \in Deliveries, d.pc = "queued", d.state = 0,
           queue' = Append(queue, d), version \in Nat, UNCHANGED <<shown, version>>
    PROVE  QueueInv' /\ NoCall /\ \A i \in DOMAIN queue' :
             queue'[i].pc # "queued" => i \in DOMAIN queue /\ queue[i] = queue'[i]
<1>1. /\ queue' \in Seq(Deliveries) /\ DOMAIN queue' = 1..(Len(queue) + 1)
      /\ \A j \in 1..Len(queue) : queue'[j] = queue[j]
      /\ queue'[Len(queue) + 1] = d /\ DOMAIN queue = 1..Len(queue) /\ Len(queue) \in Nat
  BY AppendIs DEF QueueInv
<1>2. \A i \in DOMAIN queue' : \/ i \in DOMAIN queue /\ queue'[i] = queue[i]
                               \/ i = Len(queue) + 1 /\ queue'[i] = d
  BY <1>1
<1> QED
  BY <1>1, <1>2 DEF QueueInv, OneAtATime, InOrder, NoCall

LEMMA QueueShortened ==
    ASSUME QueueInv, 1 \in DOMAIN queue, queue' = RemoveAt(queue, 1), UNCHANGED <<shown, version>>
    PROVE  QueueInv' /\ NoCall /\ \A i \in DOMAIN queue' : queue'[i].pc = "queued"
<1>1. queue' = Tail(queue) /\ queue # <<>>
  BY RemoveFirstIsTail DEF QueueInv
<1>2. /\ queue' \in Seq(Deliveries) /\ DOMAIN queue' = 1..(Len(queue) - 1) /\ Len(queue) \in Nat
      /\ \A j \in DOMAIN queue' : j + 1 \in DOMAIN queue /\ j + 1 # 1 /\ queue'[j] = queue[j + 1]
  BY <1>1, TailIs DEF QueueInv
<1>3. \A i \in DOMAIN queue' : queue'[i].pc = "queued"
  BY <1>2 DEF QueueInv, OneAtATime
<1> QED
  BY <1>2, <1>3 DEF QueueInv, OneAtATime, InOrder, NoCall

LEMMA HeadChanged ==
    ASSUME QueueInv, 1 \in DOMAIN queue, NEW d \in Deliveries, queue' = [queue EXCEPT ![1] = d],
           version' = version, shown' <= version, d.state <= version,
           d.pc = "read" => shown' <= d.state
    PROVE  /\ QueueInv'
           /\ shown' = shown /\ d.pc # "listening" => NoCall
<1>1. /\ queue' \in Seq(Deliveries) /\ DOMAIN queue' = DOMAIN queue /\ queue'[1] = d
      /\ \A j \in DOMAIN queue : j # 1 => queue'[j] = queue[j]
  BY DEF QueueInv
<1>2. \A j \in DOMAIN queue : j # 1 => queue[j].pc = "queued"
  BY DEF QueueInv, OneAtATime
<1> QED
  BY <1>1, <1>2 DEF QueueInv, OneAtATime, InOrder, NoCall

-----------------------------------------------------------------------------
(* What the parts of a step do to the types                                *)

LEMMA SendType ==
    ASSUME Types, NEW e \in Events, Send(e)
    PROVE  channel' \in Seq(Events) /\ Len(channel') <= Capacity /\ lagged' \in BOOLEAN
<1>1. CASE Len(channel) < Capacity
  BY <1>1, AppendIs DEF Types, Send
<1>2. CASE ~(Len(channel) < Capacity)
  <2>1. channel # <<>> /\ channel \in Seq(Events) /\ Len(channel) = Capacity
    BY <1>2 DEF Types
  <2>2. Tail(channel) \in Seq(Events) /\ Len(Tail(channel)) = Capacity - 1
    BY <2>1, TailIs
  <2>3. channel' = Append(Tail(channel), e) /\ lagged' = TRUE
    BY <1>2 DEF Send
  <2> QED
    BY <2>2, <2>3, AppendIs
<1> QED
  BY <1>1, <1>2

LEMMA MaxType ==
    ASSUME NEW a \in Versions, NEW b \in Versions
    PROVE  Max({a, b}) \in Versions
  BY MaxOfTwo

(* Steps of the SDK and of the bridge leave the subscription alone         *)
LEMMA SdkStep ==
    ASSUME IInv, Commit \/ Announce \/ Unannounced \/ Chatter \/ Lagged \/ Forward
    PROVE  Types' /\ QueueInv' /\ NoCall /\ UNCHANGED <<subscription, queue>>
<1> USE DEF sdk, bridge, subscription, bounds, heard
<1>1. version \in Nat /\ shown \in Nat /\ QueueInv
  BY DEF IInv, Types, QueueInv
<1>2. /\ UNCHANGED <<subscription, queue, heard>>
      /\ version' \in Versions /\ version' >= version /\ owed' \subseteq Versions
      /\ announced' \in Versions /\ lost' \in BOOLEAN
  <2>1. CASE Commit
    BY <2>1 DEF Commit, IInv, Types
  <2>2. CASE Announce
    <3>1. PICK v \in owed : announced' = Max({announced, v}) /\ owed' = owed \ {v} /\ UNCHANGED version
      BY <2>2 DEF Announce
    <3>2. announced' \in Versions
      BY <3>1, MaxType DEF IInv, Types
    <3>3. lost' \in BOOLEAN /\ UNCHANGED <<subscription, queue, heard>>
      BY <2>2 DEF Announce, IInv, Types
    <3> QED
      BY <1>1, <3>1, <3>2, <3>3 DEF IInv, Types
  <2>3. CASE Unannounced
    BY <1>1, <2>3 DEF Unannounced, IInv, Types
  <2>4. CASE Chatter
    BY <1>1, <2>4 DEF Chatter, IInv, Types
  <2>5. CASE Lagged \/ Forward
    <3>1. UNCHANGED <<version, owed, subscription, queue, announced, lost, heard>>
      BY <2>5 DEF Lagged, Forward
    <3> QED
      BY <1>1, <3>1 DEF IInv, Types
  <2> QED
    BY <2>1, <2>2, <2>3, <2>4, <2>5
<1>3. channel' \in Seq(Events) /\ Len(channel') <= Capacity /\ lagged' \in BOOLEAN /\ bus' \in Seq(Events)
  <2>1. CASE Commit \/ Lagged
    BY <2>1 DEF Commit, Lagged, IInv, Types
  <2>2. CASE Announce
    <3>1. PICK v \in owed, n \in Names : Send([name |-> n, for |-> v]) /\ bus' = bus
      BY <2>2 DEF Announce
    <3>2. [name |-> n, for |-> v] \in Events
      BY DEF Events, IInv, Types
    <3> QED
      BY <3>1, <3>2, SendType DEF IInv, Types
  <2>3. CASE Unannounced \/ Chatter
    <3>1. Send([name |-> Other, for |-> 0]) /\ bus' = bus
      BY <2>3 DEF Unannounced, Chatter
    <3>2. [name |-> Other, for |-> 0] \in Events
      BY DEF Events
    <3> QED
      BY <3>1, <3>2, SendType DEF IInv, Types
  <2>4. CASE Forward
    <3>1. channel # <<>> /\ channel' = Tail(channel) /\ bus' = Append(bus, Head(channel)) /\ lagged' = lagged
      BY <2>4 DEF Forward
    <3>2. /\ channel' \in Seq(Events) /\ Len(channel') = Len(channel) - 1 /\ Len(channel) \in Nat
          /\ Head(channel) \in Events
      BY <3>1, TailIs DEF IInv, Types
    <3>3. bus' \in Seq(Events)
      BY <3>1, <3>2, AppendIs DEF IInv, Types
    <3> QED
      BY <3>1, <3>2, <3>3 DEF IInv, Types
  <2> QED
    BY <2>1, <2>2, <2>3, <2>4
<1>4. QueueInv' /\ NoCall
  BY <1>1, <1>2, QueueKept
<1> QED
  BY <1>2, <1>3, <1>4 DEF IInv, Types

(* Steps that set a subscription up or take it down                        *)
LEMMA SetupStep ==
    ASSUME IInv, Subscribe \/ Setup \/ Unsubscribe
    PROVE  /\ Types' /\ QueueInv' /\ NoCall
           /\ \/ queue' = queue
              \/ phase' = "reading"
           /\ phase' \in {"stopping", "draining", "off", "failed"} => ~active'
           /\ phase' = "off" => queue' = <<>>
<1> USE DEF sdk, bridge, subscription, bounds, heard
<1>1. version \in Nat /\ shown \in Nat /\ QueueInv
  BY DEF IInv, Types, QueueInv
<1>2. UNCHANGED <<sdk, bridge, bus, announced, lost, shown, current>>
  BY DEF Subscribe, Setup, Unsubscribe, Register, SubscribeFails, EmitCurrent, Subscribed, Unlisten,
         Drained
<1>3. /\ phase' \in Phases /\ active' \in BOOLEAN /\ registered' \subseteq Names /\ refused' \subseteq Names
      /\ phase' \in {"stopping", "draining", "off", "failed"} => ~active'
  <2>1. CASE Subscribe \/ Unsubscribe \/ SubscribeFails
    BY <2>1 DEF Subscribe, Unsubscribe, SubscribeFails, IInv, Types, Phases
  <2>2. CASE Register
    BY <2>2 DEF Register, IInv, Types, Ended
  <2>3. CASE EmitCurrent \/ Subscribed
    BY <2>3 DEF EmitCurrent, Subscribed, IInv, Types, Phases
  <2>4. CASE Unlisten \/ Drained
    BY <2>4 DEF Unlisten, Drained, IInv, Types, Phases, Ended
  <2> QED
    BY <2>1, <2>2, <2>3, <2>4 DEF Setup
<1>4. told' \in Versions
  <2>1. CASE Subscribed
    BY <2>1, MaxType DEF Subscribed, IInv, Types
  <2>2. CASE ~Subscribed
    BY <2>2 DEF Subscribe, Setup, Unsubscribe, Register, SubscribeFails, EmitCurrent, Unlisten,
                Drained, IInv, Types
  <2> QED
    BY <2>1, <2>2
<1>5. /\ QueueInv' /\ NoCall
      /\ queue' = queue \/ phase' = "reading"
  <2>1. CASE EmitCurrent
    <3> DEFINE d == [Delivery(announced) EXCEPT !.awaited = TRUE]
    <3>1. d \in Deliveries /\ d.pc = "queued" /\ d.state = 0
      <4>1. announced \in Versions /\ 0 \in Versions
        BY DEF IInv, Types
      <4> DEFINE q == Delivery(announced)
      <4>2. q \in Deliveries /\ q.pc = "queued" /\ q.state = 0
        BY <4>1 DEF Delivery, Deliveries
      <4> HIDE DEF q
      <4>3. d = [q EXCEPT !.awaited = TRUE]
        BY DEF q
      <4> HIDE DEF d
      <4> QED
        BY <4>2, <4>3 DEF Deliveries
    <3>2. queue' = Append(queue, d) /\ phase' = "reading"
      BY <2>1 DEF EmitCurrent
    <3> HIDE DEF d
    <3> QED
      BY <1>1, <1>2, <3>1, <3>2, QueueAppended
  <2>2. CASE ~EmitCurrent
    <3>1. queue' = queue
      BY <2>2 DEF Subscribe, Setup, Unsubscribe, Register, SubscribeFails, Subscribed, Unlisten,
                  Drained
    <3> QED
      BY <1>1, <1>2, <3>1, QueueKept
  <2> QED
    BY <2>1, <2>2
<1>6. phase' = "off" => queue' = <<>>
  BY DEF Subscribe, Setup, Unsubscribe, Register, SubscribeFails, EmitCurrent, Subscribed, Unlisten,
         Drained
<1> QED
  BY <1>2, <1>3, <1>4, <1>5, <1>6 DEF IInv, Types, QueueInv

(* Steps of the deliveries: of those under way only the first moves        *)
LEMMA DeliveryStep ==
    ASSUME IInv, Dispatch \/ Deliver \/ \E i \in DOMAIN queue : Fails(i)
    PROVE  /\ Types' /\ QueueInv' /\ UNCHANGED subscription
           /\ shown' >= shown /\ (~active => NoCall)
           /\ phase = "off" => \A i \in DOMAIN queue' : queue'[i].pc = "queued"
<1> USE DEF sdk, bridge, subscription, bounds, heard
<1>1. version \in Nat /\ shown \in Nat /\ told \in Versions /\ QueueInv
  BY DEF IInv, Types, QueueInv
<1>2. CASE Dispatch
  <2>1. /\ bus # <<>> /\ bus' = Tail(bus)
        /\ UNCHANGED <<sdk, bridge, subscription, announced, lost, heard>>
        /\ \/ queue' = queue
           \/ queue' = Append(queue, Delivery(Head(bus).for))
    BY <1>2 DEF Dispatch
  <2>2. bus' \in Seq(Events) /\ Head(bus) \in Events
    BY <2>1, TailIs DEF IInv, Types
  <2> DEFINE d == Delivery(Head(bus).for)
  <2>3. d \in Deliveries /\ d.pc = "queued" /\ d.state = 0
    BY <2>2 DEF Delivery, Deliveries, Events
  <2> HIDE DEF d
  <2>4. queue' = queue \/ queue' = Append(queue, d)
    BY <2>1 DEF d
  <2>5. /\ QueueInv' /\ NoCall
        /\ \A i \in DOMAIN queue' : queue'[i].pc # "queued" => i \in DOMAIN queue /\ queue[i] = queue'[i]
    BY <1>1, <2>1, <2>3, <2>4, QueueAppended, QueueKept
  <2> QED
    BY <1>1, <2>1, <2>2, <2>5 DEF IInv, Types, QueueInv, Ended
<1>3. ASSUME NEW i \in DOMAIN queue, Ask(i) \/ Read(i) \/ Listen(i) \/ Listened(i) \/ Fails(i)
      PROVE  /\ i = 1 /\ UNCHANGED <<sdk, bridge, bus, subscription, announced, lost>>
             /\ \/ queue' = RemoveAt(queue, 1) /\ shown' = shown /\ told' \in Versions
                \/ /\ phase # "off"
                   /\ \E d \in Deliveries :
                        /\ queue' = [queue EXCEPT ![1] = d] /\ d.state <= version
                        /\ \/ /\ d.pc \in {"reading", "read"} /\ shown' = shown /\ told' = told
                              /\ d.pc = "read" => d.state = version
                           \/ /\ active /\ d.pc = "listening" /\ queue[1].pc = "read"
                              /\ d.state = queue[1].state /\ shown' = d.state /\ told' \in Versions
  <2>1. queue[i] \in Deliveries /\ queue[i].state <= version /\ queue \in Seq(Deliveries)
    BY <1>1, <1>3 DEF QueueInv, InOrder
  <2>2. i = 1 /\ UNCHANGED <<sdk, bridge, bus, subscription, announced, lost>>
    BY <1>3 DEF Ask, Turn, Read, Listen, Listened, Fails, IInv, OneAtATime
  <2>3. phase = "off" => ~active /\ queue[i].pc = "queued"
    BY <1>3 DEF IInv, Ended
  <2>4. CASE Ask(i)
    <3> DEFINE d == [queue[i] EXCEPT !.pc = "reading"]
    <3>1. d \in Deliveries /\ d.pc = "reading" /\ d.state = queue[i].state
      BY <2>1 DEF Deliveries
    <3>2. active => queue' = [queue EXCEPT ![1] = d]
      BY <2>2, <2>4 DEF Ask, Becomes
    <3>3. ~active => queue' = RemoveAt(queue, 1)
      BY <2>2, <2>4 DEF Ask, Done
    <3> HIDE DEF d
    <3> QED
      BY <1>1, <2>1, <2>2, <2>3, <2>4, <3>1, <3>2, <3>3 DEF Ask
  <2>5. CASE Read(i)
    <3> DEFINE d == [queue[i] EXCEPT !.pc = "read", !.state = version]
    <3>1. d \in Deliveries /\ d.pc = "read" /\ d.state = version
      BY <2>1 DEF Deliveries, IInv, Types
    <3>2. queue' = [queue EXCEPT ![1] = d] /\ UNCHANGED heard /\ queue[i].pc = "reading"
      BY <2>1, <2>2, <2>5 DEF Read
    <3>3. version <= version
      BY <1>1
    <3> HIDE DEF d
    <3> QED
      BY <2>2, <2>3, <3>1, <3>2, <3>3
  <2>6. CASE Listen(i)
    <3> DEFINE d == [queue[i] EXCEPT !.pc = "listening"]
    <3>1. d \in Deliveries /\ d.pc = "listening" /\ d.state = queue[i].state /\ d.state \in Versions
      BY <2>1 DEF Deliveries
    <3>2. active => queue' = [queue EXCEPT ![1] = d] /\ shown' = d.state
      BY <2>2, <2>6, <3>1 DEF Listen, MayListen, Becomes
    <3>3. active => told' \in Versions
      BY <1>1, <2>1, <2>6, <3>1, MaxType DEF Listen, MayListen
    <3>4. ~active => queue' = RemoveAt(queue, 1) /\ shown' = shown /\ told' = told
      BY <2>2, <2>6 DEF Listen, MayListen, Done
    <3>5. queue[1].pc = "read"
      BY <2>2, <2>6 DEF Listen
    <3> HIDE DEF d
    <3> QED
      BY <1>1, <2>1, <2>2, <2>3, <3>1, <3>2, <3>3, <3>4, <3>5
  <2>7. CASE Listened(i)
    BY <1>1, <2>2, <2>7 DEF Listened, Done
  <2>8. CASE Fails(i)
    <3>1. told' \in Versions
      BY <1>1, <2>1, <2>8, MaxType DEF Fails, Deliveries
    <3> QED
      BY <2>2, <2>8, <3>1 DEF Fails, Rejected, Done
  <2> QED
    BY <1>3, <2>4, <2>5, <2>6, <2>7, <2>8
<1>4. ASSUME NEW i \in DOMAIN queue, Ask(i) \/ Read(i) \/ Listen(i) \/ Listened(i) \/ Fails(i)
      PROVE  /\ QueueInv' /\ shown' \in Versions /\ shown' >= shown /\ told' \in Versions
             /\ ~active => NoCall
             /\ phase = "off" => \A j \in DOMAIN queue' : queue'[j].pc = "queued"
  <2>1. CASE queue' = RemoveAt(queue, 1) /\ shown' = shown /\ told' \in Versions
    BY <1>1, <1>3, <1>4, <2>1, QueueShortened DEF IInv, Types
  <2>2. ASSUME NEW d \in Deliveries, queue' = [queue EXCEPT ![1] = d], d.state <= version,
               phase # "off",
               \/ /\ d.pc \in {"reading", "read"} /\ shown' = shown /\ told' = told
                  /\ d.pc = "read" => d.state = version
               \/ /\ active /\ d.pc = "listening" /\ queue[1].pc = "read"
                  /\ d.state = queue[1].state /\ shown' = d.state /\ told' \in Versions
        PROVE  /\ QueueInv' /\ shown' \in Versions /\ shown' >= shown /\ told' \in Versions
               /\ ~active => NoCall
    <3>1. 1 \in DOMAIN queue /\ version' = version
      BY <1>3, <1>4
    <3>2. shown <= version /\ (queue[1].pc = "read" => shown <= queue[1].state)
      BY <3>1 DEF IInv, InOrder
    <3>3. shown' <= version /\ shown' >= shown /\ shown' \in Versions /\ told' \in Versions
          /\ (d.pc = "read" => shown' <= d.state)
      <4>1. d.state \in Versions /\ version \in Versions /\ shown \in Versions
        BY DEF Deliveries, IInv, Types
      <4>2. CASE d.pc \in {"reading", "read"} /\ shown' = shown /\ told' = told
        BY <1>1, <2>2, <3>2, <4>1, <4>2
      <4>3. CASE active /\ d.pc = "listening" /\ queue[1].pc = "read" /\ shown' = d.state
        BY <2>2, <3>2, <4>1, <4>3
      <4> QED
        BY <2>2, <4>2, <4>3
    <3>4. QueueInv' /\ (shown' = shown /\ d.pc # "listening" => NoCall)
      BY <1>1, <2>2, <3>1, <3>3, HeadChanged
    <3> QED
      BY <2>2, <3>3, <3>4
  <2> QED
    BY <1>3, <1>4, <2>1, <2>2
<1>5. CASE \E i \in DOMAIN queue : Ask(i) \/ Read(i) \/ Listen(i) \/ Listened(i) \/ Fails(i)
  <2>1. /\ UNCHANGED <<sdk, bridge, bus, subscription, announced, lost>>
        /\ QueueInv' /\ shown' \in Versions /\ shown' >= shown /\ told' \in Versions
        /\ ~active => NoCall
        /\ phase = "off" => \A j \in DOMAIN queue' : queue'[j].pc = "queued"
    BY <1>3, <1>4, <1>5
  <2> QED
    BY <2>1 DEF IInv, Types, QueueInv
<1> QED
  BY <1>2, <1>5 DEF Deliver

-----------------------------------------------------------------------------
(* The steps together                                                      *)

(* The invariant holds at the start                                        *)
LEMMA InitHolds == Init => IInv
<1> SUFFICES ASSUME Init PROVE IInv
  OBVIOUS
<1>1. Types
  <2>1. <<>> \in Seq(Events) /\ <<>> \in Seq(Deliveries) /\ Len(<<>>) <= Capacity
    OBVIOUS
  <2>2. channel \in Seq(Events) /\ bus \in Seq(Events) /\ queue \in Seq(Deliveries) /\ Len(channel) <= Capacity
    BY <2>1, Zenon DEF Init
  <2>3. 0 \in Versions
    OBVIOUS
  <2> HIDE DEF Versions
  <2> QED
    BY <2>2, <2>3 DEF Init, Types, Phases
<1> QED
  BY <1>1 DEF Init, IInv, OneAtATime, InOrder, Ended

(* Every step preserves the invariant and begins calls in their order      *)
LEMMA StepHolds ==
    ASSUME IInv, [Next]_vars
    PROVE  IInv' /\ shown' >= shown /\ (~active => NoCall)
<1>1. shown \in Nat /\ version \in Nat /\ QueueInv
  BY DEF IInv, Types, QueueInv
<1>2. CASE Commit \/ Announce \/ Unannounced \/ Chatter \/ Lagged \/ Forward
  <2>1. Types' /\ QueueInv' /\ NoCall /\ UNCHANGED <<subscription, queue>>
    BY <1>2, SdkStep
  <2> QED
    BY <1>1, <2>1 DEF IInv, Ended, QueueInv, NoCall, subscription
<1>3. CASE Subscribe \/ Setup \/ Unsubscribe
  <2>1. /\ Types' /\ QueueInv' /\ NoCall
        /\ phase' \in {"stopping", "draining", "off", "failed"} => ~active'
        /\ phase' = "off" => queue' = <<>>
    BY <1>3, SetupStep
  <2> QED
    BY <1>1, <2>1 DEF IInv, Ended, QueueInv, NoCall
<1>4. CASE Dispatch \/ Deliver \/ \E i \in DOMAIN queue : Fails(i)
  <2>1. /\ Types' /\ QueueInv' /\ UNCHANGED subscription
        /\ shown' >= shown /\ (~active => NoCall)
        /\ phase = "off" => \A i \in DOMAIN queue' : queue'[i].pc = "queued"
    BY <1>4, DeliveryStep
  <2> QED
    BY <2>1 DEF IInv, Ended, QueueInv, subscription
<1>5. CASE UNCHANGED vars
  <2>1. UNCHANGED <<sdk, bridge, bus, subscription, queue, announced, lost, heard>>
    BY <1>5 DEF vars
  <2> QED
    BY <1>1, <2>1 DEF IInv, Types, OneAtATime, InOrder, Ended, NoCall, sdk, bridge, subscription, heard
<1> QED
  BY <1>2, <1>3, <1>4, <1>5 DEF Next

LEMMA Invariance == Spec => []IInv
  BY InitHolds, StepHolds, PTL DEF Spec

-----------------------------------------------------------------------------
(* The theorems                                                            *)

(* The channel never holds more than its capacity, and every event, every  *)
(* delivery and every observed state is one that there was.                *)
THEOREM TypeCorrect == Spec => []TypeOK
<1>1. IInv => TypeOK
  <2> SUFFICES ASSUME IInv PROVE TypeOK
    OBVIOUS
  <2>1. /\ \A e \in Range(channel) \cup Range(bus) : e \in Events
        /\ Range(queue) \subseteq Deliveries
    BY DEF Range, IInv, Types
  <2> QED
    BY <2>1 DEF IInv, Types, TypeOK, Events
<1> QED
  BY <1>1, Invariance, PTL

(* index.ts serializes the deliveries: the listener never sees the state   *)
(* go back and is never called while it still runs, however events, reads  *)
(* and failures interleave.                                                *)
THEOREM InOrderAlways == Spec => DeliveredInOrder
<1>1. ASSUME IInv, [Next]_vars
      PROVE  [/\ shown' >= shown
              /\ Cardinality({i \in DOMAIN queue' : queue'[i].pc = "listening"}) <= 1]_vars
  <2> DEFINE L == {i \in DOMAIN queue' : queue'[i].pc = "listening"}
  <2>1. IInv' /\ shown' >= shown
    BY <1>1, StepHolds
  <2>2. L \subseteq {1}
    BY <2>1 DEF IInv, OneAtATime
  <2>3. IsFiniteSet({1}) /\ Cardinality({1}) = 1
    BY FS_Singleton
  <2>4. Cardinality(L) <= 1
    BY <2>2, <2>3, FS_Subset
  <2> QED
    BY <2>1, <2>4
<1> QED
  BY <1>1, Invariance, PTL DEF Spec, DeliveredInOrder

(* Once unsubscribe was called, or the subscription failed, no call of the *)
(* listener begins; once unsubscribe has returned, none is under way.      *)
THEOREM SilentAfterEnd == Spec => NothingAfterUnsubscribe
<1>1. ASSUME IInv, [Next]_vars
      PROVE  [/\ ~active => UNCHANGED shown /\ \A i \in DOMAIN queue' :
                    queue'[i].pc = "listening" => \E j \in DOMAIN queue : queue[j] = queue'[i]
              /\ phase' = "off" => \A i \in DOMAIN queue' : queue'[i].pc = "queued"]_vars
  <2>1. IInv' /\ (~active => NoCall)
    BY <1>1, StepHolds
  <2> QED
    BY <2>1 DEF IInv, Ended, NoCall
<1> QED
  BY <1>1, Invariance, PTL DEF Spec, NothingAfterUnsubscribe
=============================================================================

------------------------- MODULE TelemetryHubProofs -------------------------
(***************************************************************************)
(* TelemetryHub for any set of chargers, viewers and client ids, colliding *)
(* ids included: the types hold, no broadcast meets a closed channel and   *)
(* no channel is left behind.  Both channel properties rest on one fact:   *)
(* an entry of subscribers and the id its viewer remembers name each other.*)
(***************************************************************************)
EXTENDS TelemetryHub, SequenceTheorems, TLAPS

-----------------------------------------------------------------------------
(* Types *)

\* An event is a message.
LEMMA EventType == Event \in Seq(Messages)
  BY DEF Event, Messages

\* A registered channel is filled up to its capacity and no further.
LEMMA BroadcastType ==
  ASSUME QueueTypes, NEW msgs \in Seq(Messages), Broadcast(msgs)
  PROVE  QueueTypes'
<1>1. ASSUME NEW v \in Viewers
      PROVE  queue'[v] \in Seq(Messages) /\ Len(queue'[v]) <= Cap
  <2> DEFINE all == queue[v] \o msgs
  <2>1. queue[v] \in Seq(Messages) /\ Len(queue[v]) <= Cap
    BY DEF QueueTypes
  <2>2. all \in Seq(Messages)
    BY <2>1
  <2>3. Len(all) \in Nat
    BY <2>2
  <2>4. Len(all) > Cap => SubSeq(all, 1, Cap) \in Seq(Messages) /\ Len(SubSeq(all, 1, Cap)) = Cap
    BY <2>2, <2>3, CapAssumption
  <2>5. queue'[v] = queue[v] \/ queue'[v] = IF Len(all) > Cap THEN SubSeq(all, 1, Cap) ELSE all
    BY DEF Broadcast
  <2> HIDE DEF all
  <2>6. CASE queue'[v] = queue[v]
    BY <2>1, <2>6
  <2>7. CASE queue'[v] = SubSeq(all, 1, Cap) /\ Len(all) > Cap
    BY <2>4, <2>7, CapAssumption
  <2>8. CASE queue'[v] = all /\ ~(Len(all) > Cap)
    BY <2>2, <2>3, <2>8, CapAssumption
  <2>9. QED
    BY <2>5, <2>6, <2>7, <2>8
<1>2. queue' \in [Viewers -> Seq(Messages)]
  BY <1>1 DEF Broadcast
<1>3. QED
  BY <1>1, <1>2 DEF QueueTypes

LEMMA TypeInit == Init => TypeOK
<1> SUFFICES ASSUME Init PROVE TypeOK
  OBVIOUS
<1> USE DEF Init
<1>1. ChargerTypes
  BY DEF ChargerTypes, Conditions
<1>2. QueueTypes
  BY CapAssumption DEF QueueTypes
<1>3. HandlerTypes /\ ViewTypes
  BY DEF HandlerTypes, ViewTypes
<1>4. QED
  BY <1>1, <1>2, <1>3 DEF TypeOK

LEMMA ChargerTypeStep == TypeOK /\ [Next]_hubVars => ChargerTypes'
<1> SUFFICES ASSUME TypeOK, [Next]_hubVars PROVE ChargerTypes'
  OBVIOUS
<1> USE DEF TypeOK, ChargerTypes, chargerVars, channelVars, viewerVars
<1>1. ASSUME NEW c \in Chargers,
             LinkUp(c) \/ LinkDown(c) \/ SetFault(c) \/ ClearFault(c)
      PROVE  ChargerTypes'
  <2>1. condition[c] \in Conditions
    OBVIOUS
  <2>2. \A b \in BOOLEAN : /\ [condition[c] EXCEPT !.connected = b] \in Conditions
                           /\ [condition[c] EXCEPT !.faulted = b] \in Conditions
    BY <2>1 DEF Conditions
  <2>3. ASSUME NEW x \in Conditions, NEW n \in 1..3, Become(c, x, n),
               running' \in [Chargers -> BOOLEAN]
        PROVE  ChargerTypes'
    BY <2>3 DEF Become
  <2>4. \A p : (IF p THEN 2 ELSE 3) \in 1..3 /\ (IF p THEN 3 ELSE 2) \in 1..3
    OBVIOUS
  <2>5. 2 \in 1..3
    OBVIOUS
  <2>6. running' \in [Chargers -> BOOLEAN]
    BY <1>1 DEF LinkUp, LinkDown, SetFault, ClearFault
  <2>7. \E x \in Conditions, n \in 1..3 : Become(c, x, n)
    <3>1. CASE LinkUp(c)
      BY <2>2, <2>5, <3>1 DEF LinkUp
    <3>2. CASE LinkDown(c)
      BY <2>2, <2>5, <3>2 DEF LinkDown
    <3>3. CASE SetFault(c)
      BY <2>2, <2>4, <3>3 DEF SetFault
    <3>4. CASE ClearFault(c)
      BY <2>2, <2>4, <3>4 DEF ClearFault
    <3>5. QED
      BY <1>1, <3>1, <3>2, <3>3, <3>4
  <2>8. QED
    BY <2>3, <2>6, <2>7
<1>2. ASSUME NEW c \in Chargers,
             Emit(c) \/ Traffic(c) \/ Sample(c) \/ Report(c) \/ LoopEnds(c)
      PROVE  ChargerTypes'
  <2>1. CASE Emit(c)
    <3>1. emitting[c] - 1 \in 0..2
      BY <2>1 DEF Emit, Unlocked
    <3>2. QED
      BY <2>1, <3>1 DEF Emit
  <2>2. CASE Traffic(c) \/ Sample(c) \/ Report(c) \/ LoopEnds(c)
    BY <2>2 DEF Traffic, Sample, Report, LoopEnds
  <2>3. QED
    BY <1>2, <2>1, <2>2
<1>3. ASSUME NEW v \in Viewers,
             Poll(v) \/ Subscribe(v) \/ Greet(v) \/ Receive(v) \/ Leave(v) \/ Unsubscribe(v)
      PROVE  ChargerTypes'
  BY <1>3 DEF Poll, Subscribe, Greet, Receive, Leave, Unsubscribe
<1>4. CASE UNCHANGED hubVars
  BY <1>4 DEF hubVars
<1>5. QED
  BY <1>1, <1>2, <1>3, <1>4 DEF Next

LEMMA QueueTypeStep == TypeOK /\ [Next]_hubVars => QueueTypes'
<1> SUFFICES ASSUME TypeOK, [Next]_hubVars PROVE QueueTypes'
  OBVIOUS
<1> USE DEF TypeOK, chargerVars, channelVars, viewerVars
<1>1. Broadcast(Event) => QueueTypes'
  BY EventType, BroadcastType
<1>2. ASSUME NEW c \in Chargers,
             \/ LinkUp(c) \/ LinkDown(c) \/ SetFault(c) \/ ClearFault(c)
             \/ Emit(c) \/ Traffic(c)
      PROVE  QueueTypes'
  BY <1>1, <1>2 DEF LinkUp, LinkDown, SetFault, ClearFault, Become, Emit, Traffic
<1>3. ASSUME NEW c \in Chargers, Report(c)
      PROVE  QueueTypes'
  <2>1. <<[charger |-> c, snap |-> sampled[c]]>> \in Seq(Messages)
    BY DEF ChargerTypes, Messages
  <2>2. QED
    BY <1>3, <2>1, BroadcastType DEF Report
<1>4. ASSUME NEW c \in Chargers, Sample(c) \/ LoopEnds(c)
      PROVE  QueueTypes'
  BY <1>4 DEF Sample, LoopEnds, QueueTypes
<1>5. ASSUME NEW v \in Viewers, Poll(v) \/ Greet(v) \/ Leave(v)
      PROVE  QueueTypes'
  BY <1>5 DEF Poll, Greet, Leave, QueueTypes
<1>6. ASSUME NEW v \in Viewers, Subscribe(v) \/ Unsubscribe(v)
      PROVE  QueueTypes'
  <2>1. queue' = [queue EXCEPT ![v] = <<>>]
    BY <1>6 DEF Subscribe, Unsubscribe
  <2>2. <<>> \in Seq(Messages) /\ Len(<<>>) = 0
    OBVIOUS
  <2>3. queue' \in [Viewers -> Seq(Messages)]
    BY <2>1, <2>2 DEF QueueTypes
  <2>4. \A u \in Viewers : Len(queue'[u]) <= Cap
    BY <2>1, <2>2, CapAssumption DEF QueueTypes
  <2>5. QED
    BY <2>3, <2>4 DEF QueueTypes
<1>7. ASSUME NEW v \in Viewers, Receive(v)
      PROVE  QueueTypes'
  <2>1. queue[v] \in Seq(Messages) /\ queue[v] # <<>> /\ Len(queue[v]) <= Cap
    BY <1>7 DEF Receive, QueueTypes
  <2>2. Tail(queue[v]) \in Seq(Messages) /\ Len(Tail(queue[v])) = Len(queue[v]) - 1
    BY <2>1
  <2>3. QED
    BY <1>7, <2>1, <2>2, CapAssumption DEF Receive, QueueTypes
<1>8. CASE UNCHANGED hubVars
  BY <1>8 DEF hubVars, QueueTypes
<1>9. QED
  BY <1>2, <1>3, <1>4, <1>5, <1>6, <1>7, <1>8 DEF Next

LEMMA HandlerTypeStep == TypeOK /\ [Next]_hubVars => HandlerTypes'
<1> SUFFICES ASSUME TypeOK, [Next]_hubVars PROVE HandlerTypes'
  OBVIOUS
<1> USE DEF TypeOK, HandlerTypes, chargerVars, channelVars, viewerVars
<1>1. ASSUME NEW c \in Chargers,
             \/ LinkUp(c) \/ LinkDown(c) \/ SetFault(c) \/ ClearFault(c) \/ Emit(c)
             \/ Traffic(c) \/ Sample(c) \/ Report(c) \/ LoopEnds(c)
      PROVE  HandlerTypes'
  BY <1>1 DEF LinkUp, LinkDown, SetFault, ClearFault, Emit, Traffic, Become, Sample, Report, LoopEnds
<1>2. ASSUME NEW v \in Viewers, Poll(v) \/ Subscribe(v) \/ Greet(v) \/ Receive(v) \/ Leave(v)
      PROVE  HandlerTypes'
  <2>1. CASE Poll(v) \/ Greet(v) \/ Leave(v)
    BY <2>1 DEF Poll, Greet, Leave
  <2>2. CASE Subscribe(v)
    BY <2>2 DEF Subscribe
  <2>3. CASE Receive(v)
    BY <2>3 DEF Receive
  <2>4. QED
    BY <1>2, <2>1, <2>2, <2>3
<1>3. ASSUME NEW v \in Viewers, Unsubscribe(v)
      PROVE  HandlerTypes'
  BY <1>3 DEF Unsubscribe
<1>4. CASE UNCHANGED hubVars
  BY <1>4 DEF hubVars
<1>5. QED
  BY <1>1, <1>2, <1>3, <1>4 DEF Next

LEMMA ViewTypeStep == TypeOK /\ [Next]_hubVars => ViewTypes'
<1> SUFFICES ASSUME TypeOK, [Next]_hubVars PROVE ViewTypes'
  OBVIOUS
<1> USE DEF TypeOK, ViewTypes, chargerVars, channelVars, viewerVars
<1>1. ASSUME NEW c \in Chargers,
             \/ LinkUp(c) \/ LinkDown(c) \/ SetFault(c) \/ ClearFault(c) \/ Emit(c)
             \/ Traffic(c) \/ Sample(c) \/ Report(c) \/ LoopEnds(c)
      PROVE  ViewTypes'
  BY <1>1 DEF LinkUp, LinkDown, SetFault, ClearFault, Emit, Traffic, Become, Sample, Report, LoopEnds
<1>2. ASSUME NEW v \in Viewers, Subscribe(v) \/ Greet(v) \/ Leave(v) \/ Unsubscribe(v)
      PROVE  ViewTypes'
  BY <1>2 DEF Subscribe, Greet, Leave, Unsubscribe
<1>3. ASSUME NEW v \in Viewers, Poll(v)
      PROVE  ViewTypes'
  BY <1>3 DEF Poll, handleState, ChargerTypes
<1>4. ASSUME NEW v \in Viewers, Receive(v)
      PROVE  ViewTypes'
  <2>1. Head(queue[v]) \in Messages
    BY <1>4 DEF Receive, QueueTypes
  <2>2. QED
    BY <1>4, <2>1 DEF Receive, Messages
<1>5. CASE UNCHANGED hubVars
  BY <1>5 DEF hubVars
<1>6. QED
  BY <1>1, <1>2, <1>3, <1>4, <1>5 DEF Next

\* Types, and a channel never holds more than its capacity (broadcast).
THEOREM TypeCorrect == Spec => []TypeOK
<1>1. TypeOK /\ [Next]_hubVars => TypeOK'
  BY ChargerTypeStep, QueueTypeStep, HandlerTypeStep, ViewTypeStep DEF TypeOK
<1>2. QED
  BY <1>1, TypeInit, PTL DEF Spec

-----------------------------------------------------------------------------
(* Channels *)

\* A handler that has subscribed remembers its id.
HandlerHasId == \A v \in Viewers : viewer[v] # "away" => clientID[v] \in Ids

ChannelInv == HandlerTypes /\ HandlerHasId /\ NoClosedSubscriber /\ NoLeakedChannel

LEMMA ChannelStep == TypeOK /\ ChannelInv /\ [Next]_hubVars => ChannelInv'
<1> SUFFICES ASSUME TypeOK, ChannelInv, [Next]_hubVars PROVE ChannelInv'
  OBVIOUS
<1> USE NamesAssumption
    DEF ChannelInv, HandlerTypes, HandlerHasId, NoClosedSubscriber, NoLeakedChannel,
        chargerVars, channelVars, viewerVars
<1>0. HandlerTypes'
  BY HandlerTypeStep
<1>1. ASSUME NEW c \in Chargers,
             \/ LinkUp(c) \/ LinkDown(c) \/ SetFault(c) \/ ClearFault(c) \/ Emit(c)
             \/ Traffic(c) \/ Sample(c) \/ Report(c) \/ LoopEnds(c)
      PROVE  ChannelInv'
  BY <1>1 DEF LinkUp, LinkDown, SetFault, ClearFault, Emit, Traffic, Become, Sample, Report, LoopEnds
<1>2. ASSUME NEW v \in Viewers, Poll(v) \/ Greet(v) \/ Receive(v) \/ Leave(v)
      PROVE  ChannelInv'
  BY <1>2 DEF Poll, Greet, Receive, Leave
<1>3. ASSUME NEW v \in Viewers, Subscribe(v)
      PROVE  ChannelInv'
  <2>1. \A id \in Ids : subscribers[id] # v
    BY <1>3 DEF Subscribe
  <2>2. QED
    BY <1>0, <1>3, <2>1 DEF Subscribe
<1>4. ASSUME NEW v \in Viewers, Unsubscribe(v)
      PROVE  ChannelInv'
  <2> DEFINE mine == clientID[v]
             owner == subscribers[mine]
  <2>1. mine \in Ids
    BY <1>4 DEF Unsubscribe
  <2>2. \A id \in Ids : subscribers'[id] # NoViewer =>
            id # mine /\ subscribers'[id] = subscribers[id]
    BY <1>4, <2>1 DEF Unsubscribe
  \* The entries that remain belong to neither of the two viewers concerned.
  <2>3. \A id \in Ids : subscribers'[id] # NoViewer => subscribers[id] \notin {v, owner}
    BY <2>1, <2>2
  <2>4. \A u \in Viewers \ {v} : viewer'[u] = viewer[u] /\ clientID'[u] = clientID[u]
    BY <1>4 DEF Unsubscribe
  <2>5. \A u \in Viewers \ {v, owner} : open'[u] = open[u]
    BY <1>4 DEF Unsubscribe
  <2>6. viewer'[v] = "away"
    BY <1>4 DEF Unsubscribe
  <2> HIDE DEF mine, owner
  <2>7. HandlerHasId'
    BY <2>4, <2>6
  <2>8. NoClosedSubscriber'
    BY <2>2, <2>3, <2>5
  <2>9. NoLeakedChannel'
    BY <2>2, <2>3, <2>4
  <2>10. QED
    BY <1>0, <2>7, <2>8, <2>9
<1>5. CASE UNCHANGED hubVars
  BY <1>5 DEF hubVars
<1>6. QED
  BY <1>1, <1>2, <1>3, <1>4, <1>5 DEF Next

LEMMA ChannelInvariant == Spec => []ChannelInv
<1>1. Init => ChannelInv
  BY TypeInit DEF Init, TypeOK, ChannelInv, HandlerHasId, NoClosedSubscriber, NoLeakedChannel
<1>2. QED
  BY <1>1, TypeCorrect, ChannelStep, PTL DEF Spec

\* A broadcast never sends on a closed channel, whatever ids collide.
THEOREM NoClosedSubscriberHolds == Spec => []NoClosedSubscriber
<1>1. ChannelInv => NoClosedSubscriber
  BY DEF ChannelInv
<1>2. QED
  BY <1>1, ChannelInvariant, PTL

\* Every entry of subscribers has a handler that will remove it.
THEOREM NoLeakedChannelHolds == Spec => []NoLeakedChannel
<1>1. ChannelInv => NoLeakedChannel
  BY DEF ChannelInv
<1>2. QED
  BY <1>1, ChannelInvariant, PTL
=============================================================================

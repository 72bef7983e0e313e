---------------------------- MODULE TelemetryHub ----------------------------
(***************************************************************************)
(* How the condition of the chargers reaches the web console: the update   *)
(* tick of each charger's run loop, the hub (internal/telemetry/hub.go),   *)
(* the websocket handler of each viewer (internal/webconsole/server.go)    *)
(* and the browser that applies what it receives (web/static/app.js).      *)
(*                                                                         *)
(* A viewer's channel is named by the viewer: at most one is in use by it. *)
(* The windows of history points and events are left out: they are only    *)
(* appended to and trimmed.                                                *)
(***************************************************************************)
EXTENDS Naturals, Sequences

CONSTANTS
    Chargers,
    Viewers,    \* clients, each with at most one websocket at a time
    Browsers,   \* those that show what they receive, \subseteq Viewers
    Ids,        \* client ids: the nanosecond of Subscribe, so not always unique
    NoViewer,   \* no entry in subscribers
    NoCharger,  \* the empty charger id
    NoId,       \* a viewer without a handler
    Unseen,     \* no snapshot
    Faults,     \* the chargers the operator faults, \subseteq Chargers
    Cap         \* capacity of a subscriber's channel (10 in the code)

Conditions == [connected : BOOLEAN, faulted : BOOLEAN]

ASSUME NamesAssumption ==
    /\ NoViewer \notin Viewers
    /\ Browsers \subseteq Viewers
    /\ NoCharger \notin Chargers
    /\ NoId \notin Ids
    /\ Faults \subseteq Chargers
    /\ Unseen \notin Conditions
ASSUME CapAssumption == Cap \in Nat \ {0}

VARIABLES
    condition,    \* what a snapshot of the charger would show
    emitting,     \* events the method that holds c.mu has still to emit
    running,      \* the charger's run loop has not returned
    sampled,      \* the snapshot run has built and not yet handed to the hub
    latest,       \* hub.latest
    subscribers,  \* hub.subscribers: the viewer whose channel has this id
    queue, open,  \* the channel: its messages, and whether it is not closed
    clientID,
    viewer,       \* where the viewer's handler is
    view          \* what the browser shows

chargerVars == <<condition, emitting, running, sampled>>
channelVars == <<subscribers, queue, open>>
viewerVars == <<clientID, viewer, view>>
hubVars == <<chargerVars, latest, channelVars, viewerVars>>

Messages == [charger : Chargers \union {NoCharger}, snap : Conditions \union {Unseen}]

ChargerTypes ==
    /\ condition \in [Chargers -> Conditions]
    /\ emitting \in [Chargers -> 0..2]
    /\ running \in [Chargers -> BOOLEAN]
    /\ sampled \in [Chargers -> Conditions \union {Unseen}]
    /\ latest \in [Chargers -> Conditions \union {Unseen}]

QueueTypes ==
    /\ queue \in [Viewers -> Seq(Messages)]
    /\ \A v \in Viewers : Len(queue[v]) <= Cap

HandlerTypes ==
    /\ subscribers \in [Ids -> Viewers \union {NoViewer}]
    /\ open \in [Viewers -> BOOLEAN]
    /\ clientID \in [Viewers -> Ids \union {NoId}]
    /\ viewer \in [Viewers -> {"away", "greeting", "streaming", "leaving"}]

ViewTypes == view \in [Browsers -> [Chargers -> Conditions \union {Unseen}]]

TypeOK == ChargerTypes /\ QueueTypes /\ HandlerTypes /\ ViewTypes

Init ==
    /\ condition = [c \in Chargers |-> [connected |-> FALSE, faulted |-> FALSE]]
    /\ emitting = [c \in Chargers |-> 0]
    /\ running = [c \in Chargers |-> FALSE]
    /\ sampled = [c \in Chargers |-> Unseen]
    /\ latest = [c \in Chargers |-> Unseen]
    /\ subscribers = [id \in Ids |-> NoViewer]
    /\ queue = [v \in Viewers |-> <<>>]
    /\ open = [v \in Viewers |-> FALSE]
    /\ clientID = [v \in Viewers |-> NoId]
    /\ viewer = [v \in Viewers |-> "away"]
    /\ view = [v \in Browsers |-> [c \in Chargers |-> Unseen]]

-----------------------------------------------------------------------------
(* broadcast *)

Registered(v) == \E id \in Ids : subscribers[id] = v

\* Seeded fault: the messages are queued beyond the capacity of a channel.
BroadcastOverfills(msgs) ==
    queue' = [v \in Viewers |-> IF Registered(v) THEN queue[v] \o msgs ELSE queue[v]]

\* Every registered channel gets the messages it has room for; the others are
\* skipped, so the hub never waits for a viewer.
Broadcast(msgs) ==
    queue' = [v \in Viewers |->
                 IF Registered(v)
                 THEN LET all == queue[v] \o msgs IN
                          IF Len(all) > Cap THEN SubSeq(all, 1, Cap) ELSE all
                 ELSE queue[v]]

Event == <<[charger |-> NoCharger, snap |-> Unseen]>>

-----------------------------------------------------------------------------
(* The chargers: each change of condition emits its events, one after the     *)
(* other, before c.mu is released; the first is a step with the change, which *)
(* nobody can see without the lock.  "faulted" stands for all a snapshot      *)
(* shows besides the link.                                                    *)

Unlocked(c) == emitting[c] = 0

Become(c, x, n) ==
    /\ Unlocked(c)
    /\ condition' = [condition EXCEPT ![c] = x]
    /\ emitting' = [emitting EXCEPT ![c] = n - 1]
    /\ Broadcast(Event)
    /\ UNCHANGED <<sampled, latest, subscribers, open, viewerVars>>

Emit(c) ==
    /\ ~Unlocked(c)
    /\ emitting' = [emitting EXCEPT ![c] = @ - 1]
    /\ Broadcast(Event)
    /\ UNCHANGED <<condition, running, sampled, latest, subscribers, open, viewerVars>>

\* A dial succeeds and its run loop begins; the last one has returned by then
\* (ChargerLink, DisconnectDrains and the backoff).
LinkUp(c) ==
    /\ ~condition[c].connected
    /\ ~running[c]
    /\ running' = [running EXCEPT ![c] = TRUE]
    /\ Become(c, [condition[c] EXCEPT !.connected = TRUE], 2)

LinkDown(c) ==
    /\ condition[c].connected
    /\ Become(c, [condition[c] EXCEPT !.connected = FALSE], 2)
    /\ UNCHANGED running

SetFault(c) ==
    /\ c \in Faults
    /\ Become(c, [condition[c] EXCEPT !.faulted = TRUE], IF condition[c].faulted THEN 2 ELSE 3)
    /\ UNCHANGED running

ClearFault(c) ==
    /\ c \in Faults
    /\ Become(c, [condition[c] EXCEPT !.faulted = FALSE], IF condition[c].faulted THEN 3 ELSE 2)
    /\ UNCHANGED running

\* A frame is sent or received, with c.mu or without: one event.
Traffic(c) ==
    /\ running[c]
    /\ Broadcast(Event)
    /\ UNCHANGED <<chargerVars, latest, subscribers, open, viewerVars>>

\* The update tick builds the snapshot under c.mu ...
Sample(c) ==
    /\ running[c] /\ Unlocked(c)
    /\ sampled[c] = Unseen
    /\ sampled' = [sampled EXCEPT ![c] = condition[c]]
    /\ UNCHANGED <<condition, emitting, running, latest, channelVars, viewerVars>>

\* Seeded fault: the telemetry is broadcast without the charger's id.
ReportWithoutId(c) ==
    /\ sampled[c] # Unseen
    /\ sampled' = [sampled EXCEPT ![c] = Unseen]
    /\ latest' = [latest EXCEPT ![c] = sampled[c]]
    /\ Broadcast(<<[charger |-> NoCharger, snap |-> sampled[c]]>>)
    /\ UNCHANGED <<condition, emitting, running, subscribers, open, viewerVars>>

\* Seeded fault: the telemetry is only stored for a charger that has none.
ReportFirstWins(c) ==
    /\ sampled[c] # Unseen
    /\ sampled' = [sampled EXCEPT ![c] = Unseen]
    /\ latest' = IF latest[c] = Unseen THEN [latest EXCEPT ![c] = sampled[c]] ELSE latest
    /\ Broadcast(<<[charger |-> c, snap |-> sampled[c]]>>)
    /\ UNCHANGED <<condition, emitting, running, subscribers, open, viewerVars>>

\* ... and hands it to OnTelemetry once the lock is released.
Report(c) ==
    /\ sampled[c] # Unseen
    /\ sampled' = [sampled EXCEPT ![c] = Unseen]
    /\ latest' = [latest EXCEPT ![c] = sampled[c]]
    /\ Broadcast(<<[charger |-> c, snap |-> sampled[c]]>>)
    /\ UNCHANGED <<condition, emitting, running, subscribers, open, viewerVars>>

\* The select finds stopCh closed: nobody samples this charger any more.
LoopEnds(c) ==
    /\ running[c]
    /\ ~condition[c].connected
    /\ sampled[c] = Unseen
    /\ running' = [running EXCEPT ![c] = FALSE]
    /\ UNCHANGED <<condition, emitting, sampled, latest, channelVars, viewerVars>>

-----------------------------------------------------------------------------
(* The viewers *)

\* GET /api/state: the hub's telemetry, and a snapshot only for a charger that
\* has none.
handleState(c) == IF latest[c] = Unseen THEN condition[c] ELSE latest[c]

\* The browser asks for the state while it has no websocket; the handler waits for
\* the lock of each charger.
Poll(v) ==
    /\ v \in Browsers
    /\ \A c \in Chargers : Unlocked(c)
    /\ viewer[v] = "away"
    /\ view' = [view EXCEPT ![v] = [c \in Chargers |-> handleState(c)]]
    /\ UNCHANGED <<chargerVars, latest, channelVars, clientID, viewer>>

\* A viewer with the id of another takes over its entry.
Subscribe(v) ==
    /\ viewer[v] = "away"
    /\ \E id \in Ids :
          /\ clientID' = [clientID EXCEPT ![v] = id]
          /\ subscribers' = [subscribers EXCEPT ![id] = v]
    /\ queue' = [queue EXCEPT ![v] = <<>>]
    /\ open' = [open EXCEPT ![v] = TRUE]
    /\ viewer' = [viewer EXCEPT ![v] = "greeting"]
    /\ UNCHANGED <<chargerVars, latest, view>>

\* The current state and the latest telemetry are written; the telemetry bears
\* no charger id, so the browser shows none of it.
Greet(v) ==
    /\ viewer[v] = "greeting"
    /\ viewer' = [viewer EXCEPT ![v] = "streaming"]
    /\ UNCHANGED <<chargerVars, latest, channelVars, clientID, view>>

Receive(v) ==
    /\ viewer[v] = "streaming"
    /\ queue[v] # <<>>
    /\ queue' = [queue EXCEPT ![v] = Tail(queue[v])]
    /\ LET msg == Head(queue[v]) IN
          \/ /\ view' = IF v \notin Browsers \/ msg.charger = NoCharger THEN view
                        ELSE [view EXCEPT ![v][msg.charger] = msg.snap]
             /\ UNCHANGED viewer
          \/ /\ viewer' = [viewer EXCEPT ![v] = "leaving"]  \* the write fails
             /\ UNCHANGED view
    /\ UNCHANGED <<chargerVars, latest, subscribers, open, clientID>>

\* The channel was closed and is drained, or a ping cannot be written.
Leave(v) ==
    /\ viewer[v] = "streaming"
    /\ queue[v] = <<>>
    /\ viewer' = [viewer EXCEPT ![v] = "leaving"]
    /\ UNCHANGED <<chargerVars, latest, channelVars, clientID, view>>

\* Seeded fault: the entry of a closed channel is kept.
UnsubscribeKeepsEntry(v) ==
    /\ viewer[v] = "leaving"
    /\ viewer' = [viewer EXCEPT ![v] = "away"]
    /\ LET owner == subscribers[clientID[v]] IN
          open' = [u \in Viewers |-> open[u] /\ u \notin {v, owner}]
    /\ queue' = [queue EXCEPT ![v] = <<>>]
    /\ clientID' = [clientID EXCEPT ![v] = NoId]
    /\ UNCHANGED <<chargerVars, latest, subscribers, view>>

\* Seeded fault: the handler returns without Unsubscribe.
UnsubscribeForgotten(v) ==
    /\ viewer[v] = "leaving"
    /\ viewer' = [viewer EXCEPT ![v] = "away"]
    /\ queue' = [queue EXCEPT ![v] = <<>>]
    /\ clientID' = [clientID EXCEPT ![v] = NoId]
    /\ UNCHANGED <<chargerVars, latest, subscribers, open, view>>

\* The channel found under the viewer's id is closed, whoever owns it; the
\* viewer's own is garbage from here on.
Unsubscribe(v) ==
    /\ viewer[v] = "leaving"
    /\ viewer' = [viewer EXCEPT ![v] = "away"]
    /\ LET owner == subscribers[clientID[v]] IN
          open' = [u \in Viewers |-> open[u] /\ u \notin {v, owner}]
    /\ subscribers' = [subscribers EXCEPT ![clientID[v]] = NoViewer]
    /\ queue' = [queue EXCEPT ![v] = <<>>]
    /\ clientID' = [clientID EXCEPT ![v] = NoId]
    /\ UNCHANGED <<chargerVars, latest, view>>

-----------------------------------------------------------------------------

Next ==
    \/ \E c \in Chargers :
          \/ LinkUp(c) \/ LinkDown(c) \/ SetFault(c) \/ ClearFault(c) \/ Emit(c) \/ Traffic(c)
          \/ Sample(c) \/ Report(c) \/ LoopEnds(c)
    \/ \E v \in Viewers :
          \/ Poll(v) \/ Subscribe(v) \/ Greet(v) \/ Receive(v) \/ Leave(v) \/ Unsubscribe(v)

Spec == Init /\ [][Next]_hubVars

\* Methods go on to their end, run loops tick and return, and handlers go on.  A
\* tick gets c.mu although others keep taking it.
Fairness ==
    /\ \A c \in Chargers :
          /\ WF_hubVars(Emit(c))
          /\ SF_hubVars(Sample(c))
          /\ WF_hubVars(Report(c))
          /\ WF_hubVars(LoopEnds(c))
    /\ \A v \in Viewers :
          /\ WF_hubVars(Greet(v))
          /\ WF_hubVars(Receive(v))
          /\ WF_hubVars(Unsubscribe(v))

FairSpec == Spec /\ Fairness

-----------------------------------------------------------------------------

\* No registered channel is closed: a broadcast to one would panic with the
\* hub's lock held (Unsubscribe closes and deletes at once).
NoClosedSubscriber == \A id \in Ids : subscribers[id] # NoViewer => open[subscribers[id]]

\* An entry belongs to a handler that has still to call Unsubscribe with its
\* id, even when ids collide: no channel is left behind.
NoLeakedChannel ==
    \A id \in Ids : subscribers[id] # NoViewer =>
        /\ viewer[subscribers[id]] # "away"
        /\ clientID[subscribers[id]] = id

\* A connected charger whose condition settles is shown so by /api/state.
SettledShown ==
    \A c \in Chargers, x \in Conditions :
        x.connected /\ <>[](condition[c] = x) => <>[](handleState(c) = x)

\* ... and by every browser that keeps its stream and has room for a report of
\* the charger now and then: what is dropped is made up for by a later tick.
ViewerCatchesUp ==
    \A c \in Chargers, x \in Conditions, v \in Browsers :
        /\ x.connected
        /\ <>[](condition[c] = x /\ viewer[v] = "streaming" /\ Registered(v))
        /\ []<><<Report(c) /\ Len(queue[v]) < Cap>>_hubVars
        => <>[](view[v][c] = x)

\* The console comes to show the condition of every charger, connected or not:
\* "view the state in real time" (README.md, line 10).
ConsoleShowsState ==
    \A c \in Chargers, x \in Conditions :
        <>[](condition[c] = x) => <>[](handleState(c) = x)
=============================================================================

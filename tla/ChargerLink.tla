----------------------------- MODULE ChargerLink -----------------------------
(***************************************************************************)
(* The life of one Charger's websocket link (internal/charger/charger.go): *)
(* Connect and Disconnect, the run goroutine of each dial, the readLoop of *)
(* each connection, scheduleReconnect and the goroutine a CSMS Reset       *)
(* starts.  A step is one critical section of c.mu, or one effect of a     *)
(* goroutine outside it; the goroutines interleave freely between steps.   *)
(*                                                                         *)
(* A connection k stands for the socket one successful dial returned and   *)
(* for the three goroutines that run started for it.  Status, transaction  *)
(* and frames are in ChargerSession.                                       *)
(***************************************************************************)
EXTENDS Naturals

CONSTANTS
    Conns,       \* connections that can exist at a time (slots, reused when dead)
    NoConn,      \* the nil connection
    Operations,  \* the calls the environment makes, \subseteq AllOperations
    Patient,     \* the operator waits: see Settled
    MaxBackoff,  \* the backoff cap in units of 5 s (6 in the code: 30 s)
    MaxTasks     \* bound on unfinished dials, retries and resets at a call

AllOperations == {"Connect", "Disconnect", "Reset"}

ASSUME ConnsAssumption == NoConn \notin Conns
ASSUME OperationsAssumption == Operations \subseteq AllOperations
ASSUME PatientAssumption == Patient \in BOOLEAN
ASSUME BackoffAssumption == MaxBackoff \in Nat \ {0}
ASSUME TasksAssumption == MaxTasks \in Nat

VARIABLES
    connectionState, manualStop, reconnectDelay,
    conn,           \* c.conn
    dials,          \* run goroutines whose dial has not returned
    retryStarting,  \* scheduleReconnect goroutines before their first lock
    retryAsleep,    \* ... and those sleeping or about to lock again
    resetStarting,  \* Reset goroutines before Disconnect
    resetAsleep,    \* ... and those between Disconnect and Connect
    socket,         \* what became of each connection's socket
    stopOpen,       \* the stopCh captured with the connection is open, hence
                    \* still c.stopCh: every close replaces the field at once
    looping,        \* run's select loop or writeLoop of the connection is alive
    reader,         \* where the connection's readLoop is
    reading,        \* the connection that readLoop is reading from
    csmsUp          \* the CSMS accepts dials (environment)

stateVars == <<connectionState, manualStop, reconnectDelay, conn>>
taskVars == <<dials, retryStarting, retryAsleep, resetStarting, resetAsleep>>
connVars == <<socket, stopOpen, looping, reader, reading>>
linkVars == <<stateVars, taskVars, connVars, csmsUp>>

States == {"disconnected", "connecting", "connected", "error"}

StateTypes ==
    /\ connectionState \in States
    /\ reconnectDelay \in 0..MaxBackoff
    /\ conn \in Conns \union {NoConn}

FlagTypes ==
    /\ manualStop \in BOOLEAN
    /\ csmsUp \in BOOLEAN

TaskTypes ==
    /\ dials \in Nat
    /\ retryStarting \in Nat
    /\ retryAsleep \in Nat
    /\ resetStarting \in Nat
    /\ resetAsleep \in Nat

ConnTypes ==
    /\ socket \in [Conns -> {"up", "down", "closed"}]
    /\ stopOpen \in [Conns -> BOOLEAN]
    /\ looping \in [Conns -> BOOLEAN]
    /\ reader \in [Conns -> {"off", "top", "grab", "reading"}]
    /\ reading \in [Conns -> Conns \union {NoConn}]

TypeOK == StateTypes /\ FlagTypes /\ TaskTypes /\ ConnTypes

Init ==
    /\ connectionState = "disconnected"
    /\ manualStop = FALSE
    /\ reconnectDelay = 0
    /\ conn = NoConn
    /\ dials = 0
    /\ retryStarting = 0
    /\ retryAsleep = 0
    /\ resetStarting = 0
    /\ resetAsleep = 0
    /\ socket = [k \in Conns |-> "closed"]
    /\ stopOpen = [k \in Conns |-> FALSE]
    /\ looping = [k \in Conns |-> FALSE]
    /\ reader = [k \in Conns |-> "off"]
    /\ reading = [k \in Conns |-> NoConn]
    /\ csmsUp \in BOOLEAN

Tasks == dials + retryStarting + retryAsleep + resetStarting + resetAsleep

Busy == connectionState \in {"connected", "connecting"}

-----------------------------------------------------------------------------
(* Steps shared by several handlers *)

\* The connection c.conn is closed, c.conn becomes nil, stopCh is closed and
\* replaced: every loop that captured it is told to stop.
Release ==
    /\ conn' = NoConn
    /\ socket' = IF conn = NoConn THEN socket ELSE [socket EXCEPT ![conn] = "closed"]
    /\ stopOpen' = [k \in Conns |-> FALSE]

\* Connect once it is not refused.
BeginConnect ==
    /\ ~Busy
    /\ connectionState' = "connecting"
    /\ manualStop' = FALSE
    /\ reconnectDelay' = 0
    /\ dials' = dials + 1
    /\ UNCHANGED conn

\* Seeded fault: the manual flag is set but the connection is kept.
DisconnectKeepsConn ==
    /\ manualStop' = TRUE
    /\ connectionState' = "disconnected"
    /\ socket' = IF conn = NoConn THEN socket ELSE [socket EXCEPT ![conn] = "closed"]
    /\ stopOpen' = [k \in Conns |-> FALSE]
    /\ UNCHANGED <<conn, reconnectDelay>>

\* Seeded fault: stopCh is not closed.
DisconnectKeepsLoops ==
    /\ manualStop' = TRUE
    /\ connectionState' = "disconnected"
    /\ conn' = NoConn
    /\ socket' = IF conn = NoConn THEN socket ELSE [socket EXCEPT ![conn] = "closed"]
    /\ UNCHANGED <<stopOpen, reconnectDelay>>

disconnectLocked ==
    /\ manualStop' = TRUE
    /\ connectionState' = "disconnected"
    /\ Release
    /\ UNCHANGED reconnectDelay

-----------------------------------------------------------------------------
(* Operator and CSMS calls *)

\* A patient operator lets the goroutines of an earlier connection end before
\* calling Connect, and a dial end before calling Disconnect.
Settled == dials = 0 /\ \A k \in Conns : reader[k] # "off" => k = conn

Connect ==
    /\ "Connect" \in Operations
    /\ Patient => Settled
    /\ Tasks < MaxTasks
    /\ BeginConnect
    /\ UNCHANGED <<retryStarting, retryAsleep, resetStarting, resetAsleep, connVars, csmsUp>>

Disconnect ==
    /\ "Disconnect" \in Operations
    /\ Patient => dials = 0
    /\ disconnectLocked
    /\ UNCHANGED <<taskVars, looping, reader, reading, csmsUp>>

ResetDisconnect ==
    /\ resetStarting > 0
    /\ resetStarting' = resetStarting - 1
    /\ resetAsleep' = resetAsleep + 1
    /\ disconnectLocked
    /\ UNCHANGED <<dials, retryStarting, retryAsleep, looping, reader, reading, csmsUp>>

\* The Reset goroutine calls Connect and ignores a refusal.
ResetConnect ==
    /\ resetAsleep > 0
    /\ resetAsleep' = resetAsleep - 1
    /\ \/ BeginConnect
       \/ Busy /\ UNCHANGED <<stateVars, dials>>
    /\ UNCHANGED <<retryStarting, retryAsleep, resetStarting, connVars, csmsUp>>

-----------------------------------------------------------------------------
(* run: the dial *)

\* Seeded fault: the failed dial schedules no retry.
DialFailForgetsRetry ==
    /\ dials > 0
    /\ dials' = dials - 1
    /\ connectionState' = "error"
    /\ UNCHANGED <<manualStop, reconnectDelay, conn, retryStarting, retryAsleep,
                   resetStarting, resetAsleep, connVars, csmsUp>>

DialFail ==
    /\ dials > 0
    /\ dials' = dials - 1
    /\ connectionState' = "error"
    /\ retryStarting' = IF manualStop THEN retryStarting ELSE retryStarting + 1
    /\ UNCHANGED <<manualStop, reconnectDelay, conn, retryAsleep, resetStarting,
                   resetAsleep, connVars, csmsUp>>

\* A slot nothing refers to any more; a leaked socket holds its slot while up.
Unused(k) ==
    /\ conn # k
    /\ socket[k] # "up"
    /\ ~looping[k]
    /\ reader[k] = "off"
    /\ \A j \in Conns : reading[j] # k

\* The dial succeeds: c.conn is overwritten whatever it held, and the loops
\* start with the stopCh of this moment.
DialOk(k) ==
    /\ dials > 0
    /\ csmsUp
    /\ Unused(k)
    /\ dials' = dials - 1
    /\ conn' = k
    /\ connectionState' = "connected"
    /\ reconnectDelay' = 0
    /\ socket' = [socket EXCEPT ![k] = "up"]
    /\ stopOpen' = [stopOpen EXCEPT ![k] = TRUE]
    /\ looping' = [looping EXCEPT ![k] = TRUE]
    /\ reader' = [reader EXCEPT ![k] = "top"]
    /\ UNCHANGED <<manualStop, retryStarting, retryAsleep, resetStarting, resetAsleep,
                   reading, csmsUp>>

\* run's select loop and writeLoop return once their stopCh is closed.
LoopsStop(k) ==
    /\ looping[k]
    /\ ~stopOpen[k]
    /\ looping' = [looping EXCEPT ![k] = FALSE]
    /\ UNCHANGED <<stateVars, taskVars, socket, stopOpen, reader, reading, csmsUp>>

-----------------------------------------------------------------------------
(* scheduleReconnect *)

\* Seeded fault: the backoff grows past its cap.
BackoffUncapped ==
    /\ retryStarting > 0
    /\ retryStarting' = retryStarting - 1
    /\ retryAsleep' = retryAsleep + 1
    /\ reconnectDelay' = reconnectDelay + 1
    /\ UNCHANGED <<connectionState, manualStop, conn, dials, resetStarting, resetAsleep,
                   connVars, csmsUp>>

RetryPlan ==
    /\ retryStarting > 0
    /\ retryStarting' = retryStarting - 1
    /\ retryAsleep' = retryAsleep + 1
    /\ reconnectDelay' = IF reconnectDelay < MaxBackoff THEN reconnectDelay + 1
                         ELSE reconnectDelay
    /\ UNCHANGED <<connectionState, manualStop, conn, dials, resetStarting, resetAsleep,
                   connVars, csmsUp>>

\* Seeded fault: the flag of a manual disconnect is not read after the sleep.
RetryIgnoresManualStop ==
    /\ retryAsleep > 0
    /\ ~Busy
    /\ retryAsleep' = retryAsleep - 1
    /\ connectionState' = "connecting"
    /\ dials' = dials + 1
    /\ UNCHANGED <<manualStop, reconnectDelay, conn, retryStarting, resetStarting,
                   resetAsleep, connVars, csmsUp>>

RetryDial ==
    /\ retryAsleep > 0
    /\ ~manualStop
    /\ ~Busy
    /\ retryAsleep' = retryAsleep - 1
    /\ connectionState' = "connecting"
    /\ dials' = dials + 1
    /\ UNCHANGED <<manualStop, reconnectDelay, conn, retryStarting, resetStarting,
                   resetAsleep, connVars, csmsUp>>

RetryGivesUp ==
    /\ retryAsleep > 0
    /\ manualStop \/ Busy
    /\ retryAsleep' = retryAsleep - 1
    /\ UNCHANGED <<stateVars, dials, retryStarting, resetStarting, resetAsleep, connVars, csmsUp>>

-----------------------------------------------------------------------------
(* readLoop *)

ReaderTop(k) ==
    /\ reader[k] = "top"
    /\ reader' = [reader EXCEPT ![k] = IF stopOpen[k] THEN "grab" ELSE "off"]
    /\ UNCHANGED <<stateVars, taskVars, socket, stopOpen, looping, reading, csmsUp>>

\* The connection is read anew under the read lock: it may be a later one.
ReaderGrab(k) ==
    /\ reader[k] = "grab"
    /\ reader' = [reader EXCEPT ![k] = IF conn = NoConn THEN "off" ELSE "reading"]
    /\ reading' = [reading EXCEPT ![k] = conn]
    /\ UNCHANGED <<stateVars, taskVars, socket, stopOpen, looping, csmsUp>>

\* A message arrives and is handled; only a Reset concerns the link.
ReaderMessage(k) ==
    /\ reader[k] = "reading"
    /\ socket[reading[k]] = "up"
    /\ reader' = [reader EXCEPT ![k] = "top"]
    /\ reading' = [reading EXCEPT ![k] = NoConn]
    /\ \/ UNCHANGED resetStarting
       \/ /\ "Reset" \in Operations
          /\ Tasks < MaxTasks
          /\ resetStarting' = resetStarting + 1
    /\ UNCHANGED <<stateVars, dials, retryStarting, retryAsleep, resetAsleep,
                   socket, stopOpen, looping, csmsUp>>

\* ReadMessage fails: the peer is gone or the socket was closed locally.
ReadFails(k) ==
    /\ reader[k] = "reading"
    /\ socket[reading[k]] # "up"
    /\ reader' = [reader EXCEPT ![k] = "off"]
    /\ reading' = [reading EXCEPT ![k] = NoConn]

\* The error is taken for the effect of Disconnect and nothing is done.
ReaderErrorManual(k) ==
    /\ ReadFails(k)
    /\ manualStop
    /\ UNCHANGED <<stateVars, taskVars, socket, stopOpen, looping, csmsUp>>

\* Seeded fault: the lost connection is neither closed nor its loops stopped.
ReaderErrorKeepsConn(k) ==
    /\ ReadFails(k)
    /\ ~manualStop
    /\ connectionState' = "error"
    /\ retryStarting' = retryStarting + 1
    /\ UNCHANGED <<manualStop, reconnectDelay, conn, dials, retryAsleep, resetStarting,
                   resetAsleep, socket, stopOpen, looping, csmsUp>>

\* Seeded fault: the loss is not followed by a retry.
ReaderErrorForgetsRetry(k) ==
    /\ ReadFails(k)
    /\ ~manualStop
    /\ connectionState' = "error"
    /\ IF stopOpen[k] THEN Release ELSE UNCHANGED <<conn, socket, stopOpen>>
    /\ UNCHANGED <<manualStop, reconnectDelay, taskVars, looping, csmsUp>>

\* Seeded fault: the state is left at connected.
ReaderErrorKeepsState(k) ==
    /\ ReadFails(k)
    /\ ~manualStop
    /\ retryStarting' = retryStarting + 1
    /\ IF stopOpen[k] THEN Release ELSE UNCHANGED <<conn, socket, stopOpen>>
    /\ UNCHANGED <<connectionState, manualStop, reconnectDelay, dials, retryAsleep,
                   resetStarting, resetAsleep, looping, csmsUp>>

\* The state becomes error whoever fails; only the connection whose stopCh is
\* still the current one is released.
ReaderErrorAuto(k) ==
    /\ ReadFails(k)
    /\ ~manualStop
    /\ connectionState' = "error"
    /\ retryStarting' = retryStarting + 1
    /\ IF stopOpen[k] THEN Release ELSE UNCHANGED <<conn, socket, stopOpen>>
    /\ UNCHANGED <<manualStop, reconnectDelay, dials, retryAsleep, resetStarting,
                   resetAsleep, looping, csmsUp>>

-----------------------------------------------------------------------------
(* The network and the CSMS *)

PeerDrop(k) ==
    /\ socket[k] = "up"
    /\ socket' = [socket EXCEPT ![k] = "down"]
    /\ UNCHANGED <<stateVars, taskVars, stopOpen, looping, reader, reading, csmsUp>>

CsmsCrash ==
    /\ csmsUp
    /\ csmsUp' = FALSE
    /\ socket' = [k \in Conns |-> IF socket[k] = "up" THEN "down" ELSE socket[k]]
    /\ UNCHANGED <<stateVars, taskVars, stopOpen, looping, reader, reading>>

CsmsRestart ==
    /\ ~csmsUp
    /\ csmsUp' = TRUE
    /\ UNCHANGED <<stateVars, taskVars, connVars>>

-----------------------------------------------------------------------------

Reader(k) ==
    \/ ReaderTop(k)
    \/ ReaderGrab(k)
    \/ ReaderErrorManual(k)
    \/ ReaderErrorAuto(k)

DialSucceeds == \E k \in Conns : DialOk(k)

Next ==
    \/ Connect
    \/ Disconnect
    \/ ResetDisconnect
    \/ ResetConnect
    \/ DialFail
    \/ RetryPlan
    \/ RetryDial
    \/ RetryGivesUp
    \/ CsmsCrash
    \/ CsmsRestart
    \/ \E k \in Conns :
          \/ DialOk(k)
          \/ LoopsStop(k)
          \/ ReaderTop(k)
          \/ ReaderGrab(k)
          \/ ReaderMessage(k)
          \/ ReaderErrorManual(k)
          \/ ReaderErrorAuto(k)
          \/ PeerDrop(k)

Spec == Init /\ [][Next]_linkVars

(* Goroutines are scheduled, sleeps and dials end (HandshakeTimeout), a      *)
(* failed read returns.  No call, drop or crash is ever forced, and a dial   *)
(* need only succeed if the CSMS is up again and again.                      *)
Fairness ==
    /\ WF_linkVars(DialFail \/ DialSucceeds)
    /\ SF_linkVars(DialSucceeds)
    /\ WF_linkVars(RetryPlan)
    /\ WF_linkVars(RetryDial \/ RetryGivesUp)
    /\ WF_linkVars(ResetDisconnect)
    /\ WF_linkVars(ResetConnect)
    /\ \A k \in Conns : WF_linkVars(Reader(k)) /\ WF_linkVars(LoopsStop(k))

FairSpec == Spec /\ Fairness

-----------------------------------------------------------------------------
(* What holds for every operator *)

ReaderAlive(k) ==
    /\ reader[k] # "off"
    /\ reader[k] = "reading" => reading[k] = k

\* The link is never wedged in a state nothing leaves: an attempt in progress
\* has its dial, an error after which retries are allowed has its retry, and a
\* connection that may be retried has a reader that will notice its loss
\* (Connect, scheduleReconnect and readLoop all refuse or wait otherwise).
NeverWedged ==
    /\ connectionState = "connecting" => dials > 0
    /\ connectionState = "error" /\ ~manualStop => retryStarting + retryAsleep > 0
    /\ connectionState = "connected" /\ ~manualStop => conn # NoConn /\ ReaderAlive(conn)

\* The connection the senders use is one the charger has not closed itself,
\* and its loops are not told to stop; connected implies there is one.
ConnUsable ==
    /\ connectionState = "connected" => conn # NoConn
    /\ conn # NoConn => stopOpen[conn] /\ socket[conn] # "closed"

\* When no connection is held, every loop of an earlier one is told to stop
\* (disconnectLocked and the error branch of readLoop close stopCh).
NoOrphanLoops == conn = NoConn => \A k \in Conns : ~stopOpen[k]

\* While a manual disconnect is in force no dial starts: manualStop, line 253,
\* is checked again after the backoff sleep.
ManualStopNoRedial == [][manualStop /\ manualStop' => dials' <= dials]_linkVars

(* What holds for a patient operator without CSMS resets *)

\* At most one attempt or connection at a time: no socket is leaked and no two
\* sets of loops share sendCh (scheduleReconnect and Connect check the state).
OneConnection ==
    /\ dials <= 1
    /\ dials > 0 => conn = NoConn
    /\ \A k \in Conns : socket[k] # "closed" \/ stopOpen[k] => k = conn

\* A manual disconnect stays in force until the next Connect.
ManualStopSticks == manualStop => connectionState = "disconnected"

Abstract == INSTANCE LinkContract WITH
    state <- connectionState,
    held <- conn # NoConn,
    automatic <- ~manualStop

\* The detailed link implements the contract, liveness included.
ImplementsContract == Abstract!Contract

\* A link that may reconnect does so whenever the CSMS stays reachable: the
\* simulator is never stuck in error after a CSMS restart (scheduleReconnect).
Reconnects ==
    <>[](csmsUp /\ ~manualStop /\ connectionState # "disconnected")
        => []<>(connectionState = "connected")

\* "connected" with a dead socket, or with none, does not last: the reader of
\* the connection reports the loss (error branch of readLoop).
LossNoticed ==
    (connectionState = "connected" /\ (conn = NoConn \/ socket[conn] = "down"))
        ~> (connectionState # "connected")

\* After a manual disconnect every goroutine of the link ends, unless the
\* operator connects again.
DisconnectDrains ==
    manualStop ~> \/ ~manualStop
                  \/ /\ retryStarting + retryAsleep = 0
                     /\ \A k \in Conns : reader[k] = "off" /\ ~looping[k]
=============================================================================

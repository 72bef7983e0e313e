# Verification of the AC charger simulator

TLA+ models of `ac-charger-simulator`, an OCPP 1.6J simulator of several AC chargers with a
web console. TLC checks them on small instances; TLAPS proves the most important safety
properties for every value of the constants. Line numbers are those of the source in this
repository; `charger.go` is `internal/charger/charger.go`.

## 1. The system

Each charger (`internal/charger`) keeps a websocket to a central system (CSMS), a charging
session over it, and a simulated meter and battery. A manager holds the chargers, a hub
collects their telemetry and events, and a web server shows them and passes the operator's
requests on.

| part | state | operations | modelled in |
|---|---|---|---|
| charger: link | `connectionState`, `conn`, `stopCh`, `manualStop`, `reconnectDelay`; goroutines `run`, `readLoop`, `writeLoop`, `scheduleReconnect`, Reset | Connect, Disconnect, dial, loss, backoff, Reset | `ChargerLink`, `LinkContract` |
| charger: session | `status`, `transactionID`, `startPending`, `pendingAuthorizeMsgID`, `pendingStartMsgID`, `fullStopSent` | Start, Stop, remote start and stop, limits, faults, availability, answers of the CSMS, resume, update tick | `ChargerSession`, `SessionContract` |
| charger: outbox and reports | `sendCh` (10 frames), `writeMu`, each connection's `writeLoop` | the send functions, `writeLoop`, what `run` sends first, the answers to the CSMS's calls | `Outbox` (heartbeats and meter values only take up room) |
| meter and battery | current, energy, `lastUpdate`, `paused`, `soc`, `socEnergyBase`, profile | SetTargetCurrent, Update, Touch, ZeroFlow, ResetEnergy, taper, ramp | `MeterBattery`; as predicates, in `ChargerSession` |
| telemetry hub | `latest`, `history`, `events`, `subscribers` | OnTelemetry, OnEvent, OnStateChange, Subscribe, Unsubscribe, broadcast | `TelemetryHub` (not the windows) |
| web console server | one websocket handler per browser | REST handlers, `/ws/telemetry` | state and websocket handlers in `TelemetryHub`, the locks of the others in `LockOrder` |
| web front end | what the page shows | `poll`, `connectWS`, `updateCard` | what it applies, in `TelemetryHub` |
| manager | the map of chargers, the endpoint | lookups, loops over the chargers | its locking, in `LockOrder` |
| ocpp16 codec | none | Marshal, Unmarshal, ParsePayload | frames, in `OcppFrame` (not the payloads' fields) |
| config | none | Load, Validate, defaults | what meter and battery depend on, in `MeterBattery` |
| scenario, report, command, mock CSMS | none worth keeping | scripts, formatting, wiring, a test peer | no |

### How the parts interact

- **Calls.** The operator (web handlers, manager, command) calls methods of a charger, each a
  critical section of its mutex `c.mu`. The CSMS's calls arrive in `readLoop`, which handles
  one message at a time; RemoteStart, RemoteStop and Reset only start a goroutine that sleeps
  and then calls Start, Stop, or Disconnect and Connect.
- **Messages.** The charger queues frames on `sendCh` without waiting (a full queue drops the
  frame, line 683); the `writeLoop` of the connection writes them.
- **Callbacks.** Under `c.mu` a charger calls `OnEvent` and `OnStateChange`; the update tick
  calls `OnTelemetry` after the unlock. All take the hub's lock and broadcast to the
  subscribers' channels without waiting.
- **Locks.** manager, then `c.mu`, then `writeMu`, the meter's lock or the hub's lock, in this
  order and never the other way round (`LockOrder`). A web handler or a loop of the manager
  looks chargers up and lets go of the manager's lock before it calls them; only SetEndpoint
  keeps it. The tick hands its telemetry over after it has released `c.mu`.

### What is hard about it

- A dial takes up to ten seconds without the lock, and its result is written over whatever
  was done meanwhile; the goroutines of an earlier connection may outlive it; several backoff
  sleeps can be in progress at once.
- `handleCallResult` clears the pending id in one critical section and acts on the verdict
  in a later one; `run` resumes a charge beside the loops it has just started.
- Links are lost with requests outstanding, frames are dropped, a second Start, a RemoteStart
  and a resume may all want the same exchange.
- A queue that is full drops frames of every kind; frames left over from one connection are
  written on the next; a `writeLoop` that was told to stop may take one more frame.
- Time is scaled, a tick may come late, and the register is reset under the battery's base.
- Disconnect waits for `writeMu` with `c.mu` held, and a write has no deadline.
- Telemetry is snapshot under one lock and stored under another; channels fill and drop;
  client ids are a clock reading; only a ticking run loop keeps the console up to date.

`PROJECT.json` lists the hazards line by line, with the properties that guard each, or a note on
what they do not cover and why. A property that the code breaks by design, where nothing in the
repository promises more, is checked in the circumstances in which it holds, and the note says
what happens outside them: a Reset that undoes a manual disconnect (line 1079), a limit that
makes an idle charger charge (333), current left on display by a fault (417), an automatic stop
that is not tried again (566), an answer waited for for ever (683, 924).

### What makes each part correct

- *link*: never wedged; the held connection is usable; at most one attempt or connection;
  no redial under a manual disconnect; every loss noticed and retried; goroutines drained.
- *session*: one start exchange outstanding at most; status, `transactionID`, current and the
  sessions at the CSMS agree; a start is decided; a full battery stops.
- *outbox*: the last status the CSMS sees is the charger's; boot reaches it on every connection;
  every call gets one answer.
- *meter and battery*: the current never overshoots its target; no energy is counted for idle
  time nor twice across a reset; SOC stays within 0..100 and only rises while charging; the
  CSMS's limit is respected.
- *hub and console*: no send on a closed channel, no channel left behind, what is shown is
  eventually the condition of the charger.
- *locks*: no cycle, and nobody blocks while holding what a blocked party needs.
- *codec and config*: decoding inverts encoding; every accepted configuration gives a charger whose
  numbers stay in range.

## 2. Plan

In order of importance. Done:

1. `LinkContract`, `ChargerLink`: the link, its goroutines and the contract it implements;
   proofs in `ChargerLinkProofs`.
2. `ChargerSession`: the session on a link that obeys the contract, and `SessionContract`, which
   it implements; proofs in `ChargerSessionProofs` and `SessionContractProofs`.
3. `TelemetryHub`: hub, websocket handlers and browser; proofs in `TelemetryHubProofs`.
4. `MeterBattery`: the update tick on integers, with the configurations it may meet; proofs
   in `MeterBatteryProofs`.
5. `OcppFrame`: the codec as operators, proofs in `OcppFrameProofs`; `Outbox` on top of it:
   reports, boot, answers and the `writeLoop`s of two connections; proofs in `OutboxProofs`.
6. `LockOrder`: the five kinds of lock and what every method does to them; proofs in
   `LockOrderProofs`.

To come:

7. `Charger`: `ChargerLink`, `ChargerSession` and the run loop of `TelemetryHub` composed, so
   that overlapping run loops and a stale reader meet the session and the console.

Runs stay one per question.

## 3. The link: `ChargerLink`

A step is one critical section of `c.mu`, or one effect of a goroutine between two of them.
Goroutines that are interchangeable are counted (`dials`, `retryStarting`, `retryAsleep`,
`resetStarting`, `resetAsleep`); those of a connection `k` are named by it.

| model | code |
|---|---|
| `connectionState`, `manualStop`, `reconnectDelay`, `conn` | the fields of `Charger`; the delay in units of 5 s |
| `stopOpen[k]` | the `stopCh` that connection captured is open; every close replaces the field, so open means current |
| `socket[k]` | `up`, `down` (peer gone) or `closed` (by the charger) |
| `looping[k]` | `run`'s select loop or `writeLoop` of `k` is alive |
| `reader[k]`, `reading[k]` | `readLoop` at its select, about to read `c.conn`, or in `ReadMessage` on a connection, which may be a *later* one (line 612) |
| `Connect`, `Disconnect` | 201-216, 246-266 |
| `DialFail`, `DialOk` | the two critical sections of `run`, 450-476 |
| `RetryPlan`, `RetryDial`, `RetryGivesUp` | the two critical sections of `scheduleReconnect` |
| `ReaderTop`, `ReaderGrab`, `ReaderMessage`, `ReaderErrorManual`, `ReaderErrorAuto` | `readLoop` |
| `ResetDisconnect`, `ResetConnect` | the goroutine of Reset, 1077-1082 |
| `PeerDrop`, `CsmsCrash`, `CsmsRestart` | network and CSMS |

`Connect` and `Disconnect` can come at any moment. With `Patient` the operator lets a dial end
before `Disconnect` and the goroutines of an old connection end before `Connect`. That is
the only way in which the environment is ever tamed, and section 10 shows what goes wrong
without it.

`LinkContract` is what an observer of `connectionState` may rely on: one attempt at a time, a
socket held exactly while connected, an attempt that ends, a loss that is retried, and a
manual disconnect that lasts until the next Connect. The refinement mapping takes
`connectionState` itself, `conn # NoConn` for `held`, `~manualStop` for `automatic`.

## 4. The session: `ChargerSession`

The link is reduced to `connected` (it obeys `LinkContract`), and `resuming` while `run` has
connected and not reached the block at line 487. Numbers become predicates: `limited` (target
below 6 A), `flow` (current flows), `full` (SOC at its target). The wire is `sendCh`, then the
CSMS, then `replies`; `sessions` are the transactions open at the CSMS, which closes them
when the link is lost (comment at line 486).

| model | code |
|---|---|
| `Start`, `Stop`, `DoStart`, `DoStop` | 269-318 |
| `RemoteStart`, `RemoteStop`, `DelayedStart`, `DelayedStop` | 1055-1072 and `go c.Stop()`, 598 |
| `SetTargetCurrent`, `SetChargingProfile`, `ClearChargingProfile` (all `ApplyLimit`) | 321-342, 1002-1053 |
| `SetFault`, `ClearFault`, `ChangeAvailability`, `SetSOC`, `SetProfile` | the methods of these names |
| `Tick` | the update tick, 516-599 |
| `Resume` | 487-493 |
| `MatchResult`, then `AuthorizeAccepted`, `StartAccepted` or `Rejected` | the two critical sections of each branch of `handleCallResult` |
| `Deliver`, `WriteLost` | `writeLoop`, and the CSMS (external) |

The CSMS accepts, rejects or gives an answer the session ignores, in order, and gives each
transaction an id not in use. An answer is ignored if it is a CALLERROR, which is only logged
(line 924), or a CALLRESULT with a status Accepted of its own, which `handleCallResult` takes
for the answer to boot before it looks at any id (line 933). `SendDrops` lets frames outside the
model fill `sendCh`, so that any frame may be dropped. A tick can be picked once more by
`select` after `stopCh` was closed; it does what a tick just before would have done and is not a
step of its own. `LinkUp` waits for the last connection's answer to be handled and its `run` to
have passed line 493: a dial takes longer, and `ChargerLink` shows that a connection has no
other beside it.

`SessionContract` is what charger and CSMS together make of sessions, with no frame, queue or
handler: the charger asks (`Ask`), the CSMS opens a transaction (`Offer`), the charger adopts
it (`Adopt`), stops it (`End`), the CSMS closes it (`Close`); a loss of the link closes all
that is open and may take the offer with it (`Lose`). The mapping takes `transactionID`,
`startPending` and `sessions` themselves; what is offered is the id in an answer on its way or
in the hands of `readLoop`, what is ending are the ids of the StopTransactions in `sendCh`.

## 5. Hub and console: `TelemetryHub`

A charger's `condition` is whether it is connected, and one bit (`faulted`) for everything else
a snapshot shows. A change of condition emits one to three events (`emitStateChange`,
`emitEvent`), each a broadcast of its own: the first in the step of the change, the others in
`Emit`, and until the last of them `c.mu` is held (`emitting`), so that no snapshot is taken in
between while viewers come and go. `Sample` and `Report` are the two halves of the update tick, under `c.mu` and
after it. A viewer is a browser with the handler that serves it: `Subscribe`, `Greet` (current
state and latest telemetry), `Receive`, `Leave`, `Unsubscribe`; without one it polls
`/api/state` (`Poll`, `handleState`). Its channel holds `Cap` messages and a broadcast skips
a full one. Ids are clock readings, so two viewers may get the same one: the second takes
the first's entry, and either `Unsubscribe` closes the channel found under the id. The
telemetry of the greeting bears no charger id (server.go line 364), so `app.js` line 278
ignores it; the model does the same. `Browsers` are the viewers whose page is looked at; what
the other clients show does not matter to the hub and is not kept.

## 6. Meter and battery: `MeterBattery`

Currents are whole amperes; energy, SOC and capacity are ampere-seconds at the meter, as
voltage, phases, power factor and efficiency are positive constants that scale all of them
alike. The code closes half of a gap per second in floating point; the model rounds a step up
to a whole ampere, so that a gap closes as it does in the code. `Second` lets time pass for
the tick (`gap`), the meter's clock (`since`, `lastUpdate`) and the ramp.

| model | code |
|---|---|
| `Validate`, `Default`, `TimeScale`, `NewCharger`, `Init` | config.go 99-101, the defaults of `NewCharger`, `SetTimeScale` |
| `MeterTarget`, `Converge`, `Metered` | meter.go: `SetTargetCurrent` with its pause below 6 A, `Update` |
| `Tick`, with `Charge`, `Settle`, `Taper`, `RampCurrent` | the update tick, 516-564, and `taperCurrentCap` |
| `SetTargetCurrent`, `SetChargingProfile`, `ClearChargingProfile` | the limits: `ApplyLimit` in `SuspendedEVSE` or back |
| `SetSOC`, `SetProfile`, `StartTransaction`, `StartAccepted`, `Stop`, `SetFault` | the other calls that touch them |
| `LoopStarts`, `LoopEnds` | `run`'s select loop, whose `meterTicking` starts false |

The current a fault or ChangeAvailability leaves on the meter stays there, as in the code. A
limit of the operator becomes the charger's target even when it suspends, one of the CSMS
leaves 0: lines 321-342 and 1028-1043 differ in this.

## 7. What is sent: `OcppFrame` and `Outbox`

`OcppFrame` is the codec: a JSON value is its kind and its value, a frame is the Go struct, and
`Marshal`, `WellFormed` (what `Unmarshal` refuses) and `Unmarshal` go between a frame and its
array. Numbers are counted in tenths, because a type of 2.7 is taken for 2.

`Outbox` is built on it: what a `Charger` queues are arrays, and what the CSMS receives is what
`Unmarshal` makes of them. A method that holds `c.mu` has a list of frames to send
(`outgoing`) and sends them one at a time (`SendNext`), beside `run`, which sends without
the lock.

| model | code |
|---|---|
| `sendRaw` | 683-689; a frame that does not fit is dropped |
| `SetStatus`, `Stop`, `Setting` | the methods that report a status; Stop sets and reports two in turn (306-315) |
| `Connected`, `SendBoot`, `ReadStatus`, `SendReport`, `ResumeSession` | `run`, 470-493: the status is read without the lock (483) |
| `Close` | Disconnect, or the read error of `readLoop` |
| `Receive`, `WriteMessage`, `writeLoopEnds` | `writeLoop`; it writes on whatever `c.conn` is by then (659) |
| `Ask` | the CSMS calls, once per id, or answers a call of the charger (`Result`, `Failure`); also arrays that are no frames |
| `ReadMessage`, `handleMessage`, `handleServerCall` | `readLoop`, 912-928, 997-1100; each handler's early returns included; a CALLERROR is only logged, and the changes a CALLRESULT brings about are `SetStatus` |

`Strings` and `Objects` are any sets that hold the texts and payloads the frames use
(`FrameTexts`, `FrameObjects`), and nil is no array. Only Stop sets `Finishing`, and goes
on to Available in the same critical section: no method ever finds it, but `run`, which reads
the status without the lock, may.

`excuse`, `lost` and `noRoom` record why the CSMS may show another status, may miss an answer or
a boot. They only observe: no guard reads them. Heartbeats and meter values are not frames of
the model; a `SendCap` of one stands for the room they leave.

## 8. The locks: `LockOrder`

A method is the sequence of what it does to the locks (`Lock`, `RLock`, the unlocks, and a `send`
that takes its time in the network), written the way the code nests: `Change ==
Locked("charger", Emit)`. A task runs the methods of its role one after the other. The locks
are Go's: a writer that finds readers inside announces itself and keeps new readers out
(`Announce`), which is what makes a second `RLock` by the same goroutine dangerous. One
charger stands for all of them, since no goroutine ever holds the locks of two; the loops of
the manager call them in turn.

## 9. What the runs check

| run | question | instance | result |
|---|---|---|---|
| `link_safety` | Can any order of calls, dials, losses, crashes and Resets wedge the link, leave an unusable connection, a forgotten loop, or dial under a manual stop? | 3 connections, all operations, `MaxTasks` 2, `MaxBackoff` 2, symmetry | holds, 3.6 M states |
| `link_patient` | With a patient operator and no Reset: one connection, manual stop in force, contract implemented, losses noticed and repaired, goroutines drained? | 3 connections, `MaxTasks` 3, fair | holds, 4.7 k states |
| `session_safety` | Every call, verdict, dropped frame and lost link: one exchange at a time, and all parts agree on it? | 2 ids, `SendCap` 3, drops, `MaxCalls` 1 | holds, 892 k states |
| `session_steady` | Without faults, limits outside a session and rejections, but with lost links: do status, transaction, current and CSMS agree, is there one session at most, is the contract implemented, are starts decided, does a full battery stop? | 3 ids, `SendCap` 10, `MaxCalls` 2, `PromptResume`, fair | holds, 69 k states |
| `hub` | Viewers that come and go, colliding ids, full channels, faults: ever a send on a closed channel, or a channel left behind? Does what is shown become the condition of a connected charger? | 1 charger, 2 viewers with one id, 1 of them a browser, `Cap` 1, fair | holds, 1.6 M states |
| `meter` | Any order of limits, ramps, resets, losses and late ticks, accelerated: energy for idle time, overshoot, energy credited twice, a limit not honoured, a charge that starves? | 3 accepted configurations and a refused one, `Full` 10, fair | holds, 964 k states |
| `outbox` | A queue that overflows, a connection that is lost, calls well-formed and not, answers of the CSMS: does the CSMS come to show the status, get boot, and one answer to each call? | 2 connections, `SendCap` 1, 1 change, 1 id, fair | holds, 701 k states |
| `locks` | Web handlers, loops and writer at once: locks in one order, no circle, every call returns? | 4 tasks, fair | holds, 46 k states |
| `link_stop`, `session_phantom`, `session_fault`, `hub_stale` | section 10 | the least that shows it | violated |

Each property of a passing run is broken by at least one change of the model that a plausible
bug would be (the definitions marked *Seeded fault*, listed under `mutants` in `PROJECT.json`).

**What the properties mean.** `NeverWedged`: a `connecting` link has its dial, an `error` its
retry, a `connected` link a reader of this very connection, except under a manual stop.
`ConnUsable`, `NoOrphanLoops`: closing a connection and telling its loops happen together.
`SingleFlight`: `startPending`, the two pending ids, the queue, the answers and the handler
tell the same story, whatever is lost; with ids of one second's resolution (line 773) this is
what keeps an answer from being matched with the wrong request. `NoOrphanSession`: a
transaction open at the CSMS belongs to the charger, or its answer or its stop is on the way.
`OneSession`: of those the charger has not stopped there is one at most.
`ViewerCatchesUp` assumes that the viewer's channel has room at infinitely many reports:
nothing in the code makes a browser fast enough, and a slow one may see no telemetry at all.
`NoIdleEnergy`: one tick meters no more than the maximum current over the scaled time since
the last tick, however long the charger was idle before. `CreditFollowsMeter`: the battery gains
just what the register gained in this tick, and less only when the register was reset since
the last one or the battery is full. `LimitHonoured` and `ChargeCompletes` are about a target
that stays: under `ramp_up` the ramp *is* the target, and overrides a limit of the CSMS at each
tick (line 552). `StatusShown` and `StatusSettles` allow three reasons for the CSMS to show
another status than the charger's: `run` reads the status before a change and reports it
after (line 483), a report is dropped (684), or an old `writeLoop` puts one on the new
connection (659); a report of the present status that is queued ends all three. `CallsAnswered` and
`Registered` likewise name the ways out the code has. `OneAnswer` says both that no call is
answered twice and, once all is read and sent, that none is forgotten: it has its answer, or
was lost with its connection or to a full queue. `LocksAscend` includes that a method
returns without any lock.

**Bounds.** Three connections are one more than any step relates (the held one, a reader's, the
one it reads); `Conns` are slots reused when nothing refers to them. `MaxTasks` bounds
unfinished dials, retries and Resets when the *environment* makes a call, never the retries the
code starts itself. `MaxBackoff` 2 (6 in the code) still has a first, a growing and a capped
delay. `SendCap` 3 with `SendDrops` meets every overflow, 10 none; transactions are started one
at a time, and an old one is referred to while a stop is queued, hence two or three ids.
`MaxCalls` bounds delayed Starts and Stops, and the operator's Start, as each start allows one
more automatic stop. `Cap` 1 is full after any message, which makes every broadcast meet a full channel as well as
an empty one. Two viewers with one id share and take over its entry in every way, and the
theorems of section 11 show that no larger instance differs. The liveness properties of the
hub speak of one charger and one browser, with which others interfere only by filling a
channel, which events do as well.
In `meter` the three configurations are a common one that is to be charged fully, an accelerated
one with the default goal whose maximum is just above the threshold, and one below it; `Full` 10 puts the taper at 8 and
lets a charge complete in a few ticks; `Late` 2 lets a tick come a second late, `Long` 3 tells
an interval no tick can explain from the others; `RampPeriod` 1 climbs past the threshold at
once; `MaxEnergy` 10 stops the calls that keep the register growing, not the ticks.
In `outbox` the second connection meets the remains of the first; `SendCap` 1 is the room
that heartbeats and meter values may leave of ten; one change of status can fall between the two
halves of `run`'s report, and handlers change it besides. The four
tasks of `locks` are one of each sort: a web handler that writes, one that reads, the
goroutines that run the charger, and the writer; `NoCircularWaitHolds` is for any number.

**Fairness.** Goroutines that can run do; sleeps and dials end (`HandshakeTimeout`); a failed read
returns; the CSMS answers what it receives; tickers tick. Nothing from outside is forced: no
call, loss, crash, restart or reconnection. Only `DialSucceeds` has strong fairness: a CSMS that
is up again and again is reached some time, which a backoff that dials for ever justifies.
`Receive` is weakly fair: a browser that keeps its stream reads it. In `hub` a
method that holds `c.mu` goes on to its end, and the tick gets `c.mu` although other methods keep
taking it (`Sample` is strongly fair, as a Go mutex is); elsewhere the tick is weakly fair while
the run loop lives.

In `meter` seconds pass and a tick comes within `Late` of the last. In `outbox` a `writeLoop` that is not told to
stop goes on, and `run` and `readLoop` get `c.mu` although others keep taking it (strong
fairness). `locks` assumes the same of every lock: a Go mutex is handed to a goroutine that has
waited a millisecond, and readers that wait for a writer enter when it leaves. A frame
that is being written is taken or given up in the end: the code sets no write deadline, so
this is the patience of TCP, and meanwhile Disconnect may hold `c.mu` and wait for it.

**Deadlock** is checked in every run but `outbox`: there a charger whose connections are used
up, and which nobody calls, may rest.

## 10. Where code and words disagree

- `link_stop` (lines 457, 470). Disconnect during a dial is undone by its result: connected, or
  error, under a manual stop. Line 253 and `reconnect_test.go` line 136 promise otherwise.
  The readLoop of such a connection takes a later loss for the effect of Disconnect
  (line 623), and the link then stays `connected` with nobody reading: the reason why
  `NeverWedged` makes an exception of the manual stop.
- `session_phantom` (line 488). A link lost with an exchange outstanding leaves `startPending`
  set. A charger that was resuming is never resumed again: it charges, the CSMS has no
  session, the case the comment at lines 485-486 describes.
- `session_fault` (line 374). A fault set and cleared while charging leaves an available charger
  with its transaction; the comment at line 365 promises a return to the earlier status.
- `hub_stale` (hub.go line 90). Only a ticking run loop updates the hub, and `/api/state`
  prefers the hub's telemetry: after a disconnect the console shows the charger connected,
  although README line 10 offers the state in real time.

Two more show in the models and have no run of their own. Disconnect followed at once by Connect
clears `manualStop` before the old reader sees its error; it then reports the *new* connection
as failed and dials another beside it (line 628; `Patient` excludes it, and `OneConnection` fails
without it). And if Start is accepted on a new connection before its `run` reaches line 488, the
block resumes a charge that was never interrupted, and the first session is never stopped
(`PromptResume` excludes it, and `NoOrphanSession`, `OneSession` and the contract fail without it).

## 11. What is proved

For every set of connections, transactions, chargers, viewers, ids, configurations and goroutines
and every bound, from
the named assumptions of the modules alone (distinct nil values, bounds that are naturals):

| theorem | says | by |
|---|---|---|
| `ChargerLinkProofs!TypeCorrect` | types, with the backoff within its cap | inductive by itself |
| `NoRedial` | no dial starts under a manual stop | each step that dials reads or clears the flag |
| `NeverWedgedHolds`, `ConnUsableHolds`, `NoOrphanLoopsHolds` | the safety of `link_safety`, for any operator | `LinkInv`, their conjunction with the types |
| `OneConnectionHolds`, `ManualStopSticksHolds`, `ImplementsContractSafety` | patient operator, no Reset: one connection, a manual stop that lasts, and the safety part of the contract | `PatientInv` |
| `ChargerSessionProofs!TypeCorrect`, `SingleFlightHolds` | types; one exchange at a time | `SingleFlight` is inductive as it stands, with the types |
| `SuspendedNoFlowHolds`, `ChargingHasTransactionHolds`, `IdleHolds`, `StatusTellsTransactionHolds`, `FlowOnlyChargingHolds` | current and transaction against status; all but the first under the conditions in their statements | with `Granted` |
| `NoOrphanHolds` | no transaction is left open at the CSMS; under `Steady`: no faults, rejections, availability changes or frames of others that fill `sendCh`, room for four frames (the code has ten), a resume before a new start (section 10) | `OrphanInv` |
| `SessionContractProofs!ImplementsContractSafety` | under `Steady`, every step of the exchange is a step of `SessionContract` or none | `SessionInv`, `Distinct` |
| `OneSessionHolds` | under `Steady`, `PromptResume` included, the CSMS never has two transactions of a charger open that the charger has not stopped | a promise of the contract, `Held` |
| `TelemetryHubProofs!TypeCorrect` | types, no channel above its capacity | inductive by itself |
| `NoClosedSubscriberHolds`, `NoLeakedChannelHolds` | channels, colliding ids included | `ChannelInv` |
| `MeterBatteryProofs!TypeCorrect` | current within the maximum, SOC within 0..100%, register and base natural | with `ClocksAgree`, `BaseAhead` |
| `NoIdleEnergyHolds`, `NoOvershootHolds`, `CreditFollowsMeterHolds` | the tick's action properties, for any configurations, limits, intervals and time scale | the same invariant |
| `LocksAscendHolds`, `NoCircularWaitHolds` | one order; no circle among any number of goroutines | `MethodsOrdered`, then `IInv` |
| `OcppFrameProofs!CallRoundTrip`, `ResultRoundTrip`, `ErrorRoundTrip` | what Marshal writes Unmarshal accepts and gives back, for frames with a payload | by the array's positions |
| `OutboxProofs!TypeCorrect` | only what Unmarshal takes for a frame waits to be written | `Types`: only known frames are sent |
| `OneAnswerHolds` | no call answered twice, none forgotten, for any calls, connections and capacity | `AnswerInv` |
| `RegisteredHolds` | boot reaches the CSMS on each connection that lasts, or had no room | `BootInv`, `Writers` |
| `StatusShownHolds` | when all is sent the CSMS shows the status, but for the three reasons | `ReportInv`, `Writers` |

Why the strengthenings are needed:

- `LinkInv` couples the properties. A dial's success leaves a usable connection only because
  the three facts about the previous one hold together: a reader that fails releases the
  connection only if its `stopCh` is current, and by `ConnUsable` it is then the held one's.
- `PatientInv` adds `StateTells` (the state says how many dials run and whether a connection is
  held; a manual stop means disconnected; no Reset goroutine exists; no retry in a fresh link)
  and `OnlyHeldOpen` (every socket and `stopCh` but the held one's is closed, and a reader of
  another connection will find the manual stop). Without it a stale reader could
  turn a good connection into an error, which section 10 describes.
- `Granted` says that an accepted answer, on the way or being handled, carries an id that is
  not 0; without it the charger could start to charge with no transaction.
- `OrphanInv` adds four facts to `NoOrphanSession`. The CSMS holds no session while the charger
  is away, or is back and has not resumed (`ClosedOnLoss`). Only an accepted start brings a
  transaction id (`Carried`). While a start is under way the CSMS does not hold the
  transaction the charger still remembers (`Renewed`, where `PromptResume` enters): adopting
  the new id orphans nobody. And what the charger queues fits (`Room`, which counts the
  frames before and behind a call of the start): a dropped StopTransaction would leave its
  session open for ever.
- `SessionInv` collects these. The refinement needs one fact more, that a transaction is in one
  place: the StopTransactions in `sendCh` are of different ids, none of them the charger's or
  one it is offered, and what it is offered is not what it is in (`Distinct`). Otherwise a
  stop taken from the queue would leave another of the same id behind, and `Close` would not
  be what happened. That there is one session at most is then proved about the contract
  alone, whose invariant (`Held`) needs nothing of frames, and carried over.
- `ChannelInv` adds that a handler that has subscribed remembers its id. An entry is then
  always the one its handler will remove, and `Unsubscribe` removes an entry with its channel
  even if the channel is another handler's.

- The invariant of `MeterBattery` adds that while a loop is charging the meter's clock shows the
  time since the last tick (`ClocksAgree`: what `Touch` is for), and that the register never
  passes the base: a reset takes it below, and the next tick brings the two together
  (`BaseAhead`). Without the first a tick could meter the idle time, without the second
  the battery could be credited more than the tick metered.
- `LockOrderProofs` first shows that every method is `Ordered`, by lemmas on how methods are put
  together: a lock around an ordered body whose locks all come later, and one ordered part
  after another. `IInv` then says that what a task holds is what its method has taken and not released
  so far, and that who keeps readers out is about to lock. From there no circle is possible:
  the lemma `Climbing` follows the waiting to a task that holds a lock of a higher rank each
  time, and there are five ranks.
- `AnswerInv` follows the answer to each id like a token: the call is unread, being handled, or its
  answer waits for `c.mu`, in `sendCh`, or in a `writeLoop`, in one of these places at most
  (`OnePlace`); then the CSMS has counted it, or it is `lost`. `Writers` says that the
  `writeLoop` of `conn` runs, that every other was told to stop, and that one that has ended
  holds nothing: what the last loop holds is otherwise nobody's.
- `ReportInv` says where the last true report is: the method that holds `c.mu` ends with it (Stop
  with the one of the status it will set), or it is the last report in the queue, or in the `writeLoop`, or there is none and the CSMS
  shows it already. A loop told to stop may hold an older one, which is the third reason.
- A payload that is nil is written as null and read back as null: the round trip is stated for
  frames with a payload, which are the only ones the charger sends.

Only model-checked: the liveness properties (`Reconnects`, `LossNoticed`, `DisconnectDrains`,
`StartResolves`, `FullStops`, `SettledShown`, `ViewerCatchesUp`, `LimitHonoured`,
`ChargeCompletes`, `CallsAnswered`, `StatusSettles`, `EveryCallReturns`) and the fairness part
of the two `ImplementsContract`, as TLAPS does not handle liveness under fairness nor ENABLED. Every
invariant of the runs is proved. No module uses
recursion; what a recursive definition computes for every input is beyond the installed
provers too.

## 12. What is not modelled, and why

- *The manager's map* never changes once the command has filled it; its locking is in
  `LockOrder`, and what it calls are actions of the charger modules.
- *Scenario runner, report, command, mock CSMS, page layout*: scripts over the manager's calls that
  nothing starts, formatting, wiring, a test peer, markup. No state worth a module.
- *Payloads*: their fields and `ParsePayload` are opaque; `Outbox` tells a payload that
  cannot be parsed, and the kinds of profile a handler distinguishes, from the others.
- *Configuration*: YAML, ids, endpoints and the web console's settings. Of Validate the models
  use what meter and battery depend on.
- *Heartbeats and meter values*: periodic frames that change nothing; they take up room in
  `sendCh`. Their ticker takes the interval in force when the loop starts (line 475), before
  the answer to boot brings another: the new one counts from the next connection on.
- *History and event windows of the hub*: appended, trimmed and copied under one lock.
- *Data races* on fields read outside the lock: the status at line 483 is in `Outbox`; the
  transaction id at line 984 reaches only a log text and is in no module.
- *The websocket library* and the network are external: a dial succeeds or fails, a read returns a
  message or fails, frames arrive in order or not at all.

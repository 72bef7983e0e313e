--------------------------- MODULE ChargerSession ---------------------------
(***************************************************************************)
(* The charging session of one Charger (internal/charger/charger.go): the  *)
(* exchange Authorize, StartTransaction, StopTransaction with the CSMS,    *)
(* the status and transactionID it drives, the resume after a reconnect,   *)
(* and the calls and faults that interfere with it.  A step is one         *)
(* critical section of c.mu, or one message taken by the peer.             *)
(*                                                                         *)
(* The link obeys LinkContract: ChargerLink shows when it does.  Numbers   *)
(* are reduced to what the session tells apart: the target current is      *)
(* below 6 A or not (limited), current flows or not (flow), the battery    *)
(* has reached its target SOC or not (full).  Frames that no handler of    *)
(* the session waits for (boot, status, heartbeat, meter values, replies   *)
(* to the CSMS) are left out; SendDrops says whether they may fill sendCh. *)
(***************************************************************************)
EXTENDS Naturals, Sequences

CONSTANTS
    Tx,          \* transaction ids the CSMS gives out
    Operations,  \* the calls the environment makes, \subseteq AllOperations
    Verdicts,    \* how the CSMS answers Authorize and StartTransaction
    SendCap,     \* capacity of sendCh (10 in the code)
    SendDrops,   \* frames left out of the model may fill sendCh as well
    PromptResume, \* run reaches its resume block before a frame is answered
    MaxCalls     \* bound on goroutines about to call Start or Stop

AllOperations ==
    {"Start", "Stop", "RemoteStart", "RemoteStop", "SetLimit", "SetLimitIdle", "SetFault",
     "ClearFault", "ChangeAvailability", "SetSOC", "SetProfile", "LinkLost"}

\* An answer is ignored if it is a CALLERROR, or a CALLRESULT that bears a status
\* Accepted of its own: handleCallResult takes it for the answer to BootNotification
\* before it looks at any id.
AllVerdicts == {"Accepted", "Rejected", "Ignored"}

ASSUME TxAssumption == Tx \subseteq Nat \ {0}
ASSUME CallsAssumption ==
    /\ Operations \subseteq AllOperations
    /\ Verdicts \subseteq AllVerdicts
    /\ SendDrops \in BOOLEAN /\ PromptResume \in BOOLEAN
    /\ SendCap \in Nat /\ MaxCalls \in Nat

VARIABLES
    connected,      \* connectionState is Connected
    resuming,       \* run has connected and not yet reached its resume block
    status, transactionID, startPending, fullStopSent,
    pendingAuthorize, pendingStart,  \* the pending message id is not empty
    limited,        \* targetCurrentA is below 6 A: the meter is paused
    ramping,        \* the test profile is ramp_up
    flow,           \* the meter's actual current is not zero
    full,           \* soc has reached targetSOC
    sendCh,         \* frames waiting for writeLoop
    replies,        \* answers of the CSMS on their way to readLoop
    handling,       \* the answer readLoop is in the middle of handling
    startCalls,     \* goroutines about to call Start (RemoteStart)
    stopCalls,      \* goroutines about to call Stop (RemoteStop, full battery)
    sessions        \* transactions open at the CSMS

linkVars == <<connected, resuming>>
pendingVars == <<startPending, pendingAuthorize, pendingStart>>
meterVars == <<limited, ramping, flow, full>>
wireVars == <<sendCh, replies, handling, sessions>>
callVars == <<startCalls, stopCalls>>
sessionVars == <<linkVars, status, transactionID, fullStopSent, pendingVars, meterVars,
                 wireVars, callVars>>

\* Finishing is only passed through inside Stop; SuspendedEV is never entered.
Statuses == {"Available", "Preparing", "Charging", "SuspendedEVSE", "Faulted", "Unavailable"}

InSession == status \in {"Charging", "SuspendedEVSE"}

Frames == [call : {"Authorize", "StartTransaction", "StopTransaction"}, tx : Tx \union {0}]
Replies == [call : {"Authorize", "StartTransaction"}, verdict : AllVerdicts,
            tx : Tx \union {0}]
Idle == [call |-> "none", verdict |-> "none", tx |-> 0]

FlagTypes ==
    /\ connected \in BOOLEAN /\ resuming \in BOOLEAN
    /\ startPending \in BOOLEAN /\ pendingAuthorize \in BOOLEAN /\ pendingStart \in BOOLEAN
    /\ fullStopSent \in BOOLEAN
    /\ limited \in BOOLEAN /\ ramping \in BOOLEAN /\ flow \in BOOLEAN /\ full \in BOOLEAN

ChargerTypes ==
    /\ status \in Statuses
    /\ transactionID \in Tx \union {0}
    /\ startCalls \in Nat
    /\ stopCalls \in Nat

WireTypes ==
    /\ sendCh \in Seq(Frames)
    /\ replies \in Seq(Replies)
    /\ handling \in Replies \union {Idle}
    /\ sessions \in SUBSET Tx

TypeOK == FlagTypes /\ ChargerTypes /\ WireTypes

Init ==
    /\ connected = FALSE /\ resuming = FALSE
    /\ status = "Available"
    /\ transactionID = 0
    /\ startPending = FALSE /\ pendingAuthorize = FALSE /\ pendingStart = FALSE
    /\ fullStopSent = FALSE
    /\ limited = FALSE /\ ramping = FALSE /\ flow = FALSE /\ full = FALSE
    /\ sendCh = <<>> /\ replies = <<>> /\ handling = Idle
    /\ startCalls = 0 /\ stopCalls = 0
    /\ sessions = {}

-----------------------------------------------------------------------------
(* Helpers of the handlers *)

\* sendRaw: the frame is queued, or dropped without a word when sendCh is full.
Send(frame) ==
    \/ Len(sendCh) < SendCap /\ sendCh' = Append(sendCh, frame)
    \/ (SendDrops \/ Len(sendCh) >= SendCap) /\ UNCHANGED sendCh

setStatus(s) ==
    /\ status' = s
    /\ flow' = (flow /\ s # "SuspendedEVSE")

sendAuthorize ==
    /\ pendingAuthorize' = TRUE
    /\ Send([call |-> "Authorize", tx |-> 0])

sendStartTransaction ==
    /\ pendingStart' = TRUE
    /\ Send([call |-> "StartTransaction", tx |-> 0])

-----------------------------------------------------------------------------
(* Start and Stop *)

\* Seeded fault: a second Start is not refused while one is pending.
CanStartTwice == status \in {"Available", "Preparing"} /\ connected

CanStart == status \in {"Available", "Preparing"} /\ connected /\ ~startPending

CanStop == InSession /\ connected

DoStart ==
    /\ startPending' = TRUE
    /\ fullStopSent' = FALSE
    /\ setStatus("Preparing")
    /\ sendAuthorize
    /\ UNCHANGED <<linkVars, transactionID, pendingStart, limited, ramping, full,
                   replies, handling, sessions>>

\* Seeded fault: the transaction is forgotten before StopTransaction is built.
DoStopForgetsFirst ==
    /\ Send([call |-> "StopTransaction", tx |-> 0])
    /\ transactionID' = 0
    /\ flow' = FALSE
    /\ status' = "Available"
    /\ UNCHANGED <<linkVars, pendingVars, fullStopSent, limited, ramping, full,
                   replies, handling, sessions>>

\* Seeded fault: the current is not set to zero.
DoStopKeepsFlow ==
    /\ Send([call |-> "StopTransaction", tx |-> transactionID])
    /\ transactionID' = 0
    /\ status' = "Available"
    /\ UNCHANGED <<linkVars, pendingVars, fullStopSent, meterVars, replies, handling, sessions>>

\* Seeded fault: the charger stays in Finishing.
DoStopStaysFinishing ==
    /\ Send([call |-> "StopTransaction", tx |-> transactionID])
    /\ transactionID' = 0
    /\ flow' = FALSE
    /\ status' = "Finishing"
    /\ UNCHANGED <<linkVars, pendingVars, fullStopSent, limited, ramping, full,
                   replies, handling, sessions>>

DoStop ==
    /\ Send([call |-> "StopTransaction", tx |-> transactionID])
    /\ transactionID' = 0
    /\ flow' = FALSE
    /\ status' = "Available"
    /\ UNCHANGED <<linkVars, pendingVars, fullStopSent, limited, ramping, full,
                   replies, handling, sessions>>

\* The operator; refused calls change nothing.  MaxCalls bounds Start too: every
\* start allows one more automatic stop (Tick).
Start ==
    /\ "Start" \in Operations
    /\ startCalls + stopCalls < MaxCalls
    /\ CanStart
    /\ DoStart
    /\ UNCHANGED callVars

Stop ==
    /\ "Stop" \in Operations
    /\ CanStop
    /\ DoStop
    /\ UNCHANGED callVars

\* A delayed goroutine makes its call, which may be refused by now.
DelayedStart ==
    /\ startCalls > 0
    /\ startCalls' = startCalls - 1
    /\ \/ CanStart /\ DoStart
       \/ ~CanStart /\ UNCHANGED <<linkVars, status, transactionID, fullStopSent,
                                   pendingVars, meterVars, wireVars>>
    /\ UNCHANGED stopCalls

DelayedStop ==
    /\ stopCalls > 0
    /\ stopCalls' = stopCalls - 1
    /\ \/ CanStop /\ DoStop
       \/ ~CanStop /\ UNCHANGED <<linkVars, status, transactionID, fullStopSent,
                                  pendingVars, meterVars, wireVars>>
    /\ UNCHANGED startCalls

-----------------------------------------------------------------------------
(* Calls of the CSMS, handled by readLoop between two answers *)

ReaderFree == connected /\ handling = Idle

RemoteStart ==
    /\ "RemoteStart" \in Operations
    /\ ReaderFree
    /\ startCalls + stopCalls < MaxCalls
    /\ startCalls' = startCalls + 1
    /\ UNCHANGED <<linkVars, status, transactionID, fullStopSent, pendingVars, meterVars,
                   wireVars, stopCalls>>

RemoteStop ==
    /\ "RemoteStop" \in Operations
    /\ ReaderFree
    /\ startCalls + stopCalls < MaxCalls
    /\ stopCalls' = stopCalls + 1
    /\ UNCHANGED <<linkVars, status, transactionID, fullStopSent, pendingVars, meterVars,
                   wireVars, startCalls>>

ChangeAvailability ==
    /\ "ChangeAvailability" \in Operations
    /\ ReaderFree
    /\ \E s \in {"Available", "Unavailable"} : setStatus(s)
    /\ UNCHANGED <<linkVars, transactionID, fullStopSent, pendingVars, limited, ramping,
                   full, wireVars, callVars>>

-----------------------------------------------------------------------------
(* Limits, from the operator or from a charging profile of the CSMS *)

\* Below 6 A the charger suspends whatever its status; a higher limit resumes
\* a suspended one.
ApplyLimit(low) ==
    /\ limited' = low
    /\ IF low THEN setStatus("SuspendedEVSE")
       ELSE IF status = "SuspendedEVSE" THEN setStatus("Charging")
       ELSE UNCHANGED <<status, flow>>
    /\ UNCHANGED <<linkVars, transactionID, fullStopSent, pendingVars, ramping, full,
                   wireVars, callVars>>

MayLimit == "SetLimit" \in Operations /\ (InSession \/ "SetLimitIdle" \in Operations)

SetTargetCurrent(low) == MayLimit /\ ApplyLimit(low)

SetChargingProfile(low) == MayLimit /\ ReaderFree /\ ApplyLimit(low)

ClearChargingProfile == MayLimit /\ ReaderFree /\ ApplyLimit(FALSE)

-----------------------------------------------------------------------------
(* Faults, battery and test profile *)

SetFault ==
    /\ "SetFault" \in Operations
    /\ setStatus("Faulted")
    /\ UNCHANGED <<linkVars, transactionID, fullStopSent, pendingVars, limited, ramping,
                   full, wireVars, callVars>>

ClearFault ==
    /\ "ClearFault" \in Operations
    /\ setStatus("Available")
    /\ UNCHANGED <<linkVars, transactionID, fullStopSent, pendingVars, limited, ramping,
                   full, wireVars, callVars>>

SetSOC ==
    /\ "SetSOC" \in Operations
    /\ full' \in BOOLEAN
    /\ UNCHANGED <<linkVars, status, transactionID, fullStopSent, pendingVars, limited,
                   ramping, flow, wireVars, callVars>>

SetProfile ==
    /\ "SetProfile" \in Operations
    /\ ramping' \in BOOLEAN
    /\ UNCHANGED <<linkVars, status, transactionID, fullStopSent, pendingVars, limited,
                   flow, full, wireVars, callVars>>

\* Seeded fault: the flag of the automatic stop is set and Stop is not called.
TickForgetsStop ==
    /\ connected /\ ~resuming /\ status = "Charging"
    /\ flow' \in {flow, ~limited}
    /\ full' \in {full, full \/ flow'}
    /\ limited' \in IF ramping THEN BOOLEAN ELSE {limited}
    /\ fullStopSent' = (fullStopSent \/ full')
    /\ UNCHANGED <<linkVars, status, transactionID, pendingVars, ramping, wireVars, callVars>>

\* A tick of run's update timer while charging: the current approaches the
\* target, the battery fills, ramp_up overrides the target, and a battery at
\* its target SOC starts the automatic stop once.  The one tick that select may
\* still pick after stopCh is closed does what a tick just before would.
Tick ==
    /\ connected /\ ~resuming /\ status = "Charging"
    /\ flow' \in {flow, ~limited}
    /\ full' \in {full, full \/ flow'}
    /\ limited' \in IF ramping THEN BOOLEAN ELSE {limited}
    /\ fullStopSent' = (fullStopSent \/ full')
    /\ stopCalls' = IF full' /\ ~fullStopSent THEN stopCalls + 1 ELSE stopCalls
    /\ UNCHANGED <<linkVars, status, transactionID, pendingVars, ramping, wireVars, startCalls>>

-----------------------------------------------------------------------------
(* The wire and the CSMS *)

\* An id the CSMS has not given out as far as anybody remembers.
Fresh(tx) ==
    /\ tx \notin sessions
    /\ tx # transactionID
    /\ tx # handling.tx
    /\ \A i \in DOMAIN sendCh : sendCh[i].tx # tx
    /\ \A i \in DOMAIN replies : replies[i].tx # tx

Answer(frame, verdict, tx) ==
    /\ frame.call # "StopTransaction"
    /\ verdict \in Verdicts
    /\ replies' = Append(replies, [call |-> frame.call, verdict |-> verdict, tx |-> tx])

\* writeLoop writes the next frame and the CSMS acts on it and answers; the
\* answer to StopTransaction is matched by no handler and is left out.
Deliver ==
    /\ connected
    /\ PromptResume => ~resuming
    /\ sendCh # <<>>
    /\ sendCh' = Tail(sendCh)
    /\ LET frame == Head(sendCh) IN
          \/ /\ frame.call = "StopTransaction"
             /\ sessions' = sessions \ {frame.tx}
             /\ UNCHANGED replies
          \/ /\ frame.call = "StartTransaction"
             /\ \E tx \in Tx : /\ Fresh(tx)
                               /\ Answer(frame, "Accepted", tx)
                               /\ sessions' = sessions \union {tx}
          \/ /\ \E v \in AllVerdicts :
                   /\ frame.call = "StartTransaction" => v # "Accepted"
                   /\ Answer(frame, v, 0)
             /\ UNCHANGED sessions
    /\ UNCHANGED <<linkVars, status, transactionID, fullStopSent, pendingVars, meterVars,
                   handling, callVars>>

\* writeLoop takes a frame and finds no connection, or a dead one.
WriteLost ==
    /\ ~connected
    /\ sendCh # <<>>
    /\ sendCh' = Tail(sendCh)
    /\ UNCHANGED <<linkVars, status, transactionID, fullStopSent, pendingVars, meterVars,
                   replies, handling, sessions, callVars>>

\* The link ends: answers on the way are lost and the CSMS closes its sessions.
LinkLost ==
    /\ "LinkLost" \in Operations
    /\ connected
    /\ connected' = FALSE
    /\ replies' = <<>>
    /\ sessions' = {}
    /\ UNCHANGED <<resuming, status, transactionID, fullStopSent, pendingVars, meterVars,
                   sendCh, handling, callVars>>

\* A dial succeeds: the reader of the last connection and the first steps of
\* its run have ended by then (ChargerLink, OneConnection, and the backoff).
LinkUp ==
    /\ ~connected
    /\ ~resuming
    /\ handling = Idle
    /\ connected' = TRUE
    /\ resuming' = TRUE
    /\ UNCHANGED <<status, transactionID, fullStopSent, pendingVars, meterVars, wireVars,
                   callVars>>

\* run's resume block: a charger that was charging authorizes again.
Resume ==
    /\ resuming
    /\ resuming' = FALSE
    /\ IF status = "Charging" /\ ~startPending
       THEN startPending' = TRUE /\ sendAuthorize
       ELSE UNCHANGED <<startPending, pendingAuthorize, sendCh>>
    /\ UNCHANGED <<connected, status, transactionID, fullStopSent, pendingStart, meterVars,
                   replies, handling, sessions, callVars>>

-----------------------------------------------------------------------------
(* handleCallResult: the pending id is cleared in one critical section and   *)
(* the verdict acted on in a later one.                                      *)

Awaited(reply) ==
    \/ reply.call = "Authorize" /\ pendingAuthorize
    \/ reply.call = "StartTransaction" /\ pendingStart

MatchResult ==
    /\ ReaderFree
    /\ replies # <<>>
    /\ replies' = Tail(replies)
    /\ LET reply == Head(replies) IN
          IF reply.verdict # "Ignored" /\ Awaited(reply)
          THEN /\ handling' = reply
               /\ pendingAuthorize' = (pendingAuthorize /\ reply.call # "Authorize")
               /\ pendingStart' = (pendingStart /\ reply.call # "StartTransaction")
          ELSE UNCHANGED <<handling, pendingAuthorize, pendingStart>>
    /\ UNCHANGED <<linkVars, status, transactionID, fullStopSent, startPending, meterVars,
                   sendCh, sessions, callVars>>

AuthorizeAccepted ==
    /\ handling.call = "Authorize" /\ handling.verdict = "Accepted"
    /\ handling' = Idle
    /\ sendStartTransaction
    /\ UNCHANGED <<linkVars, status, transactionID, fullStopSent, startPending,
                   pendingAuthorize, meterVars, replies, sessions, callVars>>

\* Seeded fault: the id the CSMS gave is not stored.
StartAcceptedForgetsId ==
    /\ handling.call = "StartTransaction" /\ handling.verdict = "Accepted"
    /\ handling' = Idle
    /\ startPending' = FALSE
    /\ setStatus("Charging")
    /\ UNCHANGED <<linkVars, transactionID, fullStopSent, pendingAuthorize, pendingStart,
                   limited, ramping, full, sendCh, replies, sessions, callVars>>

\* Seeded fault: the pending flag is not cleared.
StartAcceptedKeepsPending ==
    /\ handling.call = "StartTransaction" /\ handling.verdict = "Accepted"
    /\ handling' = Idle
    /\ transactionID' = handling.tx
    /\ setStatus("Charging")
    /\ UNCHANGED <<linkVars, fullStopSent, pendingVars, limited, ramping, full, sendCh,
                   replies, sessions, callVars>>

StartAccepted ==
    /\ handling.call = "StartTransaction" /\ handling.verdict = "Accepted"
    /\ handling' = Idle
    /\ transactionID' = handling.tx
    /\ startPending' = FALSE
    /\ setStatus("Charging")
    /\ UNCHANGED <<linkVars, fullStopSent, pendingAuthorize, pendingStart, limited, ramping,
                   full, sendCh, replies, sessions, callVars>>

Rejected ==
    /\ handling.verdict = "Rejected"
    /\ handling' = Idle
    /\ startPending' = FALSE
    /\ setStatus("Available")
    /\ UNCHANGED <<linkVars, transactionID, fullStopSent, pendingAuthorize, pendingStart,
                   limited, ramping, full, sendCh, replies, sessions, callVars>>

-----------------------------------------------------------------------------

Operate ==
    \/ Start \/ Stop \/ RemoteStart \/ RemoteStop \/ ChangeAvailability
    \/ ClearChargingProfile
    \/ \E low \in BOOLEAN : SetTargetCurrent(low) \/ SetChargingProfile(low)
    \/ SetFault \/ ClearFault \/ SetSOC \/ SetProfile

Link == LinkLost \/ LinkUp \/ Resume

HandleResult == MatchResult \/ AuthorizeAccepted \/ StartAccepted \/ Rejected

Next ==
    \/ Operate
    \/ Link
    \/ HandleResult
    \/ DelayedStart \/ DelayedStop
    \/ Tick
    \/ Deliver \/ WriteLost

Spec == Init /\ [][Next]_sessionVars

\* The goroutines of a live connection run on and the CSMS answers; nothing
\* outside is forced, and the link need not come back.
Fairness ==
    /\ WF_sessionVars(Deliver)
    /\ WF_sessionVars(HandleResult)
    /\ WF_sessionVars(Resume)
    /\ WF_sessionVars(Tick)
    /\ WF_sessionVars(DelayedStart)
    /\ WF_sessionVars(DelayedStop)

FairSpec == Spec /\ Fairness

-----------------------------------------------------------------------------
(* Every operation, every verdict, frames dropped *)

StartCalls == {"Authorize", "StartTransaction"}

\* The pending id that the answer to this call is matched with.
PendingFor(call) == IF call = "Authorize" THEN pendingAuthorize ELSE pendingStart

\* startPending holds exactly while one step of the exchange is outstanding,
\* and at most one of its frames or answers exists anywhere: no answer is ever
\* matched with the wrong request and no transaction is started twice.
SingleFlight ==
    /\ startPending <=> pendingAuthorize \/ pendingStart \/ handling # Idle
    /\ pendingAuthorize => ~pendingStart /\ handling = Idle
    /\ pendingStart => handling = Idle
    /\ \A i \in DOMAIN sendCh :
          sendCh[i].call \in StartCalls =>
              /\ PendingFor(sendCh[i].call)
              /\ replies = <<>>
              /\ \A j \in DOMAIN sendCh : sendCh[j].call \in StartCalls => j = i
    /\ \A i \in DOMAIN replies : PendingFor(replies[i].call)
    /\ Len(replies) <= 1

\* A suspended charger shows no current (setStatus, comment W-E).
SuspendedNoFlow == status = "SuspendedEVSE" => ~flow

(* Limits only during a session *)

\* A charger that charges, or is suspended, has a transaction to stop.
ChargingHasTransaction == InSession => transactionID # 0

(* No faults, an accepting CSMS, no dropped frame; the link may still fail *)

\* An idle charger has no transaction left behind.
IdleHasNoTransaction == status \in {"Available", "Preparing"} => transactionID = 0

\* The status tells whether there is a transaction: none is without one while it
\* charges, and none is left behind when it is idle.
StatusTellsTransaction == ChargingHasTransaction /\ IdleHasNoTransaction

\* Current flows only while charging (Stop, ZeroFlow).
FlowOnlyCharging == flow => status = "Charging"

\* A transaction open at the CSMS is the charger's, or will be once its answer
\* is handled, or its StopTransaction is on the way: none is left open.
NoOrphanSession ==
    \A tx \in sessions :
        \/ tx = transactionID
        \/ tx = handling.tx
        \/ \E i \in DOMAIN replies : replies[i].tx = tx
        \/ \E i \in DOMAIN sendCh : sendCh[i] = [call |-> "StopTransaction", tx |-> tx]

Outstanding ==
    \/ handling # Idle
    \/ replies # <<>>
    \/ \E i \in DOMAIN sendCh : sendCh[i].call \in StartCalls

\* A start whose frame was not lost is decided while the link lasts.
StartResolves == (startPending /\ Outstanding) ~> (~startPending \/ ~connected)

\* A battery that reaches its target SOC ends the charge while the link lasts.
FullStops ==
    (status = "Charging" /\ full /\ ~fullStopSent)
        ~> (status # "Charging" \/ ~full \/ ~connected)

(* The contract *)

\* What the CSMS has opened and the charger has not adopted, and what the charger
\* has stopped and the CSMS does not know.
Offered == ({handling.tx} \union {replies[i].tx : i \in DOMAIN replies}) \ {0}

Ending ==
    {t \in Tx : \E i \in DOMAIN sendCh : sendCh[i] = [call |-> "StopTransaction", tx |-> t]}

Abstract == INSTANCE SessionContract WITH
    tx <- transactionID,
    starting <- startPending,
    offered <- Offered,
    ending <- Ending,
    open <- sessions

\* The exchange of frames implements sessions as the contract has them, and an
\* offer that is not lost is adopted.
ImplementsContract == Abstract!Contract

\* The CSMS has no more than one transaction of the charger open that the charger
\* has not stopped: a start is refused while another is under way, and a resume asks
\* for a new transaction only in place of one that the CSMS has closed.  The last
\* needs PromptResume: a charge that is resumed though it was never interrupted gets
\* a second transaction beside its first.
OneSession == Abstract!OneSession

(* What comments say and the code does not keep *)

Quiet == connected /\ ~resuming /\ sendCh = <<>> /\ replies = <<>> /\ handling = Idle

\* A fault that is cleared brings a charger with a transaction back into its
\* session: the comment in SetFault.
FaultRecovers ==
    [][status = "Faulted" /\ transactionID # 0 /\ status' # "Faulted" => InSession']_sessionVars

\* After a reconnect no charger charges without a session at the CSMS: the
\* comment before run's resume block.
NoPhantomCharging == Quiet /\ status = "Charging" => transactionID \in sessions
=============================================================================

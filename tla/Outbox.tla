------------------------------- MODULE Outbox -------------------------------
(***************************************************************************)
(* What a Charger sends (internal/charger/charger.go): every frame goes    *)
(* through sendCh, which drops what does not fit, to the writeLoop of a    *)
(* connection; run sends BootNotification and a status report on a new     *)
(* connection, the handlers report each change of status, and each call of *)
(* the CSMS gets an answer.                                                *)
(*                                                                         *)
(* A connection is a number.  The writeLoop of a lost connection may still *)
(* be there when the next one is up; its run and its readLoop, which end   *)
(* when it is closed, are gone by then: a dial takes longer.  A frame that *)
(* is written on a connection that is up reaches the CSMS at once.         *)
(***************************************************************************)
EXTENDS OcppFrame

CONSTANTS
    MaxConnections, \* bound on connections
    MaxChanges,     \* bound on changes of the status that no call brings about
    SendCap,        \* capacity of sendCh (10 in the code)
    Ids,            \* the ids of the calls the CSMS makes, each used once
    Messages,       \* what it sends, \subseteq AllMessages
    Statuses        \* what SetStatus sets: any status but Finishing, which only Stop sets

AllStatuses == {"Available", "Preparing", "Charging", "SuspendedEVSE", "Finishing",
                "Faulted", "Unavailable"}

AllMessages == {"LowLimit", "HighLimit", "NoPeriods", "Misshaped", "Clear", "Inoperative",
                "Operative", "Remote", "Unknown", "Result", "Failure", "Short", "NoId",
                "NoType"}

\* Messages that are no frames.
Garbled == {"Short", "NoId", "NoType"}

\* Messages that are no calls: these, and the answers to the charger's own calls.
NoCalls == Garbled \union {"Result", "Failure"}

\* What frames are made of: ids, actions and codes, and the objects they carry.
FrameTexts ==
    {"boot", "status", "other", "BootNotification", "StatusNotification", "Other",
     "SetChargingProfile", "ClearChargingProfile", "ChangeAvailability",
     "RemoteStopTransaction", "UnlockConnector", "Reset", "FormationViolation"}

Verdicts == {"Accepted", "Rejected", "NotSupported"}

FrameObjects == AllStatuses \union AllMessages \union Verdicts \union {"boot", "other", ""}

ASSUME OutboxAssumption ==
    /\ MaxConnections \in Nat /\ MaxChanges \in Nat /\ SendCap \in Nat
    /\ Ids \union FrameTexts \subseteq Strings
    /\ FrameObjects \subseteq Objects
    /\ Nil \notin Seq(Values)
    /\ Messages \subseteq AllMessages /\ Statuses \subseteq AllStatuses \ {"Finishing"}

Connections == 1..MaxConnections

VARIABLES
    link,       \* "down" (conn is nil) or "up"
    opened,     \* connections so far, the last of them is conn
    run,        \* what run sends next
    seen,       \* the status it has read for its report
    handling,   \* the message readLoop has read, or Nil
    writer,     \* the writeLoop of a connection: "off", "on", or told to stop
    held,       \* the frame it has received from sendCh, or Nil
    inbox,      \* messages of the CSMS that are not read
    status,
    changes,    \* how often SetStatus and Stop have been called
    outgoing,   \* frames the method that holds c.mu has still to send
    sendCh,     \* frames waiting for a writeLoop
    registered, \* it has got BootNotification on this connection
    shown,      \* the status it shows
    asked,      \* ids of the calls it has made
    answers,    \* how many answers each id has got
    lost,       \* ids whose answer the CSMS may never get
    noRoom,     \* a BootNotification has been dropped
    excuse      \* why the CSMS may show another status, if it may

goroutineVars == <<run, seen, writer, held, handling>>
csmsVars == <<registered, shown, asked, answers>>
ghostVars == <<lost, noRoom, excuse>>
outboxVars == <<link, opened, goroutineVars, inbox, status, changes, outgoing, sendCh,
                csmsVars, ghostVars>>

BootNotification == CallFrame("boot", "BootNotification", Object("boot"))
StatusNotification(s) == CallFrame("status", "StatusNotification", Object(s))
Other == CallFrame("other", "Other", Object("other"))

IsStatus(f) == f.Action = "StatusNotification"
IsBoot(f) == f.Action = "BootNotification"
IsAnswer(f) == f.MessageTypeID # Call

\* The arrays the CSMS sends.
Array(message, id) ==
    LET call(action, payload) == Marshal(CallFrame(id, action, payload))
    IN  CASE message \in {"LowLimit", "HighLimit", "NoPeriods"} ->
                call("SetChargingProfile", Object(message))
          [] message = "Misshaped" -> call("SetChargingProfile", Number(1))
          [] message = "Clear" -> call("ClearChargingProfile", Object(message))
          [] message \in {"Inoperative", "Operative"} ->
                call("ChangeAvailability", Object(message))
          [] message = "Remote" -> call("RemoteStopTransaction", Object(message))
          [] message = "Unknown" -> call("UnlockConnector", Object(message))
          [] message = "Result" -> Marshal(CallResultFrame("other", Object("other")))
          [] message = "Failure" ->
                Marshal(CallErrorFrame("other", "FormationViolation", "", Nil))
          [] message = "Short" -> <<Number(Call), String(id), String("Reset")>>
          [] message = "NoId" -> <<Number(Call), Number(1), String("Reset"), Object("")>>
          [] message = "NoType" -> <<Number(5), String(id)>>

TypeOK ==
    /\ link \in {"down", "up"} /\ opened \in 0..MaxConnections
    /\ run \in {"boot", "read", "report", "resume", "loop"}
    /\ seen \in AllStatuses
    /\ writer \in [Connections -> {"off", "on", "stopping"}]
    /\ \A c \in Connections : held[c] # Nil => WellFormed(held[c])
    /\ handling # Nil => Len(handling) >= 2
    /\ status \in AllStatuses /\ changes \in 0..MaxChanges
    /\ Len(sendCh) <= SendCap
    /\ \A i \in 1..Len(sendCh) : WellFormed(sendCh[i])
    /\ registered \in BOOLEAN /\ noRoom \in BOOLEAN
    /\ shown \in AllStatuses \union {"unknown"}
    /\ asked \subseteq Ids /\ answers \in [Ids -> Nat]

Init ==
    /\ link = "down" /\ opened = 0
    /\ run = "loop" /\ seen = "Available" /\ handling = Nil
    /\ writer = [c \in Connections |-> "off"]
    /\ held = [c \in Connections |-> Nil]
    /\ inbox = <<>>
    /\ status = "Available" /\ changes = 0 /\ outgoing = <<>> /\ sendCh = <<>>
    /\ registered = FALSE /\ shown = "unknown" /\ asked = {}
    /\ answers = [i \in Ids |-> 0]
    /\ lost = {} /\ noRoom = FALSE /\ excuse = "none"

-----------------------------------------------------------------------------
(* Sending *)

\* Seeded fault: the frame is queued without a look at the room left.
sendRawGrows(f, why) ==
    /\ sendCh' = Append(sendCh, Marshal(f))
    /\ excuse' = IF ~IsStatus(f) THEN excuse ELSE IF f.Payload.object = status THEN "none" ELSE why
    /\ UNCHANGED <<lost, noRoom>>

\* A report of the present status mends all that was wrong before; another one
\* has its reason, why.
sendRaw(f, why) ==
    IF Len(sendCh) < SendCap
    THEN /\ sendCh' = Append(sendCh, Marshal(f))
         /\ excuse' = IF ~IsStatus(f) THEN excuse
                      ELSE IF f.Payload.object = status THEN "none" ELSE why
         /\ UNCHANGED <<lost, noRoom>>
    ELSE /\ excuse' = IF IsStatus(f) THEN "dropped" ELSE excuse
         /\ noRoom' = (noRoom \/ IsBoot(f))
         /\ lost' = IF IsAnswer(f) THEN lost \union {f.UniqueID} ELSE lost
         /\ UNCHANGED sendCh

\* c.mu is free: no method is between two of its frames.
Unlocked == outgoing = <<>>

\* The status when these are left to send: a method sets a status before it reports
\* it, so the next report tells what is set.
Setting(frames) ==
    IF frames # <<>> /\ IsStatus(Head(frames)) THEN Head(frames).Payload.object ELSE status

SendNext ==
    /\ ~Unlocked
    /\ sendRaw(Head(outgoing), excuse)
    /\ outgoing' = Tail(outgoing)
    /\ status' = Setting(Tail(outgoing))
    /\ UNCHANGED <<link, opened, goroutineVars, inbox, changes, csmsVars>>

\* A method sets the status and sends these frames before it lets go of c.mu.
Set(s, frames) ==
    /\ Unlocked
    /\ status' = s
    /\ outgoing' = frames

\* SetFault, ClearFault, SetTargetCurrent, and the answers of the CSMS to
\* Authorize and StartTransaction: a change that is reported, connected or not.
\* Start sends Authorize as well.
SetStatus(s) ==
    /\ changes < MaxChanges /\ changes' = changes + 1
    /\ Set(s, IF s = "Preparing" THEN <<StatusNotification(s), Other>>
                                 ELSE <<StatusNotification(s)>>)
    /\ UNCHANGED <<link, opened, goroutineVars, inbox, sendCh, csmsVars, ghostVars>>

\* StopTransaction, then Finishing and Available, each set and reported in turn.
StopFrames ==
    <<Other, StatusNotification("Finishing"), StatusNotification("Available")>>

Stop ==
    /\ changes < MaxChanges /\ changes' = changes + 1
    /\ status \in {"Charging", "SuspendedEVSE"} /\ link = "up"
    /\ Set(status, StopFrames)
    /\ UNCHANGED <<link, opened, goroutineVars, inbox, sendCh, csmsVars, ghostVars>>

-----------------------------------------------------------------------------
(* Connections.  What the peer has not read when one is lost is not told    *)
(* from what it has: the next one shows it nothing to begin with, and the   *)
(* answers it still waits for may never come.                               *)

\* Seeded fault: a reconnect starts no writeLoop.
ConnectedWithoutWriter ==
    /\ run = "loop" /\ handling = Nil
    /\ Unlocked /\ link = "down" /\ opened < MaxConnections
    /\ link' = "up"
    /\ opened' = opened + 1
    /\ run' = "boot"
    /\ writer' = IF opened = 0 THEN [writer EXCEPT ![1] = "on"] ELSE writer
    /\ registered' = FALSE /\ noRoom' = FALSE
    /\ shown' = "unknown"
    /\ UNCHANGED <<seen, held, handling, inbox, status, changes, outgoing, sendCh,
                   asked, answers, lost, excuse>>

\* run has dialled, well after the last connection was closed.
Connected ==
    /\ run = "loop" /\ handling = Nil
    /\ Unlocked /\ link = "down" /\ opened < MaxConnections
    /\ link' = "up"
    /\ opened' = opened + 1
    /\ run' = "boot"
    /\ writer' = [writer EXCEPT ![opened + 1] = "on"]
    /\ registered' = FALSE /\ noRoom' = FALSE
    /\ shown' = "unknown"
    /\ UNCHANGED <<seen, held, handling, inbox, status, changes, outgoing, sendCh,
                   asked, answers, lost, excuse>>

\* Disconnect, or the read error of readLoop.
Close ==
    /\ Unlocked /\ link = "up"
    /\ link' = "down"
    /\ writer' = [writer EXCEPT ![opened] = "stopping"]
    /\ inbox' = <<>>
    /\ lost' = lost \union {i \in asked : answers[i] = 0}
    /\ UNCHANGED <<opened, run, seen, held, handling, status, changes, outgoing, sendCh,
                   csmsVars, noRoom, excuse>>

-----------------------------------------------------------------------------
(* run: what it sends takes no lock, and so does its look at the status *)

SendBoot ==
    /\ run = "boot"
    /\ run' = "read"
    /\ sendRaw(BootNotification, excuse)
    /\ UNCHANGED <<link, opened, seen, writer, held, handling, inbox, status, changes, outgoing, csmsVars>>

ReadStatus ==
    /\ run = "read"
    /\ run' = "report"
    /\ seen' = status
    /\ UNCHANGED <<link, opened, writer, held, handling, inbox, status, changes, outgoing, sendCh,
                   csmsVars, ghostVars>>

SendReport ==
    /\ run = "report"
    /\ run' = "resume"
    /\ seen' = "Available"
    /\ sendRaw(StatusNotification(seen), "outdated")
    /\ UNCHANGED <<link, opened, writer, held, handling, inbox, status, changes, outgoing, csmsVars>>

\* A session that was charging is resumed: Authorize.
ResumeSession ==
    /\ run = "resume"
    /\ run' = "loop"
    /\ Set(status, IF status = "Charging" THEN <<Other>> ELSE <<>>)
    /\ UNCHANGED <<link, opened, seen, writer, held, handling, inbox, changes, sendCh,
                   csmsVars, ghostVars>>

-----------------------------------------------------------------------------
(* writeLoop: one that is told to stop may receive once more, its select    *)
(* picks any branch that is ready.                                          *)

Receive(c) ==
    /\ writer[c] # "off" /\ held[c] = Nil /\ sendCh # <<>>
    /\ held' = [held EXCEPT ![c] = Head(sendCh)]
    /\ sendCh' = Tail(sendCh)
    /\ UNCHANGED <<link, opened, run, seen, writer, handling, inbox, status, changes, outgoing,
                   csmsVars, ghostVars>>

Deliver(f) ==
    /\ registered' = (registered \/ IsBoot(f))
    /\ shown' = IF IsStatus(f) THEN f.Payload.object ELSE shown
    /\ answers' = IF IsAnswer(f) THEN [answers EXCEPT ![f.UniqueID] = @ + 1] ELSE answers
    /\ UNCHANGED asked

\* The frame is written on conn, whichever connection that is, or to nobody.
WriteMessage(c) ==
    /\ held[c] # Nil
    /\ held' = [held EXCEPT ![c] = Nil]
    /\ IF link = "up"
       THEN /\ Deliver(Unmarshal(held[c]))
            /\ excuse' = IF writer[c] = "stopping" /\ IsStatus(Unmarshal(held[c]))
                          THEN "late" ELSE excuse
       ELSE UNCHANGED <<csmsVars, excuse>>
    /\ UNCHANGED <<link, opened, run, seen, writer, handling, inbox, status, changes, outgoing,
                   sendCh, lost, noRoom>>

\* Seeded fault: the writeLoop empties sendCh when it ends.
writeLoopDrains(c) ==
    /\ writer[c] = "stopping" /\ held[c] = Nil
    /\ writer' = [writer EXCEPT ![c] = "off"]
    /\ sendCh' = <<>>
    /\ UNCHANGED <<link, opened, run, seen, held, handling, inbox, status, changes, outgoing,
                   csmsVars, ghostVars>>

writeLoopEnds(c) ==
    /\ writer[c] = "stopping" /\ held[c] = Nil
    /\ writer' = [writer EXCEPT ![c] = "off"]
    /\ UNCHANGED <<link, opened, run, seen, held, handling, inbox, status, changes, outgoing, sendCh,
                   csmsVars, ghostVars>>

-----------------------------------------------------------------------------
(* The CSMS and readLoop *)

Ask(message, i) ==
    /\ link = "up" /\ i \notin asked /\ answers[i] = 0
    /\ inbox = <<>>
    /\ inbox' = <<Array(message, i)>>
    /\ asked' = IF message \in NoCalls THEN asked ELSE asked \union {i}
    /\ UNCHANGED <<link, opened, goroutineVars, status, changes, outgoing, sendCh, registered, shown,
                   answers, ghostVars>>

ReadMessage ==
    /\ link = "up"
    /\ handling = Nil /\ inbox # <<>>
    /\ handling' = Head(inbox)
    /\ inbox' = <<>>
    /\ UNCHANGED <<link, opened, run, seen, writer, held, status, changes, outgoing, sendCh, csmsVars,
                   ghostVars>>

Answer(f, verdict) == CallResultFrame(f.UniqueID, Object(verdict))

\* Seeded fault: the handler answers the call and does not report the change.
AcceptUnreported(f, s) == Set(s, <<Answer(f, "Accepted")>>)

\* A change of status is reported before the call is answered.
Accept(f, s) == Set(s, <<StatusNotification(s), Answer(f, "Accepted")>>)

Resume(f) ==
    IF status = "SuspendedEVSE" THEN Accept(f, "Charging")
                                ELSE Set(status, <<Answer(f, "Accepted")>>)

\* Seeded fault: a payload that cannot be parsed is dropped without an answer.
SetChargingProfileSilent(f) ==
    CASE f.Payload.kind \notin {"object", "null"} -> Set(status, <<>>)
      [] f.Payload = Object("LowLimit") -> Accept(f, "SuspendedEVSE")
      [] f.Payload = Object("HighLimit") -> Resume(f)
      [] OTHER -> Set(status, <<Answer(f, "Rejected")>>)

\* Seeded fault: after the error the handler goes on to the answer.
SetChargingProfileGoesOn(f) ==
    CASE f.Payload.kind \notin {"object", "null"} ->
            Set(status, <<CallErrorFrame(f.UniqueID, "FormationViolation", "", Nil),
                          Answer(f, "Rejected")>>)
      [] f.Payload = Object("LowLimit") -> Accept(f, "SuspendedEVSE")
      [] f.Payload = Object("HighLimit") -> Resume(f)
      [] OTHER -> Set(status, <<Answer(f, "Rejected")>>)

\* A payload that is null has no periods.
SetChargingProfile(f) ==
    CASE f.Payload.kind \notin {"object", "null"} ->
            Set(status, <<CallErrorFrame(f.UniqueID, "FormationViolation", "", Nil)>>)
      [] f.Payload = Object("LowLimit") -> Accept(f, "SuspendedEVSE")
      [] f.Payload = Object("HighLimit") -> Resume(f)
      [] OTHER -> Set(status, <<Answer(f, "Rejected")>>)

\* RemoteStart, RemoteStop and Reset are answered; what they start comes later,
\* as Start, Stop or Disconnect.
handleServerCall(f) ==
    CASE f.Action = "SetChargingProfile" -> SetChargingProfile(f)
      [] f.Action = "ClearChargingProfile" -> Resume(f)
      [] f.Action = "ChangeAvailability" ->
            Accept(f, IF f.Payload = Object("Inoperative") THEN "Unavailable" ELSE "Available")
      [] f.Action \in {"RemoteStartTransaction", "RemoteStopTransaction", "Reset"} ->
            Set(status, <<Answer(f, "Accepted")>>)
      [] OTHER -> Set(status, <<Answer(f, "NotSupported")>>)

\* A CALLERROR is logged; the changes a CALLRESULT brings about are SetStatus.
handleMessage ==
    /\ handling # Nil
    /\ handling' = Nil
    /\ IF WellFormed(handling) /\ Unmarshal(handling).MessageTypeID = Call
       THEN handleServerCall(Unmarshal(handling))
       ELSE UNCHANGED <<status, outgoing>>
    /\ UNCHANGED <<link, opened, run, seen, writer, held, inbox, changes, sendCh,
                   csmsVars, ghostVars>>

-----------------------------------------------------------------------------

Next ==
    \/ SendNext \/ Stop \/ \E s \in Statuses : SetStatus(s)
    \/ Connected \/ Close
    \/ SendBoot \/ ReadStatus \/ SendReport \/ ResumeSession
    \/ \E c \in Connections : Receive(c) \/ WriteMessage(c) \/ writeLoopEnds(c)
    \/ ReadMessage \/ handleMessage
    \/ \E m \in Messages, i \in Ids : Ask(m, i)

Spec == Init /\ [][Next]_outboxVars

\* Go runs every goroutine; run and readLoop get c.mu though others take it as well.
FairSpec ==
    /\ Spec
    /\ WF_outboxVars(SendNext)
    /\ WF_outboxVars(SendBoot \/ ReadStatus \/ SendReport) /\ SF_outboxVars(ResumeSession)
    /\ WF_outboxVars(ReadMessage) /\ SF_outboxVars(handleMessage)
    /\ \A c \in Connections :
          WF_outboxVars(WriteMessage(c) \/ (writer[c] = "on" /\ Receive(c)))

-----------------------------------------------------------------------------

\* Connected, and nothing is on its way.
Quiet ==
    /\ link = "up" /\ run = "loop" /\ Unlocked /\ sendCh = <<>>
    /\ \A c \in Connections : held[c] = Nil

\* When all is sent, the CSMS shows the charger's status, but for three reasons:
\* run read the status before a change and reports it after (line 483), a report
\* was dropped (line 684), or the writeLoop of an earlier connection put one on
\* this connection (line 659).  A report that gets through mends all of them.
StatusShown == Quiet => shown = status \/ excuse # "none"

\* BootNotification has reached the CSMS on every connection that lasts until
\* all is sent, unless frames of the last connection left no room for it.
Registered == Quiet => registered \/ noRoom

\* No call gets two answers, and what is no call gets none; when all is read and
\* sent, each call has got its answer, or may have lost it with the connection or
\* to a full sendCh.
OneAnswer ==
    \A i \in Ids :
        /\ answers[i] <= IF i \in asked THEN 1 ELSE 0
        /\ Quiet /\ inbox = <<>> /\ handling = Nil /\ i \in asked =>
              answers[i] = 1 \/ i \in lost

\* Every call of the CSMS is answered, unless the connection is lost or sendCh
\* is full when its answer is ready.
CallsAnswered == \A i \in Ids : i \in asked ~> answers[i] > 0 \/ i \in lost

\* A status that stays, on a connection that stays, is shown in the end, for the
\* same three reasons.
StatusSettles ==
    \A s \in AllStatuses :
        <>[](link = "up" /\ status = s) => []<>(shown = s \/ excuse # "none")
=============================================================================

------------------------ MODULE ChargerSessionProofs ------------------------
(***************************************************************************)
(* Proofs about ChargerSession for any transaction ids, operations,        *)
(* verdicts and queue capacity.                                            *)
(***************************************************************************)
EXTENDS ChargerSession, TLAPS

-----------------------------------------------------------------------------
(* Queues *)

LEMMA QueueTail ==
  ASSUME NEW S, NEW q \in Seq(S), q # <<>>
  PROVE  /\ Head(q) \in S
         /\ Head(q) = q[1]
         /\ Tail(q) \in Seq(S)
         /\ Len(Tail(q)) = Len(q) - 1
         /\ \A i \in DOMAIN Tail(q) : i + 1 \in DOMAIN q /\ Tail(q)[i] = q[i + 1]
         /\ 1 \in DOMAIN q
  OBVIOUS

LEMMA QueueAppend ==
  ASSUME NEW S, NEW q \in Seq(S), NEW e \in S
  PROVE  /\ Append(q, e) \in Seq(S)
         /\ Len(Append(q, e)) = Len(q) + 1
         /\ \A i \in DOMAIN Append(q, e) :
               Append(q, e)[i] = IF i = Len(q) + 1 THEN e ELSE q[i]
         /\ \A i \in DOMAIN Append(q, e) : i \in DOMAIN q \/ i = Len(q) + 1
  OBVIOUS

-----------------------------------------------------------------------------
(* Types *)

LEMMA TypeInit == Init => TypeOK
<1> SUFFICES ASSUME Init PROVE TypeOK
  OBVIOUS
<1> USE DEF Init
<1>1. FlagTypes
  BY DEF FlagTypes
<1>2. ChargerTypes
  BY DEF ChargerTypes, Statuses
<1>3. WireTypes
  BY DEF WireTypes
<1>4. QED
  BY <1>1, <1>2, <1>3 DEF TypeOK

LEMMA FlagTypeStep == FlagTypes /\ [Next]_sessionVars => FlagTypes'
<1> SUFFICES ASSUME FlagTypes, [Next]_sessionVars PROVE FlagTypes'
  OBVIOUS
<1> USE DEF FlagTypes, setStatus, linkVars, pendingVars, meterVars, wireVars, callVars
<1>1. CASE Operate
  <2>1. CASE Start
    BY <2>1 DEF Start, DoStart, sendAuthorize
  <2>2. CASE Stop
    BY <2>2 DEF Stop, DoStop
  <2>3. CASE RemoteStart \/ RemoteStop
    BY <2>3 DEF RemoteStart, RemoteStop
  <2>4. CASE ChangeAvailability
    BY <2>4 DEF ChangeAvailability
  <2>5. CASE \E low \in BOOLEAN : ApplyLimit(low)
    BY <2>5 DEF ApplyLimit
  <2>6. CASE SetFault \/ ClearFault
    BY <2>6 DEF SetFault, ClearFault
  <2>7. CASE SetSOC \/ SetProfile
    BY <2>7 DEF SetSOC, SetProfile
  <2>8. QED
    BY <1>1, <2>1, <2>2, <2>3, <2>4, <2>5, <2>6, <2>7
       DEF Operate, SetTargetCurrent, SetChargingProfile, ClearChargingProfile
<1>2. CASE Link
  BY <1>2 DEF Link, LinkLost, LinkUp, Resume, sendAuthorize
<1>3. CASE MatchResult
  BY <1>3 DEF MatchResult
<1>4. CASE AuthorizeAccepted \/ StartAccepted \/ Rejected
  BY <1>4 DEF AuthorizeAccepted, StartAccepted, Rejected, sendStartTransaction
<1>5. CASE DelayedStart \/ DelayedStop
  BY <1>5 DEF DelayedStart, DelayedStop, DoStart, DoStop, sendAuthorize
<1>6. CASE Tick
  BY <1>6 DEF Tick
<1>7. CASE Deliver \/ WriteLost
  BY <1>7 DEF Deliver, WriteLost
<1>8. CASE UNCHANGED sessionVars
  BY <1>8 DEF sessionVars
<1>9. QED
  BY <1>1, <1>2, <1>3, <1>4, <1>5, <1>6, <1>7, <1>8 DEF Next, HandleResult

LEMMA ChargerTypeStep == TypeOK /\ [Next]_sessionVars => ChargerTypes'
<1> SUFFICES ASSUME ChargerTypes, WireTypes, [Next]_sessionVars PROVE ChargerTypes'
  BY DEF TypeOK
<1> USE DEF ChargerTypes, Statuses, setStatus, linkVars, pendingVars, meterVars, wireVars,
            callVars
<1>1. CASE Operate
  <2>1. CASE Start \/ Stop
    BY <2>1 DEF Start, Stop, DoStart, DoStop
  <2>2. CASE RemoteStart \/ RemoteStop
    BY <2>2 DEF RemoteStart, RemoteStop
  <2>3. CASE ChangeAvailability
    BY <2>3 DEF ChangeAvailability
  <2>4. CASE \E low \in BOOLEAN : ApplyLimit(low)
    BY <2>4 DEF ApplyLimit
  <2>5. CASE SetFault \/ ClearFault \/ SetSOC \/ SetProfile
    BY <2>5 DEF SetFault, ClearFault, SetSOC, SetProfile
  <2>6. QED
    BY <1>1, <2>1, <2>2, <2>3, <2>4, <2>5
       DEF Operate, SetTargetCurrent, SetChargingProfile, ClearChargingProfile
<1>2. CASE Link
  BY <1>2 DEF Link, LinkLost, LinkUp, Resume
<1>3. CASE MatchResult \/ AuthorizeAccepted \/ Rejected
  BY <1>3 DEF MatchResult, AuthorizeAccepted, Rejected
<1>4. CASE StartAccepted
  BY <1>4 DEF StartAccepted, WireTypes, Replies, Idle
<1>5. CASE DelayedStart \/ DelayedStop
  BY <1>5 DEF DelayedStart, DelayedStop, DoStart, DoStop
<1>6. CASE Tick
  BY <1>6 DEF Tick
<1>7. CASE Deliver \/ WriteLost
  BY <1>7 DEF Deliver, WriteLost
<1>8. CASE UNCHANGED sessionVars
  BY <1>8 DEF sessionVars
<1>9. QED
  BY <1>1, <1>2, <1>3, <1>4, <1>5, <1>6, <1>7, <1>8 DEF Next, HandleResult

LEMMA SendTypes ==
  ASSUME sendCh \in Seq(Frames), NEW f \in Frames, Send(f)
  PROVE  sendCh' \in Seq(Frames)
  BY QueueAppend DEF Send

LEMMA WireTypeStep == TypeOK /\ [Next]_sessionVars => WireTypes'
<1> SUFFICES ASSUME ChargerTypes, WireTypes, [Next]_sessionVars PROVE WireTypes'
  BY DEF TypeOK
<1> USE DEF ChargerTypes, WireTypes, linkVars, pendingVars, meterVars, wireVars, callVars
<1>1. /\ [call |-> "Authorize", tx |-> 0] \in Frames
      /\ [call |-> "StartTransaction", tx |-> 0] \in Frames
      /\ [call |-> "StopTransaction", tx |-> transactionID] \in Frames
  BY DEF Frames
<1>2. DoStart => WireTypes'
  BY <1>1, SendTypes DEF DoStart, sendAuthorize
<1>3. DoStop => WireTypes'
  BY <1>1, SendTypes DEF DoStop
<1>4. CASE Operate
  <2>1. CASE Start \/ Stop
    BY <1>2, <1>3, <2>1 DEF Start, Stop
  <2>2. CASE RemoteStart \/ RemoteStop \/ ChangeAvailability
    BY <2>2 DEF RemoteStart, RemoteStop, ChangeAvailability
  <2>3. CASE \E low \in BOOLEAN : ApplyLimit(low)
    BY <2>3 DEF ApplyLimit
  <2>4. CASE SetFault \/ ClearFault \/ SetSOC \/ SetProfile
    BY <2>4 DEF SetFault, ClearFault, SetSOC, SetProfile
  <2>5. QED
    BY <1>4, <2>1, <2>2, <2>3, <2>4
       DEF Operate, SetTargetCurrent, SetChargingProfile, ClearChargingProfile
<1>5. CASE Link
  <2>1. CASE LinkLost
    BY <2>1 DEF LinkLost
  <2>2. CASE LinkUp
    BY <2>2 DEF LinkUp
  <2>3. CASE Resume
    BY <1>1, <2>3, SendTypes DEF Resume, sendAuthorize
  <2>4. QED
    BY <1>5, <2>1, <2>2, <2>3 DEF Link
<1>6. CASE MatchResult
  <2>1. Head(replies) \in Replies /\ Tail(replies) \in Seq(Replies)
    BY <1>6, QueueTail DEF MatchResult
  <2>2. QED
    BY <1>6, <2>1 DEF MatchResult
<1>7. CASE AuthorizeAccepted
  BY <1>1, <1>7, SendTypes DEF AuthorizeAccepted, sendStartTransaction
<1>8. CASE StartAccepted \/ Rejected
  BY <1>8 DEF StartAccepted, Rejected
<1>9. CASE DelayedStart \/ DelayedStop
  BY <1>2, <1>3, <1>9 DEF DelayedStart, DelayedStop
<1>10. CASE Tick
  BY <1>10 DEF Tick
<1>11. CASE Deliver
  <2>1. Head(sendCh) \in Frames /\ sendCh' \in Seq(Frames)
    BY <1>11, QueueTail DEF Deliver
  <2>2. ASSUME NEW v, NEW tx \in Tx \union {0}, Answer(Head(sendCh), v, tx)
        PROVE  replies' \in Seq(Replies)
    <3>1. [call |-> Head(sendCh).call, verdict |-> v, tx |-> tx] \in Replies
      BY <2>1, <2>2, CallsAssumption DEF Answer, Frames, Replies
    <3>2. QED
      BY <2>2, <3>1, QueueAppend DEF Answer
  <2>3. replies' \in Seq(Replies) /\ sessions' \in SUBSET Tx
    BY <1>11, <2>2 DEF Deliver
  <2>4. QED
    BY <1>11, <2>1, <2>3 DEF Deliver
<1>12. CASE WriteLost
  BY <1>12, QueueTail DEF WriteLost
<1>13. CASE UNCHANGED sessionVars
  BY <1>13 DEF sessionVars
<1>14. QED
  BY <1>4, <1>5, <1>6, <1>7, <1>8, <1>9, <1>10, <1>11, <1>12, <1>13 DEF Next, HandleResult

\* The variables of the session keep their types; in particular Finishing is
\* never left standing, and every transaction id held is one the CSMS gave out.
THEOREM TypeCorrect == Spec => []TypeOK
<1>1. TypeOK /\ [Next]_sessionVars => TypeOK'
  BY FlagTypeStep, ChargerTypeStep, WireTypeStep DEF TypeOK
<1>2. QED
  BY <1>1, TypeInit, PTL DEF Spec

-----------------------------------------------------------------------------
(* One start exchange at a time *)

\* The variables SingleFlight speaks of.
Exchange == <<startPending, pendingAuthorize, pendingStart, sendCh, replies, handling>>

LEMMA SameExchange == SingleFlight /\ UNCHANGED Exchange => SingleFlight'
  BY DEF SingleFlight, Exchange, PendingFor

\* Queueing a StopTransaction, or dropping any frame, disturbs nothing.
LEMMA StopQueued ==
  ASSUME TypeOK, SingleFlight, DoStop
  PROVE  SingleFlight'
<1> DEFINE stop == [call |-> "StopTransaction", tx |-> transactionID]
<1>1. stop \in Frames /\ stop.call \notin StartCalls
  BY DEF TypeOK, ChargerTypes, Frames, StartCalls
<1>2. UNCHANGED <<pendingVars, replies, handling>>
  BY DEF DoStop
<1>3. CASE sendCh' = sendCh
  BY <1>2, <1>3, SameExchange DEF Exchange, pendingVars
<1>4. CASE sendCh' = Append(sendCh, stop)
  <2>1. \A i \in DOMAIN sendCh' :
           sendCh'[i].call \in StartCalls => i \in DOMAIN sendCh /\ sendCh'[i] = sendCh[i]
    BY <1>1, <1>4, QueueAppend DEF TypeOK, WireTypes
  <2>2. QED
    BY <1>2, <2>1 DEF SingleFlight, PendingFor, pendingVars
<1>5. QED
  BY <1>3, <1>4 DEF DoStop, Send

\* Taking a frame off sendCh leaves at most the others.
LEMMA FrameTaken ==
  ASSUME TypeOK, SingleFlight, sendCh # <<>>, sendCh' = Tail(sendCh),
         UNCHANGED <<pendingVars, replies, handling>>
  PROVE  SingleFlight'
<1>1. \A i \in DOMAIN sendCh' : i + 1 \in DOMAIN sendCh /\ sendCh'[i] = sendCh[i + 1]
  BY QueueTail DEF TypeOK, WireTypes
<1>2. QED
  BY <1>1, QueueTail DEF SingleFlight, PendingFor, pendingVars, TypeOK, WireTypes

\* While a start exchange is not outstanding no frame or answer of one exists.
LEMMA NothingOutstanding ==
  ASSUME TypeOK, SingleFlight, ~pendingAuthorize, ~pendingStart
  PROVE  /\ \A i \in DOMAIN sendCh : sendCh[i].call \notin StartCalls
         /\ replies = <<>>
<1>1. \A i \in DOMAIN replies : FALSE
  BY DEF SingleFlight, PendingFor
<1>2. replies # <<>> => 1 \in DOMAIN replies
  BY QueueTail DEF TypeOK, WireTypes
<1>3. QED
  BY <1>1, <1>2 DEF SingleFlight, PendingFor

\* One call of the exchange is queued, or dropped, when none was outstanding.
LEMMA CallQueued ==
  ASSUME TypeOK, SingleFlight, ~pendingAuthorize, ~pendingStart,
         NEW call \in StartCalls, Send([call |-> call, tx |-> 0]),
         UNCHANGED replies, handling' = Idle, startPending',
         pendingAuthorize' <=> call = "Authorize",
         pendingStart' <=> call = "StartTransaction"
  PROVE  SingleFlight'
<1> DEFINE frame == [call |-> call, tx |-> 0]
<1>1. frame \in Frames /\ frame.call = call
  BY DEF Frames, StartCalls
<1>2. /\ \A i \in DOMAIN sendCh : sendCh[i].call \notin StartCalls
      /\ replies = <<>>
  BY NothingOutstanding
<1>3. \A i \in DOMAIN sendCh' : sendCh'[i].call \in StartCalls =>
         /\ i = Len(sendCh) + 1
         /\ sendCh'[i].call = call
  <2>1. CASE sendCh' = sendCh
    BY <1>2, <2>1
  <2>2. CASE sendCh' = Append(sendCh, frame)
    BY <1>1, <1>2, <2>2, QueueAppend DEF TypeOK, WireTypes
  <2>3. QED
    BY <2>1, <2>2 DEF Send
<1>4. QED
  BY <1>2, <1>3 DEF SingleFlight, PendingFor, StartCalls

\* The CSMS takes a call of the exchange and puts one answer to it on the way.
LEMMA CallAnswered ==
  ASSUME TypeOK, SingleFlight, sendCh # <<>>, sendCh' = Tail(sendCh),
         NEW v, NEW tx, Answer(Head(sendCh), v, tx),
         UNCHANGED <<pendingVars, handling>>
  PROVE  SingleFlight'
<1> DEFINE call == Head(sendCh).call
<1>1. call \in StartCalls /\ 1 \in DOMAIN sendCh /\ sendCh[1].call = call
  <2>1. Head(sendCh) \in Frames /\ Head(sendCh) = sendCh[1] /\ 1 \in DOMAIN sendCh
    BY QueueTail DEF TypeOK, WireTypes
  <2>2. Head(sendCh).call # "StopTransaction"
    BY DEF Answer
  <2>3. QED
    BY <2>1, <2>2 DEF Frames, StartCalls
<1>2. PendingFor(call) /\ replies = <<>>
  BY <1>1 DEF SingleFlight
<1>3. \A i \in DOMAIN sendCh' : sendCh'[i].call \notin StartCalls
  <2>1. \A i \in DOMAIN sendCh' : i + 1 \in DOMAIN sendCh /\ sendCh'[i] = sendCh[i + 1] /\ i + 1 # 1
    BY QueueTail DEF TypeOK, WireTypes
  <2>2. QED
    BY <1>1, <2>1 DEF SingleFlight
<1>4. Len(replies') = 1 /\ \A i \in DOMAIN replies' : replies'[i].call = call
  <2> DEFINE answer == [call |-> call, verdict |-> v, tx |-> tx]
  <2>1. replies' = Append(<<>>, answer)
    BY <1>2 DEF Answer
  <2>2. answer \in {answer} /\ <<>> \in Seq({answer}) /\ Len(<<>>) = 0 /\ answer.call = call
    OBVIOUS
  <2> HIDE DEF answer
  <2>3. Len(replies') = 1 /\ \A i \in DOMAIN replies' : replies'[i] = answer
    BY <2>1, <2>2, QueueAppend
  <2>4. QED
    BY <2>2, <2>3
<1>5. QED
  BY <1>2, <1>3, <1>4 DEF SingleFlight, PendingFor, pendingVars

LEMMA SingleFlightStep == TypeOK /\ SingleFlight /\ [Next]_sessionVars => SingleFlight'
<1> SUFFICES ASSUME TypeOK, SingleFlight, [Next]_sessionVars PROVE SingleFlight'
  OBVIOUS
<1> USE DEF linkVars, pendingVars, meterVars, wireVars, callVars
<1>1. ASSUME CanStart, DoStart PROVE SingleFlight'
  <2>1. ~pendingAuthorize /\ ~pendingStart /\ handling = Idle
    BY <1>1 DEF SingleFlight, CanStart
  <2>2. /\ Send([call |-> "Authorize", tx |-> 0])
        /\ UNCHANGED replies /\ handling' = Idle /\ startPending'
        /\ pendingAuthorize' /\ ~pendingStart'
    BY <1>1, <2>1 DEF DoStart, sendAuthorize
  <2>3. QED
    BY <2>1, <2>2, CallQueued DEF StartCalls
<1>2. CASE Operate
  <2>1. CASE Start
    BY <1>1, <2>1 DEF Start
  <2>2. CASE Stop
    BY <2>2, StopQueued DEF Stop
  <2>3. CASE RemoteStart \/ RemoteStop \/ ChangeAvailability
    BY <2>3, SameExchange DEF RemoteStart, RemoteStop, ChangeAvailability, Exchange
  <2>4. CASE \E low \in BOOLEAN : ApplyLimit(low)
    BY <2>4, SameExchange DEF ApplyLimit, Exchange
  <2>5. CASE SetFault \/ ClearFault \/ SetSOC \/ SetProfile
    BY <2>5, SameExchange DEF SetFault, ClearFault, SetSOC, SetProfile, Exchange
  <2>6. QED
    BY <1>2, <2>1, <2>2, <2>3, <2>4, <2>5
       DEF Operate, SetTargetCurrent, SetChargingProfile, ClearChargingProfile
<1>3. CASE LinkLost
  BY <1>3 DEF LinkLost, SingleFlight, PendingFor
<1>4. CASE LinkUp \/ Tick
  BY <1>4, SameExchange DEF LinkUp, Tick, Exchange
<1>5. CASE Resume
  <2>1. CASE UNCHANGED <<startPending, pendingAuthorize, sendCh>>
    BY <1>5, <2>1, SameExchange DEF Resume, Exchange
  <2>2. CASE ~startPending /\ startPending' = TRUE /\ sendAuthorize
    <3>1. ~pendingAuthorize /\ ~pendingStart /\ handling = Idle
      BY <2>2 DEF SingleFlight
    <3>2. /\ Send([call |-> "Authorize", tx |-> 0])
          /\ UNCHANGED replies /\ handling' = Idle /\ startPending'
          /\ pendingAuthorize' /\ ~pendingStart'
      BY <1>5, <2>2, <3>1 DEF Resume, sendAuthorize
    <3>3. QED
      BY <3>1, <3>2, CallQueued DEF StartCalls
  <2>3. QED
    BY <1>5, <2>1, <2>2 DEF Resume
<1>6. CASE MatchResult
  <2>1. replies \in Seq(Replies) /\ replies # <<>> /\ replies' = Tail(replies)
    BY <1>6 DEF MatchResult, TypeOK, WireTypes
  <2>2. /\ 1 \in DOMAIN replies /\ Head(replies) = replies[1] /\ Head(replies) \in Replies
        /\ replies' \in Seq(Replies) /\ Len(replies') = Len(replies) - 1
    BY <2>1, QueueTail
  <2>3. Len(replies') = 0 /\ DOMAIN replies' = {} /\ replies' = <<>>
    BY <2>1, <2>2 DEF SingleFlight
  <2>4. /\ PendingFor(Head(replies).call)
        /\ Head(replies).call \in StartCalls
        /\ Head(replies) # Idle
    BY <2>2 DEF SingleFlight, Replies, StartCalls, Idle
  <2>5. handling = Idle /\ UNCHANGED <<sendCh, startPending>>
    BY <1>6 DEF MatchResult, ReaderFree
  <2>6. \A i \in DOMAIN sendCh : sendCh[i].call \notin StartCalls
    BY <2>1 DEF SingleFlight
  <2>7. CASE UNCHANGED <<handling, pendingAuthorize, pendingStart>>
    BY <2>3, <2>5, <2>6, <2>7 DEF SingleFlight, PendingFor
  <2>8. CASE /\ handling' = Head(replies)
             /\ pendingAuthorize' = (pendingAuthorize /\ Head(replies).call # "Authorize")
             /\ pendingStart' = (pendingStart /\ Head(replies).call # "StartTransaction")
    <3>1. ~pendingAuthorize' /\ ~pendingStart' /\ startPending'
      BY <2>4, <2>5, <2>8 DEF SingleFlight, PendingFor, StartCalls
    <3>2. handling' # Idle
      BY <2>4, <2>8
    <3>3. QED
      BY <2>3, <2>5, <2>6, <3>1, <3>2 DEF SingleFlight, PendingFor
  <2>9. QED
    BY <1>6, <2>7, <2>8 DEF MatchResult
<1>7. CASE AuthorizeAccepted
  <2>1. handling # Idle /\ startPending
    BY <1>7 DEF AuthorizeAccepted, Idle, SingleFlight
  <2>2. ~pendingAuthorize /\ ~pendingStart
    BY <2>1 DEF SingleFlight
  <2>3. /\ Send([call |-> "StartTransaction", tx |-> 0])
        /\ UNCHANGED replies /\ handling' = Idle /\ startPending'
        /\ ~pendingAuthorize' /\ pendingStart'
    BY <1>7, <2>1, <2>2 DEF AuthorizeAccepted, sendStartTransaction
  <2>4. QED
    BY <2>2, <2>3, CallQueued DEF StartCalls
<1>8. CASE StartAccepted \/ Rejected
  <2>1. handling # Idle
    BY <1>8 DEF StartAccepted, Rejected, Idle
  <2>2. ~pendingAuthorize /\ ~pendingStart
    BY <2>1 DEF SingleFlight
  <2>3. /\ UNCHANGED <<pendingAuthorize, pendingStart, sendCh, replies>>
        /\ handling' = Idle /\ ~startPending'
    BY <1>8 DEF StartAccepted, Rejected
  <2>4. QED
    BY <2>2, <2>3 DEF SingleFlight, PendingFor
<1>9. CASE DelayedStart \/ DelayedStop
  <2>1. CASE CanStart /\ DoStart
    BY <1>1, <2>1
  <2>2. CASE DoStop
    BY <2>2, StopQueued
  <2>3. CASE UNCHANGED Exchange
    BY <2>3, SameExchange
  <2>4. QED
    BY <1>9, <2>1, <2>2, <2>3 DEF DelayedStart, DelayedStop, Exchange
<1>10. CASE Deliver
  <2>1. CASE \E v, tx : Answer(Head(sendCh), v, tx)
    BY <1>10, <2>1, CallAnswered DEF Deliver
  <2>2. CASE UNCHANGED replies
    BY <1>10, <2>2, FrameTaken DEF Deliver
  <2>3. QED
    BY <1>10, <2>1, <2>2 DEF Deliver
<1>11. CASE WriteLost
  BY <1>11, FrameTaken DEF WriteLost
<1>12. CASE UNCHANGED sessionVars
  BY <1>12, SameExchange DEF sessionVars, Exchange
<1>13. QED
  BY <1>2, <1>3, <1>4, <1>5, <1>6, <1>7, <1>8, <1>9, <1>10, <1>11, <1>12
     DEF Next, Link, HandleResult

\* One start exchange at a time, whatever is lost, rejected or repeated: the
\* pending flag and ids tell exactly how far it is.
THEOREM SingleFlightHolds == Spec => []SingleFlight
<1>1. Init => SingleFlight
  BY DEF Init, SingleFlight
<1>2. QED
  BY <1>1, TypeCorrect, SingleFlightStep, PTL DEF Spec

-----------------------------------------------------------------------------
(* What the CSMS grants *)

\* An answer in the hands of readLoop, or on the way to it: its verdict is one
\* the CSMS gives, and an accepted start carries a transaction id.
Honest(reply) ==
    /\ reply.verdict \in Verdicts
    /\ reply.call = "StartTransaction" /\ reply.verdict = "Accepted" => reply.tx # 0

Granted ==
    /\ \A i \in DOMAIN replies : Honest(replies[i])
    /\ handling # Idle => Honest(handling)

LEMMA GrantedStep == TypeOK /\ Granted /\ [Next]_sessionVars => Granted'
<1> SUFFICES ASSUME TypeOK, Granted, [Next]_sessionVars PROVE Granted'
  OBVIOUS
<1> USE DEF linkVars, pendingVars, meterVars, wireVars, callVars
<1>1. CASE UNCHANGED <<replies, handling>>
  BY <1>1 DEF Granted, Honest
<1>2. CASE LinkLost
  BY <1>2 DEF LinkLost, Granted, Honest
<1>3. CASE MatchResult
  <2>1. replies \in Seq(Replies) /\ replies # <<>> /\ replies' = Tail(replies)
    BY <1>3 DEF MatchResult, TypeOK, WireTypes
  <2>2. /\ 1 \in DOMAIN replies /\ Head(replies) = replies[1]
        /\ \A i \in DOMAIN replies' : i + 1 \in DOMAIN replies /\ replies'[i] = replies[i + 1]
    BY <2>1, QueueTail
  <2>3. \A i \in DOMAIN replies' : Honest(replies'[i])
    BY <2>2 DEF Granted, Honest
  <2>4. handling' = Head(replies) \/ handling' = handling
    BY <1>3 DEF MatchResult
  <2>5. handling' # Idle => Honest(handling')
    BY <2>2, <2>4 DEF Granted, Honest
  <2>6. QED
    BY <2>3, <2>5 DEF Granted, Honest
<1>4. CASE AuthorizeAccepted \/ StartAccepted \/ Rejected
  BY <1>4 DEF AuthorizeAccepted, StartAccepted, Rejected, Granted, Honest
<1>5. CASE Deliver
  <2>1. ASSUME NEW v, NEW tx, Answer(Head(sendCh), v, tx),
               tx # 0 \/ Head(sendCh).call # "StartTransaction" \/ v # "Accepted"
        PROVE  Granted'
    <3> DEFINE answer == [call |-> Head(sendCh).call, verdict |-> v, tx |-> tx]
    <3>1. Honest(answer) /\ replies' = Append(replies, answer)
      BY <2>1 DEF Answer, Honest
    <3>2. replies \in Seq({r \in Replies \union {answer} : Honest(r)})
      BY <3>1 DEF Granted, TypeOK, WireTypes
    <3> HIDE DEF answer
    <3>3. \A i \in DOMAIN replies' : replies'[i] = answer \/
             (i \in DOMAIN replies /\ replies'[i] = replies[i])
      <4>1. answer \in {r \in Replies \union {answer} : Honest(r)}
        BY <3>1
      <4>2. QED
        BY <3>1, <3>2, <4>1, QueueAppend
    <3>4. handling' = handling
      BY <1>5 DEF Deliver
    <3>5. QED
      BY <3>1, <3>3, <3>4 DEF Granted, Honest
  <2>2. CASE UNCHANGED replies
    BY <1>5, <1>1, <2>2 DEF Deliver
  <2>3. QED
    BY <1>5, <2>1, <2>2, TxAssumption DEF Deliver
<1>6. CASE Operate
  BY <1>1, <1>6
     DEF Operate, Start, Stop, DoStart, DoStop, RemoteStart, RemoteStop,
         ChangeAvailability, SetTargetCurrent, SetChargingProfile, ClearChargingProfile,
         ApplyLimit, SetFault, ClearFault, SetSOC, SetProfile
<1>7. CASE LinkUp \/ Resume \/ DelayedStart \/ DelayedStop \/ Tick \/ WriteLost
  BY <1>1, <1>7
     DEF LinkUp, Resume, DelayedStart, DelayedStop, DoStart, DoStop, Tick, WriteLost
<1>8. CASE UNCHANGED sessionVars
  BY <1>1, <1>8 DEF sessionVars
<1>9. QED
  BY <1>2, <1>3, <1>4, <1>5, <1>6, <1>7, <1>8 DEF Next, Link, HandleResult

LEMMA GrantedHolds == Spec => []Granted
<1>1. Init => Granted
  BY DEF Init, Granted
<1>2. QED
  BY <1>1, TypeCorrect, GrantedStep, PTL DEF Spec

-----------------------------------------------------------------------------
(* Status, transaction and current *)

LEMMA SuspendedNoFlowStep ==
  Granted /\ SuspendedNoFlow /\ [Next]_sessionVars => SuspendedNoFlow'
<1> SUFFICES ASSUME Granted, SuspendedNoFlow, [Next]_sessionVars PROVE SuspendedNoFlow'
  OBVIOUS
<1> USE DEF SuspendedNoFlow, setStatus, linkVars, pendingVars, meterVars, wireVars, callVars
<1>1. CASE Operate
  <2>1. CASE Start \/ Stop
    BY <2>1 DEF Start, Stop, CanStart, DoStart, DoStop
  <2>2. CASE RemoteStart \/ RemoteStop
    BY <2>2 DEF RemoteStart, RemoteStop
  <2>3. CASE ChangeAvailability
    BY <2>3 DEF ChangeAvailability
  <2>4. CASE \E low \in BOOLEAN : MayLimit /\ ApplyLimit(low)
    BY <2>4 DEF MayLimit, ApplyLimit
  <2>5. CASE SetFault \/ ClearFault
    BY <2>5 DEF SetFault, ClearFault
  <2>6. CASE SetSOC \/ SetProfile
    BY <2>6 DEF SetSOC, SetProfile
  <2>7. QED
    BY <1>1, <2>1, <2>2, <2>3, <2>4, <2>5, <2>6
       DEF Operate, SetTargetCurrent, SetChargingProfile, ClearChargingProfile
<1>2. CASE Link
  BY <1>2 DEF Link, LinkLost, LinkUp, Resume
<1>3. CASE MatchResult \/ AuthorizeAccepted
  BY <1>3 DEF MatchResult, AuthorizeAccepted
<1>4. CASE StartAccepted
  BY <1>4 DEF StartAccepted, Granted, Honest, Idle
<1>5. CASE Rejected
  BY <1>5 DEF Rejected, Granted, Honest, Idle
<1>6. CASE DelayedStart \/ DelayedStop
  BY <1>6 DEF DelayedStart, DelayedStop, CanStart, DoStart, DoStop
<1>7. CASE Tick \/ Deliver \/ WriteLost
  BY <1>7 DEF Tick, Deliver, WriteLost
<1>8. CASE UNCHANGED sessionVars
  BY <1>8 DEF sessionVars
<1>9. QED
  BY <1>1, <1>2, <1>3, <1>4, <1>5, <1>6, <1>7, <1>8 DEF Next, HandleResult

\* A suspended charger shows no current, whatever happens to it.
THEOREM SuspendedNoFlowHolds == Spec => []SuspendedNoFlow
<1>1. Init => SuspendedNoFlow
  BY DEF Init, SuspendedNoFlow
<1>2. QED
  BY <1>1, GrantedHolds, SuspendedNoFlowStep, PTL DEF Spec

LEMMA ChargingHasTransactionStep ==
  /\ "SetLimitIdle" \notin Operations
  /\ Granted /\ ChargingHasTransaction /\ [Next]_sessionVars
  => ChargingHasTransaction'
<1> SUFFICES ASSUME "SetLimitIdle" \notin Operations, Granted, ChargingHasTransaction,
                    [Next]_sessionVars
             PROVE  ChargingHasTransaction'
  OBVIOUS
<1> USE DEF ChargingHasTransaction, InSession, setStatus, linkVars, pendingVars, meterVars,
            wireVars, callVars
<1>1. CASE Operate
  <2>1. CASE Start \/ Stop
    BY <2>1 DEF Start, Stop, CanStart, DoStart, DoStop
  <2>2. CASE RemoteStart \/ RemoteStop
    BY <2>2 DEF RemoteStart, RemoteStop
  <2>3. CASE ChangeAvailability
    BY <2>3 DEF ChangeAvailability
  <2>4. CASE \E low \in BOOLEAN : MayLimit /\ ApplyLimit(low)
    BY <2>4 DEF MayLimit, ApplyLimit
  <2>5. CASE SetFault \/ ClearFault
    BY <2>5 DEF SetFault, ClearFault
  <2>6. CASE SetSOC \/ SetProfile
    BY <2>6 DEF SetSOC, SetProfile
  <2>7. QED
    BY <1>1, <2>1, <2>2, <2>3, <2>4, <2>5, <2>6
       DEF Operate, SetTargetCurrent, SetChargingProfile, ClearChargingProfile
<1>2. CASE Link
  BY <1>2 DEF Link, LinkLost, LinkUp, Resume
<1>3. CASE MatchResult \/ AuthorizeAccepted
  BY <1>3 DEF MatchResult, AuthorizeAccepted
<1>4. CASE StartAccepted
  BY <1>4 DEF StartAccepted, Granted, Honest, Idle
<1>5. CASE Rejected
  BY <1>5 DEF Rejected, Granted, Honest, Idle
<1>6. CASE DelayedStart \/ DelayedStop
  BY <1>6 DEF DelayedStart, DelayedStop, CanStart, DoStart, DoStop
<1>7. CASE Tick \/ Deliver \/ WriteLost
  BY <1>7 DEF Tick, Deliver, WriteLost
<1>8. CASE UNCHANGED sessionVars
  BY <1>8 DEF sessionVars
<1>9. QED
  BY <1>1, <1>2, <1>3, <1>4, <1>5, <1>6, <1>7, <1>8 DEF Next, HandleResult

\* If the current is only limited during a session, a charger that charges or
\* is suspended has a transaction, through faults, losses and rejections.
THEOREM ChargingHasTransactionHolds ==
  "SetLimitIdle" \notin Operations => (Spec => []ChargingHasTransaction)
<1> SUFFICES ASSUME "SetLimitIdle" \notin Operations PROVE Spec => []ChargingHasTransaction
  OBVIOUS
<1>1. Init => ChargingHasTransaction
  BY DEF Init, ChargingHasTransaction, InSession
<1>2. Granted /\ ChargingHasTransaction /\ [Next]_sessionVars => ChargingHasTransaction'
  BY ChargingHasTransactionStep
<1>3. QED
  BY <1>1, <1>2, GrantedHolds, PTL DEF Spec

\* Nobody faults the charger, changes its availability or limits it outside a
\* session, and the CSMS rejects nothing.
Undisturbed ==
    /\ {"SetLimitIdle", "SetFault", "ClearFault", "ChangeAvailability"} \cap Operations = {}
    /\ "Rejected" \notin Verdicts

IdleInv == IdleHasNoTransaction /\ FlowOnlyCharging

LEMMA IdleStep == Undisturbed /\ Granted /\ IdleInv /\ [Next]_sessionVars => IdleInv'
<1> SUFFICES ASSUME Undisturbed, Granted, IdleInv, [Next]_sessionVars PROVE IdleInv'
  OBVIOUS
<1> USE DEF Undisturbed, IdleInv, IdleHasNoTransaction, FlowOnlyCharging, InSession,
            setStatus, linkVars, pendingVars, meterVars, wireVars, callVars
<1>1. CASE Operate
  <2>1. CASE Start \/ Stop
    BY <2>1 DEF Start, Stop, CanStart, DoStart, DoStop
  <2>2. CASE RemoteStart \/ RemoteStop
    BY <2>2 DEF RemoteStart, RemoteStop
  <2>3. CASE ChangeAvailability
    BY <2>3 DEF ChangeAvailability
  <2>4. CASE \E low \in BOOLEAN : MayLimit /\ ApplyLimit(low)
    BY <2>4 DEF MayLimit, ApplyLimit
  <2>5. CASE SetFault \/ ClearFault
    BY <2>5 DEF SetFault, ClearFault
  <2>6. CASE SetSOC \/ SetProfile
    BY <2>6 DEF SetSOC, SetProfile
  <2>7. QED
    BY <1>1, <2>1, <2>2, <2>3, <2>4, <2>5, <2>6
       DEF Operate, SetTargetCurrent, SetChargingProfile, ClearChargingProfile
<1>2. CASE Link
  BY <1>2 DEF Link, LinkLost, LinkUp, Resume
<1>3. CASE MatchResult \/ AuthorizeAccepted
  BY <1>3 DEF MatchResult, AuthorizeAccepted
<1>4. CASE StartAccepted
  BY <1>4 DEF StartAccepted, Granted, Honest, Idle
<1>5. CASE Rejected
  BY <1>5 DEF Rejected, Granted, Honest, Idle
<1>6. CASE DelayedStart \/ DelayedStop
  <2>1. CASE CanStart /\ DoStart
    BY <2>1 DEF CanStart, DoStart
  <2>2. CASE DoStop
    BY <2>2 DEF DoStop
  <2>3. CASE UNCHANGED <<status, transactionID, flow>>
    BY <2>3
  <2>4. QED
    BY <1>6, <2>1, <2>2, <2>3 DEF DelayedStart, DelayedStop
<1>7. CASE Tick \/ Deliver \/ WriteLost
  BY <1>7 DEF Tick, Deliver, WriteLost
<1>8. CASE UNCHANGED sessionVars
  BY <1>8 DEF sessionVars
<1>9. QED
  BY <1>1, <1>2, <1>3, <1>4, <1>5, <1>6, <1>7, <1>8 DEF Next, HandleResult

LEMMA IdleInvariant == Undisturbed => (Spec => []IdleInv)
<1> SUFFICES ASSUME Undisturbed PROVE Spec => []IdleInv
  OBVIOUS
<1>1. Init => IdleInv
  BY DEF Init, IdleInv, IdleHasNoTransaction, FlowOnlyCharging
<1>2. Granted /\ IdleInv /\ [Next]_sessionVars => IdleInv'
  BY IdleStep
<1>3. QED
  BY <1>1, <1>2, GrantedHolds, PTL DEF Spec

\* Undisturbed, an idle charger holds no transaction, however often the link is
\* lost and frames are dropped.
THEOREM IdleHolds == Undisturbed => (Spec => []IdleHasNoTransaction)
<1> SUFFICES ASSUME Undisturbed PROVE Spec => []IdleHasNoTransaction
  OBVIOUS
<1>1. IdleInv => IdleHasNoTransaction
  BY DEF IdleInv
<1>2. Spec => []IdleInv
  BY IdleInvariant
<1>3. QED
  BY <1>1, <1>2, PTL

\* Both together: undisturbed, the status tells whether there is a transaction.
THEOREM StatusTellsTransactionHolds == Undisturbed => (Spec => []StatusTellsTransaction)
<1> SUFFICES ASSUME Undisturbed PROVE Spec => []StatusTellsTransaction
  OBVIOUS
<1>1. Spec => []ChargingHasTransaction
  BY ChargingHasTransactionHolds DEF Undisturbed
<1>2. Spec => []IdleHasNoTransaction
  BY IdleHolds
<1>3. ChargingHasTransaction /\ IdleHasNoTransaction => StatusTellsTransaction
  BY DEF StatusTellsTransaction
<1>4. QED
  BY <1>1, <1>2, <1>3, PTL

\* Undisturbed, every way out of Charging leaves the current at zero.
THEOREM FlowOnlyChargingHolds == Undisturbed => (Spec => []FlowOnlyCharging)
<1> SUFFICES ASSUME Undisturbed PROVE Spec => []FlowOnlyCharging
  OBVIOUS
<1>1. IdleInv => FlowOnlyCharging
  BY DEF IdleInv
<1>2. Spec => []IdleInv
  BY IdleInvariant
<1>3. QED
  BY <1>1, <1>2, PTL

-----------------------------------------------------------------------------
(* No session left open at the CSMS *)

\* Undisturbed, sendCh has room for the few frames of the session, no other frame
\* takes it, and run reaches its resume block before anything is answered.  The last
\* is a matter of timing, not of the code.
Steady == Undisturbed /\ ~SendDrops /\ SendCap >= 4 /\ PromptResume

\* A step of no interest here: it leaves the exchange and the sessions alone, and
\* the charger in a session or out of it.
Aside ==
    /\ UNCHANGED <<linkVars, transactionID, pendingVars, wireVars>>
    /\ InSession' = InSession

LEMMA SteadyStep ==
  ASSUME Undisturbed, Granted, [Next]_sessionVars
  PROVE  \/ CanStart /\ DoStart
         \/ CanStop /\ DoStop
         \/ Aside
         \/ LinkLost \/ LinkUp \/ Resume
         \/ MatchResult \/ AuthorizeAccepted \/ StartAccepted
         \/ Deliver \/ WriteLost
<1> USE DEF Aside
<1>1. CASE Operate
  <2>1. CASE Start \/ Stop
    BY <2>1 DEF Start, Stop
  <2>2. CASE RemoteStart \/ RemoteStop
    BY <2>2 DEF RemoteStart, RemoteStop, InSession
  <2>3. CASE \E low \in BOOLEAN : MayLimit /\ ApplyLimit(low)
    BY <2>3 DEF Undisturbed, MayLimit, ApplyLimit, setStatus, InSession
  <2>4. CASE SetSOC \/ SetProfile
    BY <2>4 DEF SetSOC, SetProfile, InSession
  <2>5. ~ChangeAvailability /\ ~SetFault /\ ~ClearFault
    BY DEF Undisturbed, ChangeAvailability, SetFault, ClearFault
  <2>6. QED
    BY <1>1, <2>1, <2>2, <2>3, <2>4, <2>5
       DEF Operate, SetTargetCurrent, SetChargingProfile, ClearChargingProfile
<1>2. CASE DelayedStart \/ DelayedStop
  BY <1>2 DEF DelayedStart, DelayedStop, InSession
<1>3. CASE Tick
  BY <1>3 DEF Tick, InSession
<1>4. ~Rejected
  BY DEF Rejected, Undisturbed, Granted, Honest, Idle
<1>5. CASE UNCHANGED sessionVars
  BY <1>5 DEF sessionVars, InSession
<1>6. QED
  BY <1>1, <1>2, <1>3, <1>4, <1>5 DEF Next, Link, HandleResult

\* The CSMS holds no session while the charger is away, or is back and has not
\* resumed: LinkLost closes them and nothing is delivered before Resume.
ClosedOnLoss == ~connected \/ resuming => sessions = {}

LEMMA ClosedStep ==
  ASSUME Steady, Granted, ClosedOnLoss, [Next]_sessionVars
  PROVE  ClosedOnLoss'
<1> USE DEF ClosedOnLoss, linkVars, wireVars
<1>1. CASE DoStart \/ DoStop
  BY <1>1 DEF DoStart, DoStop
<1>2. CASE Aside
  BY <1>2 DEF Aside
<1>3. CASE LinkLost \/ LinkUp \/ Resume
  BY <1>3 DEF LinkLost, LinkUp, Resume
<1>4. CASE MatchResult \/ AuthorizeAccepted \/ StartAccepted
  BY <1>4 DEF MatchResult, AuthorizeAccepted, StartAccepted
<1>5. CASE Deliver
  BY <1>5 DEF Deliver, Steady
<1>6. CASE WriteLost
  BY <1>6 DEF WriteLost
<1>7. QED
  BY <1>1, <1>2, <1>3, <1>4, <1>5, <1>6, SteadyStep DEF Steady

\* Only an accepted start brings a transaction id with it.
Given(reply) == reply.tx # 0 => reply.call = "StartTransaction" /\ reply.verdict = "Accepted"

Carried == Given(handling) /\ \A i \in DOMAIN replies : Given(replies[i])

LEMMA CarriedStep ==
  ASSUME Undisturbed, TypeOK, Granted, Carried, [Next]_sessionVars
  PROVE  Carried'
<1>1. CASE UNCHANGED <<replies, handling>>
  BY <1>1 DEF Carried, Given
<1>2. CASE LinkLost
  BY <1>2 DEF LinkLost, Carried, Given, wireVars
<1>3. CASE MatchResult
  <2>1. replies \in Seq(Replies) /\ replies # <<>> /\ replies' = Tail(replies)
    BY <1>3 DEF MatchResult, TypeOK, WireTypes
  <2>2. /\ 1 \in DOMAIN replies /\ Head(replies) = replies[1]
        /\ \A i \in DOMAIN replies' : i + 1 \in DOMAIN replies /\ replies'[i] = replies[i + 1]
    BY <2>1, QueueTail
  <2>3. handling' = Head(replies) \/ handling' = handling
    BY <1>3 DEF MatchResult
  <2>4. QED
    BY <2>2, <2>3 DEF Carried, Given
<1>4. CASE AuthorizeAccepted \/ StartAccepted
  BY <1>4 DEF AuthorizeAccepted, StartAccepted, Carried, Given, Idle
<1>5. CASE Deliver
  <2>1. sendCh # <<>> /\ sendCh \in Seq(Frames) /\ replies \in Seq(Replies) /\ handling' = handling
    BY <1>5 DEF Deliver, TypeOK, WireTypes
  <2>2. ASSUME NEW v \in AllVerdicts, NEW tx \in Tx \union {0}, Answer(Head(sendCh), v, tx),
               tx # 0 => Head(sendCh).call = "StartTransaction" /\ v = "Accepted"
        PROVE  Carried'
    <3> DEFINE answer == [call |-> Head(sendCh).call, verdict |-> v, tx |-> tx]
    <3>1. Head(sendCh) \in Frames
      BY <2>1, QueueTail
    <3>2. answer \in Replies /\ Given(answer) /\ replies' = Append(replies, answer)
      BY <2>2, <3>1 DEF Answer, Given, Frames, Replies
    <3> HIDE DEF answer
    <3>3. \A i \in DOMAIN replies' : replies'[i] = answer \/
             (i \in DOMAIN replies /\ replies'[i] = replies[i])
      BY <2>1, <3>2, QueueAppend
    <3>4. QED
      BY <2>1, <3>2, <3>3 DEF Carried, Given
  <2>3. CASE UNCHANGED replies
    BY <1>1, <2>1, <2>3
  <2>4. QED
    BY <1>5, <2>2, <2>3 DEF Deliver, AllVerdicts
<1>6. CASE DoStart \/ DoStop
  BY <1>1, <1>6 DEF DoStart, DoStop
<1>7. CASE Aside \/ LinkUp \/ Resume \/ WriteLost
  BY <1>1, <1>7 DEF Aside, LinkUp, Resume, WriteLost, wireVars
<1>8. QED
  BY <1>2, <1>3, <1>4, <1>5, <1>6, <1>7, SteadyStep

\* While a start is under way the CSMS does not hold the transaction the charger
\* still remembers: either it has none, or it is resuming one that was closed.
Renewed == startPending => transactionID \notin sessions

LEMMA RenewedStep ==
  ASSUME Steady, TypeOK, SingleFlight, Granted, IdleInv, ClosedOnLoss, Renewed,
         [Next]_sessionVars
  PROVE  Renewed'
<1> USE DEF Renewed, linkVars, pendingVars, wireVars
<1>1. 0 \notin sessions
  BY TxAssumption DEF TypeOK, WireTypes
<1>2. CASE CanStart /\ DoStart
  BY <1>1, <1>2 DEF CanStart, DoStart, IdleInv, IdleHasNoTransaction
<1>3. CASE DoStop
  BY <1>1, <1>3 DEF DoStop
<1>4. CASE Aside
  BY <1>4 DEF Aside
<1>5. CASE LinkLost \/ LinkUp \/ MatchResult \/ AuthorizeAccepted
  <2>1. UNCHANGED <<transactionID, startPending>> /\ (UNCHANGED sessions \/ sessions' = {})
    BY <1>5 DEF LinkLost, LinkUp, MatchResult, AuthorizeAccepted
  <2>2. QED
    BY <2>1
<1>6. CASE Resume
  BY <1>6 DEF Resume, ClosedOnLoss
<1>7. CASE StartAccepted
  BY <1>7 DEF StartAccepted
<1>8. CASE Deliver
  BY <1>8 DEF Deliver, Fresh
<1>9. CASE WriteLost
  BY <1>9 DEF WriteLost
<1>10. QED
  BY <1>2, <1>3, <1>4, <1>5, <1>6, <1>7, <1>8, <1>9, SteadyStep DEF Steady

\* The frames of a session that sendCh holds at once.  Out of a start at most two
\* stops wait, one of them only once its session has ended; a call of the start
\* waits behind at most two stops, and at most one stop behind it.
Calls == {i \in DOMAIN sendCh : sendCh[i].call \in StartCalls}

Room ==
    /\ ~startPending => Len(sendCh) <= IF InSession THEN 1 ELSE 2
    /\ \A i \in Calls : i <= 3 /\ Len(sendCh) <= IF InSession THEN i ELSE i + 1
    /\ startPending /\ Calls = {} => Len(sendCh) <= IF InSession THEN 0 ELSE 1

\* Wherever the charger sends, there is room.
LEMMA RoomLeft ==
  ASSUME Steady, TypeOK, Room, Calls = {} \/ InSession
  PROVE  Len(sendCh) < SendCap
<1>1. Len(sendCh) \in Nat /\ SendCap \in Nat /\ SendCap >= 4
  BY CallsAssumption DEF Steady, TypeOK, WireTypes
<1>2. CASE Calls = {}
  BY <1>1, <1>2 DEF Room
<1>3. CASE InSession /\ Calls # {}
  <2>1. PICK i \in Calls : i <= 3 /\ Len(sendCh) <= i
    BY <1>3 DEF Room
  <2>2. i \in Nat
    BY DEF Calls, TypeOK, WireTypes
  <2>3. QED
    BY <1>1, <2>1, <2>2
<1>4. QED
  BY <1>2, <1>3

LEMMA NothingDropped ==
  ASSUME Steady, TypeOK, Room, Calls = {} \/ InSession,
         NEW f \in Frames, Send(f)
  PROVE  /\ sendCh' = Append(sendCh, f)
         /\ Len(sendCh') = Len(sendCh) + 1
         /\ \A i \in DOMAIN sendCh : i \in DOMAIN sendCh' /\ sendCh'[i] = sendCh[i]
         /\ Calls' = IF f.call \in StartCalls THEN Calls \union {Len(sendCh) + 1} ELSE Calls
<1>1. Len(sendCh) < SendCap
  BY RoomLeft
<1>2. sendCh' = Append(sendCh, f) /\ sendCh \in Seq(Frames)
  BY <1>1, CallsAssumption DEF Send, Steady, TypeOK, WireTypes
<1>3. /\ DOMAIN sendCh' = DOMAIN sendCh \union {Len(sendCh) + 1}
      /\ Len(sendCh) + 1 \notin DOMAIN sendCh
      /\ sendCh'[Len(sendCh) + 1] = f
      /\ \A i \in DOMAIN sendCh : sendCh'[i] = sendCh[i]
  BY <1>2
<1>4. Calls' = IF f.call \in StartCalls THEN Calls \union {Len(sendCh) + 1} ELSE Calls
  BY <1>3 DEF Calls
<1>5. QED
  BY <1>2, <1>3, <1>4, QueueAppend

\* Taking the first frame moves the others up.
LEMMA MovedUp ==
  ASSUME TypeOK, sendCh # <<>>, sendCh' = Tail(sendCh)
  PROVE  /\ Len(sendCh) \in Nat /\ Len(sendCh') = Len(sendCh) - 1
         /\ \A i \in DOMAIN sendCh : i # 1 => i - 1 \in DOMAIN sendCh' /\ sendCh'[i - 1] = sendCh[i]
         /\ \A i \in Calls' : i \in Nat /\ i + 1 \in Calls
         /\ 1 \in Calls <=> Head(sendCh).call \in StartCalls
<1>1. sendCh \in Seq(Frames)
  BY DEF TypeOK, WireTypes
<1>2. /\ Head(sendCh) = sendCh[1] /\ 1 \in DOMAIN sendCh
      /\ \A i \in DOMAIN sendCh' : i \in Nat /\ i + 1 \in DOMAIN sendCh /\ sendCh'[i] = sendCh[i + 1]
      /\ Len(sendCh) \in Nat /\ Len(sendCh') = Len(sendCh) - 1
      /\ \A i \in DOMAIN sendCh : i # 1 => i - 1 \in DOMAIN sendCh' /\ sendCh'[i - 1] = sendCh[i]
  BY <1>1
<1>3. QED
  BY <1>2 DEF Calls

LEMMA RoomStep ==
  ASSUME Steady, TypeOK, SingleFlight, Granted, Room, [Next]_sessionVars
  PROVE  Room'
<1> USE DEF linkVars, pendingVars, wireVars
<1>1. /\ Len(sendCh) \in Nat
      /\ \A i \in Calls : i \in Nat /\ 1 <= i /\ i <= Len(sendCh)
      /\ \A i, j \in Calls : i = j
      /\ ~startPending => Calls = {}
      /\ handling # Idle => startPending /\ Calls = {}
  <2>1. \A i \in DOMAIN sendCh : i \in Nat /\ 1 <= i /\ i <= Len(sendCh)
    BY DEF TypeOK, WireTypes
  <2>2. \A i \in Calls : PendingFor(sendCh[i].call)
    BY DEF Calls, SingleFlight
  <2>3. QED
    BY <2>1, <2>2 DEF TypeOK, WireTypes, SingleFlight, Calls, PendingFor
<1>2. Aside \/ LinkLost \/ LinkUp \/ MatchResult
         => UNCHANGED <<sendCh, startPending, Calls>> /\ InSession' = InSession
  BY DEF Aside, LinkLost, LinkUp, MatchResult, InSession, Calls
<1>3. CASE Aside \/ LinkLost \/ LinkUp \/ MatchResult
  BY <1>2, <1>3 DEF Room
<1>4. ASSUME NEW f \in Frames, f.call \in StartCalls, Send(f), Calls = {}, startPending',
             Len(sendCh) <= 2
      PROVE  Room'
  <2>1. Calls' = {Len(sendCh) + 1} /\ Len(sendCh') = Len(sendCh) + 1
    BY <1>4, NothingDropped
  <2>2. QED
    BY <1>1, <1>4, <2>1 DEF Room
<1>5. /\ [call |-> "Authorize", tx |-> 0] \in Frames
      /\ [call |-> "StartTransaction", tx |-> 0] \in Frames
      /\ [call |-> "StopTransaction", tx |-> transactionID] \in Frames
  BY DEF Frames, TypeOK, ChargerTypes
<1>6. CASE CanStart /\ DoStart
  <2>1. Calls = {} /\ Len(sendCh) <= 2 /\ startPending' /\ ~InSession'
    BY <1>1, <1>6 DEF CanStart, DoStart, setStatus, InSession, Room
  <2>2. QED
    BY <1>4, <1>5, <1>6, <2>1 DEF DoStart, sendAuthorize, StartCalls
<1>7. CASE CanStop /\ DoStop
  <2>1. InSession /\ ~InSession' /\ startPending' = startPending
    BY <1>7 DEF CanStop, DoStop, InSession
  <2>2. Send([call |-> "StopTransaction", tx |-> transactionID])
    BY <1>7 DEF DoStop
  <2>3. Len(sendCh') = Len(sendCh) + 1 /\ Calls' = Calls
    BY <1>5, <2>1, <2>2, NothingDropped DEF StartCalls
  <2>4. QED
    BY <1>1, <2>1, <2>3 DEF Room
<1>8. CASE Resume
  <2>1. InSession' = InSession
    BY <1>8 DEF Resume, InSession
  <2>2. CASE UNCHANGED <<startPending, sendCh>>
    BY <2>1, <2>2 DEF Room, Calls
  <2>3. CASE ~startPending /\ startPending' = TRUE /\ sendAuthorize
    <3>1. Calls = {} /\ Len(sendCh) <= 2
      BY <1>1, <2>3 DEF Room
    <3>2. QED
      BY <1>4, <1>5, <2>1, <2>3, <3>1 DEF sendAuthorize, StartCalls
  <2>4. QED
    BY <1>8, <2>2, <2>3 DEF Resume
<1>9. CASE AuthorizeAccepted
  <2>1. startPending /\ startPending' /\ Calls = {} /\ InSession' = InSession
    BY <1>1, <1>9 DEF AuthorizeAccepted, Idle, InSession
  <2>2. Len(sendCh) <= 2
    BY <1>1, <2>1 DEF Room
  <2>3. QED
    BY <1>4, <1>5, <1>9, <2>1, <2>2 DEF AuthorizeAccepted, sendStartTransaction, StartCalls
<1>10. CASE StartAccepted
  <2>1. startPending /\ Calls = {} /\ startPending' = FALSE /\ UNCHANGED <<sendCh, Calls>>
    BY <1>1, <1>10 DEF StartAccepted, Idle, Calls
  <2>2. InSession'
    BY <1>10 DEF StartAccepted, setStatus, InSession
  <2>3. QED
    BY <1>1, <2>1, <2>2 DEF Room
<1>11. CASE Deliver \/ WriteLost
  <2>1. sendCh # <<>> /\ sendCh' = Tail(sendCh) /\ UNCHANGED startPending /\ InSession' = InSession
    BY <1>11 DEF Deliver, WriteLost, InSession
  <2>2. Len(sendCh') = Len(sendCh) - 1 /\ \A i \in Calls' : i \in Nat /\ i + 1 \in Calls
    BY <2>1, MovedUp
  <2>3. startPending /\ Calls' = {} => Len(sendCh') <= IF InSession THEN 0 ELSE 1
    <3>1. CASE Calls = {}
      BY <1>1, <2>2, <3>1 DEF Room
    <3>2. CASE startPending /\ Calls' = {} /\ Calls # {}
      <4>1. PICK i \in Calls : TRUE
        BY <3>2
      <4>2. i = 1
        <5>1. i \in DOMAIN sendCh /\ i # 1 => i - 1 \in Calls'
          BY <2>1, MovedUp DEF Calls
        <5>2. QED
          BY <3>2, <4>1, <5>1 DEF Calls
      <4>3. QED
        BY <1>1, <2>2, <4>1, <4>2 DEF Room
    <3>3. QED
      BY <3>1, <3>2
  <2>4. QED
    BY <1>1, <2>1, <2>2, <2>3 DEF Room
<1>12. QED
  BY <1>3, <1>6, <1>7, <1>8, <1>9, <1>10, <1>11, SteadyStep DEF Steady

\* The transaction is kept track of, wherever it is by now.
Tracked(tx) ==
    \/ tx = transactionID
    \/ tx = handling.tx
    \/ \E i \in DOMAIN replies : replies[i].tx = tx
    \/ \E i \in DOMAIN sendCh : sendCh[i] = [call |-> "StopTransaction", tx |-> tx]

LEMMA OrphanIsUntracked == NoOrphanSession <=> \A tx \in sessions : Tracked(tx)
  BY DEF NoOrphanSession, Tracked

\* Sending leaves what is queued where it is.
LEMMA TrackedWhenSending ==
  ASSUME Steady, TypeOK, Room, Calls = {} \/ InSession, NEW f \in Frames, Send(f),
         UNCHANGED <<transactionID, handling, replies>>, NEW tx, Tracked(tx)
  PROVE  Tracked(tx)'
<1>1. \A i \in DOMAIN sendCh : i \in DOMAIN sendCh' /\ sendCh'[i] = sendCh[i]
  BY NothingDropped
<1>2. QED
  BY <1>1 DEF Tracked

\* So does taking a frame that is not the transaction's stop, and whatever is
\* answered to it.
LEMMA TrackedWhenTaken ==
  ASSUME TypeOK, sendCh # <<>>, sendCh' = Tail(sendCh), UNCHANGED <<transactionID, handling>>,
         \A i \in DOMAIN replies : i \in DOMAIN replies' /\ replies'[i] = replies[i],
         NEW tx, Tracked(tx), Head(sendCh) # [call |-> "StopTransaction", tx |-> tx]
  PROVE  Tracked(tx)'
<1>1. Head(sendCh) = sendCh[1]
  BY QueueTail DEF TypeOK, WireTypes
<1>2. CASE \E i \in DOMAIN sendCh : sendCh[i] = [call |-> "StopTransaction", tx |-> tx]
  <2>1. \E i \in DOMAIN sendCh' : sendCh'[i] = [call |-> "StopTransaction", tx |-> tx]
    BY <1>1, <1>2, MovedUp
  <2>2. QED
    BY <2>1 DEF Tracked
<1>3. QED
  BY <1>2 DEF Tracked

LEMMA NoOrphanStep ==
  ASSUME Steady, TypeOK, SingleFlight, Granted, Carried, ClosedOnLoss, Renewed, Room,
         NoOrphanSession, [Next]_sessionVars
  PROVE  NoOrphanSession'
<1> USE DEF linkVars, pendingVars, wireVars
<1> SUFFICES ASSUME NEW tx \in sessions' PROVE Tracked(tx)'
  BY DEF NoOrphanSession, Tracked
<1>1. \A t \in sessions : Tracked(t) /\ t # 0
  BY OrphanIsUntracked, TxAssumption DEF TypeOK, WireTypes
<1>2. /\ ~startPending => Calls = {}
      /\ handling # Idle => startPending /\ Calls = {}
  <2>1. \A i \in Calls : PendingFor(sendCh[i].call)
    BY DEF Calls, SingleFlight
  <2>2. QED
    BY <2>1 DEF SingleFlight, Calls, PendingFor
<1>3. /\ [call |-> "Authorize", tx |-> 0] \in Frames
      /\ [call |-> "StartTransaction", tx |-> 0] \in Frames
      /\ [call |-> "StopTransaction", tx |-> transactionID] \in Frames
  BY DEF Frames, TypeOK, ChargerTypes
<1>4. CASE Aside \/ LinkUp
  BY <1>1, <1>4 DEF Aside, LinkUp, Tracked
<1>5. CASE LinkLost
  BY <1>5 DEF LinkLost
<1>6. CASE CanStart /\ DoStart
  BY <1>1, <1>2, <1>3, <1>6, TrackedWhenSending DEF CanStart, DoStart, sendAuthorize
<1>7. CASE CanStop /\ DoStop
  <2> DEFINE stop == [call |-> "StopTransaction", tx |-> transactionID]
  <2>1. /\ sendCh' = Append(sendCh, stop) /\ Len(sendCh') = Len(sendCh) + 1
        /\ \A i \in DOMAIN sendCh : i \in DOMAIN sendCh' /\ sendCh'[i] = sendCh[i]
    BY <1>3, <1>7, NothingDropped DEF CanStop, DoStop
  <2>2. Len(sendCh) + 1 \in DOMAIN sendCh' /\ sendCh'[Len(sendCh) + 1] = stop
    BY <1>3, <2>1, QueueAppend DEF TypeOK, WireTypes
  <2>3. tx \in sessions /\ UNCHANGED <<handling, replies>>
    BY <1>7 DEF DoStop
  <2>4. CASE tx = transactionID
    BY <2>2, <2>4 DEF Tracked
  <2>5. CASE tx # transactionID
    BY <1>1, <2>1, <2>3, <2>5 DEF Tracked
  <2>6. QED
    BY <2>4, <2>5
<1>8. CASE Resume
  <2>1. tx \in sessions /\ UNCHANGED <<transactionID, handling, replies>>
    BY <1>8 DEF Resume
  <2>2. CASE UNCHANGED sendCh
    BY <1>1, <2>1, <2>2 DEF Tracked
  <2>3. CASE ~startPending /\ sendAuthorize
    BY <1>1, <1>2, <1>3, <2>1, <2>3, TrackedWhenSending DEF sendAuthorize
  <2>4. QED
    BY <1>8, <2>2, <2>3 DEF Resume
<1>9. CASE MatchResult
  <2>1. /\ tx \in sessions /\ handling = Idle /\ UNCHANGED <<transactionID, sendCh>>
        /\ replies # <<>> /\ replies' = Tail(replies) /\ replies \in Seq(Replies)
    BY <1>9 DEF MatchResult, ReaderFree, TypeOK, WireTypes
  <2>2. /\ 1 \in DOMAIN replies /\ Head(replies) = replies[1] /\ Head(replies) \in Replies
    BY <2>1, QueueTail
  <2>3. \A i \in DOMAIN replies : i = 1
    BY <2>1 DEF SingleFlight
  <2>4. CASE Head(replies).tx = tx
    <3>1. Head(replies).verdict # "Ignored" /\ Awaited(Head(replies))
      BY <1>1, <2>1, <2>2, <2>4
         DEF Carried, Given, SingleFlight, PendingFor, Awaited
    <3>2. handling' = Head(replies)
      BY <1>9, <3>1 DEF MatchResult
    <3>3. QED
      BY <2>4, <3>2 DEF Tracked
  <2>5. CASE Head(replies).tx # tx
    BY <1>1, <2>1, <2>2, <2>3, <2>5 DEF Tracked, Idle
  <2>6. QED
    BY <2>4, <2>5
<1>10. CASE AuthorizeAccepted
  <2>1. tx \in sessions /\ UNCHANGED <<transactionID, replies>> /\ handling # Idle
    BY <1>10 DEF AuthorizeAccepted, Idle
  <2>2. tx # handling.tx
    BY <1>1, <1>10, <2>1 DEF AuthorizeAccepted, Carried, Given
  <2>3. \A i \in DOMAIN sendCh : i \in DOMAIN sendCh' /\ sendCh'[i] = sendCh[i]
    BY <1>2, <1>3, <1>10, <2>1, NothingDropped DEF AuthorizeAccepted, sendStartTransaction
  <2>4. QED
    BY <1>1, <2>1, <2>2, <2>3 DEF Tracked
<1>11. CASE StartAccepted
  <2>1. /\ tx \in sessions /\ UNCHANGED <<replies, sendCh>> /\ handling # Idle
        /\ transactionID' = handling.tx
    BY <1>11 DEF StartAccepted, Idle
  <2>2. tx # transactionID
    BY <1>2, <2>1 DEF Renewed
  <2>3. QED
    BY <1>1, <2>1, <2>2 DEF Tracked
<1>12. CASE Deliver
  <2>1. /\ sendCh # <<>> /\ sendCh' = Tail(sendCh) /\ UNCHANGED <<transactionID, handling>>
        /\ replies \in Seq(Replies)
    BY <1>12 DEF Deliver, TypeOK, WireTypes
  <2>2. Head(sendCh) \in Frames
    BY <2>1, QueueTail DEF TypeOK, WireTypes
  <2>3. CASE /\ Head(sendCh).call = "StopTransaction"
             /\ sessions' = sessions \ {Head(sendCh).tx} /\ UNCHANGED replies
    <3>1. Tracked(tx) /\ Head(sendCh) # [call |-> "StopTransaction", tx |-> tx]
      BY <1>1, <2>3
    <3>2. QED
      BY <2>1, <2>3, <3>1, TrackedWhenTaken
  <2>4. ASSUME NEW v \in AllVerdicts, NEW t \in Tx \union {0}, Answer(Head(sendCh), v, t),
               tx \in sessions \/ tx = t
        PROVE  Tracked(tx)'
    <3> DEFINE answer == [call |-> Head(sendCh).call, verdict |-> v, tx |-> t]
    <3>1. answer \in Replies /\ answer.tx = t /\ replies' = Append(replies, answer)
      BY <2>2, <2>4 DEF Answer, Frames, Replies
    <3> HIDE DEF answer
    <3>2. /\ \A i \in DOMAIN replies : i \in DOMAIN replies' /\ replies'[i] = replies[i]
          /\ \E i \in DOMAIN replies' : replies'[i] = answer
      BY <2>1, <3>1
    <3>3. CASE tx = t
      BY <3>1, <3>2, <3>3 DEF Tracked
    <3>4. CASE tx \in sessions
      <4>1. Tracked(tx) /\ Head(sendCh) # [call |-> "StopTransaction", tx |-> tx]
        BY <1>1, <2>4, <3>4 DEF Answer
      <4>2. QED
        BY <2>1, <3>2, <4>1, TrackedWhenTaken
    <3>5. QED
      BY <2>4, <3>3, <3>4
  <2>5. QED
    BY <1>12, <2>3, <2>4 DEF Deliver, AllVerdicts
<1>13. CASE WriteLost
  BY <1>13 DEF WriteLost, ClosedOnLoss
<1>14. QED
  BY <1>4, <1>5, <1>6, <1>7, <1>8, <1>9, <1>10, <1>11, <1>12, <1>13, SteadyStep DEF Steady

OrphanInv == ClosedOnLoss /\ Carried /\ Renewed /\ Room /\ NoOrphanSession

LEMMA OrphanInvariant == Steady => (Spec => []OrphanInv)
<1> SUFFICES ASSUME Steady PROVE Spec => []OrphanInv
  OBVIOUS
<1>1. Init => OrphanInv
  BY DEF Init, OrphanInv, ClosedOnLoss, Carried, Given, Idle, Renewed, Room, Calls,
         InSession, NoOrphanSession
<1>2. TypeOK /\ SingleFlight /\ Granted /\ IdleInv /\ OrphanInv /\ [Next]_sessionVars
         => OrphanInv'
  BY ClosedStep, CarriedStep, RenewedStep, RoomStep, NoOrphanStep DEF OrphanInv, Steady
<1>3. Spec => []IdleInv
  BY IdleInvariant DEF Steady
<1>4. QED
  BY <1>1, <1>2, <1>3, TypeCorrect, SingleFlightHolds, GrantedHolds, PTL DEF Spec

\* Steady (nothing rejected, faulted or made unavailable, four places in sendCh that
\* no frame of others takes, and a run that reaches its resume block before a frame
\* is answered, which the code does not guarantee), no transaction is left open at
\* the CSMS: whatever is stopped, resumed or lost, the charger still holds its id,
\* is about to be told it, or its StopTransaction is on the way.
THEOREM NoOrphanHolds == Steady => (Spec => []NoOrphanSession)
<1> SUFFICES ASSUME Steady PROVE Spec => []NoOrphanSession
  OBVIOUS
<1>1. OrphanInv => NoOrphanSession
  BY DEF OrphanInv
<1>2. QED
  BY <1>1, OrphanInvariant, PTL
=============================================================================

------------------------ MODULE SessionContractProofs ------------------------
(***************************************************************************)
(* What SessionContract promises, and that ChargerSession keeps it.        *)
(***************************************************************************)
EXTENDS ChargerSessionProofs

-----------------------------------------------------------------------------
(* The promise of the contract *)

\* Who holds the transactions that are open, and when one is offered.
Held ==
    /\ sessions \subseteq {transactionID} \union Offered \union Ending
    /\ 0 \notin sessions
    /\ startPending \in BOOLEAN
    /\ startPending => transactionID \notin sessions
    /\ ~startPending => Offered = {}
    /\ \A s, t \in Offered : s = t

LEMMA HeldStep == Held /\ [Abstract!ContractNext]_(Abstract!contractVars) => Held'
<1> SUFFICES ASSUME Held, [Abstract!ContractNext]_(Abstract!contractVars) PROVE Held'
  OBVIOUS
<1> USE DEF Held
<1>1. CASE Abstract!Ask
  BY <1>1 DEF Abstract!Ask
<1>2. CASE Abstract!Offer
  BY <1>2 DEF Abstract!Offer
<1>3. CASE Abstract!Adopt
  BY <1>3 DEF Abstract!Adopt
<1>4. CASE Abstract!End
  BY <1>4 DEF Abstract!End
<1>5. CASE Abstract!Close
  BY <1>5 DEF Abstract!Close
<1>6. CASE Abstract!Lose
  BY <1>6 DEF Abstract!Lose
<1>7. CASE UNCHANGED Abstract!contractVars
  BY <1>7 DEF Abstract!contractVars
<1>8. QED
  BY <1>1, <1>2, <1>3, <1>4, <1>5, <1>6, <1>7 DEF Abstract!ContractNext

\* Whatever keeps the contract has at most one transaction of the charger open
\* that the charger has not stopped.
LEMMA ContractKeepsOne == Abstract!ContractSafety => []Abstract!OneSession
<1>1. Abstract!ContractInit => Held
  BY DEF Abstract!ContractInit, Held
<1>2. Held => Abstract!OneSession
  BY DEF Held, Abstract!OneSession
<1>3. QED
  BY <1>1, <1>2, HeldStep, PTL DEF Abstract!ContractSafety

-----------------------------------------------------------------------------
(* A transaction is in one place *)

\* The queued StopTransactions are of different transactions, and neither the
\* charger's nor one it is offered; what it is offered is not what it is in.
Distinct ==
    /\ transactionID \notin Offered
    /\ \A i \in DOMAIN sendCh :
          sendCh[i].tx # 0 => sendCh[i].tx # transactionID /\ sendCh[i].tx \notin Offered
    /\ \A i, j \in DOMAIN sendCh : sendCh[i].tx # 0 /\ sendCh[i].tx = sendCh[j].tx => i = j

\* A step that brings no transaction to a new place.
LEMMA DistinctKept ==
  ASSUME TypeOK, Distinct, Offered' \subseteq Offered,
         transactionID' = transactionID \/ transactionID' = 0,
         \/ sendCh' = sendCh
         \/ sendCh # <<>> /\ sendCh' = Tail(sendCh)
         \/ \E f \in Frames : f.tx = 0 /\ sendCh' = Append(sendCh, f)
  PROVE  Distinct'
<1> USE DEF Distinct
<1>1. 0 \notin Offered
  BY DEF Offered
<1>2. CASE sendCh' = sendCh
  BY <1>1, <1>2
<1>3. CASE sendCh # <<>> /\ sendCh' = Tail(sendCh)
  <2>1. \A i \in DOMAIN sendCh' :
           i \in Nat /\ i + 1 \in DOMAIN sendCh /\ sendCh'[i] = sendCh[i + 1]
    BY <1>3, QueueTail DEF TypeOK, WireTypes
  <2>2. QED
    BY <1>1, <2>1
<1>4. ASSUME NEW f \in Frames, f.tx = 0, sendCh' = Append(sendCh, f) PROVE Distinct'
  <2>1. \A i \in DOMAIN sendCh' :
           sendCh'[i].tx # 0 => i \in DOMAIN sendCh /\ sendCh'[i] = sendCh[i]
    BY <1>4, QueueAppend DEF TypeOK, WireTypes
  <2>2. QED
    BY <1>1, <2>1
<1>5. QED
  BY <1>2, <1>3, <1>4

\* A stop takes the transaction from the charger to sendCh.
LEMMA DistinctStop ==
  ASSUME Steady, TypeOK, Room, Distinct, CanStop, DoStop
  PROVE  /\ Distinct'
         /\ sendCh' = Append(sendCh, [call |-> "StopTransaction", tx |-> transactionID])
<1> DEFINE stop == [call |-> "StopTransaction", tx |-> transactionID]
<1>1. stop \in Frames /\ InSession /\ Send(stop)
  BY DEF TypeOK, ChargerTypes, Frames, CanStop, DoStop
<1>2. sendCh' = Append(sendCh, stop)
  BY <1>1, NothingDropped
<1>3. \A i \in DOMAIN sendCh' :
         sendCh'[i] = IF i = Len(sendCh) + 1 THEN stop ELSE sendCh[i]
  BY <1>1, <1>2, QueueAppend DEF TypeOK, WireTypes
<1>4. \A i \in DOMAIN sendCh' : i \in DOMAIN sendCh \/ i = Len(sendCh) + 1
  BY <1>1, <1>2, QueueAppend DEF TypeOK, WireTypes
<1>5. transactionID' = 0 /\ Offered' = Offered /\ 0 \notin Offered
  BY DEF DoStop, Offered
<1>6. QED
  BY <1>2, <1>3, <1>4, <1>5 DEF Distinct

-----------------------------------------------------------------------------
(* What is offered *)

\* An answer that is matched is still offered; one that is not offers nothing.
LEMMA OfferMatched ==
  ASSUME TypeOK, SingleFlight, Carried, MatchResult
  PROVE  Offered' = Offered
<1>1. /\ replies \in Seq(Replies) /\ replies # <<>> /\ replies' = Tail(replies)
      /\ handling = Idle
  BY DEF MatchResult, ReaderFree, TypeOK, WireTypes
<1>2. 1 \in DOMAIN replies /\ Head(replies) = replies[1] /\ Head(replies) \in Replies
  BY <1>1, QueueTail
<1>3. DOMAIN replies = {1} /\ DOMAIN replies' = {}
  <2>1. Len(replies) \in Nat /\ Len(replies) <= 1
    BY <1>1 DEF SingleFlight
  <2>2. \A i \in DOMAIN replies : i = 1
    BY <1>1, <2>1
  <2>3. \A i \in DOMAIN replies' : i \in Nat /\ i # 0 /\ i + 1 \in DOMAIN replies
    BY <1>1, QueueTail
  <2>4. \A i \in DOMAIN replies' : FALSE
    BY <2>2, <2>3
  <2>5. DOMAIN replies = {1}
    BY <1>2, <2>2
  <2>6. DOMAIN replies' = {}
    BY <2>4, Zenon
  <2>7. QED
    BY <2>5, <2>6
<1>4. CASE Head(replies).verdict # "Ignored"
  <2>1. Awaited(Head(replies))
    BY <1>2 DEF SingleFlight, PendingFor, Awaited, Replies
  <2>2. handling' = Head(replies)
    BY <1>4, <2>1 DEF MatchResult
  <2>3. QED
    BY <1>1, <1>2, <1>3, <2>2 DEF Offered, Idle
<1>5. CASE Head(replies).verdict = "Ignored"
  <2>1. handling' = handling
    BY <1>5 DEF MatchResult
  <2>2. Head(replies).tx = 0
    BY <1>2, <1>5 DEF Carried, Given
  <2>3. QED
    BY <1>1, <1>2, <1>3, <2>1, <2>2 DEF Offered, Idle
<1>6. QED
  BY <1>4, <1>5

\* Without an answer on its way or in the hands of readLoop nothing is offered.
LEMMA NothingOffered ==
  ASSUME handling = Idle \/ handling.tx = 0, replies = <<>>
  PROVE  Offered = {}
  BY DEF Offered, Idle

\* The answer to a start is all that is offered then.
LEMMA OfferAnswered ==
  ASSUME TypeOK, SingleFlight, sendCh # <<>>, NEW v \in AllVerdicts, NEW t \in Tx \union {0},
         Answer(Head(sendCh), v, t), UNCHANGED handling
  PROVE  /\ startPending /\ Offered = {}
         /\ Offered' = {t} \ {0}
<1> DEFINE answer == [call |-> Head(sendCh).call, verdict |-> v, tx |-> t]
<1>1. Head(sendCh) = sendCh[1] /\ 1 \in DOMAIN sendCh /\ Head(sendCh) \in Frames
  BY QueueTail DEF TypeOK, WireTypes
<1>2. Head(sendCh).call \in StartCalls
  BY <1>1 DEF Answer, Frames, StartCalls
<1>3. startPending /\ handling = Idle /\ replies = <<>>
  BY <1>1, <1>2 DEF SingleFlight, PendingFor
<1>4. answer \in {answer} /\ replies' = Append(<<>>, answer) /\ answer.tx = t
  BY <1>3 DEF Answer
<1> HIDE DEF answer
<1>5. DOMAIN replies' = {1} /\ replies'[1] = answer
  BY <1>4
<1>6. QED
  BY <1>3, <1>4, <1>5, NothingOffered DEF Offered, Idle

-----------------------------------------------------------------------------
(* What is ending *)

LEMMA EndingQueued ==
  ASSUME TypeOK, NEW f \in Frames, sendCh' = Append(sendCh, f)
  PROVE  Ending' = IF f.call = "StopTransaction" THEN Ending \union ({f.tx} \ {0}) ELSE Ending
<1>1. /\ \A i \in DOMAIN sendCh : i \in DOMAIN sendCh' /\ sendCh'[i] = sendCh[i]
      /\ Len(sendCh) + 1 \in DOMAIN sendCh' /\ sendCh'[Len(sendCh) + 1] = f
      /\ \A i \in DOMAIN sendCh' : i \in DOMAIN sendCh \/ i = Len(sendCh) + 1
  BY QueueAppend DEF TypeOK, WireTypes
<1>2. f.tx \in Tx \union {0} /\ 0 \notin Tx
  BY TxAssumption DEF Frames
<1>3. f.call = "StopTransaction" => f = [call |-> "StopTransaction", tx |-> f.tx]
  BY DEF Frames
<1>4. QED
  BY <1>1, <1>2, <1>3 DEF Ending

LEMMA EndingTaken ==
  ASSUME TypeOK, Distinct, sendCh # <<>>, sendCh' = Tail(sendCh)
  PROVE  /\ Head(sendCh).call # "StopTransaction" \/ Head(sendCh).tx = 0 => Ending' = Ending
         /\ Head(sendCh).call = "StopTransaction" /\ Head(sendCh).tx # 0 =>
               Head(sendCh).tx \in Ending /\ Ending' = Ending \ {Head(sendCh).tx}
<1> DEFINE h == Head(sendCh)
<1>1. /\ h = sendCh[1] /\ h \in Frames /\ 1 \in DOMAIN sendCh
      /\ \A i \in DOMAIN sendCh' :
            i \in Nat /\ i + 1 \in DOMAIN sendCh /\ sendCh'[i] = sendCh[i + 1]
  BY QueueTail DEF TypeOK, WireTypes
<1>2. \A i \in DOMAIN sendCh : i # 1 => i - 1 \in DOMAIN sendCh' /\ sendCh'[i - 1] = sendCh[i]
  BY MovedUp
<1>3. 0 \notin Tx /\ h.tx \in Tx \union {0}
  BY <1>1, TxAssumption DEF Frames
<1> HIDE DEF h
<1>4. ASSUME NEW t \in Tx
      PROVE  t \in Ending' <=> t \in Ending /\ h # [call |-> "StopTransaction", tx |-> t]
  <2> DEFINE stop == [call |-> "StopTransaction", tx |-> t]
  <2>1. stop.tx = t
    OBVIOUS
  <2> HIDE DEF stop
  <2>2. ASSUME NEW i \in DOMAIN sendCh', sendCh'[i] = stop PROVE h # stop
    <3>1. i + 1 # 1 /\ i + 1 \in DOMAIN sendCh /\ sendCh[i + 1].tx = t /\ t # 0
      BY <1>1, <1>3, <2>1, <2>2
    <3>2. QED
      BY <1>1, <2>1, <3>1 DEF Distinct
  <2>3. ASSUME NEW i \in DOMAIN sendCh', sendCh'[i] = stop
        PROVE  \E j \in DOMAIN sendCh : sendCh[j] = stop
    BY <1>1, <2>3
  <2>4. ASSUME NEW i \in DOMAIN sendCh, sendCh[i] = stop, h # stop
        PROVE  \E j \in DOMAIN sendCh' : sendCh'[j] = stop
    BY <1>1, <1>2, <2>4
  <2>5. QED
    BY <2>2, <2>3, <2>4 DEF Ending, stop
<1>5. Ending \subseteq Tx /\ Ending' \subseteq Tx
  BY DEF Ending
<1>6. CASE h.call # "StopTransaction" \/ h.tx = 0
  <2>1. \A t \in Tx : h # [call |-> "StopTransaction", tx |-> t]
    BY <1>3, <1>6
  <2>2. QED
    BY <1>4, <1>5, <1>6, <2>1 DEF h
<1>7. CASE h.call = "StopTransaction" /\ h.tx # 0
  <2>1. h = [call |-> "StopTransaction", tx |-> h.tx] /\ h.tx \in Tx
    BY <1>1, <1>3, <1>7 DEF Frames
  <2>2. h.tx \in Ending
    BY <1>1, <2>1 DEF Ending
  <2>3. \A t \in Tx : h = [call |-> "StopTransaction", tx |-> t] <=> t = h.tx
    BY <2>1
  <2>4. QED
    BY <1>4, <1>5, <1>7, <2>2, <2>3 DEF h
<1>8. QED
  BY <1>6, <1>7

-----------------------------------------------------------------------------
(* The refinement *)

\* A call of the exchange is no stop.
LEMMA CallSent ==
  ASSUME TypeOK, Distinct, NEW call \in StartCalls, Send([call |-> call, tx |-> 0]),
         Offered' \subseteq Offered, transactionID' = transactionID
  PROVE  Distinct' /\ Ending' = Ending
<1> DEFINE frame == [call |-> call, tx |-> 0]
<1>1. frame \in Frames /\ frame.tx = 0 /\ frame.call # "StopTransaction"
  BY DEF Frames, StartCalls
<1>2. sendCh' = sendCh \/ sendCh' = Append(sendCh, frame)
  BY DEF Send
<1> HIDE DEF frame
<1>3. QED
  BY <1>1, <1>2, DistinctKept, EndingQueued DEF Ending

\* What a frame that is taken and not answered does: a stop is closed.
LEMMA StopTaken ==
  ASSUME TypeOK, Distinct, 0 \notin sessions, sendCh # <<>>, sendCh' = Tail(sendCh),
         UNCHANGED <<transactionID, startPending, handling, replies>>,
         sessions' = IF Head(sendCh).call = "StopTransaction"
                     THEN sessions \ {Head(sendCh).tx} ELSE sessions
  PROVE  Distinct' /\ [Abstract!ContractNext]_(Abstract!contractVars)
<1>1. Offered' = Offered
  BY DEF Offered
<1>2. Distinct'
  BY <1>1, DistinctKept
<1>3. CASE Head(sendCh).call = "StopTransaction" /\ Head(sendCh).tx # 0
  BY <1>1, <1>2, <1>3, EndingTaken DEF Abstract!ContractNext, Abstract!Close
<1>4. CASE Head(sendCh).call # "StopTransaction" \/ Head(sendCh).tx = 0
  <2>1. Ending' = Ending /\ sessions' = sessions
    BY <1>4, EndingTaken
  <2>2. QED
    BY <1>1, <1>2, <2>1 DEF Abstract!contractVars
<1>5. QED
  BY <1>3, <1>4

\* What holds of the session besides, from the theorems above.
SessionInv ==
    /\ TypeOK /\ SingleFlight /\ Granted
    /\ IdleInv /\ ChargingHasTransaction /\ OrphanInv

\* Every step of the exchange is one of the contract, or none, and moves a
\* transaction to one place.
LEMMA ContractStep ==
  ASSUME Steady, SessionInv, Distinct, [Next]_sessionVars
  PROVE  Distinct' /\ [Abstract!ContractNext]_(Abstract!contractVars)
<1> USE DEF SessionInv, OrphanInv, linkVars, pendingVars, wireVars
<1>1. 0 \notin sessions /\ 0 \notin Tx
  BY TxAssumption DEF TypeOK, WireTypes
<1>2. UNCHANGED <<replies, handling>> => Offered' = Offered
  BY DEF Offered
<1>3. CASE CanStart /\ DoStart
  <2>1. transactionID = 0 /\ ~startPending
    BY <1>3 DEF CanStart, IdleInv, IdleHasNoTransaction
  <2>2. UNCHANGED <<transactionID, sessions, replies, handling>> /\ startPending' /\ startPending' = TRUE
    BY <1>3 DEF DoStart
  <2>3. Distinct' /\ Ending' = Ending
    BY <1>2, <1>3, <2>2, CallSent DEF DoStart, sendAuthorize, StartCalls
  <2>4. QED
    BY <1>1, <1>2, <2>1, <2>2, <2>3 DEF Abstract!ContractNext, Abstract!Ask
<1>4. CASE CanStop /\ DoStop
  <2>1. /\ transactionID # 0 /\ transactionID' = 0
        /\ UNCHANGED <<startPending, sessions, replies, handling>>
    BY <1>4 DEF CanStop, DoStop, ChargingHasTransaction
  <2>2. /\ Distinct'
        /\ sendCh' = Append(sendCh, [call |-> "StopTransaction", tx |-> transactionID])
    BY <1>4, DistinctStop
  <2>3. [call |-> "StopTransaction", tx |-> transactionID] \in Frames
    BY DEF TypeOK, ChargerTypes, Frames
  <2>4. Ending' = Ending \union {transactionID}
    BY <2>1, <2>2, <2>3, EndingQueued
  <2>5. QED
    BY <1>2, <2>1, <2>2, <2>4 DEF Abstract!ContractNext, Abstract!End
<1>5. CASE Aside \/ LinkUp
  <2>1. UNCHANGED <<transactionID, startPending, wireVars>>
    BY <1>5 DEF Aside, LinkUp
  <2>2. Ending' = Ending /\ Distinct'
    BY <1>2, <2>1, DistinctKept DEF Ending
  <2>3. QED
    BY <1>2, <2>1, <2>2 DEF Abstract!contractVars
<1>6. CASE LinkLost
  <2>1. /\ UNCHANGED <<transactionID, startPending, sendCh, handling>>
        /\ sessions' = {} /\ replies' = <<>>
    BY <1>6 DEF LinkLost
  <2>2. Offered' \subseteq Offered
    BY <2>1 DEF Offered
  <2>3. Ending' = Ending /\ Distinct'
    BY <2>1, <2>2, DistinctKept DEF Ending
  <2>4. QED
    BY <2>1, <2>2, <2>3 DEF Abstract!ContractNext, Abstract!Lose
<1>7. CASE Resume
  <2>1. UNCHANGED <<transactionID, sessions, replies, handling>> /\ sessions = {}
    BY <1>7 DEF Resume, ClosedOnLoss
  <2>2. CASE UNCHANGED <<startPending, sendCh>>
    <3>1. Ending' = Ending /\ Distinct'
      BY <1>2, <2>1, <2>2, DistinctKept DEF Ending
    <3>2. QED
      BY <1>2, <2>1, <2>2, <3>1 DEF Abstract!contractVars
  <2>3. CASE ~startPending /\ startPending' = TRUE /\ sendAuthorize
    <3>1. Ending' = Ending /\ Distinct'
      BY <1>2, <2>1, <2>3, CallSent DEF sendAuthorize, StartCalls
    <3>2. QED
      BY <1>2, <2>1, <2>3, <3>1 DEF Abstract!ContractNext, Abstract!Ask
  <2>4. QED
    BY <1>7, <2>2, <2>3 DEF Resume
<1>8. CASE MatchResult
  <2>1. UNCHANGED <<transactionID, startPending, sendCh, sessions>>
    BY <1>8 DEF MatchResult
  <2>2. Offered' = Offered
    BY <1>8, OfferMatched
  <2>3. Ending' = Ending /\ Distinct'
    BY <2>1, <2>2, DistinctKept DEF Ending
  <2>4. QED
    BY <2>1, <2>2, <2>3 DEF Abstract!contractVars
<1>9. CASE AuthorizeAccepted
  <2>1. UNCHANGED <<transactionID, startPending, sessions, replies>> /\ handling' = Idle
    BY <1>9 DEF AuthorizeAccepted
  <2>2. handling.tx = 0
    BY <1>9 DEF AuthorizeAccepted, Carried, Given
  <2>3. Offered' = Offered
    BY <2>1, <2>2 DEF Offered, Idle
  <2>4. Ending' = Ending /\ Distinct'
    BY <1>9, <2>1, <2>3, CallSent DEF AuthorizeAccepted, sendStartTransaction, StartCalls
  <2>5. QED
    BY <2>1, <2>3, <2>4 DEF Abstract!contractVars
<1>10. CASE StartAccepted
  <2>1. /\ UNCHANGED <<sendCh, sessions, replies>> /\ transactionID' = handling.tx
        /\ startPending' = FALSE /\ handling' = Idle /\ handling # Idle
    BY <1>10 DEF StartAccepted, Idle
  <2>2. handling.tx # 0
    BY <1>10, <2>1 DEF StartAccepted, Granted, Honest
  <2>3. startPending /\ replies = <<>>
    BY <2>1, NothingOutstanding DEF SingleFlight
  <2>4. handling.tx \in Offered /\ Offered' = {}
    BY <2>1, <2>2, <2>3, NothingOffered DEF Offered, Idle
  <2>5. Ending' = Ending
    BY <2>1 DEF Ending
  <2>6. Distinct'
    BY <2>1, <2>4 DEF Distinct
  <2>7. QED
    BY <2>1, <2>3, <2>4, <2>5, <2>6 DEF Abstract!ContractNext, Abstract!Adopt
<1>11. CASE Deliver
  <2>1. /\ sendCh # <<>> /\ sendCh' = Tail(sendCh)
        /\ UNCHANGED <<transactionID, startPending, handling>>
    BY <1>11 DEF Deliver
  <2>2. CASE /\ Head(sendCh).call = "StopTransaction"
             /\ sessions' = sessions \ {Head(sendCh).tx} /\ UNCHANGED replies
    BY <1>1, <2>1, <2>2, StopTaken
  <2>3. ASSUME NEW t \in Tx, Fresh(t), Answer(Head(sendCh), "Accepted", t),
               sessions' = sessions \union {t}
        PROVE  Distinct' /\ Abstract!Offer
    <3>1. /\ startPending /\ Offered = {} /\ Offered' = {t}
      BY <1>1, <2>1, <2>3, OfferAnswered DEF AllVerdicts
    <3>2. Ending' = Ending
      BY <2>1, <2>3, EndingTaken DEF Answer
    <3>3. t \notin sessions \union Ending \union {transactionID, 0}
      BY <1>1, <2>3 DEF Fresh, Ending
    <3>4. \A i \in DOMAIN sendCh' :
             i \in Nat /\ i + 1 \in DOMAIN sendCh /\ sendCh'[i] = sendCh[i + 1]
      BY <2>1, QueueTail DEF TypeOK, WireTypes
    <3>5. Distinct'
      BY <2>1, <2>3, <3>1, <3>3, <3>4 DEF Distinct, Fresh
    <3>6. QED
      BY <2>1, <2>3, <3>1, <3>2, <3>3, <3>5 DEF Abstract!Offer
  <2>4. ASSUME NEW v \in AllVerdicts, Answer(Head(sendCh), v, 0), UNCHANGED sessions
        PROVE  Distinct' /\ UNCHANGED Abstract!contractVars
    <3>1. Offered' = Offered
      BY <2>1, <2>4, OfferAnswered
    <3>2. Ending' = Ending
      BY <2>1, <2>4, EndingTaken DEF Answer
    <3>3. Distinct'
      BY <2>1, <3>1, DistinctKept
    <3>4. QED
      BY <2>1, <2>4, <3>1, <3>2, <3>3 DEF Abstract!contractVars
  <2>5. QED
    BY <1>11, <2>2, <2>3, <2>4 DEF Deliver, Abstract!ContractNext
<1>12. CASE WriteLost
  <2>1. /\ sendCh # <<>> /\ sendCh' = Tail(sendCh) /\ sessions = {} /\ sessions' = {}
        /\ UNCHANGED <<transactionID, startPending, handling, replies>>
    BY <1>12 DEF WriteLost, ClosedOnLoss
  <2>2. QED
    BY <1>1, <2>1, StopTaken
<1>13. QED
  BY <1>3, <1>4, <1>5, <1>6, <1>7, <1>8, <1>9, <1>10, <1>11, <1>12, SteadyStep DEF Steady

LEMMA SessionInvariant == Steady => (Spec => []SessionInv)
<1> SUFFICES ASSUME Steady PROVE Spec => []SessionInv
  OBVIOUS
<1>1. Spec => []IdleInv
  BY IdleInvariant DEF Steady
<1>2. Spec => []ChargingHasTransaction
  BY ChargingHasTransactionHolds DEF Steady, Undisturbed
<1>3. Spec => []OrphanInv
  BY OrphanInvariant
<1>4. TypeOK /\ SingleFlight /\ Granted /\ IdleInv /\ ChargingHasTransaction /\ OrphanInv
         => SessionInv
  BY DEF SessionInv
<1>5. QED
  BY <1>1, <1>2, <1>3, <1>4, TypeCorrect, SingleFlightHolds, GrantedHolds, PTL

\* Steady, that is, without faults, rejections, changes of availability and limits
\* outside a session, with four places in sendCh that no frame of others takes, and
\* with a run that reaches its resume block before a frame is answered (which the
\* code does not guarantee): the frames, queues and handlers of a session implement
\* SessionContract, step by step, however often the link is lost.
THEOREM ImplementsContractSafety == Steady => (Spec => Abstract!ContractSafety)
<1> SUFFICES ASSUME Steady PROVE Spec => Abstract!ContractSafety
  OBVIOUS
<1>1. Init => Abstract!ContractInit /\ Distinct
  BY DEF Init, Abstract!ContractInit, Offered, Ending, Distinct, Idle
<1>2. SessionInv /\ Distinct /\ [Next]_sessionVars
         => Distinct' /\ [Abstract!ContractNext]_(Abstract!contractVars)
  BY ContractStep
<1>3. Spec => []SessionInv
  BY SessionInvariant
<1>4. QED
  BY <1>1, <1>2, <1>3, PTL DEF Spec, Abstract!ContractSafety

\* Steady as above, the CSMS never has two transactions of the
\* charger open that the charger has not stopped: without the prompt resume a start
\* accepted before line 488 of run is taken for a charge to resume, and a second
\* transaction is opened beside the first.
THEOREM OneSessionHolds == Steady => (Spec => []OneSession)
<1>1. Steady => (Spec => Abstract!ContractSafety)
  BY ImplementsContractSafety
<1>2. Abstract!OneSession => OneSession
  BY DEF OneSession
<1>3. QED
  BY <1>1, <1>2, ContractKeepsOne, PTL
=============================================================================

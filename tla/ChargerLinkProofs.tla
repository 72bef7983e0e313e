-------------------------- MODULE ChargerLinkProofs --------------------------
(***************************************************************************)
(* Proofs about ChargerLink for any set of connections, any operations and *)
(* any bounds.  The second half is about a patient operator (ChargerLink,  *)
(* Settled) of a CSMS that sends no Reset: there the link implements       *)
(* LinkContract.                                                           *)
(***************************************************************************)
EXTENDS ChargerLink, TLAPS

-----------------------------------------------------------------------------
(* Every operator: types *)

LEMMA TypeInit == Init => TypeOK
<1> SUFFICES ASSUME Init PROVE TypeOK
  OBVIOUS
<1> USE DEF Init
<1>1. StateTypes
  BY BackoffAssumption DEF StateTypes, States
<1>2. FlagTypes
  BY DEF FlagTypes
<1>3. TaskTypes
  BY DEF TaskTypes
<1>4. ConnTypes
  BY DEF ConnTypes
<1>5. QED
  BY <1>1, <1>2, <1>3, <1>4 DEF TypeOK

LEMMA StateTypeStep == TypeOK /\ [Next]_linkVars => StateTypes'
<1> SUFFICES ASSUME TypeOK, [Next]_linkVars PROVE StateTypes'
  OBVIOUS
<1> USE BackoffAssumption DEF TypeOK, StateTypes, States, stateVars, taskVars, connVars
<1>1. CASE Connect
  BY <1>1 DEF Connect, BeginConnect, Busy
<1>2. CASE Disconnect
  BY <1>2 DEF Disconnect, disconnectLocked, Release
<1>3. CASE ResetDisconnect
  BY <1>3 DEF ResetDisconnect, disconnectLocked, Release
<1>4. CASE ResetConnect
  BY <1>4 DEF ResetConnect, BeginConnect, Busy
<1>5. CASE DialFail
  BY <1>5 DEF DialFail
<1>6. CASE RetryPlan
  BY <1>6 DEF RetryPlan
<1>7. CASE RetryDial
  BY <1>7 DEF RetryDial
<1>8. CASE RetryGivesUp \/ CsmsCrash \/ CsmsRestart
  BY <1>8 DEF RetryGivesUp, CsmsCrash, CsmsRestart
<1>9. ASSUME NEW k \in Conns,
             \/ DialOk(k) \/ LoopsStop(k) \/ ReaderTop(k) \/ ReaderGrab(k)
             \/ ReaderMessage(k) \/ ReaderErrorManual(k) \/ ReaderErrorAuto(k) \/ PeerDrop(k)
      PROVE  StateTypes'
  <2>1. CASE DialOk(k)
    BY <2>1 DEF DialOk
  <2>2. CASE ReaderErrorAuto(k)
    BY <2>2 DEF ReaderErrorAuto, ReadFails, Release
  <2>3. CASE LoopsStop(k) \/ ReaderTop(k) \/ ReaderGrab(k) \/ ReaderMessage(k) \/ ReaderErrorManual(k) \/ PeerDrop(k)
    BY <2>3 DEF LoopsStop, ReaderTop, ReaderGrab, ReaderMessage, ReaderErrorManual,
           ReadFails, PeerDrop
  <2>4. QED
    BY <1>9, <2>1, <2>2, <2>3
<1>10. CASE UNCHANGED linkVars
  BY <1>10 DEF linkVars
<1>11. QED
  BY <1>1, <1>2, <1>3, <1>4, <1>5, <1>6, <1>7, <1>8, <1>9, <1>10 DEF Next

LEMMA FlagTypeStep == TypeOK /\ [Next]_linkVars => FlagTypes'
<1> SUFFICES ASSUME TypeOK, [Next]_linkVars PROVE FlagTypes'
  OBVIOUS
<1> USE DEF TypeOK, FlagTypes, stateVars, taskVars, connVars
<1>1. CASE Connect
  BY <1>1 DEF Connect, BeginConnect, Busy
<1>2. CASE Disconnect
  BY <1>2 DEF Disconnect, disconnectLocked, Release
<1>3. CASE ResetDisconnect
  BY <1>3 DEF ResetDisconnect, disconnectLocked, Release
<1>4. CASE ResetConnect
  BY <1>4 DEF ResetConnect, BeginConnect, Busy
<1>5. CASE DialFail \/ RetryPlan \/ RetryDial \/ RetryGivesUp \/ CsmsCrash \/ CsmsRestart
  BY <1>5 DEF DialFail, RetryPlan, RetryDial, RetryGivesUp, CsmsCrash, CsmsRestart
<1>6. ASSUME NEW k \in Conns,
             \/ DialOk(k) \/ LoopsStop(k) \/ ReaderTop(k) \/ ReaderGrab(k)
             \/ ReaderMessage(k) \/ ReaderErrorManual(k) \/ ReaderErrorAuto(k) \/ PeerDrop(k)
      PROVE  FlagTypes'
  <2>1. CASE DialOk(k) \/ LoopsStop(k) \/ ReaderTop(k) \/ ReaderGrab(k) \/ ReaderMessage(k) \/ ReaderErrorManual(k) \/ ReaderErrorAuto(k) \/ PeerDrop(k)
    BY <2>1 DEF DialOk, LoopsStop, ReaderTop, ReaderGrab, ReaderMessage,
           ReaderErrorManual, ReadFails, ReaderErrorAuto, Release, PeerDrop
  <2>2. QED
    BY <1>6, <2>1
<1>7. CASE UNCHANGED linkVars
  BY <1>7 DEF linkVars
<1>8. QED
  BY <1>1, <1>2, <1>3, <1>4, <1>5, <1>6, <1>7 DEF Next

LEMMA TaskTypeStep == TypeOK /\ [Next]_linkVars => TaskTypes'
<1> SUFFICES ASSUME TypeOK, [Next]_linkVars PROVE TaskTypes'
  OBVIOUS
<1> USE DEF TypeOK, TaskTypes, stateVars, taskVars, connVars
<1>1. CASE Connect
  BY <1>1 DEF Connect, BeginConnect, Busy
<1>2. CASE ResetDisconnect
  BY <1>2 DEF ResetDisconnect, disconnectLocked, Release
<1>3. CASE ResetConnect
  BY <1>3 DEF ResetConnect, BeginConnect, Busy
<1>4. CASE DialFail
  BY <1>4 DEF DialFail
<1>5. CASE RetryPlan
  BY <1>5 DEF RetryPlan
<1>6. CASE RetryDial
  BY <1>6 DEF RetryDial
<1>7. CASE RetryGivesUp
  BY <1>7 DEF RetryGivesUp
<1>8. CASE Disconnect \/ CsmsCrash \/ CsmsRestart
  BY <1>8 DEF Disconnect, disconnectLocked, Release, CsmsCrash, CsmsRestart
<1>9. ASSUME NEW k \in Conns,
             \/ DialOk(k) \/ LoopsStop(k) \/ ReaderTop(k) \/ ReaderGrab(k)
             \/ ReaderMessage(k) \/ ReaderErrorManual(k) \/ ReaderErrorAuto(k) \/ PeerDrop(k)
      PROVE  TaskTypes'
  <2>1. CASE DialOk(k)
    BY <2>1 DEF DialOk
  <2>2. CASE ReaderMessage(k)
    BY <2>2 DEF ReaderMessage
  <2>3. CASE ReaderErrorAuto(k)
    BY <2>3 DEF ReaderErrorAuto, ReadFails, Release
  <2>4. CASE LoopsStop(k) \/ ReaderTop(k) \/ ReaderGrab(k) \/ ReaderErrorManual(k) \/ PeerDrop(k)
    BY <2>4 DEF LoopsStop, ReaderTop, ReaderGrab, ReaderErrorManual, ReadFails, PeerDrop
  <2>5. QED
    BY <1>9, <2>1, <2>2, <2>3, <2>4
<1>10. CASE UNCHANGED linkVars
  BY <1>10 DEF linkVars
<1>11. QED
  BY <1>1, <1>2, <1>3, <1>4, <1>5, <1>6, <1>7, <1>8, <1>9, <1>10 DEF Next

LEMMA ConnTypeStep == TypeOK /\ [Next]_linkVars => ConnTypes'
<1> SUFFICES ASSUME TypeOK, [Next]_linkVars PROVE ConnTypes'
  OBVIOUS
<1> USE DEF TypeOK, ConnTypes, StateTypes, stateVars, taskVars, connVars
<1>1. CASE Disconnect
  BY <1>1 DEF Disconnect, disconnectLocked, Release
<1>2. CASE ResetDisconnect
  BY <1>2 DEF ResetDisconnect, disconnectLocked, Release
<1>3. CASE CsmsCrash
  BY <1>3 DEF CsmsCrash
<1>4. CASE Connect \/ ResetConnect \/ DialFail \/ RetryPlan \/ RetryDial \/ RetryGivesUp \/ CsmsRestart
  BY <1>4 DEF Connect, BeginConnect, Busy, ResetConnect, DialFail, RetryPlan,
         RetryDial, RetryGivesUp, CsmsRestart
<1>5. ASSUME NEW k \in Conns,
             \/ DialOk(k) \/ LoopsStop(k) \/ ReaderTop(k) \/ ReaderGrab(k)
             \/ ReaderMessage(k) \/ ReaderErrorManual(k) \/ ReaderErrorAuto(k) \/ PeerDrop(k)
      PROVE  ConnTypes'
  <2>1. CASE DialOk(k)
    BY <2>1 DEF DialOk
  <2>2. CASE LoopsStop(k)
    BY <2>2 DEF LoopsStop
  <2>3. CASE ReaderTop(k)
    BY <2>3 DEF ReaderTop
  <2>4. CASE ReaderGrab(k)
    BY <2>4 DEF ReaderGrab
  <2>5. CASE ReaderMessage(k)
    BY <2>5 DEF ReaderMessage
  <2>6. CASE ReaderErrorManual(k)
    BY <2>6 DEF ReaderErrorManual, ReadFails
  <2>7. CASE ReaderErrorAuto(k)
    BY <2>7 DEF ReaderErrorAuto, ReadFails, Release
  <2>8. CASE PeerDrop(k)
    BY <2>8 DEF PeerDrop
  <2>9. QED
    BY <1>5, <2>1, <2>2, <2>3, <2>4, <2>5, <2>6, <2>7, <2>8
<1>6. CASE UNCHANGED linkVars
  BY <1>6 DEF linkVars
<1>7. QED
  BY <1>1, <1>2, <1>3, <1>4, <1>5, <1>6 DEF Next

\* The variables of the link keep their types; in particular the backoff never
\* passes its cap (scheduleReconnect, lines 222 to 226).
THEOREM TypeCorrect == Spec => []TypeOK
<1>1. TypeOK /\ [Next]_linkVars => TypeOK'
  BY StateTypeStep, FlagTypeStep, TaskTypeStep, ConnTypeStep DEF TypeOK
<1>2. QED
  BY <1>1, TypeInit, PTL DEF Spec

\* No dial starts while a manual disconnect is in force.
THEOREM NoRedial == Spec => ManualStopNoRedial
<1>1. TypeOK /\ [Next]_linkVars => [manualStop /\ manualStop' => dials' <= dials]_linkVars
  <2> SUFFICES ASSUME TypeOK, [Next]_linkVars, manualStop, manualStop'
               PROVE  dials' <= dials
    OBVIOUS
  <2> USE DEF TypeOK, TaskTypes, stateVars, taskVars, connVars
  <2>1. CASE Connect \/ ResetConnect
    BY <2>1 DEF Connect, ResetConnect, BeginConnect, Busy
  <2>2. CASE RetryDial \/ RetryGivesUp \/ RetryPlan
    BY <2>2 DEF RetryDial, RetryGivesUp, RetryPlan
  <2>3. CASE DialFail \/ \E k \in Conns : DialOk(k)
    BY <2>3 DEF DialFail, DialOk
  <2>4. CASE Disconnect \/ ResetDisconnect
    BY <2>4 DEF Disconnect, ResetDisconnect
  <2>5. CASE CsmsCrash \/ CsmsRestart \/ \E k \in Conns :
               LoopsStop(k) \/ ReaderTop(k) \/ ReaderGrab(k) \/ PeerDrop(k)
    BY <2>5 DEF CsmsCrash, CsmsRestart, LoopsStop, ReaderTop, ReaderGrab, PeerDrop
  <2>6. CASE \E k \in Conns : ReaderMessage(k) \/ ReaderErrorManual(k) \/ ReaderErrorAuto(k)
    BY <2>6 DEF ReaderMessage, ReaderErrorManual, ReaderErrorAuto
  <2>7. CASE UNCHANGED linkVars
    BY <2>7 DEF linkVars
  <2>8. QED
    BY <2>1, <2>2, <2>3, <2>4, <2>5, <2>6, <2>7 DEF Next
<1>2. QED
  BY <1>1, TypeCorrect, PTL DEF Spec, ManualStopNoRedial

-----------------------------------------------------------------------------
(* Every operator: the link is usable while held and never wedged *)

LinkInv == TypeOK /\ NeverWedged /\ ConnUsable /\ NoOrphanLoops

LEMMA LinkInvInit == Init => LinkInv
  BY TypeInit DEF Init, LinkInv, NeverWedged, ConnUsable, NoOrphanLoops

\* The connection held is usable, and no loop outlives it: both follow from the
\* fact that Release closes everything at once.
LEMMA ConnStep ==
  LinkInv /\ [Next]_linkVars => ConnUsable' /\ NoOrphanLoops'
<1> SUFFICES ASSUME LinkInv, [Next]_linkVars PROVE ConnUsable' /\ NoOrphanLoops'
  OBVIOUS
<1> USE ConnsAssumption
    DEF LinkInv, TypeOK, StateTypes, ConnTypes, ConnUsable, NoOrphanLoops,
        stateVars, taskVars, connVars
<1>1. CASE Connect \/ ResetConnect
  BY <1>1 DEF Connect, ResetConnect, BeginConnect, Busy
<1>2. CASE Disconnect \/ ResetDisconnect
  BY <1>2 DEF Disconnect, ResetDisconnect, disconnectLocked, Release
<1>3. CASE DialFail \/ RetryPlan \/ RetryDial \/ RetryGivesUp
  BY <1>3 DEF DialFail, RetryPlan, RetryDial, RetryGivesUp
<1>4. CASE CsmsCrash \/ CsmsRestart
  BY <1>4 DEF CsmsCrash, CsmsRestart
<1>5. ASSUME NEW k \in Conns,
             \/ DialOk(k) \/ LoopsStop(k) \/ ReaderTop(k) \/ ReaderGrab(k)
             \/ ReaderMessage(k) \/ ReaderErrorManual(k) \/ ReaderErrorAuto(k) \/ PeerDrop(k)
      PROVE  ConnUsable' /\ NoOrphanLoops'
  <2>1. CASE DialOk(k)
    BY <2>1 DEF DialOk
  <2>2. CASE PeerDrop(k)
    BY <2>2 DEF PeerDrop
  <2>3. CASE ReaderErrorAuto(k)
    BY <2>3 DEF ReaderErrorAuto, Release
  <2>4. CASE LoopsStop(k) \/ ReaderTop(k) \/ ReaderGrab(k) \/ ReaderMessage(k)
             \/ ReaderErrorManual(k)
    BY <2>4 DEF LoopsStop, ReaderTop, ReaderGrab, ReaderMessage, ReaderErrorManual
  <2>5. QED
    BY <1>5, <2>1, <2>2, <2>3, <2>4
<1>6. CASE UNCHANGED linkVars
  BY <1>6 DEF linkVars
<1>7. QED
  BY <1>1, <1>2, <1>3, <1>4, <1>5, <1>6 DEF Next

\* Every state that waits for a goroutine has that goroutine.
LEMMA WedgeStep == LinkInv /\ [Next]_linkVars => NeverWedged'
<1> SUFFICES ASSUME LinkInv, [Next]_linkVars PROVE NeverWedged'
  OBVIOUS
<1> USE ConnsAssumption
    DEF LinkInv, TypeOK, StateTypes, TaskTypes, ConnTypes, NeverWedged, ReaderAlive,
        ConnUsable, stateVars, taskVars, connVars
<1>1. CASE Connect \/ ResetConnect
  BY <1>1 DEF Connect, ResetConnect, BeginConnect, Busy
<1>2. CASE Disconnect \/ ResetDisconnect
  BY <1>2 DEF Disconnect, ResetDisconnect, disconnectLocked
<1>3. CASE DialFail
  BY <1>3 DEF DialFail
<1>4. CASE RetryPlan \/ RetryDial \/ RetryGivesUp
  BY <1>4 DEF RetryPlan, RetryDial, RetryGivesUp, Busy
<1>5. CASE CsmsCrash \/ CsmsRestart
  BY <1>5 DEF CsmsCrash, CsmsRestart
<1>6. ASSUME NEW k \in Conns,
             \/ DialOk(k) \/ LoopsStop(k) \/ ReaderTop(k) \/ ReaderGrab(k)
             \/ ReaderMessage(k) \/ ReaderErrorManual(k) \/ ReaderErrorAuto(k) \/ PeerDrop(k)
      PROVE  NeverWedged'
  <2>1. CASE DialOk(k)
    BY <2>1 DEF DialOk
  <2>2. CASE ReaderTop(k)
    BY <2>2 DEF ReaderTop
  <2>3. CASE ReaderGrab(k)
    BY <2>3 DEF ReaderGrab
  <2>4. CASE ReaderMessage(k)
    BY <2>4 DEF ReaderMessage
  <2>5. CASE ReaderErrorManual(k) \/ ReaderErrorAuto(k)
    BY <2>5 DEF ReaderErrorManual, ReaderErrorAuto, ReadFails
  <2>6. CASE LoopsStop(k) \/ PeerDrop(k)
    BY <2>6 DEF LoopsStop, PeerDrop
  <2>7. QED
    BY <1>6, <2>1, <2>2, <2>3, <2>4, <2>5, <2>6
<1>7. CASE UNCHANGED linkVars
  BY <1>7 DEF linkVars
<1>8. QED
  BY <1>1, <1>2, <1>3, <1>4, <1>5, <1>6, <1>7 DEF Next

LEMMA LinkInvariant == Spec => []LinkInv
<1>1. LinkInv /\ [Next]_linkVars => LinkInv'
  BY StateTypeStep, FlagTypeStep, TaskTypeStep, ConnTypeStep, ConnStep, WedgeStep
     DEF LinkInv, TypeOK
<1>2. QED
  BY <1>1, LinkInvInit, PTL DEF Spec

\* Whatever the operator, the CSMS and the network do, an attempt in progress
\* has its dial, an error its retry and a connection its reader.
THEOREM NeverWedgedHolds == Spec => []NeverWedged
<1>1. LinkInv => NeverWedged
  BY DEF LinkInv
<1>2. QED
  BY <1>1, LinkInvariant, PTL

\* The connection the senders use is never one the charger closed.
THEOREM ConnUsableHolds == Spec => []ConnUsable
<1>1. LinkInv => ConnUsable
  BY DEF LinkInv
<1>2. QED
  BY <1>1, LinkInvariant, PTL

\* With no connection held, all earlier loops have been told to stop.
THEOREM NoOrphanLoopsHolds == Spec => []NoOrphanLoops
<1>1. LinkInv => NoOrphanLoops
  BY DEF LinkInv
<1>2. QED
  BY <1>1, LinkInvariant, PTL

-----------------------------------------------------------------------------
(* A patient operator, no Reset *)

PatientOperator == Patient /\ "Reset" \notin Operations

\* The state of the link says how many dials run and whether a connection is
\* held, and no Reset goroutine exists.
StateTells ==
    /\ resetStarting = 0
    /\ resetAsleep = 0
    /\ dials = IF connectionState = "connecting" THEN 1 ELSE 0
    /\ connectionState = "connected" <=> conn # NoConn
    /\ manualStop => connectionState = "disconnected"
    /\ connectionState = "disconnected" /\ ~manualStop => retryStarting + retryAsleep = 0

\* Only the held connection is open, and the reader of another one is about to
\* find the manual stop.
OnlyHeldOpen ==
    /\ \A k \in Conns : socket[k] # "closed" \/ stopOpen[k] => k = conn
    /\ \A k \in Conns : reader[k] # "off" /\ k # conn => manualStop
    /\ \A k \in Conns : reading[k] # NoConn => reading[k] = k

PatientInv == LinkInv /\ StateTells /\ OnlyHeldOpen

LEMMA PatientInit == PatientOperator /\ Init => PatientInv
  BY LinkInvInit DEF Init, PatientInv, StateTells, OnlyHeldOpen

LEMMA StateTellsStep ==
  PatientOperator /\ PatientInv /\ [Next]_linkVars => StateTells'
<1> SUFFICES ASSUME PatientOperator, PatientInv, [Next]_linkVars PROVE StateTells'
  OBVIOUS
<1> USE ConnsAssumption
    DEF PatientOperator, PatientInv, LinkInv, TypeOK, StateTypes, TaskTypes, ConnTypes,
        ConnUsable, StateTells, OnlyHeldOpen, stateVars, taskVars, connVars
<1>1. CASE Connect
  BY <1>1 DEF Connect, BeginConnect, Busy
<1>2. CASE Disconnect
  BY <1>2 DEF Disconnect, disconnectLocked, Release
<1>3. CASE ResetDisconnect \/ ResetConnect
  BY <1>3 DEF ResetDisconnect, ResetConnect
<1>4. CASE DialFail
  BY <1>4 DEF DialFail
<1>5. CASE RetryPlan \/ RetryDial \/ RetryGivesUp
  BY <1>5 DEF RetryPlan, RetryDial, RetryGivesUp, Busy
<1>6. CASE CsmsCrash \/ CsmsRestart
  BY <1>6 DEF CsmsCrash, CsmsRestart
<1>7. ASSUME NEW k \in Conns,
             \/ DialOk(k) \/ LoopsStop(k) \/ ReaderTop(k) \/ ReaderGrab(k)
             \/ ReaderMessage(k) \/ ReaderErrorManual(k) \/ ReaderErrorAuto(k) \/ PeerDrop(k)
      PROVE  StateTells'
  <2>1. CASE DialOk(k)
    BY <2>1 DEF DialOk
  <2>2. CASE LoopsStop(k) \/ PeerDrop(k)
    BY <2>2 DEF LoopsStop, PeerDrop
  <2>3. CASE ReaderTop(k) \/ ReaderGrab(k)
    BY <2>3 DEF ReaderTop, ReaderGrab
  <2>4. CASE ReaderMessage(k)
    BY <2>4 DEF ReaderMessage
  <2>5. CASE ReaderErrorManual(k)
    BY <2>5 DEF ReaderErrorManual, ReadFails
  <2>6. CASE ReaderErrorAuto(k)
    BY <2>6 DEF ReaderErrorAuto, ReadFails, Release
  <2>7. QED
    BY <1>7, <2>1, <2>2, <2>3, <2>4, <2>5, <2>6
<1>8. CASE UNCHANGED linkVars
  BY <1>8 DEF linkVars
<1>9. QED
  BY <1>1, <1>2, <1>3, <1>4, <1>5, <1>6, <1>7, <1>8 DEF Next

LEMMA OnlyHeldOpenStep ==
  PatientOperator /\ PatientInv /\ [Next]_linkVars => OnlyHeldOpen'
<1> SUFFICES ASSUME PatientOperator, PatientInv, [Next]_linkVars PROVE OnlyHeldOpen'
  OBVIOUS
<1> USE ConnsAssumption
    DEF PatientOperator, PatientInv, LinkInv, TypeOK, StateTypes, TaskTypes, ConnTypes,
        ConnUsable, StateTells, OnlyHeldOpen, stateVars, taskVars, connVars, Settled
<1>1. CASE Connect
  BY <1>1 DEF Connect, BeginConnect, Busy
<1>2. CASE Disconnect
  BY <1>2 DEF Disconnect, disconnectLocked, Release
<1>3. CASE ResetDisconnect \/ ResetConnect
  BY <1>3 DEF ResetDisconnect, ResetConnect
<1>4. CASE DialFail
  BY <1>4 DEF DialFail
<1>5. CASE RetryPlan \/ RetryDial \/ RetryGivesUp
  BY <1>5 DEF RetryPlan, RetryDial, RetryGivesUp, Busy
<1>6. CASE CsmsCrash \/ CsmsRestart
  BY <1>6 DEF CsmsCrash, CsmsRestart
<1>7. ASSUME NEW k \in Conns,
             \/ DialOk(k) \/ LoopsStop(k) \/ ReaderTop(k) \/ ReaderGrab(k)
             \/ ReaderMessage(k) \/ ReaderErrorManual(k) \/ ReaderErrorAuto(k) \/ PeerDrop(k)
      PROVE  OnlyHeldOpen'
  <2>1. CASE DialOk(k)
    BY <2>1 DEF DialOk
  <2>2. CASE LoopsStop(k) \/ PeerDrop(k)
    BY <2>2 DEF LoopsStop, PeerDrop
  <2>3. CASE ReaderTop(k) \/ ReaderGrab(k)
    BY <2>3 DEF ReaderTop, ReaderGrab
  <2>4. CASE ReaderMessage(k)
    BY <2>4 DEF ReaderMessage
  <2>5. CASE ReaderErrorManual(k)
    BY <2>5 DEF ReaderErrorManual, ReadFails
  <2>6. CASE ReaderErrorAuto(k)
    BY <2>6 DEF ReaderErrorAuto, ReadFails, Release
  <2>7. QED
    BY <1>7, <2>1, <2>2, <2>3, <2>4, <2>5, <2>6
<1>8. CASE UNCHANGED linkVars
  BY <1>8 DEF linkVars
<1>9. QED
  BY <1>1, <1>2, <1>3, <1>4, <1>5, <1>6, <1>7, <1>8 DEF Next

LEMMA PatientInvariant == PatientOperator => (Spec => []PatientInv)
<1> SUFFICES ASSUME PatientOperator PROVE Spec => []PatientInv
  OBVIOUS
<1>1. Init => PatientInv
  BY PatientInit
<1>2. PatientInv /\ [Next]_linkVars => PatientInv'
  BY StateTypeStep, FlagTypeStep, TaskTypeStep, ConnTypeStep, ConnStep, WedgeStep,
     StateTellsStep, OnlyHeldOpenStep DEF PatientInv, LinkInv, TypeOK
<1>3. QED
  BY <1>1, <1>2, PTL DEF Spec

\* One attempt or one connection at a time, whose loops are the only ones that
\* may run on.
THEOREM OneConnectionHolds == PatientOperator => (Spec => []OneConnection)
<1> SUFFICES ASSUME PatientOperator PROVE Spec => []OneConnection
  OBVIOUS
<1>1. PatientInv => OneConnection
  BY ConnsAssumption DEF PatientInv, StateTells, OnlyHeldOpen, OneConnection
<1>2. Spec => []PatientInv
  BY PatientInvariant
<1>3. QED
  BY <1>1, <1>2, PTL

\* The charger stays disconnected as long as a manual stop is in force.
THEOREM ManualStopSticksHolds == PatientOperator => (Spec => []ManualStopSticks)
<1> SUFFICES ASSUME PatientOperator PROVE Spec => []ManualStopSticks
  OBVIOUS
<1>1. PatientInv => ManualStopSticks
  BY DEF PatientInv, StateTells, ManualStopSticks
<1>2. Spec => []PatientInv
  BY PatientInvariant
<1>3. QED
  BY <1>1, <1>2, PTL

LEMMA ContractStep ==
  PatientOperator /\ PatientInv /\ [Next]_linkVars
      => [Abstract!ContractNext]_(Abstract!contractVars)
<1> SUFFICES ASSUME PatientOperator, PatientInv, [Next]_linkVars
             PROVE  [Abstract!ContractNext]_(Abstract!contractVars)
  OBVIOUS
<1> USE ConnsAssumption
    DEF PatientOperator, PatientInv, LinkInv, TypeOK, StateTypes, TaskTypes, ConnTypes,
        StateTells, OnlyHeldOpen, stateVars, taskVars, connVars,
        Abstract!ContractNext, Abstract!contractVars
<1>1. CASE Connect
  <2>1. connectionState \in {"disconnected", "error"} /\ connectionState' = "connecting"
    BY <1>1 DEF Connect, BeginConnect, Busy, States
  <2>2. (~manualStop)' = TRUE
    BY <1>1, Zenon DEF Connect, BeginConnect
  <2>3. UNCHANGED (conn # NoConn)
    BY <1>1 DEF Connect, BeginConnect
  <2>4. Abstract!Open
    BY <2>1, <2>2, <2>3 DEF Abstract!Open
  <2>5. QED
    BY <2>4
<1>2. CASE Disconnect
  BY <1>2 DEF Disconnect, disconnectLocked, Release, Abstract!Close
<1>3. CASE ResetDisconnect \/ ResetConnect
  BY <1>3 DEF ResetDisconnect, ResetConnect
<1>4. CASE DialFail
  BY <1>4 DEF DialFail, Abstract!Fail
<1>5. CASE RetryDial
  BY <1>5 DEF RetryDial, Busy, Abstract!Retry, States
<1>6. CASE RetryPlan \/ RetryGivesUp \/ CsmsCrash \/ CsmsRestart
  BY <1>6 DEF RetryPlan, RetryGivesUp, CsmsCrash, CsmsRestart
<1>7. ASSUME NEW k \in Conns,
             \/ DialOk(k) \/ LoopsStop(k) \/ ReaderTop(k) \/ ReaderGrab(k)
             \/ ReaderMessage(k) \/ ReaderErrorManual(k) \/ ReaderErrorAuto(k) \/ PeerDrop(k)
      PROVE  [Abstract!ContractNext]_(Abstract!contractVars)
  <2>1. CASE DialOk(k)
    BY <2>1 DEF DialOk, Abstract!Succeed
  <2>2. CASE ReaderErrorAuto(k)
    BY <2>2 DEF ReaderErrorAuto, ReadFails, Release, ConnUsable, Abstract!Lose
  <2>3. CASE LoopsStop(k) \/ ReaderTop(k) \/ ReaderGrab(k) \/ ReaderMessage(k)
             \/ ReaderErrorManual(k) \/ PeerDrop(k)
    BY <2>3 DEF LoopsStop, ReaderTop, ReaderGrab, ReaderMessage, ReaderErrorManual, PeerDrop
  <2>4. QED
    BY <1>7, <2>1, <2>2, <2>3
<1>8. CASE UNCHANGED linkVars
  BY <1>8 DEF linkVars
<1>9. QED
  BY <1>1, <1>2, <1>3, <1>4, <1>5, <1>6, <1>7, <1>8 DEF Next

\* The detailed link implements the safety part of LinkContract, step by step.
THEOREM ImplementsContractSafety == PatientOperator => (Spec => Abstract!ContractSafety)
<1> SUFFICES ASSUME PatientOperator PROVE Spec => Abstract!ContractSafety
  OBVIOUS
<1>1. Init => Abstract!ContractInit
  BY DEF Init, Abstract!ContractInit
<1>2. PatientInv /\ [Next]_linkVars => [Abstract!ContractNext]_(Abstract!contractVars)
  BY ContractStep
<1>3. Spec => []PatientInv
  BY PatientInvariant
<1>4. QED
  BY <1>1, <1>2, <1>3, PTL DEF Spec, Abstract!ContractSafety
=============================================================================

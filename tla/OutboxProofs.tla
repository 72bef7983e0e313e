---------------------------- MODULE OutboxProofs ----------------------------
(***************************************************************************)
(* Proofs about Outbox for any capacity of sendCh, any calls of the CSMS   *)
(* and any number of connections.                                          *)
(***************************************************************************)
EXTENDS Outbox, OcppFrameProofs

-----------------------------------------------------------------------------
(* The frames *)

Reports == {StatusNotification(s) : s \in AllStatuses}

\* The answers to the call with this id.
AnswersTo(i) ==
    {CallResultFrame(i, Object(v)) : v \in Verdicts}
        \union {CallErrorFrame(i, "FormationViolation", "", Nil)}

KnownFrames == {BootNotification, Other} \union Reports \union UNION {AnswersTo(i) : i \in Ids}

\* A set of frames as they are sent.
Wired(F) == {Marshal(f) : f \in F}

\* The calls of the CSMS that a message with this id can be.
Asking(i) == {Array(m, i) : m \in Messages \ NoCalls}

\* What handleMessage takes for a call.
IsCall(a) == WellFormed(a) /\ Unmarshal(a).MessageTypeID = Call

Arrays == {Array(m, i) : m \in Messages, i \in Ids}

\* The part of TypeOK that says nothing of frames.
PlainTypes ==
    /\ link \in {"down", "up"} /\ opened \in 0..MaxConnections
    /\ run \in {"boot", "read", "report", "resume", "loop"}
    /\ seen \in AllStatuses
    /\ writer \in [Connections -> {"off", "on", "stopping"}]
    /\ status \in AllStatuses /\ changes \in 0..MaxChanges
    /\ Len(sendCh) <= SendCap
    /\ registered \in BOOLEAN /\ noRoom \in BOOLEAN
    /\ shown \in AllStatuses \union {"unknown"}
    /\ asked \subseteq Ids /\ answers \in [Ids -> Nat]

\* Only known frames are sent, and only messages of the CSMS are read.
FrameTypes ==
    /\ outgoing \in Seq(KnownFrames)
    /\ sendCh \in Seq(Wired(KnownFrames))
    /\ held \in [Connections -> Wired(KnownFrames) \union {Nil}]
    /\ handling \in Arrays \union {Nil}
    /\ inbox = <<>> \/ \E a \in Arrays : inbox = <<a>>

Types == PlainTypes /\ FrameTypes

\* The writeLoop of conn runs; another one that is left has been told to stop,
\* and one that has ended holds nothing.
Writers ==
    /\ link = "up" => opened \in Connections /\ writer[opened] = "on"
    /\ \A c \in Connections : writer[c] = "on" => link = "up" /\ c = opened
    /\ \A c \in Connections : writer[c] = "off" => held[c] = Nil

-----------------------------------------------------------------------------
(* Where answers are *)

\* Where members of S are in the sequence.
At(q, S) == {k \in DOMAIN q : q[k] \in S}

InQueue(i) == At(sendCh, Wired(AnswersTo(i)))
InHand(i) == {c \in Connections : held[c] \in Wired(AnswersTo(i))}
Due(i) == At(outgoing, AnswersTo(i))
Reading(i) == handling \in Asking(i)
Unread(i) == \E a \in Asking(i) : inbox = <<a>>

AtMostOne(S) == \A x, y \in S : x = y

\* Where the answer to a call may be: the call is not read, or being handled, or
\* its answer waits for c.mu, or in sendCh, or for the connection.  It is in one
\* place at most.
OnePlace(i) ==
    /\ Unread(i) => ~Reading(i) /\ Due(i) = {} /\ InQueue(i) = {} /\ InHand(i) = {}
    /\ Reading(i) => Due(i) = {} /\ InQueue(i) = {} /\ InHand(i) = {}
    /\ Due(i) # {} => InQueue(i) = {} /\ InHand(i) = {}
    /\ InQueue(i) # {} => InHand(i) = {}
    /\ AtMostOne(Due(i)) /\ AtMostOne(InQueue(i)) /\ AtMostOne(InHand(i))

Underway(i) == Unread(i) \/ Reading(i) \/ Due(i) # {} \/ InQueue(i) # {} \/ InHand(i) # {}

\* An answer that is underway is the first, and is one to a call; a call whose
\* answer is nowhere has got it, or has lost it.
Accounted(i) ==
    /\ OnePlace(i)
    /\ Underway(i) => i \in asked /\ answers[i] = 0
    /\ answers[i] <= IF i \in asked THEN 1 ELSE 0
    /\ i \in asked => answers[i] = 1 \/ i \in lost \/ (Underway(i) /\ link = "up")

AnswerInv == \A i \in Ids : Accounted(i)

-----------------------------------------------------------------------------
(* Where the reports are *)

\* Once run has sent it, BootNotification waits to be written, unless it has
\* reached the CSMS or was dropped.

Booted ==
    \/ registered \/ noRoom
    \/ At(sendCh, {Marshal(BootNotification)}) # {}
    \/ \E c \in Connections : held[c] = Marshal(BootNotification)

BootInv == link = "up" /\ run # "boot" => Booted

\* A member of S in the sequence is followed by no member of S but is in T.
LastIn(q, S, T) == \E k \in DOMAIN q : q[k] \in T /\ \A j \in DOMAIN q : j > k => q[j] \notin S
NoneIn(q, S) == \A k \in DOMAIN q : q[k] \notin S

\* The report that is true now.
Current == {StatusNotification(status)}

\* What the method that holds c.mu has still to report is the status; only Stop
\* will set another one.
ToReport ==
    \/ NoneIn(outgoing, Reports)
    \/ LastIn(outgoing, Reports, Current) /\ NoneIn(outgoing, Reports \ Current)
    \/ outgoing \in {StopFrames, Tail(StopFrames)}

\* The last report on its way is true, or there is none and the CSMS shows the
\* status; a writeLoop that was told to stop may hold another report.
Shown ==
    \/ ~NoneIn(outgoing, Reports)
    \/ LastIn(sendCh, Wired(Reports), Wired(Current))
    \/ /\ NoneIn(sendCh, Wired(Reports))
       /\ \/ \E c \in Connections : writer[c] = "stopping" /\ held[c] \in Wired(Reports)
          \/ held[opened] \in Wired(Current)
          \/ held[opened] \notin Wired(Reports) /\ shown = status

ReportInv ==
    /\ ToReport
    /\ link = "up" /\ run \in {"resume", "loop"} /\ excuse = "none" => Shown
LEMMA Texts == Ids \subseteq Strings /\ FrameTexts \subseteq Strings /\ "" \in Strings
  BY OutboxAssumption, NilAssumption

LEMMA ObjectValue == ASSUME NEW o \in FrameObjects PROVE Object(o) \in Values
  BY OutboxAssumption DEF Object, Values

LEMMA StringValue == ASSUME NEW s \in Strings PROVE String(s) \in Values
  BY DEF String, Values

LEMMA NumberValue ==
  /\ Number(Call) \in Values /\ Number(CallResult) \in Values /\ Number(CallError) \in Values
  /\ Number(1) \in Values /\ Number(5) \in Values
  BY DEF Number, Values, Call, CallResult, CallError

LEMMA TwoAndOne ==
  ASSUME NEW S, NEW a \in S, NEW b \in S, NEW c \in S, NEW t, t = <<a, b>> \o <<c>>
  PROVE  t \in Seq(S) /\ Len(t) = 3
  OBVIOUS

LEMMA TwoAndTwo ==
  ASSUME NEW S, NEW a \in S, NEW b \in S, NEW c \in S, NEW d \in S, NEW t,
         t = <<a, b>> \o <<c, d>>
  PROVE  t \in Seq(S) /\ Len(t) = 4
  OBVIOUS

LEMMA TwoAndThree ==
  ASSUME NEW S, NEW a \in S, NEW b \in S, NEW c \in S, NEW d \in S, NEW e \in S, NEW t,
         t = <<a, b>> \o <<c, d, e>>
  PROVE  t \in Seq(S) /\ Len(t) = 5
  OBVIOUS

LEMMA ResultMarshalled ==
  ASSUME NEW f, f.MessageTypeID = CallResult
  PROVE  Marshal(f) = <<Number(CallResult), String(f.UniqueID)>> \o <<OrNull(f.Payload)>>
  BY DEF Marshal, Call, CallResult, CallError

LEMMA ErrorMarshalled ==
  ASSUME NEW f, f.MessageTypeID = CallError
  PROVE  Marshal(f) = <<Number(CallError), String(f.UniqueID)>>
             \o <<String(f.ErrorCode), String(f.ErrorDescription), OrNull(f.ErrorDetails)>>
  BY DEF Marshal, Call, CallResult, CallError

\* A call goes out as four values and comes back as it was.
LEMMA CallWired ==
  ASSUME NEW id \in Strings, NEW action \in Strings, NEW payload \in Values
  PROVE  LET f == CallFrame(id, action, payload)
         IN  /\ WellFormed(Marshal(f)) /\ Unmarshal(Marshal(f)) = f
             /\ Marshal(f) # Nil /\ Len(Marshal(f)) = 4
             /\ f.MessageTypeID = Call /\ f.UniqueID = id
             /\ f.Action = action /\ f.Payload = payload
<1> DEFINE f == CallFrame(id, action, payload)
<1>1. /\ f.MessageTypeID = Call /\ f.UniqueID = id /\ f.Action = action /\ f.Payload = payload
  BY DEF CallFrame, Frame
<1>2. OrNull(payload) = payload
  BY NilAssumption DEF OrNull
<1>3. Marshal(f) = <<Number(Call), String(id)>> \o <<String(action), payload>>
  BY <1>1, <1>2 DEF Marshal, Call, CallResult, CallError
<1>4. Number(Call) \in Values /\ String(id) \in Values /\ String(action) \in Values
  BY NumberValue, StringValue DEF Call
<1> HIDE DEF f
<1>5. Marshal(f) \in Seq(Values) /\ Len(Marshal(f)) = 4
  BY <1>3, <1>4, TwoAndTwo
<1>6. WellFormed(Marshal(f)) /\ Unmarshal(Marshal(f)) = f
  BY CallRoundTrip DEF f
<1> QED
  BY <1>1, <1>5, <1>6, OutboxAssumption DEF f

\* So does a result, as three values, and an error without details, as five.
LEMMA ResultWired ==
  ASSUME NEW id \in Strings, NEW payload \in Values
  PROVE  LET f == CallResultFrame(id, payload)
         IN  /\ WellFormed(Marshal(f)) /\ Unmarshal(Marshal(f)) = f
             /\ Marshal(f) # Nil /\ Len(Marshal(f)) = 3
             /\ f.MessageTypeID # Call /\ f.UniqueID = id /\ ~IsBoot(f) /\ ~IsStatus(f)
<1> DEFINE f == CallResultFrame(id, payload)
<1>1. /\ f.MessageTypeID = CallResult /\ f.UniqueID = id /\ f.Payload = payload
      /\ ~IsBoot(f) /\ ~IsStatus(f)
  BY DEF CallResultFrame, Frame, IsBoot, IsStatus
<1>2. OrNull(payload) = payload
  BY NilAssumption DEF OrNull
<1>3. Number(CallResult) \in Values /\ String(id) \in Values
  BY NumberValue, StringValue
<1> HIDE DEF f
<1>4. Marshal(f) = <<Number(CallResult), String(id)>> \o <<payload>>
  BY <1>1, <1>2, ResultMarshalled
<1>5. Marshal(f) \in Seq(Values) /\ Len(Marshal(f)) = 3
  BY <1>3, <1>4, TwoAndOne
<1>6. WellFormed(Marshal(f)) /\ Unmarshal(Marshal(f)) = f
  BY ResultRoundTrip DEF f
<1>7. f.MessageTypeID # Call
  BY <1>1 DEF Call, CallResult
<1> QED
  BY <1>1, <1>5, <1>6, <1>7, OutboxAssumption DEF f

LEMMA ErrorWired ==
  ASSUME NEW id \in Strings
  PROVE  LET f == CallErrorFrame(id, "FormationViolation", "", Nil)
         IN  /\ WellFormed(Marshal(f)) /\ Unmarshal(Marshal(f)) = f
             /\ Marshal(f) # Nil /\ Len(Marshal(f)) = 5
             /\ f.MessageTypeID # Call /\ f.UniqueID = id /\ ~IsBoot(f) /\ ~IsStatus(f)
<1> DEFINE f == CallErrorFrame(id, "FormationViolation", "", Nil)
<1>1. /\ f.MessageTypeID = CallError /\ f.UniqueID = id
      /\ f.ErrorCode = "FormationViolation" /\ f.ErrorDescription = "" /\ f.ErrorDetails = Nil
      /\ ~IsBoot(f) /\ ~IsStatus(f)
  BY DEF CallErrorFrame, Frame, IsBoot, IsStatus
<1>2. "FormationViolation" \in Strings /\ "" \in Strings
  BY Texts DEF FrameTexts
<1>3. /\ Number(CallError) \in Values /\ String(id) \in Values
      /\ String("FormationViolation") \in Values /\ String("") \in Values /\ Null \in Values
  BY <1>2, NumberValue, StringValue DEF Values
<1> HIDE DEF f
<1>4. Marshal(f) = <<Number(CallError), String(id)>>
                      \o <<String("FormationViolation"), String(""), Null>>
  BY <1>1, ErrorMarshalled DEF OrNull
<1>5. Marshal(f) \in Seq(Values) /\ Len(Marshal(f)) = 5
  <2> DEFINE a == Number(CallError)
             b == String(id)
             c == String("FormationViolation")
             d == String("")
             raw == Marshal(f)
  <2>1. /\ a \in Values /\ b \in Values /\ c \in Values /\ d \in Values /\ Null \in Values
        /\ raw = <<a, b>> \o <<c, d, Null>>
    BY <1>3, <1>4
  <2> HIDE DEF a, b, c, d, raw
  <2>2. raw \in Seq(Values) /\ Len(raw) = 5
    BY <2>1, TwoAndThree
  <2> QED
    BY <2>2 DEF raw
<1>6. WellFormed(Marshal(f)) /\ Unmarshal(Marshal(f)) = f
  BY <1>2, ErrorRoundTrip DEF f
<1>7. f.MessageTypeID # Call
  <2>1. f.MessageTypeID = CallError
    BY <1>1
  <2> QED
    BY <2>1 DEF Call, CallError
<1> QED
  BY <1>1, <1>5, <1>6, <1>7, OutboxAssumption DEF f

\* So an answer arrives as it was sent.
LEMMA AnswerWired ==
  ASSUME NEW i \in Ids, NEW f \in AnswersTo(i)
  PROVE  /\ WellFormed(Marshal(f)) /\ Unmarshal(Marshal(f)) = f /\ Marshal(f) # Nil
         /\ f.MessageTypeID # Call /\ f.UniqueID = i /\ ~IsBoot(f) /\ ~IsStatus(f)
<1>1. i \in Strings
  BY Texts
<1>2. CASE \E v \in Verdicts : f = CallResultFrame(i, Object(v))
  <2>1. PICK v \in Verdicts : f = CallResultFrame(i, Object(v))
    BY <1>2
  <2>2. Object(v) \in Values
    BY ObjectValue DEF FrameObjects
  <2>3. QED
    BY <1>1, <2>1, <2>2, ResultWired
<1>3. CASE f = CallErrorFrame(i, "FormationViolation", "", Nil)
  BY <1>1, <1>3, ErrorWired
<1>4. QED
  BY <1>2, <1>3 DEF AnswersTo

\* What the charger's own frames are, and are not.
LEMMA OwnFrames ==
  /\ BootNotification \in KnownFrames /\ Other \in KnownFrames
  /\ IsBoot(BootNotification) /\ ~IsStatus(BootNotification) /\ ~IsAnswer(BootNotification)
  /\ ~IsBoot(Other) /\ ~IsStatus(Other) /\ ~IsAnswer(Other)
  /\ \A s \in AllStatuses :
        /\ StatusNotification(s) \in KnownFrames
        /\ StatusNotification(s) \in Reports
        /\ IsStatus(StatusNotification(s)) /\ ~IsBoot(StatusNotification(s))
        /\ ~IsAnswer(StatusNotification(s)) /\ StatusNotification(s).Payload.object = s
  BY DEF KnownFrames, Reports, BootNotification, Other, StatusNotification, IsBoot, IsStatus,
         IsAnswer, CallFrame, Frame, Object

\* A frame that is known is told by its type and action, and arrives as it was sent.
LEMMA Known ==
  ASSUME NEW f \in KnownFrames
  PROVE  /\ WellFormed(Marshal(f)) /\ Unmarshal(Marshal(f)) = f /\ Marshal(f) # Nil
         /\ IsBoot(f) <=> f = BootNotification
         /\ IsStatus(f) <=> f \in Reports
         /\ \A i \in Ids : f \in AnswersTo(i) <=> IsAnswer(f) /\ f.UniqueID = i
         /\ IsAnswer(f) => f.UniqueID \in Ids
<1>1. ASSUME NEW i \in Ids, f \in AnswersTo(i)
      PROVE  /\ WellFormed(Marshal(f)) /\ Unmarshal(Marshal(f)) = f /\ Marshal(f) # Nil
             /\ IsAnswer(f) /\ f.UniqueID = i /\ ~IsBoot(f) /\ ~IsStatus(f)
  BY <1>1, AnswerWired DEF IsAnswer, IsBoot, IsStatus
<1>2. /\ "boot" \in Strings /\ "other" \in Strings /\ "status" \in Strings
      /\ "BootNotification" \in Strings /\ "Other" \in Strings /\ "StatusNotification" \in Strings
  BY Texts DEF FrameTexts
<1>3. ASSUME f \in {BootNotification, Other} \union Reports
      PROVE  WellFormed(Marshal(f)) /\ Unmarshal(Marshal(f)) = f /\ Marshal(f) # Nil
  <2>1. CASE f = BootNotification
    <3>1. Object("boot") \in Values
      BY ObjectValue DEF FrameObjects
    <3>2. QED
      BY <1>2, <2>1, <3>1, CallWired DEF BootNotification
  <2>2. CASE f = Other
    <3>1. Object("other") \in Values
      BY ObjectValue DEF FrameObjects
    <3>2. QED
      BY <1>2, <2>2, <3>1, CallWired DEF Other
  <2>3. ASSUME NEW s \in AllStatuses, f = StatusNotification(s)
        PROVE  WellFormed(Marshal(f)) /\ Unmarshal(Marshal(f)) = f /\ Marshal(f) # Nil
    <3>1. Object(s) \in Values
      BY ObjectValue DEF FrameObjects
    <3>2. QED
      BY <1>2, <2>3, <3>1, CallWired DEF StatusNotification
  <2>4. QED
    BY <1>3, <2>1, <2>2, <2>3 DEF Reports
<1>4. CASE f \in {BootNotification, Other} \union Reports
  <2>1. ~IsAnswer(f)
    BY <1>4, OwnFrames DEF Reports
  <2>2. IsBoot(f) <=> f = BootNotification
    BY <1>4, OwnFrames DEF Reports
  <2>3. IsStatus(f) <=> f \in Reports
    BY <1>4, OwnFrames DEF Reports
  <2>4. \A i \in Ids : f \notin AnswersTo(i)
    BY <2>1, <1>1
  <2>5. QED
    BY <1>3, <1>4, <2>1, <2>2, <2>3, <2>4
<1>5. ASSUME NEW i \in Ids, f \in AnswersTo(i)
      PROVE  /\ f # BootNotification /\ f \notin Reports
             /\ \A j \in Ids : f \in AnswersTo(j) <=> f.UniqueID = j
  BY <1>1, <1>5, OwnFrames, AnswerWired DEF Reports
<1>6. CASE \E i \in Ids : f \in AnswersTo(i)
  BY <1>1, <1>5, <1>6
<1>7. QED
  BY <1>4, <1>6 DEF KnownFrames

LEMMA WiredIff ==
  ASSUME NEW F, F \subseteq KnownFrames, NEW f \in KnownFrames
  PROVE  Marshal(f) \in Wired(F) <=> f \in F
<1>1. ASSUME NEW g \in F, Marshal(f) = Marshal(g) PROVE f = g
  BY <1>1, Known
<1>2. QED
  BY <1>1 DEF Wired

\* What waits to be written is a known frame, and can be read.
LEMMA OnTheWire ==
  ASSUME NEW w \in Wired(KnownFrames)
  PROVE  /\ Unmarshal(w) \in KnownFrames /\ w = Marshal(Unmarshal(w)) /\ WellFormed(w) /\ w # Nil
         /\ \A F : F \subseteq KnownFrames => (w \in Wired(F) <=> Unmarshal(w) \in F)
<1>1. PICK f \in KnownFrames : w = Marshal(f)
  BY DEF Wired
<1>2. QED
  BY <1>1, Known, WiredIff

\* The calls of the CSMS, and what is none.
LEMMA ArrayRead ==
  ASSUME NEW m \in AllMessages, NEW i \in Ids
  PROVE  /\ Array(m, i) # Nil /\ Len(Array(m, i)) >= 2
         /\ IsCall(Array(m, i)) <=> m \notin NoCalls
         /\ m \notin NoCalls => Unmarshal(Array(m, i)).UniqueID = i
<1>1. CASE m \notin NoCalls
  <2>1. PICK action \in FrameTexts, payload \in {Object(m), Number(1)} :
           Array(m, i) = Marshal(CallFrame(i, action, payload))
    BY <1>1 DEF AllMessages, Garbled, NoCalls, Array, FrameTexts
  <2>2. i \in Strings /\ action \in Strings /\ payload \in Values
    BY Texts, ObjectValue, NumberValue DEF FrameObjects
  <2>3. QED
    BY <1>1, <2>1, <2>2, CallWired DEF IsCall
<1>2. CASE m \in Garbled
  <2>1. /\ String(i) \in Values /\ String("Reset") \in Values
        /\ Number(Call) \in Values /\ Number(1) \in Values /\ Number(5) \in Values
    BY Texts, StringValue, NumberValue DEF FrameTexts
  <2>2. CASE m = "Short"
    <3>1. Array(m, i) = <<Number(Call), String(i), String("Reset")>>
      BY <2>2 DEF Array
    <3>2. Array(m, i) \in Seq(Values) /\ Len(Array(m, i)) = 3 /\ Array(m, i)[1] = Number(Call)
      BY <2>1, <3>1
    <3>3. TypeOf(Array(m, i)) = Call
      BY <3>2, TypeNumber DEF TypeOf, Call
    <3>4. QED
      BY <1>2, <3>2, <3>3, OutboxAssumption DEF IsCall, NoCalls, WellFormed, Call, CallResult, CallError
  <2>3. CASE m = "NoId"
    <3> DEFINE payload == Object("")
    <3>1. Array(m, i) = <<Number(Call), Number(1), String("Reset"), payload>>
      BY <2>3 DEF Array
    <3>2. payload \in Values
      BY ObjectValue DEF FrameObjects
    <3> HIDE DEF payload
    <3>3. Array(m, i) \in Seq(Values) /\ Len(Array(m, i)) = 4 /\ Array(m, i)[2] = Number(1)
      BY <2>1, <3>1, <3>2
    <3>4. QED
      BY <1>2, <3>3, OutboxAssumption DEF IsCall, NoCalls, WellFormed, Number
  <2>4. CASE m = "NoType"
    <3>1. Array(m, i) = <<Number(5), String(i)>>
      BY <2>4 DEF Array
    <3>2. Array(m, i) \in Seq(Values) /\ Len(Array(m, i)) = 2 /\ Array(m, i)[1] = Number(5)
      BY <2>1, <3>1
    <3>3. TypeOf(Array(m, i)) = 5
      BY <3>2, TypeNumber DEF TypeOf
    <3>4. QED
      BY <1>2, <3>2, <3>3, OutboxAssumption DEF IsCall, NoCalls, WellFormed, Call, CallResult, CallError
  <2>5. QED
    BY <1>2, <2>2, <2>3, <2>4 DEF Garbled
<1>3. CASE m \in {"Result", "Failure"}
  <2>1. "other" \in Strings /\ Object("other") \in Values
    BY Texts, ObjectValue DEF FrameTexts, FrameObjects
  <2>2. CASE m = "Result"
    <3>1. Array(m, i) = Marshal(CallResultFrame("other", Object("other")))
      BY <2>2 DEF Array
    <3>2. QED
      <4> DEFINE f == CallResultFrame("other", Object("other"))
      <4>1. /\ WellFormed(Marshal(f)) /\ Unmarshal(Marshal(f)) = f /\ Marshal(f) # Nil
            /\ Len(Marshal(f)) = 3 /\ f.MessageTypeID # Call
        BY <2>1, ResultWired
      <4>2. Array(m, i) = Marshal(f)
        BY <3>1
      <4> HIDE DEF f
      <4>3. ~IsCall(Array(m, i))
        BY <4>1, <4>2 DEF IsCall
      <4>4. Array(m, i) # Nil /\ Len(Array(m, i)) >= 2
        BY <4>1, <4>2
      <4>5. m \in NoCalls
        BY <1>3 DEF NoCalls
      <4>6. QED
        BY <4>3, <4>4, <4>5
  <2>3. CASE m = "Failure"
    <3>1. Array(m, i) = Marshal(CallErrorFrame("other", "FormationViolation", "", Nil))
      BY <2>3 DEF Array
    <3>2. QED
      <4> DEFINE f == CallErrorFrame("other", "FormationViolation", "", Nil)
      <4>1. /\ WellFormed(Marshal(f)) /\ Unmarshal(Marshal(f)) = f /\ Marshal(f) # Nil
            /\ Len(Marshal(f)) = 5 /\ f.MessageTypeID # Call
        BY <2>1, ErrorWired
      <4>2. Array(m, i) = Marshal(f)
        BY <3>1
      <4> HIDE DEF f
      <4>3. ~IsCall(Array(m, i))
        BY <4>1, <4>2 DEF IsCall
      <4>4. Array(m, i) # Nil /\ Len(Array(m, i)) >= 2
        BY <4>1, <4>2
      <4>5. m \in NoCalls
        BY <1>3 DEF NoCalls
      <4>6. QED
        BY <4>3, <4>4, <4>5
  <2>4. QED
    BY <1>3, <2>2, <2>3
<1>4. QED
  BY <1>1, <1>2, <1>3 DEF NoCalls

LEMMA Messaged ==
  ASSUME NEW a \in Arrays
  PROVE  /\ a # Nil /\ Len(a) >= 2
         /\ IsCall(a) => Unmarshal(a).UniqueID \in Ids
         /\ \A i \in Ids : a \in Asking(i) <=> IsCall(a) /\ Unmarshal(a).UniqueID = i
<1>1. PICK m \in Messages, i \in Ids : a = Array(m, i)
  BY DEF Arrays
<1>2. Messages \subseteq AllMessages
  BY OutboxAssumption
<1>3. ASSUME NEW j \in Ids, a \in Asking(j) PROVE IsCall(a) /\ Unmarshal(a).UniqueID = j
  BY <1>2, <1>3, ArrayRead DEF Asking
<1>4. ASSUME IsCall(a) PROVE Unmarshal(a).UniqueID = i /\ a \in Asking(i)
  BY <1>1, <1>2, <1>4, ArrayRead DEF Asking
<1>5. QED
  BY <1>1, <1>2, <1>3, <1>4, ArrayRead
-----------------------------------------------------------------------------
(* Queues *)

LEMMA SeqTail ==
  ASSUME NEW U, NEW q \in Seq(U), q # <<>>
  PROVE  /\ Head(q) \in U /\ Head(q) = q[1] /\ 1 \in DOMAIN q
         /\ Tail(q) \in Seq(U) /\ Len(Tail(q)) = Len(q) - 1
         /\ \A k \in DOMAIN Tail(q) : k \in Nat /\ k + 1 \in DOMAIN q /\ Tail(q)[k] = q[k + 1]
         /\ \A k \in DOMAIN q : k \in Nat /\ (k = 1 \/ k - 1 \in DOMAIN Tail(q))
         /\ \A k \in DOMAIN q : k # 1 => Tail(q)[k - 1] = q[k]
  OBVIOUS

LEMMA SeqAppend ==
  ASSUME NEW U, NEW q \in Seq(U), NEW e \in U
  PROVE  /\ Append(q, e) \in Seq(U) /\ Len(Append(q, e)) = Len(q) + 1
         /\ DOMAIN Append(q, e) = DOMAIN q \union {Len(q) + 1}
         /\ Append(q, e)[Len(q) + 1] = e /\ Len(q) + 1 \notin DOMAIN q
         /\ \A k \in DOMAIN q : k \in Nat /\ k < Len(q) + 1 /\ Append(q, e)[k] = q[k]
  OBVIOUS

\* A frame that is queued is the last of its kind, or leaves the last one what it is.
LEMMA LastQueued ==
  ASSUME NEW U, NEW q \in Seq(U), NEW e \in U, NEW S, NEW T
  PROVE  /\ e \in T => LastIn(Append(q, e), S, T)
         /\ e \notin S /\ LastIn(q, S, T) => LastIn(Append(q, e), S, T)
         /\ e \notin S /\ NoneIn(q, S) => NoneIn(Append(q, e), S)
<1> DEFINE r == Append(q, e)
           n == Len(q) + 1
<1>1. /\ DOMAIN r = DOMAIN q \union {n} /\ r[n] = e /\ n \in Nat
      /\ \A k \in DOMAIN q : k \in Nat /\ k < n /\ r[k] = q[k]
  BY SeqAppend
<1> HIDE DEF r, n
<1>2. e \in T => LastIn(r, S, T)
  BY <1>1 DEF LastIn
<1>3. e \notin S /\ LastIn(q, S, T) => LastIn(r, S, T)
  BY <1>1 DEF LastIn
<1>4. e \notin S /\ NoneIn(q, S) => NoneIn(r, S)
  BY <1>1 DEF NoneIn
<1> QED
  BY <1>2, <1>3, <1>4 DEF r

\* A frame that is taken was the last of its kind, or leaves the last one.
LEMMA LastTaken ==
  ASSUME NEW U, NEW q \in Seq(U), q # <<>>, NEW S, NEW T
  PROVE  /\ LastIn(q, S, T) =>
               LastIn(Tail(q), S, T) \/ (Head(q) \in T /\ NoneIn(Tail(q), S))
         /\ NoneIn(q, S) => NoneIn(Tail(q), S) /\ Head(q) \notin S
         /\ Head(q) \notin S /\ NoneIn(Tail(q), S) => NoneIn(q, S)
<1> DEFINE r == Tail(q)
<1>1. /\ Head(q) = q[1] /\ 1 \in DOMAIN q
      /\ \A k \in DOMAIN r : k \in Nat /\ k + 1 \in DOMAIN q /\ r[k] = q[k + 1]
      /\ \A k \in DOMAIN q : k \in Nat /\ (k = 1 \/ k - 1 \in DOMAIN r)
      /\ \A k \in DOMAIN q : k # 1 => r[k - 1] = q[k]
  BY SeqTail
<1>2. \A k \in DOMAIN r : k \in Nat /\ k >= 1
  OBVIOUS
<1> HIDE DEF r
<1>3. ASSUME NEW k \in DOMAIN q, q[k] \in T, \A j \in DOMAIN q : j > k => q[j] \notin S, k # 1
      PROVE  LastIn(r, S, T)
  <2>1. k - 1 \in DOMAIN r /\ r[k - 1] \in T /\ k \in Nat
    BY <1>1, <1>3
  <2>2. ASSUME NEW j \in DOMAIN r, j > k - 1 PROVE r[j] \notin S
    <3>1. j + 1 \in DOMAIN q /\ r[j] = q[j + 1] /\ j \in Nat
      BY <1>1
    <3>2. j + 1 > k
      BY <2>1, <2>2, <3>1
    <3>3. QED
      BY <1>3, <3>1, <3>2
  <2>3. QED
    BY <2>1, <2>2 DEF LastIn
<1>4. ASSUME q[1] \in T, \A j \in DOMAIN q : j > 1 => q[j] \notin S
      PROVE  Head(q) \in T /\ NoneIn(r, S)
  <2>1. ASSUME NEW j \in DOMAIN r PROVE r[j] \notin S
    <3>1. j + 1 \in DOMAIN q /\ r[j] = q[j + 1] /\ j + 1 > 1
      BY <1>1, <1>2
    <3>2. QED
      BY <1>4, <3>1
  <2>2. QED
    BY <1>1, <1>4, <2>1 DEF NoneIn
<1>5. LastIn(q, S, T) => LastIn(r, S, T) \/ (Head(q) \in T /\ NoneIn(r, S))
  BY <1>3, <1>4 DEF LastIn
<1>6. NoneIn(q, S) => NoneIn(r, S) /\ Head(q) \notin S
  BY <1>1 DEF NoneIn
<1>7. Head(q) \notin S /\ NoneIn(r, S) => NoneIn(q, S)
  BY <1>1 DEF NoneIn
<1> QED
  BY <1>5, <1>6, <1>7 DEF r

LEMMA NoneInEmpty == ASSUME NEW S PROVE NoneIn(<<>>, S)
  BY DEF NoneIn

-----------------------------------------------------------------------------
(* What the actions do with frames *)

\* What sendRaw does with a known frame.
LEMMA Sent ==
  ASSUME NEW f \in KnownFrames, NEW why, sendRaw(f, why), status \in AllStatuses
  PROVE  \/ /\ Len(sendCh) < SendCap /\ sendCh' = Append(sendCh, Marshal(f))
            /\ UNCHANGED <<lost, noRoom>>
            /\ f \notin Reports => excuse' = excuse
            /\ f \in Reports /\ f \notin Current => excuse' = why
         \/ /\ UNCHANGED sendCh
            /\ noRoom' = (noRoom \/ f = BootNotification)
            /\ f \notin Reports => excuse' = excuse
            /\ f \in Reports => excuse' = "dropped"
            /\ lost \subseteq lost' /\ (IsAnswer(f) => f.UniqueID \in lost')
<1>1. f \in Reports => f = StatusNotification(f.Payload.object)
  BY OwnFrames DEF Reports
<1>2. f \in Reports /\ f \notin Current => f.Payload.object # status
  BY <1>1 DEF Current
<1>3. CASE Len(sendCh) < SendCap
  BY <1>2, <1>3, Known DEF sendRaw
<1>4. CASE ~(Len(sendCh) < SendCap)
  BY <1>4, Known DEF sendRaw
<1>5. QED
  BY <1>3, <1>4

\* The methods of the charger that send more than one frame, or answer a call.
Methods == Stop \/ (\E s \in Statuses : SetStatus(s)) \/ ResumeSession \/ handleMessage

\* What a method has for the CSMS: nothing of the status, or a report of the one
\* it has set and no other, or the reports of Stop.
Honest(frames) ==
    LET set == {StatusNotification(status')}
    IN  \/ status' = status /\ NoneIn(frames, Reports)
        \/ LastIn(frames, Reports, set) /\ NoneIn(frames, Reports \ set)
        \/ status' = status /\ frames = StopFrames

LEMMA ShortLists ==
  ASSUME NEW a \in KnownFrames, NEW b \in KnownFrames, NEW c \in KnownFrames
  PROVE  /\ <<>> \in Seq(KnownFrames) /\ <<a>> \in Seq(KnownFrames)
         /\ <<a, b>> \in Seq(KnownFrames) /\ <<a, b, c>> \in Seq(KnownFrames)
  OBVIOUS

LEMMA LastOfTwo ==
  ASSUME NEW a, NEW b, NEW S, NEW T
  PROVE  /\ a \notin S => NoneIn(<<a>>, S)
         /\ a \in T => LastIn(<<a>>, S, T)
         /\ a \in T /\ b \notin S => LastIn(<<a, b>>, S, T)
         /\ a \in T => NoneIn(<<a>>, S \ T)
         /\ a \in T /\ b \notin S => NoneIn(<<a, b>>, S \ T)
  BY DEF NoneIn, LastIn

\* What Stop leaves to be sent, and what is left of it.
LEMMA StopSends ==
  LET a == StatusNotification("Finishing")
      b == StatusNotification("Available")
  IN  /\ StopFrames = <<Other, a, b>> /\ Tail(StopFrames) = <<a, b>>
      /\ Tail(Tail(StopFrames)) = <<b>> /\ IsStatus(b) /\ b.Payload.object = "Available"
      /\ ~NoneIn(StopFrames, Reports) /\ ~NoneIn(Tail(StopFrames), Reports)
      /\ StopFrames # <<>> /\ Tail(StopFrames) # <<>>
<1> DEFINE a == StatusNotification("Finishing")
           b == StatusNotification("Available")
<1>1. a \in Reports /\ b \in Reports /\ IsStatus(b) /\ b.Payload.object = "Available"
  BY OwnFrames DEF AllStatuses
<1>2. StopFrames = <<Other, a, b>>
  BY DEF StopFrames
<1> HIDE DEF a, b
<1>3. /\ Tail(StopFrames) = <<a, b>> /\ Tail(Tail(StopFrames)) = <<b>>
      /\ StopFrames # <<>> /\ Tail(StopFrames) # <<>>
  BY <1>2
<1>4. ~NoneIn(StopFrames, Reports) /\ ~NoneIn(Tail(StopFrames), Reports)
  BY <1>1, <1>2, <1>3 DEF NoneIn
<1> QED
  BY <1>1, <1>2, <1>3, <1>4 DEF a, b

\* The status a method sets is a status.
LEMMA SettingType ==
  ASSUME NEW q \in Seq(KnownFrames), status \in AllStatuses
  PROVE  Setting(q) \in AllStatuses
<1>1. CASE q # <<>> /\ IsStatus(Head(q))
  <2>1. PICK s \in AllStatuses : Head(q) = StatusNotification(s)
    BY <1>1, SeqTail, Known DEF Reports
  <2>2. QED
    BY <1>1, <2>1, OwnFrames DEF Setting
<1>2. CASE ~(q # <<>> /\ IsStatus(Head(q)))
  BY <1>2 DEF Setting
<1>3. QED
  BY <1>1, <1>2

\* The answer to a call, after the report of a change it brings about.
LEMMA Handled ==
  ASSUME NEW f, f.UniqueID \in Ids, status \in AllStatuses, handleServerCall(f)
  PROVE  /\ Unlocked
         /\ \E a \in AnswersTo(f.UniqueID) :
               \/ status' = status /\ outgoing' = <<a>>
               \/ /\ status' \in AllStatuses
                  /\ outgoing' = <<StatusNotification(status'), a>>
<1> DEFINE Goal == /\ Unlocked
                   /\ \E a \in AnswersTo(f.UniqueID) :
                         \/ status' = status /\ outgoing' = <<a>>
                         \/ /\ status' \in AllStatuses
                            /\ outgoing' = <<StatusNotification(status'), a>>
<1>1. \A v \in Verdicts : Answer(f, v) \in AnswersTo(f.UniqueID)
  BY DEF Answer, AnswersTo
<1>2. "Accepted" \in Verdicts /\ "Rejected" \in Verdicts /\ "NotSupported" \in Verdicts
  BY DEF Verdicts
<1>3. {"Charging", "SuspendedEVSE", "Unavailable", "Available"} \subseteq AllStatuses
  BY DEF AllStatuses
<1>4. ASSUME NEW s \in AllStatuses, Accept(f, s) PROVE Goal
  BY <1>1, <1>2, <1>4 DEF Accept, Set
<1>5. ASSUME NEW v \in Verdicts, Set(status, <<Answer(f, v)>>) PROVE Goal
  BY <1>1, <1>5 DEF Set
<1> HIDE DEF Goal
<1>6. Resume(f) => Goal
  BY <1>2, <1>3, <1>4, <1>5 DEF Resume
<1>7. SetChargingProfile(f) => Goal
  <2> DEFINE failure == CallErrorFrame(f.UniqueID, "FormationViolation", "", Nil)
  <2>1. failure \in AnswersTo(f.UniqueID)
    BY DEF AnswersTo
  <2>2. ASSUME SetChargingProfile(f)
        PROVE  \/ Set(status, <<failure>>) \/ Accept(f, "SuspendedEVSE") \/ Resume(f)
               \/ Set(status, <<Answer(f, "Rejected")>>)
    BY <2>2 DEF SetChargingProfile
  <2> HIDE DEF failure
  <2>3. Set(status, <<failure>>) => Goal
    BY <2>1 DEF Set, Goal
  <2>4. QED
    BY <1>2, <1>3, <1>4, <1>5, <1>6, <2>2, <2>3
<1>8. CASE f.Action = "SetChargingProfile"
  BY <1>7, <1>8 DEF handleServerCall, Goal
<1>9. CASE f.Action = "ClearChargingProfile"
  BY <1>6, <1>9 DEF handleServerCall, Goal
<1>10. CASE f.Action = "ChangeAvailability"
  <2>1. Accept(f, "Unavailable") \/ Accept(f, "Available")
    BY <1>10 DEF handleServerCall
  <2>2. QED
    BY <1>3, <1>4, <2>1 DEF Goal
<1>11. CASE f.Action \notin {"SetChargingProfile", "ClearChargingProfile", "ChangeAvailability"}
  <2>1. Set(status, <<Answer(f, "Accepted")>>) \/ Set(status, <<Answer(f, "NotSupported")>>)
    BY <1>11 DEF handleServerCall
  <2>2. QED
    BY <1>2, <1>5, <2>1 DEF Goal
<1>12. QED
  BY <1>8, <1>9, <1>10, <1>11 DEF Goal

\* Whatever method runs, what it leaves to be sent is made of known frames; it
\* has one answer to the call it has handled, and none to another.
LEMMA MethodEffect ==
  ASSUME Types, Methods
  PROVE  /\ UNCHANGED <<link, opened, seen, writer, held, inbox, sendCh, csmsVars, ghostVars>>
         /\ run' \in {run, "loop"} /\ (run' = run \/ run = "resume")
         /\ status' \in AllStatuses /\ changes' \in 0..MaxChanges
         /\ outgoing' \in Seq(KnownFrames)
         /\ \/ Unlocked /\ Honest(outgoing')
            \/ UNCHANGED <<status, outgoing>>
         /\ \/ handling' = handling /\ Unlocked /\ \A i \in Ids : Due(i)' = {}
            \/ handling' = Nil /\ ~IsCall(handling) /\ UNCHANGED outgoing
            \/ /\ handling' = Nil /\ Unlocked
               /\ \E i \in Ids : /\ handling \in Asking(i)
                                 /\ AtMostOne(Due(i))' /\ Due(i)' # {}
                                 /\ \A j \in Ids \ {i} : Due(j)' = {}
<1> USE DEF Types, PlainTypes, goroutineVars, csmsVars, ghostVars
<1>1. {"Charging", "SuspendedEVSE", "Available"} \subseteq AllStatuses
  BY DEF AllStatuses
<1>2. "Finishing" \in AllStatuses /\ "Available" \in AllStatuses
  BY DEF AllStatuses
<1>3. \A f \in KnownFrames : ~IsAnswer(f) => \A i \in Ids : f \notin AnswersTo(i)
  BY Known
<1>4. Other \in KnownFrames /\ Other \notin Reports
  BY OwnFrames, Known
<1>5. ASSUME NEW s \in AllStatuses
      PROVE  StatusNotification(s) \in KnownFrames /\ ~IsAnswer(StatusNotification(s))
  BY OwnFrames
<1>6. CASE Stop
  <2> DEFINE a == StatusNotification("Finishing")
             b == StatusNotification("Available")
  <2>1. /\ outgoing' = <<Other, a, b>> /\ outgoing' = StopFrames
        /\ status' = status /\ Unlocked /\ handling' = handling
    BY <1>6 DEF Stop, Set, StopFrames
  <2>2. a \in KnownFrames /\ b \in KnownFrames /\ ~IsAnswer(a) /\ ~IsAnswer(b) /\ ~IsAnswer(Other)
    BY <1>2, <1>5, OwnFrames
  <2>3. \A k \in DOMAIN outgoing' : outgoing'[k] \in {Other, a, b}
    BY <2>1
  <2>4. \A i \in Ids : Due(i)' = {}
    BY <1>3, <1>4, <2>2, <2>3 DEF Due, At
  <2>5. outgoing' \in Seq(KnownFrames)
    BY <1>4, <2>1, <2>2, ShortLists
  <2>6. Honest(outgoing')
    BY <2>1 DEF Honest
  <2>7. QED
    BY <1>1, <1>6, <2>1, <2>4, <2>5, <2>6, OutboxAssumption DEF Stop
<1>7. CASE \E s \in Statuses : SetStatus(s)
  <2>1. PICK s \in Statuses : SetStatus(s)
    BY <1>7
  <2> DEFINE a == StatusNotification(s)
  <2>2. s \in AllStatuses /\ a \in KnownFrames /\ ~IsAnswer(a) /\ ~IsAnswer(Other)
    BY <1>1, <1>5, OwnFrames, OutboxAssumption
  <2>3. status' = s /\ Unlocked /\ handling' = handling
        /\ outgoing' = IF s = "Preparing" THEN <<a, Other>> ELSE <<a>>
    BY <2>1 DEF SetStatus, Set
  <2>4. outgoing' = <<a>> \/ outgoing' = <<a, Other>>
    BY <2>3
  <2>5. \A i \in Ids : Due(i)' = {}
    <3>1. \A k \in DOMAIN outgoing' : outgoing'[k] \in {Other, a}
      BY <2>4
    <3>2. QED
      BY <1>3, <1>4, <2>2, <3>1 DEF Due, At
  <2>6. outgoing' \in Seq(KnownFrames)
    BY <1>4, <2>2, <2>4, ShortLists
  <2>7. Honest(outgoing')
    <3>1. {StatusNotification(status')} = {a}
      BY <2>3
    <3>2. /\ LastIn(<<a>>, Reports, {a}) /\ LastIn(<<a, Other>>, Reports, {a})
          /\ NoneIn(<<a>>, Reports \ {a}) /\ NoneIn(<<a, Other>>, Reports \ {a})
      BY <1>4, LastOfTwo
    <3>3. QED
      BY <2>4, <3>1, <3>2 DEF Honest
  <2>8. changes' \in 0..MaxChanges /\ run' = run
    BY <2>1, OutboxAssumption DEF SetStatus
  <2>9. QED
    BY <2>1, <2>2, <2>3, <2>5, <2>6, <2>7, <2>8 DEF SetStatus
<1>8. CASE ResumeSession
  <2>1. /\ status' = status /\ Unlocked /\ handling' = handling /\ run = "resume" /\ run' = "loop"
        /\ outgoing' = <<Other>> \/ outgoing' = <<>>
    BY <1>8 DEF ResumeSession, Set
  <2>2. \A i \in Ids : Due(i)' = {}
    <3>1. \A k \in DOMAIN outgoing' : outgoing'[k] = Other
      BY <2>1
    <3>2. QED
      BY <1>3, <1>4, <3>1, OwnFrames DEF Due, At
  <2>3. outgoing' \in Seq(KnownFrames)
    BY <1>4, <2>1, ShortLists
  <2>4. Honest(outgoing')
    BY <1>4, <2>1, LastOfTwo, NoneInEmpty DEF Honest
  <2>5. QED
    BY <1>8, <2>1, <2>2, <2>3, <2>4 DEF ResumeSession
<1>9. CASE handleMessage
  <2>1. handling \in Arrays /\ handling' = Nil /\ UNCHANGED <<run, changes>>
    BY <1>9 DEF handleMessage, FrameTypes
  <2>2. CASE ~IsCall(handling)
    BY <1>9, <2>1, <2>2 DEF handleMessage, FrameTypes, IsCall
  <2>3. CASE IsCall(handling)
    <3>1. PICK i \in Ids : i = Unmarshal(handling).UniqueID /\ handling \in Asking(i)
      BY <2>1, <2>3, Messaged
    <3>2. handleServerCall(Unmarshal(handling))
      BY <1>9, <2>3 DEF handleMessage, IsCall
    <3>3. Unlocked /\ \E a \in AnswersTo(i) :
             \/ status' = status /\ outgoing' = <<a>>
             \/ status' \in AllStatuses /\ outgoing' = <<StatusNotification(status'), a>>
      BY <3>1, <3>2, Handled
    <3>4. PICK a \in AnswersTo(i) :
             \/ status' = status /\ outgoing' = <<a>>
             \/ status' \in AllStatuses /\ outgoing' = <<StatusNotification(status'), a>>
      BY <3>3
    <3>5. status' \in AllStatuses
      BY <3>4
    <3>6. PICK b \in KnownFrames : b = StatusNotification(status') /\ ~IsAnswer(b)
      BY <1>1, <1>5, <3>5
    <3>7. a \in KnownFrames /\ a \notin Reports /\ \A j \in Ids \ {i} : a \notin AnswersTo(j)
      <4>1. a \in KnownFrames
        BY <3>1 DEF KnownFrames
      <4>2. QED
        BY <3>1, <4>1, AnswerWired, Known
    <3>8. outgoing' = <<b, a>> \/ (status' = status /\ outgoing' = <<a>>)
      BY <3>4, <3>6
    <3>9. outgoing' \in Seq(KnownFrames)
      BY <3>7, <3>8, ShortLists
    <3>10. Honest(outgoing')
      <4>1. /\ NoneIn(<<a>>, Reports) /\ LastIn(<<b, a>>, Reports, {b})
            /\ NoneIn(<<b, a>>, Reports \ {b})
        BY <3>7, LastOfTwo
      <4>2. QED
        BY <3>6, <3>8, <4>1 DEF Honest
    <3>11. AtMostOne(Due(i))' /\ Due(i)' # {} /\ \A j \in Ids \ {i} : Due(j)' = {}
      <4>1. \A j \in Ids : b \notin AnswersTo(j)
        BY <1>3, <3>6
      <4>2. \A k \in DOMAIN outgoing' : outgoing'[k] = b \/ outgoing'[k] = a
        BY <3>8
      <4>3. \A k, l \in DOMAIN outgoing' : outgoing'[k] # b /\ outgoing'[l] # b => k = l
        BY <3>8
      <4>4. \E k \in DOMAIN outgoing' : outgoing'[k] = a
        BY <3>8
      <4>5. QED
        BY <3>1, <3>7, <4>1, <4>2, <4>3, <4>4 DEF Due, At, AtMostOne
    <3>12. QED
      BY <1>9, <2>1, <3>1, <3>3, <3>5, <3>9, <3>10, <3>11 DEF handleMessage
  <2>4. QED
    BY <2>2, <2>3
<1>10. QED
  BY <1>6, <1>7, <1>8, <1>9 DEF Methods


-----------------------------------------------------------------------------
(* Types *)

LEMMA TypesImplyTypeOK == ASSUME Types PROVE TypeOK
<1>1. ASSUME NEW c \in Connections, held[c] # Nil PROVE WellFormed(held[c])
  BY <1>1, OnTheWire DEF Types, FrameTypes
<1>2. handling # Nil => Len(handling) >= 2
  BY Messaged DEF Types, FrameTypes
<1>3. ASSUME NEW k \in 1..Len(sendCh) PROVE WellFormed(sendCh[k])
  <2>1. sendCh[k] \in Wired(KnownFrames)
    BY DEF Types, FrameTypes
  <2>2. QED
    BY <2>1, OnTheWire
<1>4. QED
  BY <1>1, <1>2, <1>3 DEF Types, PlainTypes, TypeOK

LEMMA Bounds == MaxConnections \in Nat /\ MaxChanges \in Nat /\ SendCap \in Nat
  BY OutboxAssumption

LEMMA InitTypes == Init => Types
<1> SUFFICES ASSUME Init PROVE Types
  OBVIOUS
<1>1. "Available" \in AllStatuses
  BY DEF AllStatuses
<1>2. writer \in [Connections -> {"off", "on", "stopping"}] /\ answers \in [Ids -> Nat]
  BY DEF Init
<1>3. PlainTypes
  <2>1. Len(sendCh) <= SendCap
    BY Bounds DEF Init
  <2>2. opened \in 0..MaxConnections /\ changes \in 0..MaxChanges
    BY Bounds DEF Init
  <2>3. link \in {"down", "up"} /\ run \in {"boot", "read", "report", "resume", "loop"}
        /\ registered \in BOOLEAN /\ noRoom \in BOOLEAN
    BY DEF Init
  <2>4. seen \in AllStatuses /\ status \in AllStatuses
        /\ shown \in AllStatuses \union {"unknown"} /\ asked \subseteq Ids
    BY <1>1 DEF Init
  <2>5. QED
    BY <1>2, <2>1, <2>2, <2>3, <2>4 DEF PlainTypes
<1>4. FrameTypes
  BY DEF Init, FrameTypes
<1>5. QED
  BY <1>3, <1>4 DEF Types

\* What is left of sendRaw once a frame has been sent.
LEMMA SentTypes ==
  ASSUME Types, NEW f \in KnownFrames, NEW why, sendRaw(f, why)
  PROVE  /\ sendCh' \in Seq(Wired(KnownFrames)) /\ Len(sendCh') <= SendCap
         /\ noRoom' \in BOOLEAN
<1>1. sendCh \in Seq(Wired(KnownFrames)) /\ Len(sendCh) <= SendCap /\ SendCap \in Nat
      /\ noRoom \in BOOLEAN /\ status \in AllStatuses
  BY OutboxAssumption DEF Types, PlainTypes, FrameTypes
<1>2. Marshal(f) \in Wired(KnownFrames)
  BY DEF Wired
<1>3. CASE sendCh' = Append(sendCh, Marshal(f)) /\ Len(sendCh) < SendCap /\ UNCHANGED noRoom
  <2>1. Append(sendCh, Marshal(f)) \in Seq(Wired(KnownFrames))
        /\ Len(Append(sendCh, Marshal(f))) = Len(sendCh) + 1
    BY <1>1, <1>2, SeqAppend
  <2>2. Len(sendCh) \in Nat
    BY <1>1
  <2>3. QED
    BY <1>1, <1>3, <2>1, <2>2
<1>4. CASE UNCHANGED sendCh /\ noRoom' = (noRoom \/ f = BootNotification)
  BY <1>1, <1>4
<1>5. QED
  BY <1>1, <1>3, <1>4, Sent

\* What a frame that is delivered changes.
LEMMA Delivered ==
  ASSUME NEW f \in KnownFrames, Deliver(f), status \in AllStatuses
  PROVE  /\ registered' = (registered \/ f = BootNotification)
         /\ f \notin Reports => shown' = shown
         /\ \A s \in AllStatuses : f = StatusNotification(s) => shown' = s
         /\ ~IsAnswer(f) => answers' = answers
         /\ IsAnswer(f) => /\ f.UniqueID \in Ids
                           /\ answers' = [answers EXCEPT ![f.UniqueID] = @ + 1]
         /\ asked' = asked
  BY Known, OwnFrames DEF Deliver

LEMMA TypesStep == Types /\ [Next]_outboxVars => Types'
<1> SUFFICES ASSUME Types, [Next]_outboxVars PROVE Types'
  OBVIOUS
<1> USE DEF goroutineVars, csmsVars, ghostVars
<1>0. status \in AllStatuses
  BY DEF Types, PlainTypes
<1>1. CASE SendNext
  <2>1. /\ Head(outgoing) \in KnownFrames /\ Tail(outgoing) \in Seq(KnownFrames)
    BY <1>1, SeqTail DEF SendNext, Unlocked, Types, FrameTypes
  <2>2. /\ sendCh' \in Seq(Wired(KnownFrames)) /\ Len(sendCh') <= SendCap /\ noRoom' \in BOOLEAN
    BY <1>1, <2>1, SentTypes DEF SendNext
  <2>3. status' \in AllStatuses
    BY <1>0, <1>1, <2>1, SettingType DEF SendNext
  <2>4. QED
    BY <1>1, <2>1, <2>2, <2>3 DEF SendNext, Types, PlainTypes, FrameTypes
<1>2. CASE Methods
  BY <1>2, MethodEffect DEF Types, PlainTypes, FrameTypes
<1>3. CASE Connected
  <2>1. opened + 1 \in 0..MaxConnections
    BY <1>3, Bounds DEF Connected, Types, PlainTypes
  <2>2. writer' \in [Connections -> {"off", "on", "stopping"}]
    BY <1>3 DEF Connected, Types, PlainTypes
  <2>3. QED
    BY <1>3, <2>1, <2>2 DEF Connected, Types, PlainTypes, FrameTypes
<1>4. CASE Close
  BY <1>4 DEF Close, Types, PlainTypes, FrameTypes
<1>5. CASE SendBoot
  <2>1. /\ sendCh' \in Seq(Wired(KnownFrames)) /\ Len(sendCh') <= SendCap /\ noRoom' \in BOOLEAN
    BY <1>5, SentTypes, OwnFrames DEF SendBoot
  <2>2. QED
    BY <1>5, <2>1 DEF SendBoot, Types, PlainTypes, FrameTypes
<1>6. CASE ReadStatus
  BY <1>0, <1>6 DEF ReadStatus, Types, PlainTypes, FrameTypes
<1>7. CASE SendReport
  <2>1. StatusNotification(seen) \in KnownFrames
    BY OwnFrames DEF Types, PlainTypes
  <2>2. /\ sendCh' \in Seq(Wired(KnownFrames)) /\ Len(sendCh') <= SendCap /\ noRoom' \in BOOLEAN
    BY <1>7, <2>1, SentTypes DEF SendReport
  <2>3. "Available" \in AllStatuses
    BY DEF AllStatuses
  <2>4. QED
    BY <1>7, <2>2, <2>3 DEF SendReport, Types, PlainTypes, FrameTypes
<1>8. CASE \E c \in Connections : Receive(c)
  <2>1. PICK c \in Connections : Receive(c)
    BY <1>8
  <2>2. /\ Head(sendCh) \in Wired(KnownFrames) /\ Tail(sendCh) \in Seq(Wired(KnownFrames))
        /\ Len(Tail(sendCh)) = Len(sendCh) - 1
    BY <2>1, SeqTail DEF Receive, Types, FrameTypes
  <2>3. Len(Tail(sendCh)) <= SendCap
    BY <2>2, OutboxAssumption DEF Types, PlainTypes, FrameTypes
  <2>4. QED
    BY <2>1, <2>2, <2>3 DEF Receive, Types, PlainTypes, FrameTypes
<1>9. CASE \E c \in Connections : WriteMessage(c)
  <2>1. PICK c \in Connections : WriteMessage(c)
    BY <1>9
  <2>2. held' \in [Connections -> Wired(KnownFrames) \union {Nil}]
    BY <2>1 DEF WriteMessage, Types, FrameTypes
  <2>3. CASE link = "up"
    <3>1. PICK f \in KnownFrames : f = Unmarshal(held[c]) /\ Deliver(f)
      BY <2>1, <2>3, OnTheWire DEF WriteMessage, Types, FrameTypes
    <3>2. shown' \in AllStatuses \union {"unknown"}
      <4>1. CASE f \in Reports
        <5>1. PICK s \in AllStatuses : f = StatusNotification(s)
          BY <4>1 DEF Reports
        <5>2. QED
          BY <1>0, <3>1, <5>1, Delivered
      <4>2. CASE f \notin Reports
        BY <1>0, <3>1, <4>2, Delivered DEF Types, PlainTypes
      <4>3. QED
        BY <4>1, <4>2
    <3>3. answers' \in [Ids -> Nat]
      BY <1>0, <3>1, Delivered DEF Types, PlainTypes
    <3>4. registered' \in BOOLEAN
      BY <1>0, <3>1, Delivered DEF Types, PlainTypes
    <3>5. asked' = asked
      BY <3>1 DEF Deliver
    <3>6. PlainTypes'
      BY <2>1, <3>2, <3>3, <3>4, <3>5 DEF WriteMessage, Types, PlainTypes
    <3>7. QED
      BY <2>1, <2>2, <3>6 DEF WriteMessage, Types, FrameTypes
  <2>4. CASE link # "up"
    BY <2>1, <2>2, <2>4 DEF WriteMessage, Types, PlainTypes, FrameTypes
  <2>5. QED
    BY <2>3, <2>4
<1>10. CASE \E c \in Connections : writeLoopEnds(c)
  BY <1>10 DEF writeLoopEnds, Types, PlainTypes, FrameTypes
<1>11. CASE ReadMessage
  <2>1. handling' \in Arrays
    BY <1>11 DEF ReadMessage, Types, FrameTypes
  <2>2. QED
    BY <1>11, <2>1 DEF ReadMessage, Types, PlainTypes, FrameTypes
<1>12. CASE \E m \in Messages, i \in Ids : Ask(m, i)
  <2>1. PICK m \in Messages, i \in Ids : Ask(m, i)
    BY <1>12
  <2>2. (\E a \in Arrays : inbox' = <<a>>) /\ asked' \subseteq Ids
    BY <2>1 DEF Ask, Arrays, Types, PlainTypes
  <2>3. QED
    BY <2>1, <2>2 DEF Ask, Types, PlainTypes, FrameTypes
<1>13. CASE UNCHANGED outboxVars
  BY <1>13 DEF outboxVars, Types, PlainTypes, FrameTypes
<1>14. QED
  BY <1>1, <1>2, <1>3, <1>4, <1>5, <1>6, <1>7, <1>8, <1>9, <1>10, <1>11, <1>12, <1>13
     DEF Next, Methods

LEMMA TypesHold == Spec => []Types
  BY InitTypes, TypesStep, PTL DEF Spec

\* Only what Unmarshal takes for a frame waits to be written, in a sendCh that
\* never holds more than its capacity, and the CSMS is shown no status but one the
\* charger can have.
THEOREM TypeCorrect == Spec => []TypeOK
  BY TypesHold, TypesImplyTypeOK, PTL

-----------------------------------------------------------------------------
(* The writeLoops *)

LEMMA InitWriters == Init => Writers
  BY DEF Init, Writers

LEMMA WritersStep == Types /\ Writers /\ [Next]_outboxVars => Writers'
<1> SUFFICES ASSUME Types, Writers, [Next]_outboxVars PROVE Writers'
  OBVIOUS
<1> USE DEF goroutineVars
<1>1. CASE UNCHANGED <<link, opened, writer, held>>
  BY <1>1 DEF Writers
<1>2. CASE Connected
  <2>1. opened + 1 \in Connections
    BY <1>2, Bounds DEF Connected, Connections, Types, PlainTypes
  <2>2. writer' = [writer EXCEPT ![opened + 1] = "on"] /\ link' = "up" /\ opened' = opened + 1
        /\ held' = held
    BY <1>2 DEF Connected
  <2>3. \A c \in Connections : writer[c] # "on"
    BY <1>2 DEF Connected, Writers
  <2>4. QED
    BY <2>1, <2>2, <2>3 DEF Writers, Types, PlainTypes
<1>3. CASE Close
  BY <1>3 DEF Close, Writers, Types, PlainTypes
<1>4. CASE \E c \in Connections : Receive(c)
  BY <1>4 DEF Receive, Writers, Types, PlainTypes, FrameTypes
<1>5. CASE \E c \in Connections : WriteMessage(c)
  BY <1>5 DEF WriteMessage, Writers, Types, PlainTypes, FrameTypes
<1>6. CASE \E c \in Connections : writeLoopEnds(c)
  BY <1>6 DEF writeLoopEnds, Writers, Types, PlainTypes, FrameTypes
<1>7. CASE Methods
  BY <1>1, <1>7, MethodEffect
<1>8. CASE SendNext \/ SendBoot \/ ReadStatus \/ SendReport \/ ReadMessage
  BY <1>1, <1>8 DEF SendNext, SendBoot, ReadStatus, SendReport, ReadMessage
<1>9. CASE (\E m \in Messages, i \in Ids : Ask(m, i)) \/ UNCHANGED outboxVars
  BY <1>1, <1>9 DEF Ask, outboxVars
<1>10. QED
  BY <1>2, <1>3, <1>4, <1>5, <1>6, <1>7, <1>8, <1>9 DEF Next, Methods

LEMMA WritersHold == Spec => [](Types /\ Writers)
<1>1. Init => Types /\ Writers
  BY InitTypes, InitWriters
<1>2. Types /\ Writers /\ [Next]_outboxVars => (Types /\ Writers)'
  BY TypesStep, WritersStep
<1>3. QED
  BY <1>1, <1>2, PTL DEF Spec

-----------------------------------------------------------------------------
(* One answer to a call *)

LEMMA AtTail ==
  ASSUME NEW U, NEW q \in Seq(U), q # <<>>, NEW S
  PROVE  /\ AtMostOne(At(q, S)) => AtMostOne(At(Tail(q), S))
         /\ AtMostOne(At(q, S)) /\ Head(q) \in S => At(Tail(q), S) = {}
         /\ Head(q) \in S => At(q, S) # {}
         /\ At(q, S) = {} => At(Tail(q), S) = {}
         /\ Head(q) \notin S /\ At(q, S) # {} => At(Tail(q), S) # {}
<1> DEFINE r == Tail(q)
<1>1. /\ Head(q) = q[1] /\ 1 \in DOMAIN q
      /\ \A k \in DOMAIN r : k \in Nat /\ k + 1 \in DOMAIN q /\ r[k] = q[k + 1]
  BY SeqTail
<1>2. \A k \in DOMAIN r : k \in Nat /\ k >= 1
  OBVIOUS
<1> HIDE DEF r
<1>3. \A k \in At(r, S) : k \in Nat /\ k >= 1 /\ k + 1 \in At(q, S)
  BY <1>1, <1>2 DEF At
<1>4. Head(q) \in S => 1 \in At(q, S)
  BY <1>1 DEF At
<1>5. AtMostOne(At(q, S)) => AtMostOne(At(r, S))
  BY <1>3 DEF AtMostOne
<1>6. ASSUME AtMostOne(At(q, S)), Head(q) \in S PROVE At(r, S) = {}
  <2>1. \A k \in At(r, S) : k \in Nat /\ k >= 1 /\ k + 1 = 1
    BY <1>3, <1>4, <1>6 DEF AtMostOne
  <2>2. QED
    BY <2>1
<1>7. Head(q) \notin S /\ At(q, S) # {} => At(r, S) # {}
  <2>1. \A k \in DOMAIN q : k = 1 \/ (k - 1 \in DOMAIN r /\ r[k - 1] = q[k])
    BY SeqTail DEF r
  <2>2. QED
    BY <1>1, <2>1 DEF At
<1>8. QED
  BY <1>3, <1>4, <1>5, <1>6, <1>7 DEF r

LEMMA AtAppend ==
  ASSUME NEW U, NEW q \in Seq(U), NEW e \in U, NEW S
  PROVE  /\ e \notin S => At(Append(q, e), S) = At(q, S)
         /\ At(q, S) = {} => AtMostOne(At(Append(q, e), S))
         /\ e \in S => At(Append(q, e), S) # {}
<1> DEFINE r == Append(q, e)
           n == Len(q) + 1
<1>1. /\ DOMAIN r = DOMAIN q \union {n} /\ r[n] = e
      /\ \A k \in DOMAIN q : r[k] = q[k]
  BY SeqAppend
<1> HIDE DEF r, n
<1>2. e \notin S => At(r, S) = At(q, S)
  BY <1>1 DEF At
<1>3. At(q, S) = {} => AtMostOne(At(r, S))
  BY <1>1 DEF At, AtMostOne
<1>4. e \in S => At(r, S) # {}
  BY <1>1 DEF At
<1>5. QED
  BY <1>2, <1>3, <1>4 DEF r

\* A frame that is sent puts at most itself in sendCh; an answer that is dropped
\* is lost.
LEMMA SentAnswers ==
  ASSUME Types, NEW f \in KnownFrames, NEW why, sendRaw(f, why), NEW i \in Ids
  PROVE  /\ f \notin AnswersTo(i) => InQueue(i)' = InQueue(i)
         /\ InQueue(i) = {} => AtMostOne(InQueue(i)')
         /\ f \in AnswersTo(i) => InQueue(i)' # {} \/ i \in lost'
         /\ lost \subseteq lost'
<1>1. sendCh \in Seq(Wired(KnownFrames)) /\ Marshal(f) \in Wired(KnownFrames)
      /\ status \in AllStatuses
  BY DEF Types, PlainTypes, FrameTypes, Wired
<1>2. f \notin AnswersTo(i) => Marshal(f) \notin Wired(AnswersTo(i))
  BY WiredIff DEF KnownFrames
<1>3. CASE sendCh' = Append(sendCh, Marshal(f)) /\ UNCHANGED lost
  <2>1. f \in AnswersTo(i) => Marshal(f) \in Wired(AnswersTo(i))
    BY DEF Wired
  <2>2. QED
    BY <1>1, <1>2, <1>3, <2>1, AtAppend DEF InQueue
<1>4. CASE UNCHANGED sendCh /\ lost \subseteq lost' /\ (IsAnswer(f) => f.UniqueID \in lost')
  <2>1. f \in AnswersTo(i) => IsAnswer(f) /\ f.UniqueID = i
    BY Known
  <2>2. QED
    BY <1>4, <2>1 DEF InQueue, AtMostOne
<1>5. QED
  BY <1>1, <1>3, <1>4, Sent

LEMMA NotNil ==
  /\ \A F : F \subseteq KnownFrames => Nil \notin Wired(F)
  /\ \A i \in Ids : AnswersTo(i) \subseteq KnownFrames /\ Nil \notin Asking(i)
<1>1. \A F : F \subseteq KnownFrames => Nil \notin Wired(F)
  BY Known DEF Wired
<1>2. \A i \in Ids : Asking(i) \subseteq Arrays
  BY DEF Asking, Arrays
<1>3. QED
  BY <1>1, <1>2, Messaged DEF KnownFrames

LEMMA InitAnswers == Init => AnswerInv
  BY NotNil DEF Init, AnswerInv, Accounted, OnePlace, Underway, Unread, Reading, Due,
         InQueue, InHand, At, AtMostOne

LEMMA AnswerStep ==
  ASSUME Types, NEW i \in Ids, Accounted(i), [Next]_outboxVars
  PROVE  Accounted(i)'
<1> USE DEF goroutineVars, csmsVars, ghostVars
<1> DEFINE W == Wired(AnswersTo(i))
<1>0. /\ outgoing \in Seq(KnownFrames) /\ sendCh \in Seq(Wired(KnownFrames))
      /\ Nil \notin W /\ Nil \notin Asking(i) /\ AnswersTo(i) \subseteq KnownFrames
      /\ status \in AllStatuses
  BY NotNil DEF Types, PlainTypes, FrameTypes
<1>1. ASSUME UNCHANGED <<held, handling, inbox, asked, answers>>,
             lost \subseteq lost', link = "up" => link' = "up",
             Due(i)' = Due(i), InQueue(i)' = InQueue(i)
      PROVE  Accounted(i)'
  BY <1>0, <1>1 DEF Accounted, OnePlace, Underway, Unread, Reading, InHand
<1>2. CASE SendNext
  <2> DEFINE f == Head(outgoing)
  <2>1. /\ f \in KnownFrames /\ sendRaw(f, excuse) /\ outgoing # <<>> /\ outgoing' = Tail(outgoing)
        /\ UNCHANGED <<link, held, handling, inbox, asked, answers>>
    BY <1>0, <1>2, SeqTail DEF SendNext, Unlocked
  <2>2. /\ AtMostOne(Due(i)) => AtMostOne(Due(i)')
        /\ AtMostOne(Due(i)) /\ f \in AnswersTo(i) => Due(i)' = {} /\ Due(i) # {}
        /\ Due(i) = {} => Due(i)' = {}
        /\ f \notin AnswersTo(i) /\ Due(i) # {} => Due(i)' # {}
    BY <1>0, <2>1, AtTail DEF Due
  <2>3. /\ f \notin AnswersTo(i) => InQueue(i)' = InQueue(i)
        /\ InQueue(i) = {} => AtMostOne(InQueue(i)')
        /\ f \in AnswersTo(i) => InQueue(i)' # {} \/ i \in lost'
        /\ lost \subseteq lost'
    BY <2>1, SentAnswers
  <2> HIDE DEF f
  <2>4. QED
    BY <2>1, <2>2, <2>3 DEF Accounted, OnePlace, Underway, Unread, Reading, InHand
<1>3. CASE Methods
  <2>1. /\ UNCHANGED <<link, held, inbox, sendCh, asked, answers, lost>>
        /\ \/ handling' = handling /\ Unlocked /\ Due(i)' = {}
           \/ handling' = Nil /\ handling \notin Asking(i) /\ UNCHANGED outgoing
           \/ /\ handling' = Nil /\ handling \in Asking(i)
              /\ AtMostOne(Due(i))' /\ Due(i)' # {}
           \/ handling' = Nil /\ handling \notin Asking(i) /\ Unlocked /\ Due(i)' = {}
    <3>1. \A j \in Ids : handling \in Asking(j) => IsCall(handling)
      BY Messaged DEF Asking, Arrays
    <3>2. \A j \in Ids : handling \in Asking(j) /\ handling \in Asking(i) => j = i
      BY Messaged DEF Asking, Arrays
    <3>3. /\ UNCHANGED <<link, held, inbox, sendCh, asked, answers, lost>>
          /\ \/ handling' = handling /\ Unlocked /\ \A j \in Ids : Due(j)' = {}
             \/ handling' = Nil /\ ~IsCall(handling) /\ UNCHANGED outgoing
             \/ /\ handling' = Nil /\ Unlocked
                /\ \E j \in Ids : /\ handling \in Asking(j)
                                  /\ AtMostOne(Due(j))' /\ Due(j)' # {}
                                  /\ \A k \in Ids \ {j} : Due(k)' = {}
      BY <1>3, MethodEffect
    <3>4. CASE \/ handling' = handling /\ Unlocked /\ \A j \in Ids : Due(j)' = {}
               \/ handling' = Nil /\ ~IsCall(handling) /\ UNCHANGED outgoing
      BY <3>1, <3>3, <3>4
    <3>5. ASSUME handling' = Nil, Unlocked, NEW j \in Ids, handling \in Asking(j),
                 AtMostOne(Due(j))', Due(j)' # {}, \A k \in Ids \ {j} : Due(k)' = {}
          PROVE  \/ handling \in Asking(i) /\ AtMostOne(Due(i))' /\ Due(i)' # {}
                 \/ handling \notin Asking(i) /\ Due(i)' = {}
      <4>1. CASE j = i
        BY <3>5, <4>1
      <4>2. CASE j # i
        BY <3>2, <3>5, <4>2
      <4>3. QED
        BY <4>1, <4>2
    <3>6. QED
      BY <3>3, <3>4, <3>5
  <2> Unlocked => Due(i) = {}
    BY DEF Unlocked, Due, At
  <2>2. InQueue(i)' = InQueue(i) /\ InHand(i)' = InHand(i) /\ (Unread(i)' <=> Unread(i))
    BY <2>1 DEF InQueue, InHand, Unread
  <2>3. CASE handling' = handling /\ Unlocked /\ Due(i)' = {}
    BY <2>1, <2>2, <2>3 DEF Accounted, OnePlace, Underway, Reading, AtMostOne
  <2>4. CASE handling' = Nil /\ handling \notin Asking(i) /\ UNCHANGED outgoing
    <3>1. Due(i)' = Due(i) /\ ~Reading(i)' /\ ~Reading(i)
      BY <1>0, <2>4 DEF Due, Reading
    <3>2. QED
      BY <2>1, <2>2, <3>1 DEF Accounted, OnePlace, Underway
  <2>5. CASE /\ handling' = Nil /\ handling \in Asking(i)
             /\ AtMostOne(Due(i))' /\ Due(i)' # {}
    <3>1. Reading(i) /\ ~Reading(i)'
      BY <1>0, <2>5 DEF Reading
    <3>2. QED
      BY <2>1, <2>2, <2>5, <3>1 DEF Accounted, OnePlace, Underway
  <2>6. CASE handling' = Nil /\ handling \notin Asking(i) /\ Unlocked /\ Due(i)' = {}
    <3>1. ~Reading(i)' /\ ~Reading(i)
      BY <1>0, <2>6 DEF Reading
    <3>2. QED
      BY <2>1, <2>2, <2>6, <3>1 DEF Accounted, OnePlace, Underway, AtMostOne
  <2>7. QED
    BY <2>1, <2>3, <2>4, <2>5, <2>6
<1>4. CASE Connected \/ ReadStatus \/ (\E c \in Connections : writeLoopEnds(c))
           \/ UNCHANGED outboxVars
  <2>1. /\ UNCHANGED <<held, handling, inbox, asked, answers, outgoing, sendCh, lost>>
        /\ link = "up" => link' = "up"
    BY <1>4 DEF Connected, ReadStatus, writeLoopEnds, outboxVars
  <2>2. QED
    BY <1>1, <2>1 DEF Due, InQueue
<1>5. CASE Close
  <2>1. UNCHANGED <<held, handling, asked, answers, outgoing, sendCh>> /\ inbox' = <<>>
        /\ lost' = lost \union {j \in asked : answers[j] = 0}
    BY <1>5 DEF Close
  <2>2. ~Unread(i)'
    BY <2>1 DEF Unread
  <2>3. /\ Due(i)' = Due(i) /\ InQueue(i)' = InQueue(i) /\ InHand(i)' = InHand(i)
        /\ Reading(i)' <=> Reading(i)
    BY <2>1 DEF Reading, Due, InQueue, InHand
  <2>4. i \in asked /\ Underway(i) => i \in lost'
    BY <2>1 DEF Accounted
  <2>5. QED
    BY <2>1, <2>2, <2>3, <2>4 DEF Accounted, OnePlace, Underway
<1>6. CASE SendBoot \/ SendReport
  <2>1. PICK f \in {BootNotification, StatusNotification(seen)}, why \in {excuse, "outdated"} :
          sendRaw(f, why)
    BY <1>6 DEF SendBoot, SendReport
  <2>2. f \in KnownFrames /\ f \notin AnswersTo(i)
    BY <2>1, OwnFrames, Known DEF Types, PlainTypes
  <2>3. UNCHANGED <<link, held, handling, inbox, asked, answers, outgoing>>
    BY <1>6 DEF SendBoot, SendReport
  <2>4. QED
    BY <1>1, <2>1, <2>2, <2>3, SentAnswers DEF Due
<1>7. CASE \E c \in Connections : Receive(c)
  <2>1. PICK c \in Connections : Receive(c)
    BY <1>7
  <2> DEFINE w == Head(sendCh)
  <2>2. /\ held[c] = Nil /\ held' = [held EXCEPT ![c] = w]
        /\ sendCh # <<>> /\ sendCh' = Tail(sendCh)
        /\ UNCHANGED <<link, handling, inbox, asked, answers, outgoing, lost>>
    BY <2>1 DEF Receive
  <2>3. /\ AtMostOne(InQueue(i)) => AtMostOne(InQueue(i)')
        /\ AtMostOne(InQueue(i)) /\ w \in W => InQueue(i)' = {} /\ InQueue(i) # {}
        /\ InQueue(i) = {} => InQueue(i)' = {}
        /\ w \notin W /\ InQueue(i) # {} => InQueue(i)' # {}
    BY <1>0, <2>2, AtTail DEF InQueue
  <2> HIDE DEF w
  <2>4. /\ w \in W => InHand(i)' = InHand(i) \union {c}
        /\ w \notin W => InHand(i)' = InHand(i)
    BY <1>0, <2>2 DEF InHand, Types, FrameTypes
  <2>5. /\ Due(i)' = Due(i) /\ (Reading(i)' <=> Reading(i)) /\ (Unread(i)' <=> Unread(i))
    BY <2>2 DEF Due, Reading, Unread
  <2>6. CASE w \in W
    BY <2>2, <2>3, <2>4, <2>5, <2>6 DEF Accounted, OnePlace, Underway, AtMostOne
  <2>7. CASE w \notin W
    BY <2>2, <2>3, <2>4, <2>5, <2>7 DEF Accounted, OnePlace, Underway, AtMostOne
  <2>8. QED
    BY <2>6, <2>7
<1>8. CASE \E c \in Connections : WriteMessage(c)
  <2>1. PICK c \in Connections : WriteMessage(c)
    BY <1>8
  <2>2. /\ held[c] \in Wired(KnownFrames) /\ held' = [held EXCEPT ![c] = Nil]
        /\ UNCHANGED <<link, handling, inbox, outgoing, sendCh, lost>>
    BY <2>1 DEF WriteMessage, Types, FrameTypes
  <2>3. InHand(i)' = InHand(i) \ {c}
    BY <1>0, <2>2 DEF InHand, Types, FrameTypes
  <2>4. /\ Due(i)' = Due(i) /\ InQueue(i)' = InQueue(i)
        /\ (Reading(i)' <=> Reading(i)) /\ (Unread(i)' <=> Unread(i))
    BY <2>2 DEF Due, InQueue, Reading, Unread
  <2>5. /\ asked' = asked
        /\ link # "up" \/ held[c] \notin W => answers'[i] = answers[i]
        /\ link = "up" /\ held[c] \in W => answers'[i] = answers[i] + 1
    <3>1. CASE link = "up"
      <4>1. PICK f \in KnownFrames : f = Unmarshal(held[c]) /\ Deliver(f)
        BY <2>1, <2>2, <3>1, OnTheWire DEF WriteMessage
      <4>2. held[c] \in W <=> IsAnswer(f) /\ f.UniqueID = i
        BY <1>0, <2>2, <4>1, OnTheWire, Known
      <4>3. answers \in [Ids -> Nat]
        BY DEF Types, PlainTypes
      <4>4. QED
        BY <1>0, <3>1, <4>1, <4>2, <4>3, Delivered
    <3>2. CASE link # "up"
      BY <2>1, <3>2 DEF WriteMessage
    <3>3. QED
      BY <3>1, <3>2
  <2>6. CASE held[c] \in W
    <3>1. c \in InHand(i)
      BY <2>6 DEF InHand
    <3>2. InHand(i)' = {} /\ ~Underway(i)' /\ answers[i] = 0 /\ i \in asked
      BY <2>3, <2>4, <3>1 DEF Accounted, OnePlace, Underway, AtMostOne
    <3>3. OnePlace(i)'
      BY <2>4, <3>2 DEF Underway, OnePlace, AtMostOne
    <3>4. answers'[i] = 1 \/ (answers'[i] = 0 /\ i \in lost)
      BY <2>5, <2>6, <3>2 DEF Accounted
    <3>5. QED
      BY <2>2, <2>5, <3>2, <3>3, <3>4 DEF Accounted
  <2>7. CASE held[c] \notin W
    <3>1. answers'[i] = answers[i] /\ InHand(i)' = InHand(i)
      BY <2>3, <2>5, <2>7 DEF InHand
    <3>2. QED
      BY <2>2, <2>4, <2>5, <3>1 DEF Accounted, OnePlace, Underway
  <2>8. QED
    BY <2>6, <2>7
<1>9. CASE ReadMessage
  <2>1. PICK a \in Arrays : inbox = <<a>>
    BY <1>9 DEF ReadMessage, Types, FrameTypes
  <2>2. /\ handling = Nil /\ handling' = a /\ inbox' = <<>>
        /\ UNCHANGED <<link, held, outgoing, sendCh, asked, answers, lost>>
    BY <1>9, <2>1 DEF ReadMessage
  <2>3. ~Unread(i)' /\ ~Reading(i) /\ (Reading(i)' <=> Unread(i))
    <3>1. <<a>> # <<>> /\ \A b : <<a>> = <<b>> => a = b
      OBVIOUS
    <3>2. QED
      BY <1>0, <2>1, <2>2, <3>1 DEF Unread, Reading
  <2>4. Due(i)' = Due(i) /\ InQueue(i)' = InQueue(i) /\ InHand(i)' = InHand(i)
    BY <2>2 DEF Due, InQueue, InHand
  <2>5. QED
    BY <2>2, <2>3, <2>4 DEF Accounted, OnePlace, Underway
<1>10. CASE \E m \in Messages, j \in Ids : Ask(m, j)
  <2>1. PICK m \in Messages, j \in Ids : Ask(m, j)
    BY <1>10
  <2> DEFINE a == Array(m, j)
  <2>2. /\ link = "up" /\ j \notin asked /\ inbox = <<>> /\ inbox' = <<a>>
        /\ asked' = IF m \in NoCalls THEN asked ELSE asked \union {j}
        /\ UNCHANGED <<link, held, handling, outgoing, sendCh, answers, lost>>
    BY <2>1 DEF Ask
  <2>3. m \in AllMessages /\ a \in Arrays
    BY OutboxAssumption DEF Arrays
  <2>4. a \in Asking(i) <=> m \notin NoCalls /\ i = j
    BY <2>3, ArrayRead, Messaged DEF Asking
  <2> HIDE DEF a
  <2>5. ~Unread(i) /\ (Unread(i)' <=> a \in Asking(i))
    <3>1. <<a>> # <<>> /\ \A b : <<a>> = <<b>> => a = b
      OBVIOUS
    <3>2. QED
      BY <2>2, <3>1 DEF Unread
  <2>6. /\ Due(i)' = Due(i) /\ InQueue(i)' = InQueue(i) /\ InHand(i)' = InHand(i)
        /\ (Reading(i)' <=> Reading(i))
    BY <2>2 DEF Due, InQueue, InHand, Reading
  <2>7. CASE a \in Asking(i)
    <3>1. i \notin asked /\ i \in asked' /\ ~Underway(i)
      BY <2>2, <2>4, <2>7 DEF Accounted
    <3>2. answers[i] = 0
      BY <3>1 DEF Accounted, Types, PlainTypes
    <3>3. QED
      BY <2>2, <2>5, <2>6, <2>7, <3>1, <3>2 DEF Accounted, OnePlace, Underway
  <2>8. CASE a \notin Asking(i)
    <3>1. answers[i] \in Nat /\ (i \in asked' <=> i \in asked)
      BY <2>2, <2>4, <2>8 DEF Types, PlainTypes
    <3>2. QED
      BY <2>2, <2>5, <2>6, <2>8, <3>1 DEF Accounted, OnePlace, Underway
  <2>9. QED
    BY <2>7, <2>8
<1>11. QED
  BY <1>2, <1>3, <1>4, <1>5, <1>6, <1>7, <1>8, <1>9, <1>10 DEF Next, Methods

\* A call is unread, being handled, or its one answer is on its way: in one place
\* only.  Whoever takes it puts it in the next place, or it is lost with the
\* connection or to a full sendCh.  So no call gets two answers, a message that is
\* no call gets none, and no call is forgotten.
THEOREM OneAnswerHolds == Spec => []OneAnswer
<1>1. Init => AnswerInv
  BY InitAnswers
<1>2. Types /\ AnswerInv /\ [Next]_outboxVars => AnswerInv'
  BY AnswerStep DEF AnswerInv
<1>3. ASSUME AnswerInv PROVE OneAnswer
  <2>1. ASSUME NEW i \in Ids, Quiet, inbox = <<>>, handling = Nil PROVE ~Underway(i)
    <3>1. ~Unread(i) /\ ~Reading(i)
      BY <2>1, NotNil DEF Unread, Reading
    <3>2. Due(i) = {} /\ InQueue(i) = {} /\ InHand(i) = {}
      BY <2>1, NotNil DEF Quiet, Unlocked, Due, InQueue, InHand, At
    <3>3. QED
      BY <3>1, <3>2 DEF Underway
  <2>2. QED
    BY <1>3, <2>1 DEF AnswerInv, Accounted, OneAnswer
<1>4. QED
  BY <1>1, <1>2, <1>3, TypesHold, PTL DEF Spec

-----------------------------------------------------------------------------
(* BootNotification *)

\* What waits in sendCh still waits after a frame has been sent, or been received
\* by a writeLoop.
LEMMA SentKeeps ==
  ASSUME Types, NEW f \in KnownFrames, NEW why, sendRaw(f, why)
  PROVE  /\ \A w : At(sendCh, {w}) # {} => At(sendCh', {w}) # {}
         /\ noRoom => noRoom'
         /\ f = BootNotification => At(sendCh', {Marshal(BootNotification)}) # {} \/ noRoom'
<1>1. sendCh \in Seq(Wired(KnownFrames)) /\ Marshal(f) \in Wired(KnownFrames)
      /\ status \in AllStatuses
  BY DEF Types, PlainTypes, FrameTypes, Wired
<1>2. CASE sendCh' = Append(sendCh, Marshal(f)) /\ UNCHANGED noRoom
  <2> DEFINE r == Append(sendCh, Marshal(f))
             n == Len(sendCh) + 1
  <2>1. /\ DOMAIN r = DOMAIN sendCh \union {n} /\ r[n] = Marshal(f)
        /\ \A k \in DOMAIN sendCh : r[k] = sendCh[k]
    BY <1>1, SeqAppend
  <2>2. sendCh' = r
    BY <1>2
  <2> HIDE DEF r, n
  <2>3. \A w : At(sendCh, {w}) # {} => At(r, {w}) # {}
    BY <2>1 DEF At
  <2>4. At(r, {Marshal(f)}) # {}
    BY <2>1 DEF At
  <2>5. QED
    BY <1>2, <2>2, <2>3, <2>4
<1>3. CASE UNCHANGED sendCh /\ noRoom' = (noRoom \/ f = BootNotification)
  BY <1>3
<1>4. QED
  BY <1>1, <1>2, <1>3, Sent

LEMMA BootStep == Types /\ BootInv /\ [Next]_outboxVars => BootInv'
<1> SUFFICES ASSUME Types, BootInv, [Next]_outboxVars, link' = "up", run' # "boot"
             PROVE  Booted'
  BY DEF BootInv
<1> USE DEF goroutineVars, csmsVars, ghostVars
<1> DEFINE w == Marshal(BootNotification)
<1>0. BootNotification \in KnownFrames /\ w \in Wired(KnownFrames) /\ w # Nil
  BY OwnFrames, Known DEF Wired
<1> HIDE DEF w
<1>1. ASSUME link = "up", run # "boot", registered => registered', noRoom => noRoom',
             At(sendCh, {w}) # {} => At(sendCh', {w}) # {}, held' = held
      PROVE  Booted'
  BY <1>1 DEF BootInv, Booted, w
<1>2. CASE SendNext \/ SendReport
  <2>1. PICK f \in KnownFrames, why \in {excuse, "outdated"} : sendRaw(f, why)
    BY <1>2, SeqTail, OwnFrames DEF SendNext, SendReport, Unlocked, Types, PlainTypes, FrameTypes
  <2>2. UNCHANGED <<link, registered, held>> /\ (run = "report" \/ run' = run)
    BY <1>2 DEF SendNext, SendReport
  <2>3. QED
    BY <1>1, <2>1, <2>2, SentKeeps
<1>3. CASE SendBoot
  <2>1. At(sendCh', {w}) # {} \/ noRoom'
    BY <1>0, <1>3, SentKeeps DEF SendBoot, w
  <2>2. QED
    BY <2>1 DEF Booted, w
<1>4. CASE Methods
  <2>1. UNCHANGED <<link, held, sendCh, registered, noRoom>> /\ (run' = run \/ run = "resume")
    BY <1>4, MethodEffect
  <2>2. QED
    BY <1>1, <2>1
<1>5. CASE Connected \/ Close
  BY <1>5 DEF Connected, Close
<1>6. CASE ReadStatus \/ ReadMessage
  BY <1>1, <1>6 DEF ReadStatus, ReadMessage
<1>7. CASE (\E m \in Messages, i \in Ids : Ask(m, i)) \/ (\E c \in Connections : writeLoopEnds(c))
           \/ UNCHANGED outboxVars
  <2>1. UNCHANGED <<link, run, registered, noRoom, sendCh, held>>
    BY <1>7 DEF Ask, writeLoopEnds, outboxVars
  <2>2. QED
    BY <1>1, <2>1
<1>8. CASE \E c \in Connections : Receive(c)
  <2>1. PICK c \in Connections : Receive(c)
    BY <1>8
  <2>2. /\ held[c] = Nil /\ held' = [held EXCEPT ![c] = Head(sendCh)] /\ sendCh # <<>>
        /\ sendCh' = Tail(sendCh) /\ UNCHANGED <<link, run, registered, noRoom>>
    BY <2>1 DEF Receive
  <2>3. CASE Head(sendCh) = w
    BY <2>2, <2>3 DEF Booted, w, Types, FrameTypes
  <2>4. CASE Head(sendCh) # w
    <3>1. At(sendCh, {w}) # {} => At(Tail(sendCh), {w}) # {}
      <4>1. /\ Head(sendCh) = sendCh[1]
            /\ \A k \in DOMAIN sendCh : k = 1 \/ k - 1 \in DOMAIN Tail(sendCh)
            /\ \A k \in DOMAIN sendCh : k # 1 => Tail(sendCh)[k - 1] = sendCh[k]
        BY <2>2, SeqTail DEF Types, FrameTypes
      <4>2. QED
        BY <2>4, <4>1 DEF At
    <3>2. \A d \in Connections : held[d] = w => held'[d] = w
      BY <1>0, <2>2 DEF Types, FrameTypes
    <3>3. QED
      BY <2>2, <3>1, <3>2 DEF BootInv, Booted, w
  <2>5. QED
    BY <2>3, <2>4
<1>9. CASE \E c \in Connections : WriteMessage(c)
  <2>1. PICK c \in Connections : WriteMessage(c)
    BY <1>9
  <2>2. /\ held[c] \in Wired(KnownFrames) /\ held' = [held EXCEPT ![c] = Nil]
        /\ UNCHANGED <<link, run, sendCh, noRoom>> /\ Deliver(Unmarshal(held[c]))
    BY <2>1 DEF WriteMessage, Types, FrameTypes
  <2>3. /\ registered => registered'
        /\ held[c] = w => registered'
    BY <1>0, <2>2, Known, OwnFrames DEF Deliver, w
  <2>4. \A d \in Connections : held[d] = w => held'[d] = w \/ d = c
    BY <2>2 DEF Types, FrameTypes
  <2>5. QED
    BY <2>2, <2>3, <2>4 DEF BootInv, Booted, w
<1>10. QED
  BY <1>2, <1>3, <1>4, <1>5, <1>6, <1>7, <1>8, <1>9 DEF Next, Methods

\* On a connection that lasts until all is sent the CSMS has got BootNotification,
\* unless sendCh had no room for it, whatever else is sent on the connection
\* and by whichever writeLoop.
THEOREM RegisteredHolds == Spec => []Registered
<1>1. Init => BootInv
  BY DEF Init, BootInv
<1>2. ASSUME Types, BootInv PROVE Registered
  <2>1. Marshal(BootNotification) # Nil
    BY OwnFrames, Known
  <2>2. At(<<>>, {Marshal(BootNotification)}) = {}
    BY DEF At
  <2>3. QED
    BY <1>2, <2>1, <2>2 DEF BootInv, Booted, Registered, Quiet
<1>3. QED
  BY <1>1, <1>2, BootStep, TypesHold, PTL DEF Spec

-----------------------------------------------------------------------------
(* The status that is shown *)

LEMMA WiredReports ==
  /\ Reports \subseteq KnownFrames /\ Nil \notin Wired(Reports)
  /\ status \in AllStatuses =>
        /\ Current \subseteq Reports /\ Wired(Current) \subseteq Wired(Reports)
        /\ Nil \notin Wired(Current)
<1>1. Reports \subseteq KnownFrames /\ Nil \notin Wired(Reports)
  BY NotNil DEF KnownFrames
<1>2. ASSUME status \in AllStatuses
      PROVE  Current \subseteq Reports /\ Wired(Current) \subseteq Wired(Reports)
  BY <1>2 DEF Current, Reports, Wired
<1>3. QED
  BY <1>1, <1>2

LEMMA LastOrNone ==
  ASSUME NEW q, NEW S, NEW T, T \subseteq S, LastIn(q, S, T)
  PROVE  ~NoneIn(q, S)
  BY DEF LastIn, NoneIn

\* What the report that run or a method sends does to the reports on their way.
LEMMA SentReport ==
  ASSUME Types, NEW f \in KnownFrames, NEW why, sendRaw(f, why)
  PROVE  /\ f \notin Reports =>
               /\ excuse' = excuse
               /\ LastIn(sendCh, Wired(Reports), Wired(Current)) =>
                     LastIn(sendCh', Wired(Reports), Wired(Current))
               /\ NoneIn(sendCh, Wired(Reports)) => NoneIn(sendCh', Wired(Reports))
         /\ f \in Current => \/ LastIn(sendCh', Wired(Reports), Wired(Current))
                             \/ excuse' = "dropped"
         /\ f \in Reports /\ f \notin Current => excuse' = why \/ excuse' = "dropped"
<1>1. sendCh \in Seq(Wired(KnownFrames)) /\ Marshal(f) \in Wired(KnownFrames)
      /\ status \in AllStatuses
  BY DEF Types, PlainTypes, FrameTypes, Wired
<1>2. /\ f \notin Reports => Marshal(f) \notin Wired(Reports)
      /\ f \in Current => f \in Reports /\ Marshal(f) \in Wired(Current)
  BY <1>1, WiredReports, WiredIff DEF Wired
<1>3. ASSUME sendCh' = Append(sendCh, Marshal(f))
      PROVE  /\ f \notin Reports =>
                   /\ LastIn(sendCh, Wired(Reports), Wired(Current)) =>
                         LastIn(sendCh', Wired(Reports), Wired(Current))
                   /\ NoneIn(sendCh, Wired(Reports)) => NoneIn(sendCh', Wired(Reports))
             /\ f \in Current => LastIn(sendCh', Wired(Reports), Wired(Current))
  BY <1>1, <1>2, <1>3, LastQueued
<1>4. QED
  BY <1>1, <1>2, <1>3, Sent

LEMMA ReportStep == Types /\ Writers /\ ReportInv /\ [Next]_outboxVars => ReportInv'
<1> SUFFICES ASSUME Types, Writers, ReportInv, [Next]_outboxVars PROVE ReportInv'
  OBVIOUS
<1> USE DEF goroutineVars, csmsVars, ghostVars
<1>0. /\ status \in AllStatuses
      /\ outgoing \in Seq(KnownFrames) /\ sendCh \in Seq(Wired(KnownFrames))
      /\ held \in [Connections -> Wired(KnownFrames) \union {Nil}]
  BY DEF Types, PlainTypes, FrameTypes
<1> DEFINE Settled == link = "up" /\ run \in {"resume", "loop"} /\ excuse = "none"
<1>1. ASSUME UNCHANGED <<status, outgoing>> PROVE ToReport' /\ Current' = Current
  BY <1>1 DEF ReportInv, ToReport, Current
<1>2. CASE SendNext
  <2> DEFINE f == Head(outgoing)
           rest == Tail(outgoing)
  <2>1. /\ f \in KnownFrames /\ sendRaw(f, excuse) /\ outgoing # <<>> /\ outgoing' = rest
        /\ rest \in Seq(KnownFrames) /\ status' = Setting(rest)
        /\ UNCHANGED <<link, opened, run, writer, held, shown>>
    BY <1>0, <1>2, SeqTail DEF SendNext, Unlocked
  <2>a. CASE outgoing = StopFrames
    BY <2>1, <2>a, StopSends DEF ReportInv, ToReport, Shown
  <2>b. CASE outgoing = Tail(StopFrames)
    <3> DEFINE b == StatusNotification("Available")
    <3>1. rest = <<b>> /\ status' = "Available"
      BY <2>1, <2>b, StopSends DEF Setting
    <3>2. b \in Reports /\ Current' = {b}
      BY <3>1, OwnFrames DEF AllStatuses, Current
    <3> HIDE DEF b
    <3>3. LastIn(outgoing', Reports, Current') /\ NoneIn(outgoing', Reports \ Current')
      BY <2>1, <3>1, <3>2, LastOfTwo
    <3>4. ~NoneIn(outgoing', Reports)
      BY <3>2, <3>3, LastOrNone
    <3>5. QED
      BY <3>3, <3>4 DEF ReportInv, ToReport, Shown
  <2> SUFFICES ASSUME \/ NoneIn(outgoing, Reports)
                      \/ /\ LastIn(outgoing, Reports, Current)
                         /\ NoneIn(outgoing, Reports \ Current)
               PROVE  ReportInv'
    BY <2>a, <2>b DEF ReportInv, ToReport
  <2>c. NoneIn(outgoing, Reports \ Current) /\ NoneIn(rest, Reports \ Current)
    <3>1. NoneIn(outgoing, Reports \ Current)
      BY DEF NoneIn
    <3>2. QED
      BY <1>0, <2>1, <3>1, LastTaken
  <2>d. status' = status
    <3>1. ASSUME rest # <<>>, IsStatus(Head(rest)) PROVE Head(rest).Payload.object = status
      <4>1. Head(rest) \in Reports /\ Head(rest) \in KnownFrames
        BY <2>1, <3>1, SeqTail, Known
      <4>2. Head(rest) \notin Reports \ Current
        BY <2>1, <2>c, <3>1, LastTaken
      <4>3. QED
        BY <1>0, <4>1, <4>2, OwnFrames DEF Current
    <3>2. QED
      BY <2>1, <3>1 DEF Setting
  <2>2. Current' = Current /\ Current \subseteq Reports
    BY <1>0, <2>d, WiredReports DEF Current
  <2> HIDE DEF rest
  <2>3. /\ LastIn(outgoing, Reports, Current) =>
              LastIn(outgoing', Reports, Current) \/ (f \in Current /\ NoneIn(outgoing', Reports))
        /\ NoneIn(outgoing, Reports) => NoneIn(outgoing', Reports) /\ f \notin Reports
        /\ f \notin Reports /\ NoneIn(outgoing', Reports) => NoneIn(outgoing, Reports)
    BY <1>0, <2>1, LastTaken DEF rest
  <2> HIDE DEF f
  <2>4. ToReport'
    BY <2>1, <2>2, <2>3, <2>c DEF ToReport
  <2>5. ASSUME Settled' PROVE Shown'
    <3>1. CASE f \notin Reports
      <4>1. excuse' = excuse /\ Shown
        BY <2>1, <2>5, <3>1, SentReport DEF ReportInv
      <4>2. QED
        BY <2>1, <2>2, <2>3, <2>d, <3>1, <4>1, SentReport DEF Shown
    <3>2. CASE f \in Reports /\ NoneIn(outgoing', Reports)
      <4>1. f \in Current
        BY <2>2, <2>3, <3>2, LastOrNone
      <4>2. LastIn(sendCh', Wired(Reports), Wired(Current))
        BY <2>1, <2>5, <4>1, SentReport
      <4>3. QED
        BY <2>2, <4>2 DEF Shown
    <3>3. CASE ~NoneIn(outgoing', Reports)
      BY <3>3 DEF Shown
    <3>4. QED
      BY <3>1, <3>2, <3>3
  <2>6. QED
    BY <2>4, <2>5 DEF ReportInv
<1>3. CASE Methods
  <2>1. /\ UNCHANGED <<link, opened, writer, held, sendCh, shown, excuse>>
        /\ run' = run \/ run = "resume"
        /\ (Unlocked /\ Honest(outgoing')) \/ UNCHANGED <<status, outgoing>>
        /\ status' \in AllStatuses
    BY <1>3, MethodEffect
  <2>2. Settled' => Settled
    BY <2>1
  <2>3. CASE UNCHANGED <<status, outgoing>>
    BY <1>1, <2>1, <2>2, <2>3 DEF ReportInv, Shown
  <2>4. CASE Unlocked /\ status' = status /\ NoneIn(outgoing', Reports)
    <3>1. ToReport' /\ Current' = Current
      BY <2>4 DEF ToReport, Current
    <3>2. NoneIn(outgoing, Reports)
      BY <2>4, NoneInEmpty DEF Unlocked
    <3>3. Shown => Shown'
      BY <2>1, <2>4, <3>1, <3>2 DEF Shown
    <3>4. QED
      BY <2>2, <3>1, <3>3 DEF ReportInv
  <2>5. CASE /\ LastIn(outgoing', Reports, {StatusNotification(status')})
             /\ NoneIn(outgoing', Reports \ {StatusNotification(status')})
    <3>1. Current' = {StatusNotification(status')} /\ Current' \subseteq Reports
      BY <2>1 DEF Current, Reports
    <3>2. ~NoneIn(outgoing', Reports)
      BY <2>5, <3>1, LastOrNone
    <3>3. QED
      BY <2>5, <3>1, <3>2 DEF ReportInv, ToReport, Shown
  <2>6. CASE outgoing' = StopFrames
    BY <2>6, StopSends DEF ReportInv, ToReport, Shown
  <2>7. QED
    BY <2>1, <2>3, <2>4, <2>5, <2>6 DEF Honest
<1>4. CASE Connected \/ Close \/ SendBoot \/ ReadStatus
  <2>1. UNCHANGED <<status, outgoing>> /\ ~(link' = "up" /\ run' \in {"resume", "loop"})
    BY <1>4 DEF Connected, Close, SendBoot, ReadStatus
  <2>2. QED
    BY <1>1, <2>1 DEF ReportInv
<1>5. CASE SendReport
  <2>1. sendRaw(StatusNotification(seen), "outdated") /\ UNCHANGED <<status, outgoing>>
    BY <1>5 DEF SendReport
  <2>2. StatusNotification(seen) \in KnownFrames /\ StatusNotification(seen) \in Reports
    BY OwnFrames DEF Types, PlainTypes
  <2>3. excuse' = "none" => LastIn(sendCh', Wired(Reports), Wired(Current))
    BY <2>1, <2>2, SentReport
  <2>4. QED
    BY <1>1, <2>1, <2>3 DEF ReportInv, Shown
<1>6. CASE \E c \in Connections : Receive(c)
  <2>1. PICK c \in Connections : Receive(c)
    BY <1>6
  <2> DEFINE w == Head(sendCh)
  <2>2. /\ writer[c] # "off" /\ held[c] = Nil /\ held' = [held EXCEPT ![c] = w]
        /\ sendCh # <<>> /\ sendCh' = Tail(sendCh)
        /\ UNCHANGED <<link, opened, run, writer, shown, status, outgoing, excuse>>
    BY <2>1 DEF Receive
  <2>3. /\ LastIn(sendCh, Wired(Reports), Wired(Current)) =>
              \/ LastIn(sendCh', Wired(Reports), Wired(Current))
              \/ w \in Wired(Current) /\ NoneIn(sendCh', Wired(Reports))
        /\ NoneIn(sendCh, Wired(Reports)) =>
              NoneIn(sendCh', Wired(Reports)) /\ w \notin Wired(Reports)
    BY <1>0, <2>2, LastTaken
  <2> HIDE DEF w
  <2>4. ToReport' /\ Current' = Current
    BY <1>1, <2>2
  <2>5. ASSUME Settled PROVE Shown'
    <3>1. Shown /\ opened \in Connections /\ writer[opened] = "on"
      BY <2>5 DEF ReportInv, Writers
    <3>2. /\ held'[c] = w
          /\ \A d \in Connections : d # c => held'[d] = held[d]
          /\ Nil \notin Wired(Reports) /\ Nil \notin Wired(Current)
          /\ Wired(Current) \subseteq Wired(Reports)
      BY <1>0, <2>2, WiredReports
    <3>3. c # opened => writer[c] = "stopping"
      BY <2>2 DEF Writers, Types, PlainTypes
    <3>4. CASE ~NoneIn(outgoing, Reports)
      BY <2>2, <3>4 DEF Shown
    <3>5. CASE LastIn(sendCh, Wired(Reports), Wired(Current))
      <4>1. CASE LastIn(sendCh', Wired(Reports), Wired(Current))
        BY <2>4, <4>1 DEF Shown
      <4>2. CASE w \in Wired(Current) /\ NoneIn(sendCh', Wired(Reports))
        BY <2>2, <2>4, <3>2, <3>3, <4>2 DEF Shown
      <4>3. QED
        BY <2>3, <3>5, <4>1, <4>2
    <3>6. CASE NoneIn(sendCh, Wired(Reports))
      <4>1. CASE \E d \in Connections : writer[d] = "stopping" /\ held[d] \in Wired(Reports)
        BY <2>2, <2>3, <3>2, <3>6, <4>1 DEF Shown
      <4>2. CASE held[opened] \in Wired(Current)
        BY <2>2, <2>3, <2>4, <3>1, <3>2, <3>6, <4>2 DEF Shown
      <4>3. CASE held[opened] \notin Wired(Reports) /\ shown = status
        BY <2>2, <2>3, <3>1, <3>2, <3>6, <4>3 DEF Shown
      <4>4. CASE LastIn(sendCh, Wired(Reports), Wired(Current)) \/ ~NoneIn(outgoing, Reports)
        BY <3>4, <3>5, <4>4
      <4>5. QED
        BY <3>1, <4>1, <4>2, <4>3, <4>4 DEF Shown
    <3>7. QED
      BY <3>1, <3>4, <3>5, <3>6 DEF Shown
  <2>6. QED
    BY <2>2, <2>4, <2>5 DEF ReportInv
<1>7. CASE \E c \in Connections : WriteMessage(c)
  <2>1. PICK c \in Connections : WriteMessage(c)
    BY <1>7
  <2>2. /\ held[c] \in Wired(KnownFrames) /\ held' = [held EXCEPT ![c] = Nil]
        /\ UNCHANGED <<link, opened, run, writer, sendCh, status, outgoing>>
    BY <2>1 DEF WriteMessage, Types, FrameTypes
  <2>3. ToReport' /\ Current' = Current
    BY <1>1, <2>2
  <2>4. ASSUME Settled' PROVE Shown'
    <3>1. link = "up" /\ run \in {"resume", "loop"} /\ opened \in Connections
          /\ writer[opened] = "on"
      BY <2>2, <2>4 DEF Writers
    <3>2. PICK f \in KnownFrames :
             /\ f = Unmarshal(held[c]) /\ Deliver(f)
             /\ \A F : F \subseteq KnownFrames => (held[c] \in Wired(F) <=> f \in F)
      BY <2>1, <2>2, <3>1, OnTheWire DEF WriteMessage
    <3>3. excuse' = IF writer[c] = "stopping" /\ IsStatus(f) THEN "late" ELSE excuse
      BY <2>1, <3>1, <3>2 DEF WriteMessage
    <3>4. /\ held[c] \in Wired(Reports) <=> f \in Reports
          /\ held[c] \in Wired(Current) <=> f \in Current
          /\ IsStatus(f) <=> f \in Reports
          /\ Current \subseteq Reports
          /\ Nil \notin Wired(Reports) /\ Wired(Current) \subseteq Wired(Reports)
      BY <1>0, <3>2, WiredReports, Known
    <3>5. Shown /\ excuse = "none" /\ ~(writer[c] = "stopping" /\ f \in Reports)
      BY <2>4, <3>1, <3>3, <3>4 DEF ReportInv
    <3>6. /\ f \notin Reports => shown' = shown
          /\ f \in Current => shown' = status
      BY <1>0, <3>2, Delivered DEF Current
    <3>7. /\ held'[c] = Nil
          /\ \A d \in Connections : d # c => held'[d] = held[d]
      BY <1>0, <2>2
    <3>8. f \in Reports => c = opened
      <4>1. writer[c] # "off"
        BY <1>0, <2>2, NotNil DEF Writers
      <4>2. QED
        BY <3>5, <4>1 DEF Writers, Types, PlainTypes
    <3>9. CASE ~NoneIn(outgoing, Reports) \/ LastIn(sendCh, Wired(Reports), Wired(Current))
      BY <2>2, <2>3, <3>9 DEF Shown
    <3>10. CASE NoneIn(sendCh, Wired(Reports))
      <4>1. CASE \E d \in Connections : writer[d] = "stopping" /\ held[d] \in Wired(Reports)
        <5>1. PICK d \in Connections : writer[d] = "stopping" /\ held[d] \in Wired(Reports)
          BY <4>1
        <5>2. d # c
          BY <3>4, <3>5, <5>1
        <5>3. QED
          BY <2>2, <3>7, <3>10, <5>1, <5>2 DEF Shown
      <4>2. CASE held[opened] \in Wired(Current)
        <5>1. CASE c = opened
          BY <2>2, <3>4, <3>6, <3>7, <3>10, <4>2, <5>1 DEF Shown
        <5>2. CASE c # opened
          BY <2>2, <2>3, <3>1, <3>7, <3>10, <4>2, <5>2 DEF Shown
        <5>3. QED
          BY <5>1, <5>2
      <4>3. CASE held[opened] \notin Wired(Reports) /\ shown = status
        <5>1. f \notin Reports
          BY <3>4, <3>8, <4>3
        <5>2. held'[opened] \notin Wired(Reports)
          BY <3>1, <3>4, <3>7, <4>3
        <5>3. QED
          BY <2>2, <3>6, <3>10, <4>3, <5>1, <5>2 DEF Shown
      <4>4. QED
        BY <3>5, <3>9, <4>1, <4>2, <4>3 DEF Shown
    <3>11. QED
      BY <3>5, <3>9, <3>10 DEF Shown
  <2>5. QED
    BY <2>3, <2>4 DEF ReportInv
<1>8. CASE \E c \in Connections : writeLoopEnds(c)
  <2>1. PICK c \in Connections : writeLoopEnds(c)
    BY <1>8
  <2>2. /\ held[c] = Nil /\ writer' = [writer EXCEPT ![c] = "off"]
        /\ UNCHANGED <<link, opened, run, held, sendCh, shown, status, outgoing, excuse>>
    BY <2>1 DEF writeLoopEnds
  <2>3. ToReport' /\ Current' = Current
    BY <1>1, <2>2
  <2>4. \A d \in Connections : writer[d] = "stopping" /\ held[d] \in Wired(Reports) =>
           writer'[d] = "stopping"
    BY <2>2, WiredReports DEF Types, PlainTypes
  <2>5. Shown => Shown'
    BY <2>2, <2>3, <2>4 DEF Shown
  <2>6. QED
    BY <2>2, <2>3, <2>5 DEF ReportInv
<1>9. CASE ReadMessage \/ (\E m \in Messages, i \in Ids : Ask(m, i)) \/ UNCHANGED outboxVars
  <2>1. UNCHANGED <<link, opened, run, writer, held, sendCh, shown, status, outgoing, excuse>>
    BY <1>9 DEF ReadMessage, Ask, outboxVars
  <2>2. ToReport' /\ Current' = Current
    BY <1>1, <2>1
  <2>3. Shown => Shown'
    BY <2>1, <2>2 DEF Shown
  <2>4. QED
    BY <2>1, <2>2, <2>3 DEF ReportInv
<1>10. QED
  BY <1>2, <1>3, <1>4, <1>5, <1>6, <1>7, <1>8, <1>9 DEF Next, Methods

\* When all is sent, the CSMS shows the charger's status, unless the last report
\* was dropped, was read before the last change, or came over the writeLoop of an
\* earlier connection: no fourth way leads to a status that stays wrong.
THEOREM StatusShownHolds == Spec => []StatusShown
<1>1. Init => ReportInv
  BY NoneInEmpty DEF Init, ReportInv, ToReport
<1>2. ASSUME Types, Writers, ReportInv PROVE StatusShown
  <2> SUFFICES ASSUME Quiet, excuse = "none" PROVE shown = status
    BY DEF StatusShown
  <2>1. Shown /\ opened \in Connections
    BY <1>2 DEF ReportInv, Writers, Quiet
  <2>2. NoneIn(outgoing, Reports)
    BY NoneInEmpty DEF Quiet, Unlocked
  <2>3. ~LastIn(sendCh, Wired(Reports), Wired(Current))
    BY DEF LastIn, Quiet
  <2>4. \A c \in Connections : held[c] \notin Wired(Reports) /\ held[c] \notin Wired(Current)
    BY <1>2, WiredReports DEF Quiet, Types, PlainTypes
  <2>5. QED
    BY <2>1, <2>2, <2>3, <2>4 DEF Shown
<1>3. QED
  BY <1>1, <1>2, ReportStep, WritersHold, PTL DEF Spec
====

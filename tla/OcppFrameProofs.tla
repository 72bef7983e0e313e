-------------------------- MODULE OcppFrameProofs --------------------------
(***************************************************************************)
(* The codec gives back what it was given, for every id, action, code and  *)
(* payload; what it cannot give back is a payload that is nil.             *)
(***************************************************************************)
EXTENDS OcppFrame, TLAPS

\* Two values and no, two or three more are put together in their order.
LEMMA Joined ==
  ASSUME NEW a, NEW b, NEW c, NEW d, NEW e
  PROVE  /\ Len(<<a, b>> \o <<c>>) = 3 /\ Len(<<a, b>> \o <<c, d>>) = 4
         /\ Len(<<a, b>> \o <<c, d, e>>) = 5
         /\ \A s \in {<<a, b>> \o <<c>>, <<a, b>> \o <<c, d>>, <<a, b>> \o <<c, d, e>>} :
               s[1] = a /\ s[2] = b /\ s[3] = c
         /\ \A s \in {<<a, b>> \o <<c, d>>, <<a, b>> \o <<c, d, e>>} : s[4] = d
         /\ (<<a, b>> \o <<c, d, e>>)[5] = e
  OBVIOUS

LEMMA TypeNumber == ASSUME NEW n \in Nat PROVE Number(n).tenths \div 10 = n
  BY DEF Number

\* A CALL with any payload that is a JSON value.
THEOREM CallRoundTrip ==
  ASSUME NEW id \in Strings, NEW action \in Strings, NEW payload \in Values
  PROVE  /\ WellFormed(Marshal(CallFrame(id, action, payload)))
         /\ Unmarshal(Marshal(CallFrame(id, action, payload))) = CallFrame(id, action, payload)
<1> DEFINE f == CallFrame(id, action, payload)
           raw == Marshal(f)
<1>1. /\ f.MessageTypeID = Call /\ f.UniqueID = id /\ f.Action = action /\ f.Payload = payload
  BY DEF CallFrame, Frame
<1>2. OrNull(payload) = payload
  BY NilAssumption DEF OrNull
<1>3. raw = <<Number(Call), String(id)>> \o <<String(action), payload>>
  BY <1>1, <1>2 DEF Marshal, Call, CallResult, CallError
<1> HIDE DEF f, raw
<1>4. /\ Len(raw) = 4 /\ raw[1] = Number(Call) /\ raw[2] = String(id)
      /\ raw[3] = String(action) /\ raw[4] = payload
  BY <1>3, Joined
<1>5. TypeOf(raw) = Call
  BY <1>4, TypeNumber DEF TypeOf, Call
<1>6. /\ raw[1].kind = "number" /\ raw[2].kind = "string" /\ raw[2].text = id
      /\ raw[3].kind = "string" /\ raw[3].text = action
  BY <1>4 DEF Number, String
<1>7. WellFormed(raw)
  BY <1>4, <1>5, <1>6 DEF WellFormed
<1>8. Unmarshal(raw) = CallFrame(id, action, payload)
  BY <1>4, <1>5, <1>6 DEF Unmarshal, Call, CallResult, CallError
<1> QED
  BY <1>7, <1>8 DEF f, raw

\* A CALLRESULT with any payload that is a JSON value.
THEOREM ResultRoundTrip ==
  ASSUME NEW id \in Strings, NEW payload \in Values
  PROVE  /\ WellFormed(Marshal(CallResultFrame(id, payload)))
         /\ Unmarshal(Marshal(CallResultFrame(id, payload))) = CallResultFrame(id, payload)
<1> DEFINE f == CallResultFrame(id, payload)
           raw == Marshal(f)
<1>1. f.MessageTypeID = CallResult /\ f.UniqueID = id /\ f.Payload = payload
  BY DEF CallResultFrame, Frame
<1>2. OrNull(payload) = payload
  BY NilAssumption DEF OrNull
<1>3. raw = <<Number(CallResult), String(id)>> \o <<payload>>
  BY <1>1, <1>2 DEF Marshal, Call, CallResult, CallError
<1> HIDE DEF f, raw
<1>4. Len(raw) = 3 /\ raw[1] = Number(CallResult) /\ raw[2] = String(id) /\ raw[3] = payload
  BY <1>3, Joined
<1>5. TypeOf(raw) = CallResult
  BY <1>4, TypeNumber DEF TypeOf, CallResult
<1>6. raw[1].kind = "number" /\ raw[2].kind = "string" /\ raw[2].text = id
  BY <1>4 DEF Number, String
<1>7. WellFormed(raw)
  BY <1>4, <1>5, <1>6 DEF WellFormed
<1>8. Unmarshal(raw) = CallResultFrame(id, payload)
  BY <1>4, <1>5, <1>6 DEF Unmarshal, Call, CallResult, CallError
<1> QED
  BY <1>7, <1>8 DEF f, raw

\* A CALLERROR whose details are an object or nil: null, which is what nil is
\* written as, is no object and is read as nil again.
THEOREM ErrorRoundTrip ==
  ASSUME NEW id \in Strings, NEW code \in Strings, NEW description \in Strings,
         NEW details \in {Object(o) : o \in Objects} \union {Nil}
  PROVE  LET f == CallErrorFrame(id, code, description, details)
         IN  WellFormed(Marshal(f)) /\ Unmarshal(Marshal(f)) = f
<1> DEFINE f == CallErrorFrame(id, code, description, details)
           raw == Marshal(f)
<1>1. /\ f.MessageTypeID = CallError /\ f.UniqueID = id /\ f.ErrorCode = code
      /\ f.ErrorDescription = description /\ f.ErrorDetails = details
  BY DEF CallErrorFrame, Frame
<1>2. ObjectOr(OrNull(details)) = details
  <2>1. CASE details = Nil
    BY <2>1 DEF OrNull, ObjectOr, Null
  <2>2. CASE details # Nil
    BY <2>2 DEF OrNull, ObjectOr, Object
  <2> QED
    BY <2>1, <2>2
<1>3. raw = <<Number(CallError), String(id)>>
              \o <<String(code), String(description), OrNull(details)>>
  BY <1>1 DEF Marshal, Call, CallResult, CallError
<1> HIDE DEF f, raw
<1>4. /\ Len(raw) = 5 /\ raw[1] = Number(CallError) /\ raw[2] = String(id)
      /\ raw[3] = String(code) /\ raw[4] = String(description) /\ raw[5] = OrNull(details)
  BY <1>3, Joined
<1>5. TypeOf(raw) = CallError
  BY <1>4, TypeNumber DEF TypeOf, CallError
<1>6. /\ raw[1].kind = "number" /\ raw[2].kind = "string" /\ raw[2].text = id
      /\ StringOr(raw[3]) = code /\ StringOr(raw[4]) = description
      /\ ObjectOr(raw[5]) = details
  BY <1>2, <1>4 DEF Number, String, StringOr
<1>7. WellFormed(raw)
  BY <1>4, <1>5, <1>6 DEF WellFormed
<1>8. Unmarshal(raw) = CallErrorFrame(id, code, description, details)
  BY <1>4, <1>5, <1>6 DEF Unmarshal, Call, CallResult, CallError
<1> QED
  BY <1>7, <1>8 DEF f, raw
=============================================================================

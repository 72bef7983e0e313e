----------------------------- MODULE OcppFrame -----------------------------
(***************************************************************************)
(* The codec of internal/ocpp16/frame.go: a Frame and the JSON array it is *)
(* sent as.  A JSON value is its kind and its value; numbers are counted   *)
(* in tenths, because Unmarshal takes any number and cuts its fraction     *)
(* off.  Objects, their keys and their spelling are opaque.                *)
(***************************************************************************)
EXTENDS Integers, Sequences

CONSTANTS
    Strings,     \* ids, actions, codes and descriptions
    Objects,     \* JSON objects
    Nil          \* a RawMessage or a map that is nil

Call == 2
CallResult == 3
CallError == 4

Number(n) == [kind |-> "number", tenths |-> 10 * n]
String(s) == [kind |-> "string", text |-> s]
Object(o) == [kind |-> "object", object |-> o]
Null == [kind |-> "null"]

Values == [kind : {"number"}, tenths : Int] \union [kind : {"string"}, text : Strings]
          \union [kind : {"object"}, object : Objects] \union {Null}

ASSUME NilAssumption == Nil \notin Values /\ "" \in Strings

\* The fields that a type of frame does not use keep Go's zero values.
Frame(type, id) ==
    [MessageTypeID |-> type, UniqueID |-> id, Action |-> "", Payload |-> Nil,
     ErrorCode |-> "", ErrorDescription |-> "", ErrorDetails |-> Nil]

CallFrame(id, action, payload) ==
    [Frame(Call, id) EXCEPT !.Action = action, !.Payload = payload]

CallResultFrame(id, payload) == [Frame(CallResult, id) EXCEPT !.Payload = payload]

CallErrorFrame(id, code, description, details) ==
    [Frame(CallError, id) EXCEPT !.ErrorCode = code, !.ErrorDescription = description,
                                 !.ErrorDetails = details]

\* What is nil is written as null.
OrNull(v) == IF v = Nil THEN Null ELSE v

Marshal(f) ==
    <<Number(f.MessageTypeID), String(f.UniqueID)>> \o
    CASE f.MessageTypeID = Call -> <<String(f.Action), OrNull(f.Payload)>>
      [] f.MessageTypeID = CallResult -> <<OrNull(f.Payload)>>
      [] f.MessageTypeID = CallError ->
            <<String(f.ErrorCode), String(f.ErrorDescription), OrNull(f.ErrorDetails)>>

\* What Unmarshal asks of an array; frames of another type are refused too.
TypeOf(raw) == raw[1].tenths \div 10

WellFormed(raw) ==
    /\ Len(raw) >= 2 /\ raw[1].kind = "number" /\ raw[2].kind = "string"
    /\ \/ TypeOf(raw) = Call /\ Len(raw) >= 4 /\ raw[3].kind = "string"
       \/ TypeOf(raw) = CallResult
       \/ TypeOf(raw) = CallError /\ Len(raw) >= 5

\* A code or a description that is no string is taken for the empty one, and
\* details that are no object for nil.
StringOr(v) == IF v.kind = "string" THEN v.text ELSE ""
ObjectOr(v) == IF v.kind = "object" THEN v ELSE Nil

\* The frame of a well-formed array.
Unmarshal(raw) ==
    CASE TypeOf(raw) = Call -> CallFrame(raw[2].text, raw[3].text, raw[4])
      [] TypeOf(raw) = CallResult ->
            CallResultFrame(raw[2].text, IF Len(raw) >= 3 THEN raw[3] ELSE Nil)
      [] TypeOf(raw) = CallError ->
            CallErrorFrame(raw[2].text, StringOr(raw[3]), StringOr(raw[4]), ObjectOr(raw[5]))
=============================================================================

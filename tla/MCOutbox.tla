------------------------------ MODULE MCOutbox ------------------------------
(* Two connections, one of which may be lost under way. *)
EXTENDS Outbox

OneCall == {"a"}
Texts == OneCall \union FrameTexts \union {""}
SomeMessages == {"LowLimit", "HighLimit", "Misshaped", "Result", "Failure", "Short"}
SomeStatuses == {"SuspendedEVSE"}
=============================================================================

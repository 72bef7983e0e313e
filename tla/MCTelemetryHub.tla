--------------------------- MODULE MCTelemetryHub ---------------------------
(* Small instances of TelemetryHub for TLC: with one id every second client
   takes over the entry of the first. *)
EXTENDS TelemetryHub

CONSTANTS c1, v1, v2, i1

OneCharger == {c1}
OneViewer == {v1}
TwoViewers == {v1, v2}
OneId == {i1}
=============================================================================

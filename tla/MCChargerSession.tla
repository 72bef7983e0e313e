-------------------------- MODULE MCChargerSession --------------------------
(* Small instances of ChargerSession for TLC. *)
EXTENDS ChargerSession

TwoTx == {1, 2}
ThreeTx == {1, 2, 3}

EveryOperation == AllOperations
EveryVerdict == AllVerdicts

\* An operator who neither faults the charger nor limits it outside a session.
Disciplined == {"Start", "Stop", "RemoteStart", "RemoteStop", "SetLimit", "SetSOC",
                "SetProfile", "LinkLost"}
Accepting == {"Accepted"}

\* The least that leads to a broken resume, and to a transaction left behind by
\* a fault.
Losing == {"Start", "LinkLost"}
Faulting == {"Start", "SetFault", "ClearFault"}
=============================================================================

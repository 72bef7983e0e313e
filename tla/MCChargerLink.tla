--------------------------- MODULE MCChargerLink ---------------------------
(* Small instances of ChargerLink for TLC. *)
EXTENDS ChargerLink, TLC

CONSTANTS k1, k2, k3

TwoConns == {k1, k2}
ThreeConns == {k1, k2, k3}

\* Connections are only told apart by equality.
ConnSymmetry == Permutations(Conns)

EveryOperation == AllOperations
OperatorOnly == {"Connect", "Disconnect"}
=============================================================================

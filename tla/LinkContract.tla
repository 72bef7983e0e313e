---------------------------- MODULE LinkContract ----------------------------
(***************************************************************************)
(* What the connection handling of a Charger promises to whoever watches   *)
(* connectionState (web console, manager, tests), without its goroutines:  *)
(* one attempt at a time, a socket held exactly while connected, an        *)
(* attempt that always ends, a lost link that is always retried, and a     *)
(* manual disconnect that stays in force until the next Connect.           *)
(***************************************************************************)

VARIABLES
    state,      \* connectionState as an observer reads it
    held,       \* the charger holds an open socket
    automatic   \* automatic reconnection is allowed (no manual disconnect)

contractVars == <<state, held, automatic>>

ContractInit ==
    /\ state = "disconnected"
    /\ held = FALSE
    /\ automatic = TRUE

\* The operator asks for a connection: the manual stop, if any, is lifted.
Open ==
    /\ state \in {"disconnected", "error"}
    /\ state' = "connecting"
    /\ automatic' = TRUE
    /\ UNCHANGED held

\* The charger tries again by itself.
Retry ==
    /\ state = "error"
    /\ state' = "connecting"
    /\ UNCHANGED <<held, automatic>>

\* The attempt in progress succeeds or fails.
Succeed ==
    /\ state = "connecting"
    /\ state' = "connected"
    /\ held' = TRUE
    /\ UNCHANGED automatic

Fail ==
    /\ state = "connecting"
    /\ state' = "error"
    /\ UNCHANGED <<held, automatic>>

\* The peer or the network takes the connection away; the socket is released.
Lose ==
    /\ state = "connected"
    /\ state' = "error"
    /\ held' = FALSE
    /\ UNCHANGED automatic

\* The operator disconnects: nothing is held and nothing retries.
Close ==
    /\ state # "connecting"
    /\ state' = "disconnected"
    /\ held' = FALSE
    /\ automatic' = FALSE

ContractNext == Open \/ Retry \/ Succeed \/ Fail \/ Lose \/ Close

ContractSafety == ContractInit /\ [][ContractNext]_contractVars

\* Every attempt ends and every lost link is retried.
Contract ==
    /\ ContractSafety
    /\ WF_contractVars(Succeed \/ Fail)
    /\ WF_contractVars(Retry)
=============================================================================

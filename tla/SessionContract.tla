--------------------------- MODULE SessionContract ---------------------------
(***************************************************************************)
(* What charger and CSMS together make of charging sessions, without       *)
(* frames, queues and handlers: one start at a time, a transaction offered *)
(* in answer to it and then adopted, a stop that closes it at the CSMS     *)
(* some time later, and a loss of the link that closes all of them.        *)
(***************************************************************************)
CONSTANT Tx    \* transaction ids the CSMS gives out

VARIABLES
    tx,        \* the transaction the charger is in, or 0
    starting,  \* it has asked for one and not got it
    offered,   \* transactions the CSMS has opened that the charger has not adopted
    ending,    \* transactions it has stopped, which the CSMS may not know
    open       \* transactions open at the CSMS

contractVars == <<tx, starting, offered, ending, open>>

ContractInit ==
    /\ tx = 0 /\ starting = FALSE
    /\ offered = {} /\ ending = {} /\ open = {}

\* The charger asks for a session, or for another one in place of a session that
\* the CSMS has closed.
Ask ==
    /\ ~starting
    /\ tx \notin open
    /\ starting' = TRUE
    /\ UNCHANGED <<tx, offered, ending, open>>

\* The CSMS opens a transaction that nobody has anything to do with.
Offer ==
    /\ starting
    /\ offered = {}
    /\ \E t \in Tx \ (open \union ending \union {tx, 0}) :
          offered' = {t} /\ open' = open \union {t}
    /\ UNCHANGED <<tx, starting, ending>>

\* The charger starts to charge; the CSMS may have closed the transaction again.
Adopt ==
    /\ starting
    /\ \E t \in offered : tx' = t
    /\ starting' = FALSE
    /\ offered' = {}
    /\ UNCHANGED <<ending, open>>

\* It stops, be it while it asks for another.
End ==
    /\ tx # 0
    /\ tx' = 0
    /\ ending' = ending \union {tx}
    /\ UNCHANGED <<starting, offered, open>>

\* The CSMS learns of it, or never will.
Close ==
    /\ \E t \in ending : ending' = ending \ {t} /\ open' = open \ {t}
    /\ UNCHANGED <<tx, starting, offered>>

\* The link is lost: the CSMS closes what is open, and its offer may not arrive.
Lose ==
    /\ open' = {}
    /\ offered' \in SUBSET offered
    /\ UNCHANGED <<tx, starting, ending>>

ContractNext == Ask \/ Offer \/ Adopt \/ End \/ Close \/ Lose

ContractSafety == ContractInit /\ [][ContractNext]_contractVars

\* An offer that is not lost is adopted.
Contract == ContractSafety /\ WF_contractVars(Adopt)

\* The CSMS has no more than one transaction of the charger open, not counting
\* those the charger has stopped: nobody pays for two at once.
OneSession == \A s, t \in open \ ending : s = t
=============================================================================

CONSTANTS
    Tx <- ThreeTx
    Operations <- Disciplined
    Verdicts <- Accepting
    SendCap = 10
    SendDrops = FALSE
    PromptResume = TRUE
    MaxCalls = 2
SPECIFICATION FairSpec
INVARIANTS
    StatusTellsTransaction
    FlowOnlyCharging
    NoOrphanSession
    OneSession
PROPERTIES
    StartResolves
    FullStops
    ImplementsContract

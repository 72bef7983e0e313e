CONSTANTS
    Tx <- TwoTx
    Operations <- EveryOperation
    Verdicts <- EveryVerdict
    SendCap = 3
    SendDrops = TRUE
    PromptResume = FALSE
    MaxCalls = 1
SPECIFICATION Spec
INVARIANTS
    TypeOK
    SingleFlight

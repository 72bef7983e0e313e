CONSTANTS
    Tx <- TwoTx
    Operations <- Losing
    Verdicts <- Accepting
    SendCap = 10
    SendDrops = FALSE
    PromptResume = TRUE
    MaxCalls = 1
SPECIFICATION Spec
INVARIANTS
    NoPhantomCharging

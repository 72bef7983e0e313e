CONSTANTS
    Tx <- TwoTx
    Operations <- Faulting
    Verdicts <- Accepting
    SendCap = 10
    SendDrops = FALSE
    PromptResume = TRUE
    MaxCalls = 1
SPECIFICATION FairSpec
PROPERTIES
    FaultRecovers

CONSTANTS
    Configs <- SmallConfigs
    Limits <- SmallLimits
    Charges <- SmallCharges
    Full = 10
    Late = 2
    Long = 3
    RampPeriod = 1
    MaxEnergy = 10
SPECIFICATION FairSpec
INVARIANT TypeOK
PROPERTIES
    NoIdleEnergy
    NoOvershoot
    CreditFollowsMeter
    LimitHonoured
    ChargeCompletes

CONSTANTS
    k1 = k1
    k2 = k2
    k3 = k3
    NoConn = NoConn
    Conns <- ThreeConns
    Operations <- OperatorOnly
    Patient = TRUE
    MaxBackoff = 2
    MaxTasks = 3
SPECIFICATION FairSpec
INVARIANTS
    OneConnection
    ManualStopSticks
PROPERTIES
    ImplementsContract
    Reconnects
    LossNoticed
    DisconnectDrains

CONSTANTS
    k1 = k1
    k2 = k2
    k3 = k3
    NoConn = NoConn
    Conns <- TwoConns
    Operations <- OperatorOnly
    Patient = FALSE
    MaxBackoff = 2
    MaxTasks = 2
SPECIFICATION Spec
INVARIANT
    ManualStopSticks

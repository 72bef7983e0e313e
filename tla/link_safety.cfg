CONSTANTS
    k1 = k1
    k2 = k2
    k3 = k3
    NoConn = NoConn
    Conns <- ThreeConns
    Operations <- EveryOperation
    Patient = FALSE
    MaxBackoff = 2
    MaxTasks = 2
SPECIFICATION Spec
SYMMETRY ConnSymmetry
INVARIANTS
    TypeOK
    NeverWedged
    ConnUsable
    NoOrphanLoops
PROPERTIES
    ManualStopNoRedial

CONSTANTS
    operator = operator
    handler = handler
    loop = loop
    writer = writer
    Tasks <- Goroutines
    Calls <- Roles
    NoTask = NoTask
    Idle = Idle
SPECIFICATION FairSpec
INVARIANTS
    LocksAscend
    NoCircularWait
PROPERTY EveryCallReturns

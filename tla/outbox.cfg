CONSTANTS
    Nil = Nil
    Strings <- Texts
    Objects <- FrameObjects
    MaxConnections = 2
    MaxChanges = 1
    SendCap = 1
    Ids <- OneCall
    Messages <- SomeMessages
    Statuses <- SomeStatuses
SPECIFICATION FairSpec
INVARIANTS
    TypeOK
    StatusShown
    Registered
    OneAnswer
PROPERTIES
    CallsAnswered
    StatusSettles
CHECK_DEADLOCK FALSE

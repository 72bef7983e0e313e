CONSTANTS
    c1 = c1
    v1 = v1
    v2 = v2
    i1 = i1
    NoViewer = NoViewer
    NoCharger = NoCharger
    NoId = NoId
    Unseen = Unseen
    Faults <- OneCharger
    Chargers <- OneCharger
    Viewers <- TwoViewers
    Browsers <- OneViewer
    Ids <- OneId
    Cap = 1
SPECIFICATION FairSpec
INVARIANTS
    TypeOK
    NoClosedSubscriber
    NoLeakedChannel
PROPERTIES
    SettledShown
    ViewerCatchesUp

CONSTANTS
    c1 = c1
    v1 = v1
    v2 = v2
    i1 = i1
    NoViewer = NoViewer
    NoCharger = NoCharger
    NoId = NoId
    Unseen = Unseen
    Faults <- OneCharger
    Chargers <- OneCharger
    Viewers <- OneViewer
    Browsers <- OneViewer
    Ids <- OneId
    Cap = 3
SPECIFICATION FairSpec
PROPERTY
    ConsoleShowsState

\* Three notifications over two lives of the plugin; the bound on time stops a run.
SPECIFICATION FairSpec
CONSTANTS
    EventTypes <- MCEventTypes
    DefaultEvents <- MCDefaultEvents
    Lists <- MCLists
    Warning = "warning"
    Notifications = 3
    Parts = 2
    Lag = 1
    MaxSeq = 1
    MaxTime = 3
    MaxLives = 2
    MaxSets = 1
INVARIANTS
    UniqueInLife
    UniqueAcrossLives
    IdsFollowArrival
    EmittedWithinLag
PROPERTIES
    SourcesDecide
    IdsComeLive
CHECK_DEADLOCK FALSE

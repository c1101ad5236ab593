\* Three frames with a burst through two stages, and one imu tick, with fair threads;
\* the publication of the hint of mapping may fail.
SPECIFICATION FairSpec
CONSTANTS
    Vision = Vision  Mapping = Mapping
    Camera = Camera  Lidar = Lidar  Imu = Imu  None = None
    Stages = {Vision, Mapping}
    Sources = {Camera}
    Out <- ToMapping
    Feeds <- FirstStage
    Period <- ChainPeriods
    Frames <- ChainFrames
    BurstFirst <- ChainBurstFrom
    BurstAt <- ChainBurstTo
    StaleNs <- ChainStale
    StopOrder <- ChainOrder
    DropStale = TRUE
    WindowStats = TRUE
    Unhinted = {Mapping}
    Cutoff = 3
    MaxTime = 3
INVARIANTS
    HintNamesItem
    AllDelivered
    WindowExact
PROPERTIES
    WakeSafe
    DemoEnds

\* Two frames, delivered together, and one scan meet at mapping; with the history of
\* what each stage has popped.
SPECIFICATION HistorySpec
CONSTANTS
    Vision = Vision  Mapping = Mapping
    Camera = Camera  Lidar = Lidar  Imu = Imu  None = None
    Stages = {Vision, Mapping}
    Sources = {Camera, Lidar}
    Out <- ToMapping
    Feeds <- FirstStage
    Period <- MergePeriods
    Frames <- MergeFrames
    BurstFirst <- MergeBurstFrom
    BurstAt <- MergeBurstTo
    StaleNs <- MergeStale
    StopOrder <- MergeOrder
    DropStale = TRUE
    WindowStats = TRUE
    Unhinted = {}
    Cutoff = 2
    MaxTime = 2
INVARIANTS
    DemoInv
    StreamOrder

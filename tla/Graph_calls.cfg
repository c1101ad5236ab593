\* Every sequence of accepted calls on a small graph.
SPECIFICATION GraphSpec
CONSTANTS
    Capacity = 2
    Limit = 3
    MaxTime = 1
    MaxSequence = 2
    MaxTick = 1
    MaxImuAge = 0
INVARIANTS
    Conserved
    NoFutureSource
    StreamOrder
PROPERTIES
    SnapshotsAdvance
    OldestFirst

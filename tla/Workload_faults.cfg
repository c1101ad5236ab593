\* One release of each stage and one hog job; the calls of two workers may fail.
\* A stuck state would violate ProgramEnds.
SPECIFICATION FairSpec
CONSTANTS
    Order <- StagesAndHog
    QueueCapacity = 1
    Capacity = 1
    Limit = 2
    ImuPeriod = 1
    CameraPeriod = 1
    ControlPeriod = 1
    End = 1
    Hogs = {"hog"}
    MaxHogJobs = 1
    MaxTime = 1
    MaxSequence = 1
    MaxTick = 1
    MaxImuAge = 1
    Faults <- TwoFaulty
    None = None
    Clear = Clear
CHECK_DEADLOCK FALSE
INVARIANTS
    JobOwnsHint
PROPERTIES
    ProgramEnds

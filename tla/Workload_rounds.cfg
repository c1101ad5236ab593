\* Five stages, a window with two imu and two control releases, no faults.
SPECIFICATION Spec
CONSTANTS
    Order <- Stages
    QueueCapacity = 1
    Capacity = 1
    Limit = 2
    ImuPeriod = 1
    CameraPeriod = 2
    ControlPeriod = 1
    End = 2
    Hogs = {}
    MaxHogJobs = 1
    MaxTime = 2
    MaxSequence = 2
    MaxTick = 2
    MaxImuAge = 1
    Faults <- NoFaults
    None = None
    Clear = Clear
INVARIANTS
    WorkloadInv
    CallbacksAllowed
    CleanExit
PROPERTIES
    ImplementsContract

\* A case of the bag evaluation, and a synthetic run with failures.
SPECIFICATION FairSession
CONSTANTS
    None = None
    h1 = h1
    Setup <- BothModes
    Contenders = {h1}
    Jobs <- OneFrame
    WindowFrom = 2
    WindowTo = 5
    trace_delivery = TRUE
    trace_limit = 1
    required_job_subscribers = 2
    Nominal <- Expectation
    Recordings <- Bags
CHECK_DEADLOCK FALSE
INVARIANTS
    CountedOnce
    ExitTruth
    AcceptedIsWhole
PROPERTIES
    RosEnds

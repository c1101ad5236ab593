\* The report of an external run with --window-stats.
SPECIFICATION SessionSpec
CONSTANTS
    None = None
    h1 = h1
    Setup <- BagOnly
    Contenders = {h1}
    Jobs <- OneFrame
    WindowFrom = 2
    WindowTo = 5
    trace_delivery = TRUE
    trace_limit = 1
    required_job_subscribers = 2
    Nominal <- Expectation
    Recordings <- OneBag
CHECK_DEADLOCK FALSE
INVARIANTS
    ReportAddsUp

\* The real task set under the five schedulers.
SPECIFICATION FairSpec
CONSTANTS
    None = None
    Clear = Clear
    period <- Periods
    work <- Works
    reservation <- Reservations
    count <- Counts
    Lead = 2
    Modes = {"ordinary", "fifo-a", "fifo-b", "deadline", "scx"}
    MayFail = TRUE
INVARIANTS
    EdfInv
    Contrast
PROPERTIES
    EdfEnds

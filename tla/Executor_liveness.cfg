\* Liveness of one session under fair threads; a stuck state would violate it.
SPECIFICATION FairSpec
CONSTANTS
    j1 = j1
    j2 = j2
    j3 = j3
    gm = gm
    gt = gt
    Jobs = {j1, j2}
    Groups = {gm, gt}
    None = None
    Clear = Clear
    GroupOf <- MCGroupOf2
    ProfileOf <- MCProfileOf
    Typed = {gm}
    Removable = {}
    Release <- MCRelease2
    Faults = {"spawn", "configure", "kind", "take", "observer", "publish", "callback", "clear"}
    MaxU64 = 4
    MaxNow = 3
    MaxSpins = 1
CHECK_DEADLOCK FALSE
PROPERTIES
    CancelledSpinReturns
    FailureEndsSession
    SelectedIsResolved
    ReadyIsServed

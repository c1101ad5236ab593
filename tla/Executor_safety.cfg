\* Two sessions, three jobs, every call that can fail, and registration.
SPECIFICATION Spec
CONSTANTS
    j1 = j1
    j2 = j2
    j3 = j3
    gm = gm
    gt = gt
    Jobs = {j1, j2, j3}
    Groups = {gm, gt}
    None = None
    Clear = Clear
    GroupOf <- MCGroupOf3
    ProfileOf <- MCProfileOf
    Typed = {gm}
    Removable = {gt}
    Release <- MCRelease3
    Faults = {"spawn", "configure", "kind", "take", "observer", "publish", "callback", "clear"}
    MaxU64 = 4
    MaxNow = 3
    MaxSpins = 2
INVARIANTS
    IInv
    HintOwnership
    Custody
    DrainedOnReturn
    NoErrorLost
    HintRetired
    OnlyExpiredDropped
PROPERTIES
    ClearIsFinal
    ImplementsContract

\* Registration racing the start of a session.
SPECIFICATION Spec
CONSTANTS
    j1 = j1
    j2 = j2
    j3 = j3
    gm = gm
    gt = gt
    Jobs = {j1, j2}
    Groups = {gm, gt}
    None = None
    Clear = Clear
    GroupOf <- MCGroupOf2
    ProfileOf <- MCProfileOf
    Typed = {gm}
    Removable = {gm}
    Release <- MCRelease2
    Faults = {}
    MaxU64 = 4
    MaxNow = 1
    MaxSpins = 1
PROPERTIES
    ProfilesFrozen

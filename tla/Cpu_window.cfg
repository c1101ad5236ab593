\* Three jobs of up to two CPU ticks around a cutoff at wall time 3.
SPECIFICATION Spec
CONSTANTS
    Cutoff = 3
    Works = {0, 1, 2}
    MaxWall = 7
    MaxJobs = 3
INVARIANTS
    WindowCpuBounded
    DrainNeverWraps

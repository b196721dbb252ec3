\* As BlockCache with one write and no crash: the flush of a sync fails and the
\* sync returns 0.
CONSTANTS
    p1 = p1
    p2 = p2
    v1 = v1
    v2 = v2
    Procs = {p1, p2}
    Vols = {v1, v2}
    VolOf <- Sectors
    On <- Users
    NSlots = 2
    MaxWrites = 1
    MaxFails = 1
    MaxCrashes = 0
    LooseSync = {}
SPECIFICATION Spec
PROPERTY ZeroIsDurable

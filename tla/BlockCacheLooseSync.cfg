\* As BlockCache, without failures, and with fsync and `disk sync`, which call
\* bcache_sync without the volume lock.
CONSTANTS
    p1 = p1
    p2 = p2
    v1 = v1
    v2 = v2
    Procs = {p1, p2}
    Vols = {v1, v2}
    VolOf <- Sectors
    On <- Users
    NSlots = 2
    MaxWrites = 2
    MaxFails = 0
    MaxCrashes = 0
    LooseSync = {TRUE}
SPECIFICATION Spec
INVARIANT ReadsLatest

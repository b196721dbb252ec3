\* Two slots over a volume of two sectors and a volume of one, a task on each,
\* two writes, one failed request and one crash; every sync is made under the
\* volume lock.
CONSTANTS
    p1 = p1
    p2 = p2
    v1 = v1
    v2 = v2
    Procs = {p1, p2}
    Vols = {v1, v2}
    VolOf <- Sectors
    On <- Users
    NSlots = 2
    MaxWrites = 2
    MaxFails = 1
    MaxCrashes = 1
    LooseSync = {}
SPECIFICATION Spec
INVARIANTS OneCopy ReadsLatest SyncedSurvives
PROPERTY HeldStays

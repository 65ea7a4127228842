SPECIFICATION Spec
CONSTANTS
    A = A
    B = B
    Absent = Absent
    Unknown = Unknown
    Path = {"f", "g"}
    Hash = {1, 2, 3}
    Time = {1, 2, 3}
    SizeOf <- SomeSizes
    MTimeOf <- SteadyClock
    Opt <- NewerOpt
    MaxPendingPulls = 1
    MaxEdits = 2
    MaxDeletes = 0
    MaxDrops = 2
    MaxCrashes = 2
    MaxFaults = 1
    MaxMisses = 0
    OneAtATime = FALSE
INVARIANT BaselineIsCommon
PROPERTY NothingVanishes
SYMMETRY Swap
CHECK_DEADLOCK FALSE

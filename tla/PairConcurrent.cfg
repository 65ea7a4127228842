SPECIFICATION Spec
CONSTANTS
    A = A
    B = B
    Absent = Absent
    Unknown = Unknown
    Path = {"f"}
    Hash = {1, 2, 3}
    Time = {1, 2, 3}
    SizeOf <- SomeSizes
    MTimeOf <- SteadyClock
    Opt <- NewerOpt
    MaxPendingPulls = 1
    MaxEdits = 2
    MaxDeletes = 1
    MaxDrops = 0
    MaxCrashes = 0
    MaxFaults = 1
    MaxMisses = 0
    OneAtATime = FALSE
INVARIANTS
    QuietMeansInformed
    
SYMMETRY Swap
CHECK_DEADLOCK FALSE

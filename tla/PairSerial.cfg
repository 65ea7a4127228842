SPECIFICATION FairSpec
CONSTANTS
    A = A
    B = B
    Absent = Absent
    Unknown = Unknown
    Path = {"f", "g"}
    Hash = {1, 2, 3}
    Time = {1, 2, 3}
    SizeOf <- SomeSizes
    MTimeOf <- LateClock
    Opt <- NewerOpt
    MaxPendingPulls = 1
    MaxEdits = 3
    MaxDeletes = 2
    MaxDrops = 1
    MaxCrashes = 1
    MaxFaults = 0
    MaxMisses = 0
    OneAtATime = TRUE
INVARIANTS
    QuietMeansBaseline
    LastActWins
PROPERTY Convergence
CHECK_DEADLOCK FALSE

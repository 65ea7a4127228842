SPECIFICATION FairSpec
CONSTANTS
    Path = {f, g, h}
    MaxPendingPulls = 2
    MaxRounds = 2
    MaxFaults = 2
INVARIANTS
    TypeOK
    WindowRespected
    SlotsAreOwed
    TransfersEnd
 
CHECK_DEADLOCK FALSE

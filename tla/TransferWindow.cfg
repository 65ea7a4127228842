SPECIFICATION FairSpec
CONSTANTS
    Window = 3
    AckInterval = 3
    Sizes = {1, 2}
    MaxBytes = 6
    MaxServes = 2
    MaxFaults = 1
INVARIANTS
    TypeOK
    InFlightBounded
    AcksBelowSent
    SleepIsOwed
PROPERTIES
    StopJoins
    AnsweredUnlessFailed
CHECK_DEADLOCK FALSE

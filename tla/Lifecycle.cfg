SPECIFICATION FairSpec
CONSTANTS
    A = A
    B = B
    Agreements <- SomeAgreements
    MaxConnects = 2
    MaxPulls = 1
    MaxChanges = 1
INVARIANTS
    NotMerged
    BothOrNeither
    
    
    ThreadsAreJoined
PROPERTIES
    Acquainted
    ShutdownEnds
CHECK_DEADLOCK FALSE

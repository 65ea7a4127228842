SPECIFICATION FairSpec
CONSTANTS
    Folder = {f, g}
    Mark = 2
    Low = 1
    MaxSends = 2
    MaxTimeouts = 1
 
PROPERTIES
    WaitsEnd
    TeardownEnds
CHECK_DEADLOCK FALSE

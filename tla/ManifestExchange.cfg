SPECIFICATION FairSpec
CONSTANTS
    Path = {"a", "b", "c"}
    Content = {1}
    Absent = Absent
    Unknown = Unknown
    MaxEntries = 1
    MaxChanges = 2
    MaxConnects = 2
PROPERTIES
    RefinesAdvertisedTree
    ViewCatchesUp
CHECK_DEADLOCK FALSE

SPECIFICATION Spec
CONSTANTS
    Byte = {0, 1}
    L = 3
    Half = 2
    MaxBase = 6
    MaxTarget = 6
    Bases <- SomeBases
    Targets <- SomeTargets
INVARIANTS
    RollingIsExact
    KnownBlocksAreCopied
    NoNeedlessRetry
CHECK_DEADLOCK FALSE

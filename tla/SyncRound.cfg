SPECIFICATION FairSpec
CONSTANTS
    A = A
    B = B
    Absent = Absent
    Path = {"f"}
    Hash = {1, 2, 3}
    SizeOf <- MCSizeOf
    Time = {1, 2}
    OptionsOf <- SomeOptions
INVARIANTS
    TypeOK
    PlansComplement
    EmptyPlanMeansAgreement
    OneSidedChangeWins
    ModifyBeatsDelete
    KeptWithoutDeletes
PROPERTY Convergence
CHECK_DEADLOCK FALSE

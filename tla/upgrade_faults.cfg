CONSTANTS
    N = 2
    MaxVersion = 2
    Services <- MCServices
    p1 = p1
    p2 = p2
    Procs = {p1}
    Refs <- MCRefs
    SchemaOf <- MCSchema
    Effects <- AllEffects
    DriftTo <- MCDriftTo
    MaxFaults = 3
SPECIFICATION LiveSpec
INVARIANTS
    TypeOK
    ReportsAreTrue
    CandidateIsLive
PROPERTIES
    LockMovesOnlyAsVerified
    RollbackKeepsSchema
    OverwritesOnlyCaptured
    Terminates
    Reconciles

CONSTANTS
    N = 2
    MaxVersion = 2
    Services <- MCServices
    p1 = p1
    p2 = p2
    Procs = {p1, p2}
    Refs <- OneRef
    SchemaOf <- MCSchema
    Effects <- Untouched
    DriftTo <- MCDriftTo
    MaxFaults = 0
SYMMETRY Symmetry
SPECIFICATION Spec
INVARIANTS
    ReportsAreTrue

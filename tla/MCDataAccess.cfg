SPECIFICATION Spec
CONSTANTS
    Requests = {r1, r2}
    Users = {u1, u2}
    Ids <- MCIds
    Keys = {k1}
    Apps <- MCApps
    NULL = NULL
    Limit = 1
    MaxJobs <- MCMaxJobs
SYMMETRY MCSymmetry
INVARIANTS
    TypeOK
    PageIsSlice
    AuditTruthful
    AuditComplete
    RowDescribesFile
PROPERTIES
    ImplementsLiveStore
CHECK_DEADLOCK FALSE

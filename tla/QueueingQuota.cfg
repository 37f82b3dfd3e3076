SPECIFICATION Spec
CONSTANTS
    Run = {p1, p2}
    Quota = 1
    ManagedBy = {"none"}
    UserOps = {"cancel"}
    WorkloadOps = {}
    MaxEvictions = 1
    MaxEdits = 0
SYMMETRY RunSymmetry
INVARIANTS
    ConcurrencyLimit
    ActiveHoldsQuota
    ExecutionLimit
    UnparsableNeverQueued
PROPERTIES
    ImplementsQuotaGate
CHECK_DEADLOCK FALSE

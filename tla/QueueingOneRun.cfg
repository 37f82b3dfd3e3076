SPECIFICATION Spec
CONSTANTS
    Run = {p1}
    Quota = 1
    ManagedBy = {"none", "kueue.x-k8s.io/multikueue", "example.com/other"}
    UserOps = {"cancel", "delete", "annotate"}
    WorkloadOps = {"delete"}
    MaxEvictions = 2
    MaxEdits = 2
INVARIANTS
    QueueInv
    TypeOK
    ReleasedHoldsQuota
    VerdictRecorded
PROPERTIES
    SpecStatusNeverReverts
    StatusNeverLost
    ReleasedWithItsRequests
CHECK_DEADLOCK FALSE

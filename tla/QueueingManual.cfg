SPECIFICATION FairSpec
CONSTANTS
    Run = {p1}
    Quota = 1
    ManagedBy = {"none", "kueue.x-k8s.io/multikueue"}
    UserOps = {"resume", "annotate", "revert"}
    WorkloadOps = {"delete"}
    MaxEvictions = 0
    MaxEdits = 1
PROPERTIES
    BypassIsStopped
    PendingIsReported
    EveryRunEnds
    QuotaIsReturned
CHECK_DEADLOCK FALSE

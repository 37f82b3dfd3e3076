SPECIFICATION FairSpec
CONSTANTS
    Run = {p1, p2}
    Quota = 1
    ManagedBy = {"none"}
    UserOps = {}
    WorkloadOps = {}
    MaxEvictions = 1
    MaxEdits = 0
PROPERTIES
    EveryRunEnds
CHECK_DEADLOCK FALSE

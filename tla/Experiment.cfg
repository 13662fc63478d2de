SPECIFICATION FairSpec
CONSTANTS
    Images = {i1}
    NoImage = NoImage
    p1 = p1
    p2 = p2
    Pods = {p1, p2}
    Keys = {"reward", "length"}
    Messages <- MCMessages
    NoMetrics = NoMetrics
    MaxJobs = 2
    BackoffLimit = 1
INVARIANTS
    VerdictIsTheJobs
PROPERTIES
    MetricsAreTheJobs
    Settles
    ImplementsRunRecord
CHECK_DEADLOCK FALSE

SPECIFICATION Spec
CONSTANTS
    MaxMessages = 2
    Bulk = {}
    MaxJobs = 1
    Workers = {w1, w2}
    PageSize = 1
    PageLimit = 2
    BatchSize = 2
    MaxFaults = 0
    MaxExpiries = 0
    MaxCrashes = 0
    MaxLeaves = 0
    MayOverrun = FALSE
INVARIANT NothingMissed
CHECK_DEADLOCK FALSE

SPECIFICATION Spec
CONSTANTS
    MaxMessages = 2
    Bulk = {}
    MaxJobs = 2
    Workers = {w1, w2}
    PageSize = 1
    PageLimit = 1
    BatchSize = 2
    MaxFaults = 0
    MaxExpiries = 0
    MaxCrashes = 0
    MaxLeaves = 0
    MayOverrun = TRUE
SYMMETRY Alike
INVARIANT OneActiveJob
CHECK_DEADLOCK FALSE

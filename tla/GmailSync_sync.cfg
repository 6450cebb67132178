SPECIFICATION FairSpec
CONSTANTS
    MaxMessages = 3
    Bulk = {2}
    MaxJobs = 2
    Workers = {w1, w2}
    PageSize = 1
    PageLimit = 1
    BatchSize = 2
    MaxFaults = 1
    MaxExpiries = 1
    MaxCrashes = 1
    MaxLeaves = 1
    MayOverrun = FALSE
INVARIANT TypeOK HistoryHasNoGap OneActiveJob SucceededMeansAnalyzed AnalyzedOnce
PROPERTY JobsEnd
CHECK_DEADLOCK FALSE

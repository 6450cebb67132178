SPECIFICATION FairSpec
CONSTANTS
    t1 = t1
    t2 = t2
    demo = demo
    Actions = {t1, demo}
    TableActions = {t1}
    Older <- Chain
    NoAction = NoAction
    Workers = {w1, w2}
    Requests = {r1}
    Schemas = {"s1"}
    RowNumbers = {1, 2}
    MaxAttempts = 3
    MaxCrashes = 1
    MaxEdits = 0
    MayOverrun = FALSE
PROPERTY KeepsPromise ApprovedSettles
CHECK_DEADLOCK FALSE

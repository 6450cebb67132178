SPECIFICATION Spec
CONSTANTS
    t1 = t1
    t2 = t2
    demo = demo
    Actions = {t1}
    TableActions = {t1}
    Older <- Chain
    NoAction = NoAction
    Workers = {w1, w2}
    Requests = {r1}
    Schemas = {"s1"}
    RowNumbers = {1, 2}
    MaxAttempts = 3
    MaxCrashes = 0
    MaxEdits = 0
    MayOverrun = TRUE
INVARIANT AtMostOneAppend
CHECK_DEADLOCK FALSE

SPECIFICATION Spec
CONSTANTS
    t1 = t1
    t2 = t2
    demo = demo
    Actions = {t1}
    TableActions = {t1}
    Older <- Chain
    NoAction = NoAction
    Workers = {w1, w2}
    Requests = {r1, r2}
    Schemas = {"s1", "s2"}
    RowNumbers = {1, 2}
    MaxAttempts = 3
    MaxCrashes = 2
    MaxEdits = 2
    MayOverrun = FALSE
SYMMETRY Alike
INVARIANT TypeOK AtMostOneAppend OneHolder AppendIsMarked ReceiptIffVerified TrailMatchesStatus
CHECK_DEADLOCK FALSE

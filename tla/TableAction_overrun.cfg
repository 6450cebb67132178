SPECIFICATION Spec
CONSTANTS
    t1 = t1
    t2 = t2
    demo = demo
    Actions = {t1, t2}
    TableActions = {t1, t2}
    Older <- Chain
    NoAction = NoAction
    Workers = {w1, w2, w3}
    Requests = {r1}
    Schemas = {"s1"}
    RowNumbers = {1, 2}
    MaxAttempts = 2
    MaxCrashes = 0
    MaxEdits = 0
    MayOverrun = TRUE
SYMMETRY Alike
INVARIANT AppendIsMarked AppendsBounded OneReceiptPerEmail
CHECK_DEADLOCK FALSE

SPECIFICATION Spec
CONSTANTS
    TaskId = {t1, t2}
    WorkerId = {w1}
    RequestId = {r1, r2}
    Key = {empty, k1}
    EmptyKey = empty
    NoKey = NoKey
    NoTask = NoTask
    NoWorker = NoWorker
    MaxAttempts = 2
    FailReason = {"tool_error"}
    MaxConcurrency = 1
    MaxFaults = 1
    MaxLostLeases = 0
    MaxProgress = 0
SYMMETRY Symmetry
INVARIANTS
    SameKeySameTask

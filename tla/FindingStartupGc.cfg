SPECIFICATION Spec
CONSTANTS
    TaskId = {t1}
    WorkerId = {w1, w2}
    RequestId = {r1}
    Key = {}
    EmptyKey = empty
    NoKey = NoKey
    NoTask = NoTask
    NoWorker = NoWorker
    MaxAttempts = 1
    FailReason = {"model_error", "tool_error"}
    MaxConcurrency = 1
    MaxFaults = 0
    MaxLostLeases = 0
    MaxProgress = 0
INVARIANT
    GcSparesWorking

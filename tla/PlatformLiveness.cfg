SPECIFICATION LoadedFairSpec
CONSTANTS
    TaskId = {t1}
    WorkerId = {w1, w2}
    RequestId = {}
    Key = {}
    EmptyKey = empty
    NoKey = NoKey
    NoTask = NoTask
    NoWorker = NoWorker
    MaxAttempts = 2
    FailReason = {"tool_error"}
    MaxConcurrency = 1
    MaxFaults = 1
    MaxLostLeases = 1
    MaxProgress = 0
PROPERTIES
    EveryTaskEnds
    SlotsAreReturned

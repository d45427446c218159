SPECIFICATION Spec
CONSTANTS
    TaskId = {t1}
    WorkerId = {w1, w2}
    RequestId = {r1, r2}
    Key = {}
    EmptyKey = empty
    NoKey = NoKey
    NoTask = NoTask
    NoWorker = NoWorker
    MaxAttempts = 2
    FailReason = {"tool_error"}
    MaxConcurrency = 1
    MaxFaults = 0
    MaxLostLeases = 1
    MaxProgress = 0
SYMMETRY Symmetry
INVARIANTS
    OneRunnerPerAttempt
    CancelAnswersHold
    CopiesBounded

SPECIFICATION Spec
CONSTANTS
    TaskId = {t1}
    WorkerId = {w1, w2}
    RequestId = {r1}
    Key = {}
    EmptyKey = empty
    NoKey = NoKey
    NoTask = NoTask
    NoWorker = NoWorker
    MaxAttempts = 2
    FailReason = {"model_error", "tool_error"}
    MaxConcurrency = 1
    MaxFaults = 2
    MaxLostLeases = 0
    MaxProgress = 2
SYMMETRY Symmetry
INVARIANTS
    TypeOK
    FencedOnlyAfterLeaseLoss
    OrderlyHistory
    PriorSandboxCleared
PROPERTIES
    UsesStore

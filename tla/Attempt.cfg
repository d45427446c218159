SPECIFICATION FairSpec
\* The system may stop: the task has ended and its attempts are over.
CHECK_DEADLOCK FALSE
CONSTANTS
    TaskId = {t1}
    Task = t1
    WorkerId = {w1}
    Key = {}
    EmptyKey = ""
    NoKey = NoKey
    NoTask = NoTask
    NoWorker = NoWorker
    MaxAttempts = 2
    FailReason = {"model_error", "tool_error", "sandbox_oom", "timeout"}
    Interval = 1
    MaxLate = 1
    MaxIncidents = 2
INVARIANTS
    AttemptTypeOK
    VerdictHasCause
    UsageAddsUp
    
PROPERTIES
    HeartbeatKeepsLease
    StopIsObeyed

SPECIFICATION BoundedSpec
\* Nobody has to call the store: when all tasks are settled and the event
\* tables are full it has nothing left to do.
CHECK_DEADLOCK FALSE
CONSTANTS
    TaskId = {t1, t2}
    WorkerId = {w1}
    Key = {}
    EmptyKey = empty
    NoKey = NoKey
    NoTask = NoTask
    NoWorker = NoWorker
    MaxAttempts = 2
    FailReason = {"model_error"}
    MaxEvents = 1
INVARIANTS
    StoreTypeOK
    LedgerBalanced
    QueuedHasAttemptLeft
PROPERTIES
    VerdictIsFinal
    AttemptIsFresh
    ImplementsLifecycle

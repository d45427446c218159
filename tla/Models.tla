------------------------------- MODULE Models -------------------------------
(* core/models.py: the vocabulary every other component shares.              *)
EXTENDS Integers, FiniteSets

CONSTANTS
    TaskId,       \* uuid4().hex of a task
    WorkerId,     \* the worker processes
    Key,          \* the idempotency keys clients send, the empty one included
    EmptyKey,     \* the key "": present in the request, false in Python
    NoKey,        \* no idempotency_key in the request: NULL in the table
    NoTask,       \* a local that names no task
    NoWorker,     \* NULL in worker_id; an absent lease key in Redis
    MaxAttempts,  \* max_attempts: create_task always takes the default, 2
    FailReason    \* the reasons of a FAILED outcome that are told apart

QUEUED == "queued"
RUNNING == "running"
SUCCEEDED == "succeeded"
FAILED == "failed"
CANCELLED == "cancelled"
TERMINAL == {SUCCEEDED, FAILED, CANCELLED}

EV_STARTED == "job.started"
EV_MESSAGE == "llm.message"      \* stands for tool.call and tool.result too
EV_COMPLETED == "job.completed"
EV_FAILED == "job.failed"
ProgressType == {EV_STARTED, EV_MESSAGE}
TerminalType == {EV_COMPLETED, EV_FAILED}

R_MODEL == "model_error"         \* stands for max_steps, timeout, sandbox_oom
R_TOOL == "tool_error"
R_RETRIES == "retries_exhausted"
R_CANCELLED == "cancelled"
NoReason == "none"

(* The (status, reason) pairs run_attempt hands to TaskStore.finish.         *)
Outcome ==
    [status : {SUCCEEDED}, reason : {NoReason}]
        \cup [status : {FAILED}, reason : FailReason]
        \cup [status : {CANCELLED}, reason : {R_CANCELLED}]

ASSUME MaxAttemptsAssumption == MaxAttempts \in Nat \ {0}
ASSUME KeyAssumption == NoKey \notin Key /\ EmptyKey # NoKey
ASSUME TaskAssumption == NoTask \notin TaskId
ASSUME WorkerAssumption == NoWorker \notin WorkerId
ASSUME WorkersAreFinite == IsFiniteSet(WorkerId)
ASSUME ReasonAssumption ==
    NoReason \notin FailReason /\ R_CANCELLED \notin FailReason
=============================================================================

-------------------------------- MODULE Api --------------------------------
(* api/main.py: POST /tasks and POST /tasks/{id}/cancel.  The handlers run    *)
(* in FastAPI's thread pool, so requests interleave at every call of the     *)
(* store and of Redis, and one may be cut short between two of them when     *)
(* the process dies.                                                         *)
EXTENDS TaskStore, QueueBus

CONSTANT RequestId   \* bound: the requests clients send, each at most once

VARIABLE req   \* the state of each request: where it stands, what it was told

Answer == {"none", "created", "existing", "conflict",     \* POST /tasks
           "noop", "cancelled", "requested",              \* POST .../cancel
           "lost"}

Request ==
    [at : {"idle", "insert", "enqueue", "cancel", "flag", "done"},
     task : TaskId \cup {NoTask},
     key : Key \cup {NoKey},
     answer : Answer]

ApiTypeOK == req \in [RequestId -> Request]

ApiInit ==
    req = [r \in RequestId |->
            [at |-> "idle", task |-> NoTask, key |-> NoKey, answer |-> "none"]]

Proceed(r, at, t) == req' = [req EXCEPT ![r].at = at, ![r].task = t]
Reply(r, t, answer) ==
    req' = [req EXCEPT ![r].at = "done", ![r].task = t, ![r].answer = answer]

KeepTables == UNCHANGED <<tasks, events, queue, lease>>

-----------------------------------------------------------------------------
(* POST /tasks *)

(* The SELECT of create_task. *)
LookUp(r, k) ==
    /\ req[r].at = "idle"
    /\ \/ \E t \in FindByKey(k) :
            req' = [req EXCEPT ![r] =
                [at |-> "done", task |-> t, key |-> k, answer |-> "existing"]]
       \/ /\ FindByKey(k) = {}
          /\ req' = [req EXCEPT ![r].at = "insert", ![r].key = k]
    /\ KeepTables

(* The INSERT of create_task, with the key that was free at the SELECT.      *)
InsertTask(r) ==
    /\ req[r].at = "insert"
    /\ \E t \in TaskId : Insert(t, req[r].key) /\ Proceed(r, "enqueue", t)
    /\ UNCHANGED <<queue, lease>>

(* IntegrityError, which no handler catches: a 500.                          *)
InsertRefused(r) ==
    /\ req[r].at = "insert"
    /\ Clashes(req[r].key)
    /\ Reply(r, NoTask, "conflict")
    /\ KeepTables

EnqueueTask(r) ==
    /\ req[r].at = "enqueue"
    /\ Enqueue(req[r].task)
    /\ Reply(r, req[r].task, "created")
    /\ UNCHANGED <<tasks, events>>

-----------------------------------------------------------------------------
(* POST /tasks/{id}/cancel *)

GetForCancel(r, t) ==
    /\ req[r].at = "idle"
    /\ Exists(t)
    /\ IF tasks[t].status \in TERMINAL
       THEN Reply(r, t, "noop")
       ELSE Proceed(r, "cancel", t)
    /\ KeepTables

CancelInQueue(r) ==
    /\ req[r].at = "cancel"
    /\ IF tasks[req[r].task].status = QUEUED
       THEN CancelQueued(req[r].task) /\ Reply(r, req[r].task, "cancelled")
       ELSE UNCHANGED storeVars /\ Proceed(r, "flag", req[r].task)
    /\ UNCHANGED <<queue, lease>>

(* The result of request_cancel is not looked at.                            *)
FlagRunning(r) ==
    /\ req[r].at = "flag"
    /\ IF Flaggable(req[r].task)
       THEN RequestCancel(req[r].task)
       ELSE UNCHANGED storeVars
    /\ Reply(r, req[r].task, "requested")
    /\ UNCHANGED <<queue, lease>>

(* The API process dies with the request half done.                          *)
LoseRequest(r) ==
    /\ req[r].at \notin {"idle", "done"}
    /\ Reply(r, req[r].task, "lost")
    /\ KeepTables

-----------------------------------------------------------------------------
PostTask(r) ==
    (\E k \in Key \cup {NoKey} : LookUp(r, k))
        \/ InsertTask(r) \/ InsertRefused(r) \/ EnqueueTask(r)

CancelTask(r) ==
    (\E t \in TaskId : GetForCancel(r, t)) \/ CancelInQueue(r) \/ FlagRunning(r)

ApiNext == \E r \in RequestId : PostTask(r) \/ CancelTask(r) \/ LoseRequest(r)
=============================================================================

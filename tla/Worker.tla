------------------------------- MODULE Worker -------------------------------
(* worker/main.py, worker/reconcile.py and worker/attempt.py: the worker     *)
(* processes.  Each runs one loop; a step here is one call of the store, of  *)
(* Redis or of Docker, and whatever another process does may come between    *)
(* any two of them.  Locals read in one step and used in a later one are     *)
(* kept in the worker's variables, as stale as the code lets them become.    *)
(*                                                                           *)
(* The heartbeat and the reaper are abstracted: a lease lasts while its      *)
(* holder is at work unless it is lost (LoseLease), and run_agent may end as  *)
(* cancelled whenever the cancel flag is up.                                 *)
EXTENDS TaskStore, QueueBus, Sandbox, FiniteSets

CONSTANTS
    MaxConcurrency,   \* CAP_MAX_CONCURRENCY, 2 by default
    MaxFaults,        \* bound: crashes, exceptions, refusals of Docker
    MaxLostLeases,    \* bound: leases lost by a worker that is alive
    MaxProgress       \* bound: rows of table events a task may have while it
                      \* still gains loop events

ASSUME ConcurrencyAssumption == MaxConcurrency \in Nat \ {0}
ASSUME BoundAssumption ==
    MaxFaults \in Nat /\ MaxLostLeases \in Nat /\ MaxProgress \in Nat
ASSUME ToolErrorAssumption == R_TOOL \in FailReason

VARIABLES
    pc,        \* where each worker stands
    rows,      \* reconcile: the (id, attempt) of the running rows still to see
    ids,       \* main, reconcile: the set of task ids read last
    found,     \* gc, remove_for_task: the containers listed, still to remove
    job,       \* the task and attempt in hand
    outcome,   \* run_attempt: the Outcome, or Raised when run_agent raised
    total,     \* add_usage: the usage read
    faults,    \* how many of MaxFaults have happened
    lost       \* how many of MaxLostLeases have happened

locals == <<rows, ids, found, job, outcome, total>>
workerVars == <<pc, locals, faults, lost>>

Job == [task : TaskId, attempt : 0 .. MaxAttempts]
NoJob == [task |-> NoTask, attempt |-> 0]
Pending == [status |-> "pending", reason |-> NoReason]
Raised == [status |-> "raised", reason |-> NoReason]

Startup == {"down", "boot", "gc", "sweep"}
Reconciling == {"scan", "check", "reclaim", "push", "list", "match", "repush"}
Taking == {"gate", "pop", "acquire", "claim"}
Running == {"clear", "prior", "announce", "start", "run", "unwind", "bank", "add", "finish"}
Releasing == {"readlease", "dellease"}
Location == Startup \cup Reconciling \cup Taking \cup Running \cup Releasing

(* From SET NX to the end of release_lease the worker believes it holds the  *)
(* lease of its task.                                                        *)
Holding == {"claim"} \cup Running \cup Releasing

WorkerTypeOK ==
    /\ pc \in [WorkerId -> Location]
    /\ rows \in [WorkerId -> SUBSET Job]
    /\ ids \in [WorkerId -> SUBSET TaskId]
    /\ found \in [WorkerId -> SUBSET Label]
    /\ job \in [WorkerId -> Job \cup {NoJob}]
    /\ outcome \in [WorkerId -> Outcome \cup {Pending, Raised}]
    /\ total \in [WorkerId -> Usage]
    /\ faults \in 0 .. MaxFaults
    /\ lost \in 0 .. MaxLostLeases

WorkerInit ==
    /\ pc = [w \in WorkerId |-> "boot"]
    /\ rows = [w \in WorkerId |-> {}]
    /\ ids = [w \in WorkerId |-> {}]
    /\ found = [w \in WorkerId |-> {}]
    /\ job = [w \in WorkerId |-> NoJob]
    /\ outcome = [w \in WorkerId |-> Pending]
    /\ total = [w \in WorkerId |-> {}]
    /\ faults = 0
    /\ lost = 0

-----------------------------------------------------------------------------
(* Moving a worker on.  Going back to the top of the loop drops its locals.  *)

At(w, l) == pc[w] = l
GoTo(w, l) == pc' = [pc EXCEPT ![w] = l]
Step(w, from, to) == At(w, from) /\ GoTo(w, to)
Mine(w) == job[w].task

Restart(w, l) ==
    /\ GoTo(w, l)
    /\ rows' = [rows EXCEPT ![w] = {}]
    /\ ids' = [ids EXCEPT ![w] = {}]
    /\ found' = [found EXCEPT ![w] = {}]
    /\ job' = [job EXCEPT ![w] = NoJob]
    /\ outcome' = [outcome EXCEPT ![w] = Pending]
    /\ total' = [total EXCEPT ![w] = {}]

KeepBounds == UNCHANGED <<faults, lost>>
KeepLocals == UNCHANGED locals /\ KeepBounds
KeepShared == UNCHANGED <<tasks, events, queue, lease, containers, refused>>
OnlyStore == UNCHANGED <<queue, lease, containers, refused>>
OnlyBus == UNCHANGED <<tasks, events, containers, refused>>
OnlySandbox == UNCHANGED <<tasks, events, queue, lease>>

-----------------------------------------------------------------------------
(* main: the snapshot of running tasks, then gc with that snapshot.  gc and  *)
(* remove_for_task list the containers once and remove them one by one.      *)

ReadActive(w) ==
    /\ Step(w, "boot", "gc")
    /\ ids' = [ids EXCEPT ![w] = WithStatus(RUNNING)]
    /\ UNCHANGED <<rows, found, job, outcome, total>> /\ KeepBounds /\ KeepShared

ListOrphans(w) ==
    /\ Step(w, "gc", "sweep")
    /\ found' = [found EXCEPT ![w] = Orphans(ids[w])]
    /\ UNCHANGED <<rows, ids, job, outcome, total>> /\ KeepBounds /\ KeepShared

RemoveFound(w) ==
    /\ pc[w] \in {"sweep", "prior"}
    /\ \E c \in found[w] :
        /\ Remove(c)
        /\ found' = [found EXCEPT ![w] = @ \ {c}]
    /\ UNCHANGED <<pc, rows, ids, job, outcome, total>> /\ KeepBounds /\ OnlySandbox

Swept(w) ==
    /\ At(w, "sweep") /\ Restart(w, "scan")
    /\ found[w] = {}
    /\ KeepBounds /\ KeepShared

-----------------------------------------------------------------------------
(* reconcile *)

ScanRunning(w) ==
    /\ Step(w, "scan", "check")
    /\ rows' = [rows EXCEPT ![w] =
            {[task |-> t, attempt |-> tasks[t].attempt] : t \in WithStatus(RUNNING)}]
    /\ UNCHANGED <<ids, found, job, outcome, total>> /\ KeepBounds /\ KeepShared

(* Mutant: the lease is not looked at.                                       *)
CheckNoLease(w) ==
    /\ Step(w, "check", "reclaim")
    /\ \E r \in rows[w] :
        /\ rows' = [rows EXCEPT ![w] = @ \ {r}]
        /\ job' = [job EXCEPT ![w] = r]
    /\ UNCHANGED <<ids, found, outcome, total>> /\ KeepBounds /\ KeepShared

(* GET of the lease of the next row: a leased row is skipped.                *)
CheckLease(w) ==
    /\ At(w, "check")
    /\ \E r \in rows[w] :
        /\ rows' = [rows EXCEPT ![w] = @ \ {r}]
        /\ IF Leased(r.task)
           THEN UNCHANGED <<pc, job>>
           ELSE GoTo(w, "reclaim") /\ job' = [job EXCEPT ![w] = r]
    /\ UNCHANGED <<ids, found, outcome, total>> /\ KeepBounds /\ KeepShared

RowsDone(w) ==
    /\ Step(w, "check", "list")
    /\ rows[w] = {}
    /\ job' = [job EXCEPT ![w] = NoJob]
    /\ UNCHANGED <<rows, ids, found, outcome, total>> /\ KeepBounds /\ KeepShared

(* Mutant: off by one.                                                       *)
HasAttemptLeftOrNot(r) == r.attempt <= MaxAttempts

HasAttemptLeft(r) == r.attempt < MaxAttempts

GiveBack(w) ==
    /\ Step(w, "reclaim", "push")
    /\ HasAttemptLeft(job[w])
    /\ Requeue(Mine(w), job[w].attempt)
    /\ KeepLocals /\ OnlyStore

GiveUp(w) ==
    /\ Step(w, "reclaim", "check")
    /\ ~HasAttemptLeft(job[w])
    /\ FailExhausted(Mine(w), job[w].attempt)
    /\ KeepLocals /\ OnlyStore

(* rowcount = 0: the task was reclaimed by another worker, or finished.      *)
ReclaimLost(w) ==
    /\ Step(w, "reclaim", "check")
    /\ ~RunsAttempt(Mine(w), job[w].attempt)
    /\ KeepLocals /\ KeepShared

PushReclaimed(w) ==
    /\ Step(w, "push", "check")
    /\ Enqueue(Mine(w))
    /\ KeepLocals /\ OnlyBus

ListQueue(w) ==
    /\ Step(w, "list", "match")
    /\ ids' = [ids EXCEPT ![w] = QueuedIds]
    /\ UNCHANGED <<rows, found, job, outcome, total>> /\ KeepBounds /\ KeepShared

(* Mutants: every queued id is pushed again; none is.                        *)
MatchAll(w) ==
    /\ Step(w, "match", "repush")
    /\ ids' = [ids EXCEPT ![w] = WithStatus(QUEUED)]
    /\ UNCHANGED <<rows, found, job, outcome, total>> /\ KeepBounds /\ KeepShared

MatchNone(w) ==
    /\ Step(w, "match", "repush")
    /\ ids' = [ids EXCEPT ![w] = {}]
    /\ UNCHANGED <<rows, found, job, outcome, total>> /\ KeepBounds /\ KeepShared

(* The queue was read before the table; the difference is pushed later on.   *)
MatchQueued(w) ==
    /\ Step(w, "match", "repush")
    /\ ids' = [ids EXCEPT ![w] = WithStatus(QUEUED) \ ids[w]]
    /\ UNCHANGED <<rows, found, job, outcome, total>> /\ KeepBounds /\ KeepShared

Repush(w) ==
    /\ At(w, "repush")
    /\ \E t \in ids[w] :
        /\ Enqueue(t)
        /\ ids' = [ids EXCEPT ![w] = @ \ {t}]
    /\ UNCHANGED <<pc, rows, found, job, outcome, total>> /\ KeepBounds /\ OnlyBus

Reconciled(w) ==
    /\ Step(w, "repush", "gate")
    /\ ids[w] = {}
    /\ KeepLocals /\ KeepShared

-----------------------------------------------------------------------------
(* poll_once *)

(* Mutant: off by one.                                                       *)
PastCapacity == Cardinality(ActiveLeases) > MaxConcurrency

AtCapacity == Cardinality(ActiveLeases) >= MaxConcurrency

GateOpen(w) ==
    /\ Step(w, "gate", "pop")
    /\ ~AtCapacity
    /\ KeepLocals /\ KeepShared

GateShut(w) ==
    /\ At(w, "gate") /\ Restart(w, "scan")
    /\ AtCapacity
    /\ KeepBounds /\ KeepShared

PopTask(w) ==
    /\ Step(w, "pop", "acquire")
    /\ \E t \in TaskId :
        /\ Dequeue(t)
        /\ job' = [job EXCEPT ![w] = [task |-> t, attempt |-> 0]]
    /\ UNCHANGED <<rows, ids, found, outcome, total>> /\ KeepBounds /\ OnlyBus

PopNothing(w) ==
    /\ At(w, "pop") /\ Restart(w, "scan")
    /\ queue = <<>>
    /\ KeepBounds /\ KeepShared

TakeLease(w) ==
    /\ Step(w, "acquire", "claim")
    /\ AcquireLease(Mine(w), w)
    /\ KeepLocals /\ OnlyBus

(* A rival holds the lease: the id that was popped is dropped.               *)
LeaseTaken(w) ==
    /\ At(w, "acquire") /\ Restart(w, "scan")
    /\ Leased(Mine(w))
    /\ KeepBounds /\ KeepShared

ClaimTask(w) ==
    /\ Step(w, "claim", "clear")
    /\ Claim(Mine(w), w)
    /\ job' = [job EXCEPT ![w].attempt = tasks'[Mine(w)].attempt]
    /\ UNCHANGED <<rows, ids, found, outcome, total>> /\ KeepBounds /\ OnlyStore

ClaimRefused(w) ==
    /\ Step(w, "claim", "readlease")
    /\ ~Claimable(Mine(w))
    /\ KeepLocals /\ KeepShared

(* Mutant: the call is forgotten.                                            *)
ListNothing(w) ==
    /\ Step(w, "clear", "prior")
    /\ KeepLocals /\ KeepShared

ListPrior(w) ==
    /\ Step(w, "clear", "prior")
    /\ found' = [found EXCEPT ![w] = Labelled(Mine(w))]
    /\ UNCHANGED <<rows, ids, job, outcome, total>> /\ KeepBounds /\ KeepShared

PriorCleared(w) ==
    /\ Step(w, "prior", "announce")
    /\ found[w] = {}
    /\ KeepLocals /\ KeepShared

-----------------------------------------------------------------------------
(* run_attempt *)

Announce(w) ==
    /\ Step(w, "announce", "start")
    /\ AppendProgress(Mine(w), job[w].attempt, EV_STARTED)
    /\ KeepLocals /\ OnlyStore

StartSandbox(w) ==
    /\ Step(w, "start", "run")
    /\ Start(Mine(w), job[w].attempt)
    /\ KeepLocals /\ OnlySandbox

Emit(w) ==
    /\ At(w, "run")
    /\ Len(events[Mine(w)]) < MaxProgress
    /\ AppendProgress(Mine(w), job[w].attempt, EV_MESSAGE)
    /\ UNCHANGED pc /\ KeepLocals /\ OnlyStore

SandboxAlive(w) == <<Mine(w), job[w].attempt>> \in containers

(* A run ends as cancelled only when the reaper has seen the flag, and with  *)
(* tool_error only when its container was gone (or Docker failed, below).     *)
RunEnds(w) ==
    /\ Step(w, "run", "unwind")
    /\ \E o \in Outcome :
        /\ o.status = CANCELLED => tasks[Mine(w)].cancel
        /\ o.reason = R_TOOL => ~SandboxAlive(w)
        /\ outcome' = [outcome EXCEPT ![w] = o]
    /\ UNCHANGED <<rows, ids, found, job, total>> /\ KeepBounds /\ KeepShared

(* The outcomes run_agent returns carry the usage it summed, those built from *)
(* Stopped and SandboxDied carry none; "model_error" stands for both kinds.  *)
AfterUnwind(o) ==
    CASE o.status = SUCCEEDED -> {"bank"}
      [] o.reason = R_MODEL -> {"bank", "finish"}
      [] OTHER -> {"finish"}

(* The finally block is over; an exception run_agent let through goes on to  *)
(* main.                                                                     *)
LeaveTry(w) ==
    \/ outcome[w] = Raised /\ Restart(w, "scan")
    \/ /\ outcome[w] # Raised
       /\ \E l \in AfterUnwind(outcome[w]) : GoTo(w, l)
       /\ UNCHANGED locals

Unwind(w) ==
    /\ At(w, "unwind")
    /\ Remove(<<Mine(w), job[w].attempt>>)
    /\ LeaveTry(w)
    /\ KeepBounds /\ OnlySandbox

(* add_usage, whose SELECT comes before its transaction.                     *)
ReadTotal(w) ==
    /\ Step(w, "bank", "add")
    /\ total' = [total EXCEPT ![w] = ReadUsage(Mine(w))]
    /\ UNCHANGED <<rows, ids, found, job, outcome>> /\ KeepBounds /\ KeepShared

WriteTotal(w) ==
    /\ Step(w, "add", "finish")
    /\ AddUsage(Mine(w), job[w].attempt, total[w])
    /\ KeepLocals /\ OnlyStore

FinishTask(w) ==
    /\ Step(w, "finish", "readlease")
    /\ Finish(Mine(w), job[w].attempt, outcome[w])
    /\ KeepLocals /\ OnlyStore

FinishRefused(w) ==
    /\ Step(w, "finish", "readlease")
    /\ ~RunsAttempt(Mine(w), job[w].attempt)
    /\ KeepLocals /\ KeepShared

ReadLease(w) ==
    /\ At(w, "readlease")
    /\ IF lease[Mine(w)] = w
       THEN GoTo(w, "dellease") /\ UNCHANGED locals
       ELSE Restart(w, "scan")
    /\ KeepBounds /\ KeepShared

DropLease(w) ==
    /\ At(w, "dellease") /\ Restart(w, "scan")
    /\ DeleteLease(Mine(w))
    /\ KeepBounds /\ OnlyBus

-----------------------------------------------------------------------------
(* What goes wrong *)

InLoop(w) == pc[w] \notin Startup
Fault == faults < MaxFaults /\ faults' = faults + 1 /\ UNCHANGED lost

(* The process dies; its containers and its lease stay behind.               *)
Crash(w) ==
    /\ ~At(w, "down") /\ Restart(w, "down")
    /\ Fault /\ KeepShared

(* Somebody starts the worker again; compose sets no restart policy.         *)
Boot(w) ==
    /\ Step(w, "down", "boot")
    /\ KeepLocals /\ KeepShared

(* Anything poll_once calls may raise (Redis, SQLite, Docker, a poisoned     *)
(* task): main prints the trace and polls again.  While the agent runs, the  *)
(* finally block comes first; at "unwind" it is that block that raises.      *)
Raise(w) ==
    /\ InLoop(w)
    /\ IF At(w, "run")
       THEN /\ GoTo(w, "unwind")
            /\ outcome' = [outcome EXCEPT ![w] = Raised]
            /\ UNCHANGED <<rows, ids, found, job, total>>
       ELSE Restart(w, "scan")
    /\ Fault /\ KeepShared

(* A Docker call of a tool fails though the container is there: the handle   *)
(* reports SandboxDied for it all the same.                                  *)
DockerFails(w) ==
    /\ Step(w, "run", "unwind")
    /\ outcome' = [outcome EXCEPT ![w] = [status |-> FAILED, reason |-> R_TOOL]]
    /\ UNCHANGED <<rows, ids, found, job, total>> /\ Fault /\ KeepShared

(* containers.run succeeds and the copy of the workspace raises: run_attempt *)
(* has no handle to destroy the container with.                              *)
StartFails(w) ==
    /\ At(w, "start") /\ Restart(w, "scan")
    /\ Start(Mine(w), job[w].attempt)
    /\ Fault /\ OnlySandbox

(* Docker refuses to remove a container; nobody hears of it.                 *)
ContainerStays(w) ==
    /\ pc[w] \in {"sweep", "prior"}
    /\ \E c \in found[w] :
        /\ RemoveRefused(c)
        /\ found' = [found EXCEPT ![w] = @ \ {c}]
    /\ UNCHANGED <<pc, rows, ids, job, outcome, total>> /\ Fault /\ OnlySandbox

OwnContainerStays(w) ==
    /\ At(w, "unwind")
    /\ RemoveRefused(<<Mine(w), job[w].attempt>>)
    /\ LeaveTry(w)
    /\ Fault /\ OnlySandbox

BelievesHeld(w, t) == pc[w] \in Holding /\ Mine(w) = t

(* Mutant: SET NX without EX.                                                *)
LeaseNeverExpires(t) == FALSE

(* The holder no longer renews: it crashed, or its poll raised.              *)
LeaseExpires(t) ==
    /\ Leased(t)
    /\ ~BelievesHeld(lease[t], t)
    /\ DeleteLease(t)
    /\ UNCHANGED workerVars /\ OnlyBus

Losing == lost < MaxLostLeases /\ lost' = lost + 1
          /\ UNCHANGED <<pc, locals, faults>>

(* The lease of a worker at work runs out: the process is suspended, a       *)
(* renewal comes late or raises, or a slow provider.start keeps it from      *)
(* starting the heartbeat in time.                                           *)
LoseLease(t) ==
    /\ Leased(t)
    /\ BelievesHeld(lease[t], t)
    /\ DeleteLease(t)
    /\ Losing /\ OnlyBus

RedisRestarts ==
    /\ Wipe
    /\ Losing /\ OnlyBus

-----------------------------------------------------------------------------
Reconcile(w) ==
    \/ ScanRunning(w) \/ CheckLease(w) \/ RowsDone(w)
    \/ GiveBack(w) \/ GiveUp(w) \/ ReclaimLost(w) \/ PushReclaimed(w)
    \/ ListQueue(w) \/ MatchQueued(w) \/ Repush(w) \/ Reconciled(w)

PollOnce(w) ==
    \/ GateOpen(w) \/ GateShut(w) \/ PopTask(w) \/ PopNothing(w)
    \/ TakeLease(w) \/ LeaseTaken(w) \/ ClaimTask(w) \/ ClaimRefused(w)
    \/ ListPrior(w) \/ PriorCleared(w)

RunAttempt(w) ==
    \/ Announce(w) \/ StartSandbox(w) \/ Emit(w) \/ RunEnds(w) \/ Unwind(w)
    \/ ReadTotal(w) \/ WriteTotal(w) \/ FinishTask(w) \/ FinishRefused(w)
    \/ ReadLease(w) \/ DropLease(w)

(* What a worker does when nothing goes wrong. *)
WorkerStep(w) ==
    \/ ReadActive(w) \/ ListOrphans(w) \/ RemoveFound(w) \/ Swept(w)
    \/ Reconcile(w) \/ PollOnce(w) \/ RunAttempt(w)

WorkerFault(w) ==
    \/ Crash(w) \/ Boot(w) \/ Raise(w) \/ StartFails(w) \/ DockerFails(w)
    \/ ContainerStays(w) \/ OwnContainerStays(w)

WorkerNext ==
    \/ \E w \in WorkerId : WorkerStep(w) \/ WorkerFault(w)
    \/ \E t \in TaskId : LeaseExpires(t) \/ LoseLease(t)
    \/ RedisRestarts
=============================================================================

------------------------------ MODULE Platform ------------------------------
(* The deployed system (docker-compose.yml): one API process and the worker  *)
(* processes over one SQLite file, one Redis and one Docker daemon.          *)
EXTENDS Worker, Api

vars == <<storeVars, busVars, sandboxVars, workerVars, req>>

TypeOK == StoreTypeOK /\ BusTypeOK /\ SandboxTypeOK /\ WorkerTypeOK /\ ApiTypeOK

Init == StoreInit /\ BusInit /\ SandboxInit /\ WorkerInit /\ ApiInit

Next ==
    \/ WorkerNext /\ UNCHANGED req
    \/ ApiNext /\ UNCHANGED <<sandboxVars, workerVars>>

Spec == Init /\ [][Next]_vars

(* A worker that is up keeps taking steps, and Redis expires a key whose     *)
(* holder does not renew it.  Nothing is assumed of the API and its clients, *)
(* and nothing of faults: a crashed worker may stay down for good.           *)
Fairness ==
    /\ \A w \in WorkerId : WF_vars(WorkerStep(w) /\ UNCHANGED req)
    /\ \A t \in TaskId : WF_vars(LeaseExpires(t) /\ UNCHANGED req)

FairSpec == Spec /\ Fairness

Terminal(t) == tasks[t].status \in TERMINAL

-----------------------------------------------------------------------------
(* Who runs an attempt *)

(* No attempt is ever run by two workers, however leases are lost and ids     *)
(* queued twice (worker/reconcile.py:8: double enqueue is harmless).          *)
OneRunnerPerAttempt ==
    \A v, w \in WorkerId :
        pc[v] \in Running /\ pc[w] \in Running /\ job[v] = job[w] => v = w

(* Reconcile takes an attempt away only from a worker that lost its lease:   *)
(* as long as no live worker lost one, every attempt at work is the current  *)
(* one of its task and its verdict will be accepted.                         *)
FencedOnlyAfterLeaseLoss ==
    lost = 0 => \A w \in WorkerId :
        pc[w] \in Running => RunsAttempt(Mine(w), job[w].attempt)

(* What a subscriber reads, while no live worker lost its lease: attempts in  *)
(* turn, and nothing after the terminal event (docs/ARCHITECTURE.md:73       *)
(* closes the stream there).                                                 *)
AttemptsInTurn ==
    \A t \in TaskId : \A i, j \in DOMAIN events[t] :
        i < j /\ events[t][j].attempt # 0
            => events[t][i].attempt <= events[t][j].attempt

NothingAfterTheEnd ==
    \A t \in TaskId : \A i \in TerminalEvents(t) : i = Len(events[t])

OrderlyHistory == lost = 0 => AttemptsInTurn /\ NothingAfterTheEnd

(* While no live worker lost its lease, an attempt has beside its own no      *)
(* container of its task, whatever the crash of an earlier attempt left, but *)
(* for one that Docker has refused to remove: remove_for_task lists them all *)
(* and tries each, and none appears between the listing and the run.         *)
PriorSandboxCleared ==
    lost = 0 => \A w \in WorkerId, c \in containers :
        pc[w] \in {"announce", "start", "run"} /\ c[1] = Mine(w)
            => c[2] = job[w].attempt \/ c \in refused

(* The workers and the API keep to the contract of the store: in particular  *)
(* no attempt is given back unless another one is left.                      *)
UsesStore == StoreSpec

-----------------------------------------------------------------------------
(* Capacity *)

(* The gate reads the leases before the lease is taken, so several workers   *)
(* pass it at once and the cap is exceeded, but by fewer leases than there   *)
(* are workers, those a crash has left included.                             *)
LeasesBounded ==
    Cardinality(ActiveLeases) < MaxConcurrency + Cardinality(WorkerId)

(* How often one id may stand in the queue at once: the API pushes it once,  *)
(* reconcile once per worker that missed it, and once per reclaimed attempt. *)
Copies(t) == Cardinality({i \in DOMAIN queue : queue[i] = t})

CopiesBounded ==
    \A t \in TaskId : Copies(t) <= Cardinality(WorkerId) + MaxAttempts

-----------------------------------------------------------------------------
(* What clients are told *)

(* An answer "cancelled" is never taken back, whatever a worker that had the *)
(* id in hand goes on to do; and a no-op is answered for an ended task only.  *)
CancelAnswersHold ==
    \A r \in RequestId :
        /\ req[r].answer = "cancelled" => tasks[req[r].task].status = CANCELLED
        /\ req[r].answer = "noop" => Terminal(req[r].task)

(* Two submissions under one key that are both answered name the same task,  *)
(* and at most one of them is told it created it.                            *)
Submitted(r) == req[r].answer \in {"created", "existing"}

SameKeySameTask ==
    \A q, r \in RequestId :
        /\ q # r
        /\ Submitted(q) /\ Submitted(r)
        /\ req[q].key = req[r].key /\ req[q].key \in Key
        => /\ req[q].task = req[r].task
           /\ {req[q].answer, req[r].answer} # {"created"}

-----------------------------------------------------------------------------
(* Liveness *)

(* Not every worker that crashes stays down for good.                         *)
SomeWorkerUp == \E w \in WorkerId : []<>~At(w, "down")

(* Every submitted task ends, though its enqueue may be lost with the API,   *)
(* its id with a worker or with a Redis that restarts empty, and its workers *)
(* may crash: reconcile finds it again, or gives it up when its attempts are *)
(* used up (docs/ARCHITECTURE.md section 2, item 8).                         *)
EveryTaskEnds == SomeWorkerUp => \A t \in TaskId : Exists(t) ~> Terminal(t)

(* An ended task gives its slot back and stays out of the queue, for good     *)
(* (docs/ARCHITECTURE.md:49: slots do not leak).                             *)
SlotsAreReturned ==
    SomeWorkerUp =>
        \A t \in TaskId : Terminal(t) ~> [](~Leased(t) /\ t \notin QueuedIds)

-----------------------------------------------------------------------------
(* What the documents say of the program and the program does not do *)

(* docs/ARCHITECTURE.md:92: gc at start removes no container of another task  *)
(* at work.                                                                  *)
GcSparesWorking ==
    lost = 0 => \A w \in WorkerId :
        At(w, "run") /\ RunsAttempt(Mine(w), job[w].attempt) => SandboxAlive(w)

(* docs/ARCHITECTURE.md:51: the containers a crash left are removed before   *)
(* the next attempt of the task runs.                                        *)
AloneInSandbox ==
    lost = 0 => \A w \in WorkerId, c \in containers :
        At(w, "run") /\ c[1] = Mine(w) => c[2] = job[w].attempt

(* docs/ARCHITECTURE.md:49: at the cap nobody claims, the leases are slots.  *)
CapKept == Cardinality(ActiveLeases) <= MaxConcurrency

(* docs/LIMITATIONS.md:27: what a worker still writes when its attempt has   *)
(* been taken over must fail, so that an ended task keeps its row and history.*)
ZombieWritesFail ==
    [][\A t \in TaskId : Terminal(t) =>
          tasks'[t] = tasks[t] /\ events'[t] = events[t]]_vars

(* docs/ARCHITECTURE.md:48: a repeated key is answered with the task it made. *)
ResubmissionAnswered == \A r \in RequestId : req[r].answer # "conflict"
=============================================================================

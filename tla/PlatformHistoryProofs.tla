----------------------- MODULE PlatformHistoryProofs -----------------------
(* Theorems of Platform about what is left behind: the containers an attempt *)
(* finds when it starts, and the history a subscriber reads.  Both rest on   *)
(* FenceInv: while no live worker lost its lease, the workers that believe   *)
(* to hold the lease of a task are one worker.                               *)
EXTENDS PlatformProofs

-----------------------------------------------------------------------------
(* The containers *)

AfterClear == {"announce", "start", "run"}

(* A worker comes to where it runs an attempt by way of remove_for_task.      *)
LEMMA HowCleared ==
    ASSUME TypeOK, InHand, [Next]_vars, NEW w \in WorkerId, pc'[w] \in AfterClear
    PROVE  /\ job'[w] = job[w]
           /\ pc[w] \in AfterClear \/ PriorCleared(w)
<1> USE LocationFacts DEF AfterClear
<1>0. pc \in [WorkerId -> Location]
    BY DEF TypeOK, WorkerTypeOK
<1>1. CASE UNCHANGED <<pc, job>>
    BY <1>1
<1>2. ASSUME NEW v \in WorkerId, WorkerStep(v) \/ WorkerFault(v), v # w
      PROVE  pc'[w] = pc[w] /\ job'[w] = job[w]
    <2> USE <1>0, AfterUnwindFacts DEF Step, At, GoTo, Restart, KeepLocals, locals, LeaveTry, TypeOK, WorkerTypeOK
    <2>1. CASE ReadActive(v) \/ ListOrphans(v) \/ RemoveFound(v) \/ Swept(v) \/ Reconcile(v)
        BY <1>2, <2>1 DEF ReadActive, ListOrphans, RemoveFound, Swept, Reconcile, ScanRunning,
           CheckLease, RowsDone, GiveBack, GiveUp, ReclaimLost, PushReclaimed, ListQueue,
           MatchQueued, Repush, Reconciled
    <2>2. CASE PollOnce(v)
        BY <1>2, <2>2 DEF PollOnce, GateOpen, GateShut, PopTask, PopNothing, TakeLease,
           LeaseTaken, ClaimTask, ClaimRefused, ListPrior, PriorCleared
    <2>3. CASE RunAttempt(v)
        BY <1>2, <2>3 DEF RunAttempt, Announce, StartSandbox, Emit, RunEnds, Unwind,
           ReadTotal, WriteTotal, FinishTask, FinishRefused, ReadLease, DropLease
    <2>4. CASE WorkerFault(v)
        BY <1>2, <2>4 DEF WorkerFault, Crash, Boot, Raise, StartFails, DockerFails,
           ContainerStays, OwnContainerStays
    <2> QED
        BY <1>2, <2>1, <2>2, <2>3, <2>4 DEF WorkerStep
<1>3. ASSUME WorkerStep(w) \/ WorkerFault(w)
      PROVE  job'[w] = job[w] /\ (pc[w] \in AfterClear \/ PriorCleared(w))
    <2> USE <1>0, AfterUnwindFacts DEF Step, At, GoTo, Restart, KeepLocals, locals, LeaveTry
    <2>1. CASE ReadActive(w) \/ ListOrphans(w) \/ RemoveFound(w) \/ Swept(w) \/ Reconcile(w)
        BY <2>1 DEF ReadActive, ListOrphans, RemoveFound, Swept, Reconcile, ScanRunning,
           CheckLease, RowsDone, GiveBack, GiveUp, ReclaimLost, PushReclaimed, ListQueue,
           MatchQueued, Repush, Reconciled
    <2>2. CASE PollOnce(w)
        BY <2>2 DEF PollOnce, GateOpen, GateShut, PopTask, PopNothing, TakeLease,
           LeaseTaken, ClaimTask, ClaimRefused, ListPrior, PriorCleared
    <2>3. CASE RunAttempt(w)
        BY <2>3 DEF RunAttempt, Announce, StartSandbox, Emit, RunEnds, Unwind, ReadTotal,
           WriteTotal, FinishTask, FinishRefused, ReadLease, DropLease
    <2>4. CASE WorkerFault(w)
        BY <2>4 DEF WorkerFault, Crash, Boot, Raise, StartFails, DockerFails, ContainerStays,
           OwnContainerStays
    <2> QED
        BY <1>3, <2>1, <2>2, <2>3, <2>4 DEF WorkerStep
<1>4. CASE ~\E v \in WorkerId : WorkerStep(v) \/ WorkerFault(v)
    BY <1>1, <1>4
       DEF Next, WorkerNext, LeaseExpires, LoseLease, RedisRestarts, Losing, workerVars, locals,
           vars
<1> QED
    BY <1>2, <1>3, <1>4

(* The only step that adds a container is that of a worker at provider.start. *)
LEMMA ContainersMove ==
    ASSUME [Next]_vars
    PROVE  \/ containers' \subseteq containers
           \/ \E v \in WorkerId :
                /\ pc[v] = "start"
                /\ containers' = containers \cup {<<Mine(v), job[v].attempt>>}
<1> USE DEF OnlyStore, OnlyBus, KeepShared, Remove, RemoveRefused
<1>1. ASSUME NEW v \in WorkerId, StartSandbox(v) \/ StartFails(v)
      PROVE  pc[v] = "start" /\ containers' = containers \cup {<<Mine(v), job[v].attempt>>}
    BY <1>1 DEF StartSandbox, StartFails, Step, At, Start
<1>2. ASSUME NEW v \in WorkerId, WorkerStep(v) \/ WorkerFault(v),
             ~StartSandbox(v), ~StartFails(v)
      PROVE  containers' \subseteq containers
    <2>1. CASE ReadActive(v) \/ ListOrphans(v) \/ RemoveFound(v) \/ Swept(v) \/ Reconcile(v)
        BY <2>1 DEF ReadActive, ListOrphans, RemoveFound, Swept, Reconcile, ScanRunning,
           CheckLease, RowsDone, GiveBack, GiveUp, ReclaimLost, PushReclaimed, ListQueue,
           MatchQueued, Repush, Reconciled
    <2>2. CASE PollOnce(v)
        BY <2>2 DEF PollOnce, GateOpen, GateShut, PopTask, PopNothing, TakeLease,
           LeaseTaken, ClaimTask, ClaimRefused, ListPrior, PriorCleared
    <2>3. CASE RunAttempt(v)
        BY <1>2, <2>3 DEF RunAttempt, Announce, Emit, RunEnds, Unwind, ReadTotal, WriteTotal,
           FinishTask, FinishRefused, ReadLease, DropLease
    <2>4. CASE WorkerFault(v)
        BY <1>2, <2>4 DEF WorkerFault, Crash, Boot, Raise, DockerFails, ContainerStays,
           OwnContainerStays
    <2> QED
        BY <1>2, <2>1, <2>2, <2>3, <2>4 DEF WorkerStep
<1>3. CASE ~\E v \in WorkerId : WorkerStep(v) \/ WorkerFault(v)
    BY <1>3 DEF Next, WorkerNext, LeaseExpires, LoseLease, RedisRestarts, vars, sandboxVars,
       ApiNext, PostTask, CancelTask, LoseRequest, LookUp, InsertTask, InsertRefused,
       EnqueueTask, GetForCancel, CancelInQueue, FlagRunning, KeepTables
<1> QED
    BY <1>1, <1>2, <1>3

(* While no live worker lost its lease, one worker at most is at a task.     *)
LEMMA OneHolder ==
    ASSUME LeaseHeld, lost = 0, NEW v \in WorkerId, NEW w \in WorkerId,
           pc[v] \in Holding, pc[w] \in Holding, Mine(v) = Mine(w)
    PROVE  v = w
BY DEF LeaseHeld

(* A refusal is forgotten only with the container it was about.              *)
LEMMA RefusedMoves ==
    ASSUME SandboxTypeOK, [Next]_vars, NEW c \in containers', c \in refused
    PROVE  c \in refused'
<1> USE DEF OnlyStore, OnlyBus, KeepShared
<1>1. ASSUME NEW v \in WorkerId, WorkerStep(v) \/ WorkerFault(v)
      PROVE  c \in refused'
    <2>1. CASE ReadActive(v) \/ ListOrphans(v) \/ RemoveFound(v) \/ Swept(v) \/ Reconcile(v)
        BY <2>1 DEF ReadActive, ListOrphans, RemoveFound, Remove, Swept, Reconcile,
           ScanRunning, CheckLease, RowsDone, GiveBack, GiveUp, ReclaimLost, PushReclaimed,
           ListQueue, MatchQueued, Repush, Reconciled
    <2>2. CASE PollOnce(v)
        BY <2>2 DEF PollOnce, GateOpen, GateShut, PopTask, PopNothing, TakeLease,
           LeaseTaken, ClaimTask, ClaimRefused, ListPrior, PriorCleared
    <2>3. CASE RunAttempt(v)
        BY <2>3 DEF RunAttempt, Announce, StartSandbox, Start, Emit, RunEnds, Unwind, Remove,
           ReadTotal, WriteTotal, FinishTask, FinishRefused, ReadLease, DropLease
    <2>4. CASE WorkerFault(v)
        BY <2>4 DEF WorkerFault, Crash, Boot, Raise, StartFails, Start, DockerFails,
           ContainerStays, OwnContainerStays, RemoveRefused
    <2> QED
        BY <1>1, <2>1, <2>2, <2>3, <2>4 DEF WorkerStep
<1>2. CASE ~\E v \in WorkerId : WorkerStep(v) \/ WorkerFault(v)
    BY <1>2 DEF Next, WorkerNext, LeaseExpires, LoseLease, RedisRestarts, vars, sandboxVars,
       ApiNext, PostTask, CancelTask, LoseRequest, LookUp, InsertTask, InsertRefused,
       EnqueueTask, GetForCancel, CancelInQueue, FlagRunning, KeepTables
<1> QED
    BY <1>1, <1>2

(* remove_for_task passes over nothing it has listed: a container is gone    *)
(* when it is crossed off, or the daemon has refused to remove it.           *)
LEMMA HowListed ==
    ASSUME TypeOK, InHand, [Next]_vars, NEW w \in WorkerId, pc'[w] = "prior"
    PROVE  \/ ListPrior(w)
           \/ /\ pc[w] = "prior" /\ job'[w] = job[w]
              /\ \A c \in found[w] : c \in found'[w] \/ c \notin containers' \/ c \in refused'
<1> USE LocationFacts
<1>0. pc \in [WorkerId -> Location] /\ found \in [WorkerId -> SUBSET Label]
    BY DEF TypeOK, WorkerTypeOK
<1>1. CASE UNCHANGED <<pc, job, found>>
    BY <1>1
<1>2. ASSUME NEW v \in WorkerId, WorkerStep(v) \/ WorkerFault(v), v # w
      PROVE  pc'[w] = pc[w] /\ job'[w] = job[w] /\ found'[w] = found[w]
    <2> USE <1>0, AfterUnwindFacts
        DEF Step, At, GoTo, Restart, KeepLocals, locals, LeaveTry, TypeOK, WorkerTypeOK
    <2>1. CASE ReadActive(v) \/ ListOrphans(v) \/ RemoveFound(v) \/ Swept(v) \/ Reconcile(v)
        BY <1>2, <2>1 DEF ReadActive, ListOrphans, RemoveFound, Swept, Reconcile, ScanRunning,
           CheckLease, RowsDone, GiveBack, GiveUp, ReclaimLost, PushReclaimed, ListQueue,
           MatchQueued, Repush, Reconciled
    <2>2. CASE PollOnce(v)
        BY <1>2, <2>2 DEF PollOnce, GateOpen, GateShut, PopTask, PopNothing, TakeLease,
           LeaseTaken, ClaimTask, ClaimRefused, ListPrior, PriorCleared
    <2>3. CASE RunAttempt(v)
        BY <1>2, <2>3 DEF RunAttempt, Announce, StartSandbox, Emit, RunEnds, Unwind,
           ReadTotal, WriteTotal, FinishTask, FinishRefused, ReadLease, DropLease
    <2>4. CASE WorkerFault(v)
        BY <1>2, <2>4 DEF WorkerFault, Crash, Boot, Raise, StartFails, DockerFails,
           ContainerStays, OwnContainerStays
    <2> QED
        BY <1>2, <2>1, <2>2, <2>3, <2>4 DEF WorkerStep
<1>3. ASSUME WorkerStep(w) \/ WorkerFault(w)
      PROVE  \/ ListPrior(w)
             \/ (RemoveFound(w) \/ ContainerStays(w)) /\ pc[w] = "prior" /\ job'[w] = job[w]
    <2> USE <1>0, AfterUnwindFacts DEF Step, At, GoTo, Restart, KeepLocals, locals, LeaveTry
    <2>1. CASE ReadActive(w) \/ ListOrphans(w) \/ RemoveFound(w) \/ Swept(w) \/ Reconcile(w)
        BY <2>1 DEF ReadActive, ListOrphans, RemoveFound, Swept, Reconcile, ScanRunning,
           CheckLease, RowsDone, GiveBack, GiveUp, ReclaimLost, PushReclaimed, ListQueue,
           MatchQueued, Repush, Reconciled
    <2>2. CASE PollOnce(w)
        BY <2>2 DEF PollOnce, GateOpen, GateShut, PopTask, PopNothing, TakeLease,
           LeaseTaken, ClaimTask, ClaimRefused, ListPrior, PriorCleared
    <2>3. CASE RunAttempt(w)
        BY <2>3 DEF RunAttempt, Announce, StartSandbox, Emit, RunEnds, Unwind, ReadTotal,
           WriteTotal, FinishTask, FinishRefused, ReadLease, DropLease
    <2>4. CASE WorkerFault(w)
        BY <2>4 DEF WorkerFault, Crash, Boot, Raise, StartFails, DockerFails, ContainerStays,
           OwnContainerStays
    <2> QED
        BY <1>3, <2>1, <2>2, <2>3, <2>4 DEF WorkerStep
<1>4. ASSUME RemoveFound(w) \/ ContainerStays(w), NEW c \in found[w]
      PROVE  c \in found'[w] \/ c \notin containers' \/ c \in refused'
    <2>1. PICK d \in found[w] : /\ Remove(d) \/ RemoveRefused(d)
                                /\ found' = [found EXCEPT ![w] = found[w] \ {d}]
        BY <1>4 DEF RemoveFound, ContainerStays
    <2>2. found'[w] = found[w] \ {d}
        BY <1>0, <2>1
    <2>3. d \notin containers' \/ d \in refused'
        BY <2>1 DEF Remove, RemoveRefused
    <2> QED
        BY <2>2, <2>3
<1>5. CASE ~\E v \in WorkerId : WorkerStep(v) \/ WorkerFault(v)
    BY <1>1, <1>5 DEF Next, WorkerNext, LeaseExpires, LoseLease, RedisRestarts, Losing,
                      workerVars, locals, vars
<1> QED
    BY <1>2, <1>3, <1>4, <1>5

(* Between the listing and the end of remove_for_task, every container of    *)
(* the task is either still to remove or one the daemon has refused.         *)
PriorListed ==
    lost = 0 => \A w \in WorkerId, c \in containers :
        pc[w] = "prior" /\ c[1] = Mine(w) => c \in found[w] \/ c \in refused

SandboxInv == PriorSandboxCleared /\ PriorListed

(* While a worker holds the lease of its task, a new container of that task  *)
(* is its own, started at provider.start.                                    *)
LEMMA OwnContainers ==
    ASSUME FenceInv, [Next]_vars, lost = 0, NEW w \in WorkerId, pc[w] \in Holding,
           NEW c \in containers', c \notin containers, c[1] = Mine(w)
    PROVE  pc[w] = "start" /\ c[2] = job[w].attempt
<1>1. PICK v \in WorkerId : pc[v] = "start" /\ c = <<Mine(v), job[v].attempt>>
    BY ContainersMove
<1>2. v = w
    BY <1>1, OneHolder, LocationFacts DEF FenceInv
<1> QED
    BY <1>1, <1>2

LEMMA SandboxStep ==
    ASSUME FenceInv, SandboxInv, [Next]_vars
    PROVE  SandboxInv'
<1> USE DEF FenceInv, RunnerInv, SandboxInv
<1>0. SandboxTypeOK
    BY DEF TypeOK
<1>1. ASSUME lost' = 0, NEW w \in WorkerId, NEW c \in containers',
             pc'[w] = "prior", c[1] = job'[w].task
      PROVE  c \in found'[w] \/ c \in refused'
    <2>1. lost = 0
        BY <1>1, LostGrows
    <2>2. CASE ListPrior(w)
        BY <1>1, <2>2 DEF ListPrior, Labelled, KeepShared, Mine, TypeOK, WorkerTypeOK
    <2>3. CASE ~ListPrior(w)
        <3>1. /\ pc[w] = "prior" /\ job'[w] = job[w]
              /\ \A d \in found[w] :
                    d \in found'[w] \/ d \notin containers' \/ d \in refused'
            BY <1>1, <2>3, HowListed
        <3>2. c \in containers
            BY <1>1, <2>1, <3>1, OwnContainers, LocationFacts DEF Mine
        <3> QED
            BY <1>0, <1>1, <2>1, <3>1, <3>2, RefusedMoves DEF PriorListed, Mine
    <2> QED
        BY <2>2, <2>3
<1>2. ASSUME lost' = 0, NEW w \in WorkerId, NEW c \in containers',
             pc'[w] \in AfterClear, c[1] = job'[w].task
      PROVE  c[2] = job'[w].attempt \/ c \in refused'
    <2>1. lost = 0
        BY <1>2, LostGrows
    <2>2. job'[w] = job[w] /\ (pc[w] \in AfterClear \/ PriorCleared(w))
        BY <1>2, HowCleared
    <2>3. CASE PriorCleared(w)
        BY <1>2, <2>1, <2>2, <2>3
           DEF PriorCleared, Step, At, KeepShared, PriorListed, Mine
    <2>4. CASE pc[w] \in AfterClear
        <3>1. CASE c \in containers
            BY <1>0, <1>2, <2>1, <2>2, <2>4, <3>1, RefusedMoves
               DEF PriorSandboxCleared, AfterClear, Mine
        <3>2. CASE c \notin containers
            BY <1>2, <2>1, <2>2, <2>4, <3>2, OwnContainers, LocationFacts
               DEF AfterClear, Mine
        <3> QED
            BY <3>1, <3>2
    <2> QED
        BY <2>2, <2>3, <2>4
<1> QED
    BY <1>1, <1>2 DEF PriorSandboxCleared, PriorListed, AfterClear, Mine

(* However a worker died and whatever its container went on doing, the next  *)
(* attempt of the task finds no container but its own and those the Docker   *)
(* daemon has refused to remove: remove_for_task comes after the claim, and  *)
(* until the attempt ends nobody else starts one.                            *)
THEOREM SandboxIsCleared == Spec => []PriorSandboxCleared
<1>1. Init => SandboxInv
    BY DEF Init, SandboxInit, SandboxInv, PriorSandboxCleared, PriorListed
<1>2. FenceInv /\ SandboxInv /\ [Next]_vars => SandboxInv'
    BY SandboxStep
<1>3. SandboxInv => PriorSandboxCleared
    BY DEF SandboxInv
<1> QED
    BY <1>1, <1>2, <1>3, FenceInvariant, PTL DEF Spec

-----------------------------------------------------------------------------
(* The history of a task *)

(* What a step may add to a history: a row of the loop of a worker that is   *)
(* at work, or the terminal row of the transaction that ends the task.       *)
Told(t, e) ==
    /\ e.type \in ProgressType /\ UNCHANGED tasks
    /\ \E w \in WorkerId :
        pc[w] \in {"announce", "run"} /\ Mine(w) = t /\ e.attempt = job[w].attempt
Closed(t, e) ==
    /\ e.type \in TerminalType
    /\ tasks[t].status \notin TERMINAL
    /\ tasks'[t].attempt = tasks[t].attempt
    /\ e.attempt = tasks[t].attempt \/ e.attempt = 0
Grew(t) ==
    \E e \in Event : events'[t] = Append(events[t], e) /\ (Told(t, e) \/ Closed(t, e))

LEMMA SettleCloses ==
    ASSUME StoreTypeOK, NEW u \in TaskId, NEW a \in 0 .. MaxAttempts,
           NEW status \in TERMINAL,
           NEW reason \in FailReason \cup {R_RETRIES, R_CANCELLED, NoReason},
           tasks[u].status \notin TERMINAL, a = tasks[u].attempt \/ a = 0,
           Settle(u, a, status, reason), NEW t \in TaskId
    PROVE  events'[t] = events[t] \/ Grew(t)
<1>1. PICK e \in Event :
            /\ e.type \in TerminalType /\ e.attempt = a
            /\ events'[u] = Append(events[u], e)
            /\ \A v \in TaskId \ {u} : events'[v] = events[v]
            /\ tasks'[u].attempt = tasks[u].attempt
    BY SettleAppends
<1> QED
    BY <1>1 DEF Grew, Closed

LEMMA EventsMove ==
    ASSUME TypeOK, InHand, [Next]_vars, NEW t \in TaskId
    PROVE  events'[t] = events[t] \/ Grew(t)
<1> USE DEF TypeOK
<1>1. CASE UNCHANGED events
    BY <1>1
<1>2. ASSUME NEW w \in WorkerId, Announce(w) \/ Emit(w)
      PROVE  events'[t] = events[t] \/ Grew(t)
    <2>1. /\ pc[w] \in {"announce", "run"}
          /\ Mine(w) \in TaskId /\ job[w].attempt \in 0 .. MaxAttempts
        BY <1>2, LocationFacts, MaxAttemptsAssumption
           DEF Announce, Emit, Step, At, InHand, LocalsOK, Attempt
    <2>2. PICK type \in ProgressType : AppendProgress(Mine(w), job[w].attempt, type)
        BY <1>2 DEF Announce, Emit, ProgressType
    <2> DEFINE e == [attempt |-> job[w].attempt, type |-> type,
                     status |-> "none", reason |-> NoReason]
    <2>3. e \in Event /\ e.type \in ProgressType /\ e.attempt = job[w].attempt
        BY <2>1 DEF Event
    <2>4. events' = [events EXCEPT ![Mine(w)] = Append(events[Mine(w)], e)] /\ UNCHANGED tasks
        BY <2>2 DEF AppendProgress, AppendEvent
    <2> HIDE DEF e
    <2>5. CASE Mine(w) = t
        BY <2>1, <2>3, <2>4, <2>5 DEF Grew, Told, StoreTypeOK
    <2>6. CASE Mine(w) # t
        BY <2>1, <2>4, <2>6 DEF StoreTypeOK
    <2> QED
        BY <2>5, <2>6
<1>3. ASSUME NEW w \in WorkerId, FinishTask(w) PROVE events'[t] = events[t] \/ Grew(t)
    <2>1. /\ Mine(w) \in TaskId /\ job[w].attempt \in 0 .. MaxAttempts
          /\ outcome[w] \in Outcome
        BY <1>3, LocationFacts, MaxAttemptsAssumption
           DEF FinishTask, Step, At, InHand, LocalsOK, Attempt
    <2>2. RunsAttempt(Mine(w), job[w].attempt)
          /\ Settle(Mine(w), job[w].attempt, outcome[w].status, outcome[w].reason)
        BY <1>3 DEF FinishTask, Finish
    <2>3. /\ tasks[Mine(w)].status \notin TERMINAL
          /\ job[w].attempt = tasks[Mine(w)].attempt
        BY <2>2 DEF RunsAttempt, RUNNING, TERMINAL, SUCCEEDED, FAILED, CANCELLED
    <2> QED
        BY <2>1, <2>2, <2>3, OutcomeType, SettleCloses
<1>4. ASSUME NEW w \in WorkerId, GiveUp(w) PROVE events'[t] = events[t] \/ Grew(t)
    <2>1. Mine(w) \in TaskId /\ job[w].attempt \in 0 .. MaxAttempts
        BY <1>4, LocationFacts, MaxAttemptsAssumption
           DEF GiveUp, Step, At, InHand, LocalsOK, Attempt
    <2>2. RunsAttempt(Mine(w), job[w].attempt)
          /\ Settle(Mine(w), job[w].attempt, FAILED, R_RETRIES)
        BY <1>4 DEF GiveUp, FailExhausted
    <2>3. /\ tasks[Mine(w)].status \notin TERMINAL
          /\ job[w].attempt = tasks[Mine(w)].attempt /\ FAILED \in TERMINAL
        BY <2>2 DEF RunsAttempt, RUNNING, TERMINAL, SUCCEEDED, FAILED, CANCELLED
    <2> QED
        BY <2>1, <2>2, <2>3, SettleCloses
<1>5. ASSUME NEW r \in RequestId, CancelInQueue(r) PROVE events'[t] = events[t] \/ Grew(t)
    <2>1. CASE tasks[req[r].task].status # QUEUED
        BY <1>5, <2>1 DEF CancelInQueue, storeVars
    <2>2. CASE tasks[req[r].task].status = QUEUED
        <3>1. req[r].task \in TaskId /\ 0 \in 0 .. MaxAttempts
            BY <1>5, MaxAttemptsAssumption DEF CancelInQueue, InHand, RequestOK
        <3>2. Settle(req[r].task, 0, CANCELLED, R_CANCELLED)
            BY <1>5, <2>2 DEF CancelInQueue, CancelQueued
        <3>3. tasks[req[r].task].status \notin TERMINAL /\ CANCELLED \in TERMINAL
            BY <2>2 DEF QUEUED, TERMINAL, SUCCEEDED, FAILED, CANCELLED
        <3> QED
            BY <3>1, <3>2, <3>3, SettleCloses
    <2> QED
        BY <2>1, <2>2
<1>6. ASSUME NEW w \in WorkerId, WorkerStep(w) \/ WorkerFault(w),
             ~Announce(w), ~Emit(w), ~FinishTask(w), ~GiveUp(w)
      PROVE  UNCHANGED events
    <2> USE DEF KeepShared, OnlyBus, OnlySandbox
    <2>1. CASE ReadActive(w) \/ ListOrphans(w) \/ RemoveFound(w) \/ Swept(w) \/ Reconcile(w)
        BY <1>6, <2>1 DEF ReadActive, ListOrphans, RemoveFound, Swept, Reconcile, ScanRunning,
           CheckLease, RowsDone, GiveBack, Requeue, ReclaimLost, PushReclaimed, ListQueue,
           MatchQueued, Repush, Reconciled
    <2>2. CASE PollOnce(w)
        BY <2>2 DEF PollOnce, GateOpen, GateShut, PopTask, PopNothing, TakeLease,
           LeaseTaken, ClaimTask, Claim, ClaimRefused, ListPrior, PriorCleared
    <2>3. CASE RunAttempt(w)
        BY <1>6, <2>3 DEF RunAttempt, StartSandbox, RunEnds, Unwind, ReadTotal, WriteTotal,
           AddUsage, FinishRefused, ReadLease, DropLease
    <2>4. CASE WorkerFault(w)
        BY <2>4 DEF WorkerFault, Crash, Boot, Raise, StartFails, DockerFails, ContainerStays,
           OwnContainerStays
    <2> QED
        BY <1>6, <2>1, <2>2, <2>3, <2>4 DEF WorkerStep
<1>7. ASSUME NEW r \in RequestId, PostTask(r) \/ CancelTask(r) \/ LoseRequest(r),
             ~CancelInQueue(r)
      PROVE  UNCHANGED events
    BY <1>7 DEF PostTask, CancelTask, LoseRequest, LookUp, InsertTask, Insert, InsertRefused,
       EnqueueTask, GetForCancel, FlagRunning, RequestCancel, KeepTables, storeVars
<1> QED
    BY <1>1, <1>2, <1>3, <1>4, <1>5, <1>6, <1>7
       DEF Next, WorkerNext, ApiNext, LeaseExpires, LoseLease, RedisRestarts, OnlyBus,
           vars, storeVars

(* No row of a history carries an attempt its task has not reached.          *)
EventsSeen ==
    \A t \in TaskId : \A i \in DOMAIN events[t] : events[t][i].attempt <= tasks[t].attempt

LEMMA EventsSeenStep ==
    ASSUME TypeOK, InHand, AbsentIsBlank, AttemptsSeen, EventsSeen, [Next]_vars
    PROVE  EventsSeen'
<1> SUFFICES ASSUME NEW t \in TaskId, NEW i \in DOMAIN events'[t]
             PROVE  events'[t][i].attempt <= tasks'[t].attempt
    BY DEF EventsSeen
<1>1. /\ tasks[t].attempt \in Nat /\ tasks'[t].attempt \in Nat
      /\ tasks[t].attempt <= tasks'[t].attempt
    BY StepUsesStore, StoreTypeStep, AttemptGrows, MaxAttemptsAssumption
       DEF TypeOK, StoreTypeOK, Row
<1>2. \A j \in DOMAIN events[t] : events[t][j].attempt \in Nat
    <2>1. events[t] \in Seq(Event)
        BY DEF TypeOK, StoreTypeOK
    <2>2. \A j \in DOMAIN events[t] : events[t][j] \in Event
        BY <2>1
    <2> QED
        BY <2>2, MaxAttemptsAssumption DEF Event
<1>3. CASE events'[t] = events[t]
    BY <1>1, <1>2, <1>3 DEF EventsSeen
<1>4. CASE Grew(t)
    <2>1. PICK e \in Event : events'[t] = Append(events[t], e) /\ (Told(t, e) \/ Closed(t, e))
        BY <1>4 DEF Grew
    <2>2. CASE i \in 1 .. Len(events[t])
        BY <1>1, <1>2, <2>1, <2>2, AppendTerminalEvents DEF TypeOK, EventsSeen
    <2>3. CASE i = Len(events[t]) + 1
        <3>1. events'[t][i] = e /\ e.attempt \in Nat
            BY <2>1, <2>3, AppendTerminalEvents, MaxAttemptsAssumption DEF TypeOK, Event
        <3>2. e.attempt <= tasks[t].attempt
            BY <1>1, <2>1, LocationFacts DEF Told, Closed, AttemptsSeen
        <3> QED
            BY <1>1, <3>1, <3>2
    <2> QED
        BY <2>1, <2>2, <2>3, AppendTerminalEvents DEF TypeOK
<1> QED
    BY <1>3, <1>4, EventsMove

LEMMA OrderStep ==
    ASSUME FenceInv, LedgerBalanced, EventsSeen, OrderlyHistory, [Next]_vars
    PROVE  OrderlyHistory'
<1> USE DEF FenceInv, RunnerInv
<1> SUFFICES ASSUME lost' = 0, NEW t \in TaskId
             PROVE  /\ \A i, j \in DOMAIN events'[t] :
                            i < j /\ events'[t][j].attempt # 0
                                => events'[t][i].attempt <= events'[t][j].attempt
                    /\ \A i \in TerminalEvents(t)' : i = Len(events'[t])
    BY DEF OrderlyHistory, AttemptsInTurn, NothingAfterTheEnd
<1>1. lost = 0
    BY LostGrows
<1>2. CASE events'[t] = events[t]
    BY <1>1, <1>2
       DEF OrderlyHistory, AttemptsInTurn, NothingAfterTheEnd, TerminalEvents, TerminalType
<1>3. CASE Grew(t)
    <2>1. PICK e \in Event : events'[t] = Append(events[t], e) /\ (Told(t, e) \/ Closed(t, e))
        BY <1>3 DEF Grew
    <2> DEFINE n == Len(events[t])
    <2>2. /\ n \in Nat /\ DOMAIN events[t] = 1 .. n /\ DOMAIN events'[t] = 1 .. n + 1
          /\ \A i \in 1 .. n : events'[t][i] = events[t][i]
          /\ events'[t][n + 1] = e
          /\ TerminalEvents(t)' \subseteq TerminalEvents(t) \cup {n + 1}
        BY <2>1, AppendTerminalEvents DEF TypeOK
    <2>3. Len(events'[t]) = n + 1
        <3>1. events[t] \in Seq(Event)
            BY DEF TypeOK, StoreTypeOK
        <3> QED
            BY <2>1, <3>1
    <2>4. /\ tasks[t].status \notin TERMINAL
          /\ e.attempt = tasks[t].attempt \/ e.attempt = 0
        <3>1. CASE Closed(t, e)
            BY <3>1 DEF Closed
        <3>2. CASE Told(t, e)
            <4>1. PICK w \in WorkerId : /\ pc[w] \in {"announce", "run"}
                                        /\ Mine(w) = t /\ e.attempt = job[w].attempt
                BY <3>2 DEF Told
            <4>2. RunsAttempt(t, e.attempt)
                BY <1>1, <4>1, LocationFacts DEF FencedOnlyAfterLeaseLoss
            <4> QED
                BY <4>2 DEF RunsAttempt, RUNNING, TERMINAL, SUCCEEDED, FAILED, CANCELLED
        <3> QED
            BY <2>1, <3>1, <3>2
    <2>5. TerminalEvents(t) = {}
        BY <2>4 DEF LedgerBalanced, Balanced
    <2>6. ASSUME NEW i \in DOMAIN events'[t], NEW j \in DOMAIN events'[t],
                 i < j, events'[t][j].attempt # 0
          PROVE  events'[t][i].attempt <= events'[t][j].attempt
        <3>1. i \in 1 .. n
            BY <2>2, <2>6
        <3>2. CASE j \in 1 .. n
            BY <1>1, <2>2, <2>6, <3>1, <3>2 DEF OrderlyHistory, AttemptsInTurn
        <3>3. CASE j = n + 1
            BY <2>2, <2>4, <2>6, <3>1, <3>3 DEF EventsSeen
        <3> QED
            BY <2>2, <3>2, <3>3
    <2> QED
        BY <2>2, <2>3, <2>5, <2>6
<1> QED
    BY <1>2, <1>3, EventsMove

(* While no live worker loses its lease, a subscriber reads the attempts of  *)
(* a task in turn, and the terminal event last: a stream closed on it has    *)
(* missed nothing.                                                           *)
THEOREM HistoryIsOrderly == Spec => []OrderlyHistory
<1> DEFINE Inv == EventsSeen /\ OrderlyHistory
<1>1. Init => Inv
    BY DEF Init, StoreInit, EventsSeen, OrderlyHistory, AttemptsInTurn, NothingAfterTheEnd,
       TerminalEvents
<1>2. FenceInv /\ LedgerBalanced /\ Inv /\ [Next]_vars => Inv'
    BY EventsSeenStep, OrderStep DEF FenceInv, RunnerInv
<1> QED
    BY <1>1, <1>2, FenceInvariant, PlatformLedger, PTL DEF Spec
=============================================================================

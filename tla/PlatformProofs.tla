--------------------------- MODULE PlatformProofs ---------------------------
(* Theorems of Platform, for every number of workers, tasks, requests,       *)
(* attempts and faults: its types, that it keeps to the contract of the      *)
(* store, and who may run an attempt.                                        *)
EXTENDS Platform, TaskStoreProofs

-----------------------------------------------------------------------------
(* The inductive invariant behind the types *)

(* What a worker has in hand, by where it stands.                            *)
LocalsOK(w) ==
    /\ pc[w] \in {"reclaim", "push", "acquire"} \cup Holding => Mine(w) \in TaskId
    /\ pc[w] \in {"reclaim"} \cup Running => job[w].attempt \in Attempt
    /\ \A r \in rows[w] : r.attempt \in Attempt
    /\ pc[w] = "unwind" => outcome[w] \in Outcome \cup {Raised}
    /\ pc[w] \in {"bank", "add", "finish"} => outcome[w] \in Outcome

RequestOK(r) == req[r].at \in {"enqueue", "cancel", "flag"} => req[r].task \in TaskId

(* A running task has been claimed at least once.                            *)
RunningHasAttempt == \A t \in TaskId : tasks[t].status = RUNNING => tasks[t].attempt \in Attempt

InHand ==
    /\ \A w \in WorkerId : LocalsOK(w)
    /\ \A r \in RequestId : RequestOK(r)
    /\ RunningHasAttempt

-----------------------------------------------------------------------------
(* Every step is a step of the store *)

LEMMA ApiUsesStore ==
    ASSUME TypeOK, InHand, ApiNext
    PROVE  [StoreNext]_storeVars
<1> USE DEF KeepTables, storeVars
<1>1. ASSUME NEW r \in RequestId, InsertTask(r)
      PROVE  StoreNext
    <2>1. req[r].key \in Key \cup {NoKey}
        BY DEF TypeOK, ApiTypeOK, Request
    <2> QED
        BY <1>1, <2>1 DEF InsertTask, StoreNext
<1>2. ASSUME NEW r \in RequestId, CancelInQueue(r)
      PROVE  [StoreNext]_storeVars
    <2>1. req[r].task \in TaskId
        BY <1>2 DEF CancelInQueue, InHand, RequestOK
    <2> QED
        BY <1>2, <2>1 DEF CancelInQueue, StoreNext
<1>3. ASSUME NEW r \in RequestId, FlagRunning(r)
      PROVE  [StoreNext]_storeVars
    <2>1. req[r].task \in TaskId
        BY <1>3 DEF FlagRunning, InHand, RequestOK
    <2> QED
        BY <1>3, <2>1 DEF FlagRunning, StoreNext
<1>4. ASSUME NEW r \in RequestId,
             \/ \E k \in Key \cup {NoKey} : LookUp(r, k)
             \/ InsertRefused(r) \/ EnqueueTask(r)
             \/ \E t \in TaskId : GetForCancel(r, t)
             \/ LoseRequest(r)
      PROVE  UNCHANGED storeVars
    BY <1>4 DEF LookUp, InsertRefused, EnqueueTask, GetForCancel, LoseRequest
<1> QED
    BY <1>1, <1>2, <1>3, <1>4 DEF ApiNext, PostTask, CancelTask

LEMMA WorkerUsesStore ==
    ASSUME TypeOK, InHand, NEW w \in WorkerId, WorkerStep(w) \/ WorkerFault(w)
    PROVE  [StoreNext]_storeVars
<1> USE DEF storeVars, KeepShared, OnlyBus, OnlySandbox
<1>1. CASE GiveBack(w)
    <2>1. Mine(w) \in TaskId /\ job[w].attempt \in Attempt /\ job[w].attempt < MaxAttempts
        BY <1>1 DEF GiveBack, Step, At, InHand, LocalsOK, HasAttemptLeft
    <2> QED
        BY <1>1, <2>1 DEF GiveBack, StoreNext, Attempt
<1>2. CASE GiveUp(w)
    <2>1. Mine(w) \in TaskId /\ job[w].attempt \in Attempt
        BY <1>2 DEF GiveUp, Step, At, InHand, LocalsOK
    <2> QED
        BY <1>2, <2>1 DEF GiveUp, StoreNext, Attempt
<1>3. CASE ClaimTask(w)
    <2>1. Mine(w) \in TaskId
        BY <1>3 DEF ClaimTask, Step, At, InHand, LocalsOK, Holding
    <2> QED
        BY <1>3, <2>1 DEF ClaimTask, StoreNext
<1>4. CASE Announce(w) \/ Emit(w)
    <2>1. Mine(w) \in TaskId /\ job[w].attempt \in Attempt
        BY <1>4 DEF Announce, Emit, Step, At, InHand, LocalsOK, Holding, Running
    <2>2. EV_STARTED \in ProgressType /\ EV_MESSAGE \in ProgressType
        BY DEF ProgressType
    <2> QED
        BY <1>4, <2>1, <2>2 DEF Announce, Emit, StoreNext, Attempt
<1>5. CASE FinishTask(w)
    <2>1. Mine(w) \in TaskId /\ job[w].attempt \in Attempt /\ outcome[w] \in Outcome
        BY <1>5 DEF FinishTask, Step, At, InHand, LocalsOK, Holding, Running
    <2> QED
        BY <1>5, <2>1 DEF FinishTask, StoreNext, Attempt
<1>6. CASE ReadActive(w) \/ ListOrphans(w) \/ RemoveFound(w) \/ Swept(w)
            \/ ScanRunning(w) \/ CheckLease(w) \/ RowsDone(w) \/ ReclaimLost(w)
            \/ PushReclaimed(w) \/ ListQueue(w) \/ MatchQueued(w) \/ Repush(w)
            \/ Reconciled(w)
    BY <1>6 DEF ReadActive, ListOrphans, RemoveFound, Swept, ScanRunning, CheckLease,
                RowsDone, ReclaimLost, PushReclaimed, ListQueue, MatchQueued, Repush,
                Reconciled
<1>7. CASE GateOpen(w) \/ GateShut(w) \/ PopTask(w) \/ PopNothing(w) \/ TakeLease(w)
            \/ LeaseTaken(w) \/ ClaimRefused(w) \/ ListPrior(w) \/ PriorCleared(w)
    BY <1>7 DEF GateOpen, GateShut, PopTask, PopNothing, TakeLease, LeaseTaken,
                ClaimRefused, ListPrior, PriorCleared
<1>8. CASE StartSandbox(w) \/ RunEnds(w) \/ Unwind(w) \/ ReadTotal(w) \/ FinishRefused(w)
            \/ ReadLease(w) \/ DropLease(w) \/ WorkerFault(w)
    BY <1>8 DEF StartSandbox, RunEnds, Unwind, ReadTotal, FinishRefused, ReadLease, DropLease,
                WorkerFault, Crash, Boot, Raise, StartFails, DockerFails, ContainerStays,
                OwnContainerStays
<1>9. CASE WriteTotal(w)
    <2>1. Mine(w) \in TaskId /\ job[w].attempt \in Attempt /\ total[w] \in Usage
        BY <1>9 DEF WriteTotal, Step, At, InHand, LocalsOK, Holding, Running, TypeOK,
                    WorkerTypeOK
    <2> QED
        BY <1>9, <2>1 DEF WriteTotal, StoreNext, Attempt
<1> QED
    BY <1>1, <1>2, <1>3, <1>4, <1>5, <1>6, <1>7, <1>8, <1>9
       DEF WorkerStep, Reconcile, PollOnce, RunAttempt

LEMMA StepUsesStore ==
    ASSUME TypeOK, InHand, [Next]_vars
    PROVE  [StoreNext]_storeVars
<1>1. CASE \E t \in TaskId : LeaseExpires(t) \/ LoseLease(t)
    BY <1>1 DEF LeaseExpires, LoseLease, OnlyBus, storeVars
<1>2. CASE RedisRestarts
    BY <1>2 DEF RedisRestarts, OnlyBus, storeVars
<1>3. CASE UNCHANGED vars
    BY <1>3 DEF vars
<1> QED
    BY <1>1, <1>2, <1>3, ApiUsesStore, WorkerUsesStore DEF Next, WorkerNext

-----------------------------------------------------------------------------
(* Types of the workers *)

LocalsTyped == WorkerTypeOK /\ \A w \in WorkerId : LocalsOK(w)

LEMMA LocationFacts ==
    /\ Location = {"down", "boot", "gc", "sweep", "scan", "check", "reclaim", "push", "list",
                   "match", "repush", "gate", "pop", "acquire", "claim", "clear",
                   "prior", "announce", "start", "run", "unwind", "bank", "add", "finish",
                   "readlease", "dellease"}
    /\ Running = {"clear", "prior", "announce", "start", "run", "unwind", "bank", "add",
                  "finish"}
    /\ Holding = {"claim", "clear", "prior", "announce", "start", "run", "unwind", "bank",
                  "add", "finish", "readlease", "dellease"}
BY DEF Location, Startup, Reconciling, Taking, Running, Releasing, Holding

LEMMA RestartTyped ==
    ASSUME LocalsTyped, NEW w \in WorkerId, NEW l \in {"down", "scan"}, Restart(w, l),
           faults' \in 0 .. MaxFaults, lost' \in 0 .. MaxLostLeases
    PROVE  LocalsTyped'
<1> USE LocationFacts DEF Restart, GoTo, LocalsTyped, WorkerTypeOK, Usage
<1>1. WorkerTypeOK'
    OBVIOUS
<1>2. ASSUME NEW v \in WorkerId PROVE LocalsOK(v)'
    BY <1>2 DEF LocalsOK, Mine
<1> QED
    BY <1>1, <1>2

LEMMA MainTyped ==
    ASSUME LocalsTyped, SandboxTypeOK, NEW w \in WorkerId,
           ReadActive(w) \/ ListOrphans(w) \/ RemoveFound(w) \/ Swept(w)
    PROVE  LocalsTyped'
<1> USE LocationFacts DEF Step, At, GoTo, LocalsTyped, WorkerTypeOK, KeepBounds
<1>1. CASE ReadActive(w)
    BY <1>1 DEF ReadActive, LocalsOK, Mine, WithStatus
<1>2. CASE ListOrphans(w)
    <2>1. Orphans(ids[w]) \subseteq Label
        BY DEF Orphans, SandboxTypeOK
    <2>2. WorkerTypeOK'
        BY <1>2, <2>1 DEF ListOrphans
    <2>3. ASSUME NEW v \in WorkerId PROVE LocalsOK(v)'
        BY <1>2 DEF ListOrphans, LocalsOK, Mine
    <2> QED
        BY <2>2, <2>3
<1>3. CASE RemoveFound(w)
    <2>1. WorkerTypeOK'
        BY <1>3 DEF RemoveFound
    <2>2. ASSUME NEW v \in WorkerId PROVE LocalsOK(v)'
        BY <1>3 DEF RemoveFound, LocalsOK, Mine
    <2> QED
        BY <2>1, <2>2
<1>4. CASE Swept(w)
    BY <1>4, RestartTyped DEF Swept
<1> QED
    BY <1>1, <1>2, <1>3, <1>4

LEMMA ReconcileTyped ==
    ASSUME TypeOK, InHand, NEW w \in WorkerId, Reconcile(w)
    PROVE  LocalsTyped'
<1> USE LocationFacts
    DEF Step, At, GoTo, LocalsTyped, WorkerTypeOK, KeepBounds, KeepLocals, locals, TypeOK,
        InHand
<1>1. CASE ScanRunning(w)
    <2> DEFINE R == {[task |-> t, attempt |-> tasks[t].attempt] : t \in WithStatus(RUNNING)}
    <2>1. \A r \in R : r \in Job /\ r.attempt \in Attempt
        BY DEF RunningHasAttempt, WithStatus, Job, Attempt
    <2>2. rows' = [rows EXCEPT ![w] = R]
        BY <1>1 DEF ScanRunning
    <2> HIDE DEF R
    <2>3. WorkerTypeOK'
        BY <1>1, <2>1, <2>2 DEF ScanRunning
    <2>4. ASSUME NEW v \in WorkerId PROVE LocalsOK(v)'
        BY <1>1, <2>1, <2>2 DEF ScanRunning, LocalsOK, Mine
    <2> QED
        BY <2>3, <2>4
<1>2. CASE CheckLease(w)
    <2>1. PICK r \in rows[w] :
            /\ rows' = [rows EXCEPT ![w] = @ \ {r}]
            /\ IF Leased(r.task)
               THEN UNCHANGED <<pc, job>>
               ELSE GoTo(w, "reclaim") /\ job' = [job EXCEPT ![w] = r]
        BY <1>2 DEF CheckLease
    <2>2. r \in Job /\ r.task \in TaskId /\ r.attempt \in Attempt
        BY DEF LocalsOK, Job
    <2>3. WorkerTypeOK'
        BY <1>2, <2>1, <2>2 DEF CheckLease
    <2>4. ASSUME NEW v \in WorkerId PROVE LocalsOK(v)'
        BY <1>2, <2>1, <2>2 DEF CheckLease, LocalsOK, Mine
    <2> QED
        BY <2>3, <2>4
<1>3. CASE RowsDone(w)
    BY <1>3 DEF RowsDone, LocalsOK, Mine
<1>4. CASE GiveBack(w) \/ GiveUp(w) \/ ReclaimLost(w) \/ PushReclaimed(w)
    <2>1. WorkerTypeOK'
        BY <1>4 DEF GiveBack, GiveUp, ReclaimLost, PushReclaimed
    <2>2. ASSUME NEW v \in WorkerId PROVE LocalsOK(v)'
        BY <1>4 DEF GiveBack, GiveUp, ReclaimLost, PushReclaimed, LocalsOK, Mine
    <2> QED
        BY <2>1, <2>2
<1>5. CASE ListQueue(w)
    <2>1. QueuedIds \subseteq TaskId
        BY DEF BusTypeOK, QueuedIds, Range
    <2>2. WorkerTypeOK'
        BY <1>5, <2>1 DEF ListQueue
    <2>3. ASSUME NEW v \in WorkerId PROVE LocalsOK(v)'
        BY <1>5 DEF ListQueue, LocalsOK, Mine
    <2> QED
        BY <2>2, <2>3
<1>6. CASE MatchQueued(w)
    <2>1. WorkerTypeOK'
        BY <1>6 DEF MatchQueued, WithStatus
    <2>2. ASSUME NEW v \in WorkerId PROVE LocalsOK(v)'
        BY <1>6 DEF MatchQueued, LocalsOK, Mine
    <2> QED
        BY <2>1, <2>2
<1>7. CASE Repush(w)
    <2>1. WorkerTypeOK'
        BY <1>7 DEF Repush
    <2>2. ASSUME NEW v \in WorkerId PROVE LocalsOK(v)'
        BY <1>7 DEF Repush, LocalsOK, Mine
    <2> QED
        BY <2>1, <2>2
<1>8. CASE Reconciled(w)
    <2>1. WorkerTypeOK'
        BY <1>8 DEF Reconciled
    <2>2. ASSUME NEW v \in WorkerId PROVE LocalsOK(v)'
        BY <1>8 DEF Reconciled, LocalsOK, Mine
    <2> QED
        BY <2>1, <2>2
<1> QED
    BY <1>1, <1>2, <1>3, <1>4, <1>5, <1>6, <1>7, <1>8 DEF Reconcile

LEMMA PollTyped ==
    ASSUME TypeOK, InHand, NEW w \in WorkerId, PollOnce(w), StoreTypeOK', RunningHasAttempt'
    PROVE  LocalsTyped'
<1> USE LocationFacts
    DEF Step, At, GoTo, LocalsTyped, WorkerTypeOK, KeepBounds, KeepLocals, locals, TypeOK,
        InHand
<1>1. CASE GateShut(w) \/ PopNothing(w) \/ LeaseTaken(w)
    BY <1>1, RestartTyped DEF GateShut, PopNothing, LeaseTaken
<1>2. CASE GateOpen(w) \/ TakeLease(w) \/ ClaimRefused(w) \/ PriorCleared(w)
    <2>1. WorkerTypeOK'
        BY <1>2 DEF GateOpen, TakeLease, ClaimRefused, PriorCleared
    <2>2. ASSUME NEW v \in WorkerId PROVE LocalsOK(v)'
        BY <1>2 DEF GateOpen, TakeLease, ClaimRefused, PriorCleared, LocalsOK, Mine
    <2> QED
        BY <2>1, <2>2
<1>3. CASE PopTask(w)
    <2>1. PICK t \in TaskId : job' = [job EXCEPT ![w] = [task |-> t, attempt |-> 0]]
        BY <1>3 DEF PopTask
    <2>2. [task |-> t, attempt |-> 0] \in Job
        BY MaxAttemptsAssumption DEF Job
    <2>3. WorkerTypeOK'
        BY <1>3, <2>1, <2>2 DEF PopTask
    <2>4. ASSUME NEW v \in WorkerId PROVE LocalsOK(v)'
        BY <1>3, <2>1 DEF PopTask, LocalsOK, Mine
    <2> QED
        BY <2>3, <2>4
<1>4. CASE ClaimTask(w)
    <2>1. Mine(w) \in TaskId /\ job[w] \in Job
        BY <1>4, TaskAssumption DEF ClaimTask, LocalsOK, Mine, NoJob
    <2>2. tasks'[Mine(w)].status = RUNNING
        BY <1>4, <2>1 DEF ClaimTask, Claim, StoreTypeOK, Row
    <2>3. tasks'[Mine(w)].attempt \in Attempt
        BY <2>1, <2>2 DEF RunningHasAttempt
    <2> DEFINE a == tasks'[Mine(w)].attempt
    <2>4. job' = [job EXCEPT ![w].attempt = a]
        BY <1>4 DEF ClaimTask
    <2> HIDE DEF a
    <2>5. a \in Attempt
        BY <2>3 DEF a
    <2>6. WorkerTypeOK'
        <3>1. job' \in [WorkerId -> Job \cup {NoJob}]
            BY <2>1, <2>4, <2>5 DEF Job, Attempt
        <3> QED
            BY <1>4, <3>1 DEF ClaimTask
    <2>7. ASSUME NEW v \in WorkerId PROVE LocalsOK(v)'
        BY <1>4, <2>1, <2>4, <2>5 DEF ClaimTask, LocalsOK, Mine, Job
    <2> QED
        BY <2>6, <2>7
<1>5. CASE ListPrior(w)
    <2>1. Labelled(Mine(w)) \subseteq Label
        BY DEF Labelled, SandboxTypeOK
    <2>2. WorkerTypeOK'
        BY <1>5, <2>1 DEF ListPrior
    <2>3. ASSUME NEW v \in WorkerId PROVE LocalsOK(v)'
        BY <1>5 DEF ListPrior, LocalsOK, Mine
    <2> QED
        BY <2>2, <2>3
<1> QED
    BY <1>1, <1>2, <1>3, <1>4, <1>5 DEF PollOnce

LEMMA OutcomeTags ==
    /\ Raised \notin Outcome /\ Pending \notin Outcome
    /\ R_TOOL \in FailReason => [status |-> FAILED, reason |-> R_TOOL] \in Outcome
BY DEF Outcome, Raised, Pending, SUCCEEDED, FAILED, CANCELLED

LEMMA AfterUnwindFacts ==
    ASSUME NEW o
    PROVE  AfterUnwind(o) \subseteq {"bank", "finish"}
BY DEF AfterUnwind

(* What follows the finally block, in Unwind and in OwnContainerStays.       *)
LEMMA LeaveTyped ==
    ASSUME LocalsTyped, NEW w \in WorkerId, pc[w] = "unwind", LeaveTry(w),
           faults' \in 0 .. MaxFaults, lost' \in 0 .. MaxLostLeases
    PROVE  LocalsTyped'
<1>1. CASE Restart(w, "scan")
    BY <1>1, RestartTyped
<1>2. CASE ~Restart(w, "scan")
    <2> USE LocationFacts DEF GoTo, LocalsTyped, WorkerTypeOK, locals
    <2>1. PICK l \in {"bank", "finish"} : pc' = [pc EXCEPT ![w] = l]
        BY <1>2, AfterUnwindFacts DEF LeaveTry
    <2>2. outcome[w] # Raised /\ UNCHANGED locals
        BY <1>2 DEF LeaveTry
    <2>3. WorkerTypeOK'
        BY <2>1, <2>2
    <2>4. ASSUME NEW v \in WorkerId PROVE LocalsOK(v)'
        BY <2>1, <2>2 DEF LocalsOK, Mine
    <2> QED
        BY <2>3, <2>4
<1> QED
    BY <1>1, <1>2

LEMMA RunTyped ==
    ASSUME TypeOK, InHand, NEW w \in WorkerId, RunAttempt(w)
    PROVE  LocalsTyped'
<1> USE LocationFacts
    DEF Step, At, GoTo, LocalsTyped, WorkerTypeOK, KeepBounds, KeepLocals, locals, TypeOK,
        InHand
<1>1. CASE Announce(w) \/ StartSandbox(w) \/ Emit(w) \/ WriteTotal(w) \/ FinishTask(w)
            \/ FinishRefused(w)
    <2>1. WorkerTypeOK'
        BY <1>1 DEF Announce, StartSandbox, Emit, WriteTotal, FinishTask, FinishRefused
    <2>2. ASSUME NEW v \in WorkerId PROVE LocalsOK(v)'
        BY <1>1 DEF Announce, StartSandbox, Emit, WriteTotal, FinishTask, FinishRefused,
                    LocalsOK, Mine
    <2> QED
        BY <2>1, <2>2
<1>2. CASE RunEnds(w)
    <2>1. PICK o \in Outcome : outcome' = [outcome EXCEPT ![w] = o]
        BY <1>2 DEF RunEnds
    <2>2. WorkerTypeOK'
        BY <1>2, <2>1 DEF RunEnds
    <2>3. ASSUME NEW v \in WorkerId PROVE LocalsOK(v)'
        BY <1>2, <2>1 DEF RunEnds, LocalsOK, Mine
    <2> QED
        BY <2>2, <2>3
<1>3. CASE Unwind(w)
    BY <1>3, LeaveTyped DEF Unwind
<1>4. CASE ReadLease(w)
    <2>1. CASE lease[Mine(w)] # w
        BY <1>4, <2>1, RestartTyped DEF ReadLease
    <2>2. CASE lease[Mine(w)] = w
        <3>1. WorkerTypeOK'
            BY <1>4, <2>2 DEF ReadLease
        <3>2. ASSUME NEW v \in WorkerId PROVE LocalsOK(v)'
            BY <1>4, <2>2 DEF ReadLease, LocalsOK, Mine
        <3> QED
            BY <3>1, <3>2
    <2> QED
        BY <2>1, <2>2
<1>5. CASE DropLease(w)
    BY <1>5, RestartTyped DEF DropLease
<1>6. CASE ReadTotal(w)
    <2>1. ReadUsage(Mine(w)) \in Usage
        <3>1. Mine(w) \in TaskId
            BY <1>6 DEF ReadTotal, LocalsOK
        <3> QED
            BY <3>1 DEF ReadUsage, StoreTypeOK, Row
    <2>2. WorkerTypeOK'
        BY <1>6, <2>1 DEF ReadTotal
    <2>3. ASSUME NEW v \in WorkerId PROVE LocalsOK(v)'
        BY <1>6 DEF ReadTotal, LocalsOK, Mine
    <2> QED
        BY <2>2, <2>3
<1> QED
    BY <1>1, <1>2, <1>3, <1>4, <1>5, <1>6 DEF RunAttempt

LEMMA FaultTyped ==
    ASSUME TypeOK, InHand, NEW w \in WorkerId, WorkerFault(w)
    PROVE  LocalsTyped'
<1> USE LocationFacts, OutcomeTags, ToolErrorAssumption, BoundAssumption
    DEF Step, At, GoTo, LocalsTyped, WorkerTypeOK, KeepBounds, KeepLocals, locals, TypeOK,
        InHand
<1>1. Fault => faults' \in 0 .. MaxFaults /\ lost' = lost
    BY DEF Fault
<1>2. CASE Crash(w) \/ StartFails(w)
    BY <1>1, <1>2, RestartTyped DEF Crash, StartFails
<1>3. CASE Boot(w)
    <2>1. WorkerTypeOK'
        BY <1>3 DEF Boot
    <2>2. ASSUME NEW v \in WorkerId PROVE LocalsOK(v)'
        BY <1>3 DEF Boot, LocalsOK, Mine
    <2> QED
        BY <2>1, <2>2
<1>4. CASE Raise(w)
    <2>1. CASE pc[w] # "run"
        BY <1>1, <1>4, <2>1, RestartTyped DEF Raise
    <2>2. CASE pc[w] = "run"
        <3>1. WorkerTypeOK'
            BY <1>1, <1>4, <2>2 DEF Raise
        <3>2. ASSUME NEW v \in WorkerId PROVE LocalsOK(v)'
            BY <1>4, <2>2 DEF Raise, LocalsOK, Mine
        <3> QED
            BY <3>1, <3>2
    <2> QED
        BY <2>1, <2>2
<1>5. CASE DockerFails(w)
    <2> DEFINE o == [status |-> FAILED, reason |-> R_TOOL]
    <2>1. o \in Outcome /\ outcome' = [outcome EXCEPT ![w] = o]
        BY <1>5 DEF DockerFails
    <2> HIDE DEF o
    <2>2. WorkerTypeOK'
        BY <1>1, <1>5, <2>1 DEF DockerFails
    <2>3. ASSUME NEW v \in WorkerId PROVE LocalsOK(v)'
        BY <1>5, <2>1 DEF DockerFails, LocalsOK, Mine
    <2> QED
        BY <2>2, <2>3
<1>6. CASE ContainerStays(w)
    <2>1. WorkerTypeOK'
        BY <1>1, <1>6 DEF ContainerStays
    <2>2. ASSUME NEW v \in WorkerId PROVE LocalsOK(v)'
        BY <1>6 DEF ContainerStays, LocalsOK, Mine
    <2> QED
        BY <2>1, <2>2
<1>7. CASE OwnContainerStays(w)
    BY <1>1, <1>7, LeaveTyped DEF OwnContainerStays
<1> QED
    BY <1>2, <1>3, <1>4, <1>5, <1>6, <1>7 DEF WorkerFault

LEMMA WorkersTyped ==
    ASSUME TypeOK, InHand, [Next]_vars, StoreTypeOK', RunningHasAttempt'
    PROVE  LocalsTyped'
<1>1. CASE UNCHANGED workerVars
    <2>1. WorkerTypeOK'
        BY <1>1 DEF TypeOK, WorkerTypeOK, workerVars, locals
    <2>2. ASSUME NEW v \in WorkerId PROVE LocalsOK(v)'
        BY <1>1 DEF InHand, LocalsOK, Mine, workerVars, locals
    <2> QED
        BY <2>1, <2>2 DEF LocalsTyped
<1>2. CASE \E t \in TaskId : LoseLease(t)
    <2>1. WorkerTypeOK'
        BY <1>2, BoundAssumption DEF LoseLease, Losing, locals, TypeOK, WorkerTypeOK
    <2>2. ASSUME NEW v \in WorkerId PROVE LocalsOK(v)'
        BY <1>2 DEF LoseLease, Losing, locals, InHand, LocalsOK, Mine
    <2> QED
        BY <2>1, <2>2 DEF LocalsTyped
<1>3. CASE RedisRestarts
    <2>1. WorkerTypeOK'
        BY <1>3, BoundAssumption DEF RedisRestarts, Losing, locals, TypeOK, WorkerTypeOK
    <2>2. ASSUME NEW v \in WorkerId PROVE LocalsOK(v)'
        BY <1>3 DEF RedisRestarts, Losing, locals, InHand, LocalsOK, Mine
    <2> QED
        BY <2>1, <2>2 DEF LocalsTyped
<1>4. ASSUME NEW w \in WorkerId, WorkerStep(w) \/ WorkerFault(w)
      PROVE  LocalsTyped'
    <2>1. LocalsTyped /\ SandboxTypeOK
        BY DEF LocalsTyped, TypeOK, InHand
    <2> QED
        BY <1>4, <2>1, MainTyped, ReconcileTyped, PollTyped, RunTyped, FaultTyped
           DEF WorkerStep
<1> QED
    BY <1>1, <1>2, <1>3, <1>4 DEF Next, WorkerNext, LeaseExpires, vars

-----------------------------------------------------------------------------
(* Types of the queue, the leases, the containers and the requests *)

LEMMA BusOperationsTyped ==
    ASSUME BusTypeOK, NEW t \in TaskId
    PROVE  /\ Enqueue(t) => BusTypeOK'
           /\ Dequeue(t) => BusTypeOK'
           /\ DeleteLease(t) => BusTypeOK'
           /\ \A w \in WorkerId : AcquireLease(t, w) => BusTypeOK'
           /\ Wipe => BusTypeOK'
<1> USE DEF BusTypeOK
<1>1. Enqueue(t) => BusTypeOK'
    BY DEF Enqueue
<1>2. Dequeue(t) => BusTypeOK'
    BY DEF Dequeue
<1>3. DeleteLease(t) => BusTypeOK'
    BY DEF DeleteLease
<1>4. \A w \in WorkerId : AcquireLease(t, w) => BusTypeOK'
    BY DEF AcquireLease
<1>5. Wipe => BusTypeOK'
    BY DEF Wipe
<1> QED
    BY <1>1, <1>2, <1>3, <1>4, <1>5

LEMMA BusTyped ==
    ASSUME TypeOK, InHand, [Next]_vars
    PROVE  BusTypeOK'
<1> USE DEF OnlyStore, OnlySandbox, KeepShared
<1>0. BusTypeOK
    BY DEF TypeOK
<1>1. CASE UNCHANGED busVars
    BY <1>0, <1>1 DEF BusTypeOK, busVars
<1>2. ASSUME NEW r \in RequestId, EnqueueTask(r) PROVE BusTypeOK'
    BY <1>0, <1>2, BusOperationsTyped DEF EnqueueTask, InHand, RequestOK
<1>3. ASSUME NEW t \in TaskId, LeaseExpires(t) \/ LoseLease(t) PROVE BusTypeOK'
    BY <1>0, <1>3, BusOperationsTyped DEF LeaseExpires, LoseLease
<1>4. CASE RedisRestarts
    BY <1>0, <1>4 DEF RedisRestarts, Wipe, BusTypeOK
<1>5. ASSUME NEW w \in WorkerId, PushReclaimed(w) \/ TakeLease(w) \/ DropLease(w)
      PROVE  BusTypeOK'
    <2>1. Mine(w) \in TaskId
        BY <1>5, LocationFacts
           DEF PushReclaimed, TakeLease, DropLease, Step, At, InHand, LocalsOK
    <2> QED
        BY <1>0, <1>5, <2>1, BusOperationsTyped DEF PushReclaimed, TakeLease, DropLease
<1>6. ASSUME NEW w \in WorkerId, Repush(w) PROVE BusTypeOK'
    BY <1>0, <1>6, BusOperationsTyped DEF Repush, TypeOK, WorkerTypeOK
<1>7. ASSUME NEW w \in WorkerId, PopTask(w) PROVE BusTypeOK'
    BY <1>0, <1>7, BusOperationsTyped DEF PopTask
<1>8. ASSUME NEW w \in WorkerId,
             WorkerStep(w) \/ WorkerFault(w),
             ~PushReclaimed(w), ~TakeLease(w), ~DropLease(w), ~Repush(w), ~PopTask(w)
      PROVE  UNCHANGED busVars
    <2> USE DEF busVars
    <2>1. CASE ReadActive(w) \/ ListOrphans(w) \/ RemoveFound(w) \/ Swept(w) \/ Reconcile(w)
        BY <1>8, <2>1 DEF ReadActive, ListOrphans, RemoveFound, Swept, Reconcile, ScanRunning,
           CheckLease, RowsDone, GiveBack, GiveUp, ReclaimLost, ListQueue, MatchQueued,
           Reconciled
    <2>2. CASE PollOnce(w)
        BY <1>8, <2>2 DEF PollOnce, GateOpen, GateShut, PopNothing, LeaseTaken,
           ClaimTask, ClaimRefused, ListPrior, PriorCleared
    <2>3. CASE RunAttempt(w)
        BY <1>8, <2>3 DEF RunAttempt, Announce, StartSandbox, Emit, RunEnds, Unwind,
           ReadTotal, WriteTotal, FinishTask, FinishRefused, ReadLease
    <2>4. CASE WorkerFault(w)
        BY <2>4 DEF WorkerFault, Crash, Boot, Raise, StartFails, DockerFails, ContainerStays,
           OwnContainerStays
    <2> QED
        BY <1>8, <2>1, <2>2, <2>3, <2>4 DEF WorkerStep
<1>9. ASSUME NEW r \in RequestId, PostTask(r) \/ CancelTask(r) \/ LoseRequest(r), ~EnqueueTask(r)
      PROVE  UNCHANGED busVars
    BY <1>9 DEF PostTask, CancelTask, LoseRequest, LookUp, InsertTask, InsertRefused,
       GetForCancel, CancelInQueue, FlagRunning, KeepTables, busVars
<1> QED
    BY <1>1, <1>2, <1>3, <1>4, <1>5, <1>6, <1>7, <1>8, <1>9
       DEF Next, WorkerNext, ApiNext, vars

LEMMA SandboxTyped ==
    ASSUME TypeOK, InHand, [Next]_vars
    PROVE  SandboxTypeOK'
<1> USE DEF OnlyStore, OnlyBus, KeepShared
<1>0. SandboxTypeOK
    BY DEF TypeOK
<1>1. CASE UNCHANGED sandboxVars
    BY <1>0, <1>1 DEF SandboxTypeOK, sandboxVars
<1>2. ASSUME NEW w \in WorkerId,
             StartSandbox(w) \/ StartFails(w) \/ Unwind(w) \/ OwnContainerStays(w)
      PROVE  SandboxTypeOK'
    <2>1. Mine(w) \in TaskId /\ job[w].attempt \in Attempt
        BY <1>2, LocationFacts
           DEF StartSandbox, StartFails, Unwind, OwnContainerStays, Step, At, InHand, LocalsOK
    <2> QED
        BY <1>0, <1>2, <2>1
           DEF StartSandbox, StartFails, Unwind, OwnContainerStays, Start, Remove,
               RemoveRefused, SandboxTypeOK, Label
<1>3. ASSUME NEW w \in WorkerId, RemoveFound(w) \/ ContainerStays(w) PROVE SandboxTypeOK'
    BY <1>0, <1>3 DEF RemoveFound, ContainerStays, Remove, RemoveRefused, SandboxTypeOK
<1>4. ASSUME NEW w \in WorkerId,
             WorkerStep(w) \/ WorkerFault(w),
             ~StartSandbox(w), ~StartFails(w), ~Unwind(w), ~OwnContainerStays(w),
             ~RemoveFound(w), ~ContainerStays(w)
      PROVE  UNCHANGED sandboxVars
    <2> USE DEF sandboxVars
    <2>1. CASE ReadActive(w) \/ ListOrphans(w) \/ Swept(w) \/ Reconcile(w)
        BY <1>4, <2>1 DEF ReadActive, ListOrphans, Swept, Reconcile, ScanRunning, CheckLease,
           RowsDone, GiveBack, GiveUp, ReclaimLost, PushReclaimed, ListQueue, MatchQueued,
           Repush, Reconciled
    <2>2. CASE PollOnce(w)
        BY <1>4, <2>2 DEF PollOnce, GateOpen, GateShut, PopTask, PopNothing, TakeLease,
           LeaseTaken, ClaimTask, ClaimRefused, ListPrior, PriorCleared
    <2>3. CASE RunAttempt(w)
        BY <1>4, <2>3 DEF RunAttempt, Announce, Emit, RunEnds, ReadTotal, WriteTotal,
           FinishTask, FinishRefused, ReadLease, DropLease
    <2>4. CASE WorkerFault(w)
        BY <1>4, <2>4 DEF WorkerFault, Crash, Boot, Raise, DockerFails
    <2> QED
        BY <1>4, <2>1, <2>2, <2>3, <2>4 DEF WorkerStep
<1>5. CASE \E t \in TaskId : LeaseExpires(t) \/ LoseLease(t)
    BY <1>1, <1>5 DEF LeaseExpires, LoseLease, sandboxVars
<1>6. CASE RedisRestarts
    BY <1>1, <1>6 DEF RedisRestarts, sandboxVars
<1> QED
    BY <1>1, <1>2, <1>3, <1>4, <1>5, <1>6 DEF Next, WorkerNext, vars

RequestsTyped == ApiTypeOK /\ \A r \in RequestId : RequestOK(r)

LEMMA RequestWritten ==
    ASSUME RequestsTyped, NEW r \in RequestId, NEW new \in Request,
           req' = [req EXCEPT ![r] = new]
    PROVE  ApiTypeOK'
BY DEF RequestsTyped, ApiTypeOK

LEMMA AnswersTyped ==
    ASSUME RequestsTyped, NEW r \in RequestId
    PROVE  /\ req[r].task \in TaskId \cup {NoTask}
           /\ \A t \in TaskId \cup {NoTask}, answer \in Answer :
                Reply(r, t, answer) => RequestsTyped'
           /\ \A t \in TaskId, at \in {"enqueue", "cancel", "flag"} :
                Proceed(r, at, t) => RequestsTyped'
<1>1. req[r].task \in TaskId \cup {NoTask}
    BY DEF RequestsTyped, ApiTypeOK, Request
<1>2. ASSUME NEW t \in TaskId \cup {NoTask}, NEW answer \in Answer, Reply(r, t, answer)
      PROVE  RequestsTyped'
    <2>1. ApiTypeOK'
        <3> DEFINE new == [req[r] EXCEPT !.at = "done", !.task = t, !.answer = answer]
        <3>1. req[r] \in Request
            BY DEF RequestsTyped, ApiTypeOK
        <3>2. new \in Request
            BY <3>1 DEF Request
        <3>3. req' = [req EXCEPT ![r] = new]
            BY <1>2 DEF Reply
        <3> HIDE DEF new
        <3> QED
            BY <3>2, <3>3, RequestWritten
    <2>2. \A q \in RequestId : RequestOK(q)'
        BY <1>2 DEF Reply, RequestOK, RequestsTyped, ApiTypeOK, Request
    <2> QED
        BY <2>1, <2>2 DEF RequestsTyped
<1>3. ASSUME NEW t \in TaskId, NEW at \in {"enqueue", "cancel", "flag"}, Proceed(r, at, t)
      PROVE  RequestsTyped'
    <2>1. ApiTypeOK'
        <3> DEFINE new == [req[r] EXCEPT !.at = at, !.task = t]
        <3>1. req[r] \in Request
            BY DEF RequestsTyped, ApiTypeOK
        <3>2. new \in Request
            BY <3>1 DEF Request
        <3>3. req' = [req EXCEPT ![r] = new]
            BY <1>3 DEF Proceed
        <3> HIDE DEF new
        <3> QED
            BY <3>2, <3>3, RequestWritten
    <2>2. \A q \in RequestId : RequestOK(q)'
        BY <1>3 DEF Proceed, RequestOK, RequestsTyped, ApiTypeOK, Request
    <2> QED
        BY <2>1, <2>2 DEF RequestsTyped
<1> QED
    BY <1>1, <1>2, <1>3

LEMMA RequestsStep ==
    ASSUME TypeOK, InHand, [Next]_vars
    PROVE  RequestsTyped'
<1> USE DEF ApiTypeOK, RequestOK
<1>0. RequestsTyped
    BY DEF RequestsTyped, TypeOK, InHand
<1>1. CASE UNCHANGED req
    BY <1>0, <1>1 DEF RequestsTyped
<1>2. ASSUME NEW r \in RequestId, NEW k \in Key \cup {NoKey}, LookUp(r, k)
      PROVE  RequestsTyped'
    <2>1. ASSUME NEW t \in FindByKey(k),
                 req' = [req EXCEPT ![r] =
                    [at |-> "done", task |-> t, key |-> k, answer |-> "existing"]]
          PROVE  RequestsTyped'
        <3> DEFINE new == [at |-> "done", task |-> t, key |-> k, answer |-> "existing"]
        <3>1. new \in Request /\ new.at = "done"
            BY DEF Request, Answer, FindByKey, HasKey
        <3>2. req' = [req EXCEPT ![r] = new]
            BY <2>1
        <3> HIDE DEF new
        <3> QED
            BY <1>0, <3>1, <3>2 DEF RequestsTyped
    <2>2. CASE req' = [req EXCEPT ![r].at = "insert", ![r].key = k]
        <3> DEFINE new == [req[r] EXCEPT !.at = "insert", !.key = k]
        <3>1. req[r] \in Request
            BY <1>0 DEF RequestsTyped
        <3>2. new \in Request /\ new.at = "insert"
            BY <3>1 DEF Request
        <3>3. req' = [req EXCEPT ![r] = new]
            BY <2>2
        <3> HIDE DEF new
        <3> QED
            BY <1>0, <3>2, <3>3, RequestWritten DEF RequestsTyped
    <2> QED
        BY <1>2, <2>1, <2>2 DEF LookUp
<1>3. ASSUME NEW r \in RequestId,
             InsertTask(r) \/ InsertRefused(r) \/ EnqueueTask(r) \/ CancelInQueue(r)
                \/ FlagRunning(r) \/ LoseRequest(r)
                \/ \E t \in TaskId : GetForCancel(r, t)
      PROVE  RequestsTyped'
    <2>1. {"conflict", "created", "noop", "cancelled", "requested", "lost"} \subseteq Answer
        BY DEF Answer
    <2>2. req[r].at \in {"enqueue", "cancel", "flag"} => req[r].task \in TaskId
        BY <1>0 DEF RequestsTyped
    <2> QED
        BY <1>0, <1>3, <2>1, <2>2, AnswersTyped
           DEF InsertTask, InsertRefused, EnqueueTask, CancelInQueue, FlagRunning,
               LoseRequest, GetForCancel
<1> QED
    BY <1>1, <1>2, <1>3
       DEF Next, ApiNext, PostTask, CancelTask, vars

-----------------------------------------------------------------------------
(* The type invariant *)

LEMMA TypesStep ==
    ASSUME TypeOK, InHand, [Next]_vars
    PROVE  TypeOK' /\ InHand'
<1>1. [StoreNext]_storeVars
    BY StepUsesStore
<1>2. StoreTypeOK'
    BY <1>1, StoreTypeStep DEF TypeOK
<1>3. RunningHasAttempt'
    <2> SUFFICES ASSUME NEW t \in TaskId, tasks'[t].status = RUNNING
                 PROVE  tasks'[t].attempt \in Attempt
        BY DEF RunningHasAttempt
    <2>1. RowMoves(t)
        BY <1>1, RowStep DEF TypeOK
    <2>2. tasks[t].attempt \in 0 .. MaxAttempts
        BY DEF TypeOK, StoreTypeOK, Row
    <2> QED
        BY <2>1, <2>2, MaxAttemptsAssumption
           DEF InHand, RunningHasAttempt, RowMoves, Created, Claimed, GivenBack, Ended,
               Flagged, Billed, Attempt, QUEUED, RUNNING, TERMINAL, SUCCEEDED, FAILED,
               CANCELLED
<1> QED
    BY <1>2, <1>3, WorkersTyped, BusTyped, SandboxTyped, RequestsStep
       DEF TypeOK, InHand, LocalsTyped, RequestsTyped

LEMMA TypesInit ==
    ASSUME Init
    PROVE  TypeOK /\ InHand
<1> USE MaxAttemptsAssumption, BoundAssumption, LocationFacts DEF Init
<1>1. StoreTypeOK
    BY DEF StoreInit, StoreTypeOK, Row, NoRow, NewRow, Usage
<1>2. BusTypeOK
    BY DEF BusInit, BusTypeOK
<1>3. SandboxTypeOK
    BY DEF SandboxInit, SandboxTypeOK
<1>4. WorkerTypeOK
    BY DEF WorkerInit, WorkerTypeOK, Usage
<1>5. ApiTypeOK
    BY DEF ApiInit, ApiTypeOK, Request, Answer
<1>6. ASSUME NEW w \in WorkerId PROVE LocalsOK(w)
    BY DEF WorkerInit, LocalsOK
<1>7. ASSUME NEW r \in RequestId PROVE RequestOK(r)
    BY DEF ApiInit, RequestOK
<1>8. RunningHasAttempt
    BY DEF StoreInit, RunningHasAttempt, NoRow, NewRow, RUNNING
<1> QED
    BY <1>1, <1>2, <1>3, <1>4, <1>5, <1>6, <1>7, <1>8 DEF TypeOK, InHand

LEMMA InHandInvariant == Spec => [](TypeOK /\ InHand)
<1>1. Init => TypeOK /\ InHand
    BY TypesInit
<1>2. (TypeOK /\ InHand) /\ [Next]_vars => (TypeOK /\ InHand)'
    BY TypesStep
<1> QED
    BY <1>1, <1>2, PTL DEF Spec

(* Every variable of the deployed system keeps its type: among other things  *)
(* a worker never starts an attempt past max_attempts, and a request never   *)
(* cancels or enqueues a task it has not found.                              *)
THEOREM PlatformTypeInvariant == Spec => []TypeOK
BY InHandInvariant, PTL

-----------------------------------------------------------------------------
(* The contract of the store *)

(* Workers and API call the store as StoreNext allows: the tables of the     *)
(* deployed system behave as StoreSpec, whose theorems therefore hold of it.  *)
THEOREM PlatformUsesStore == Spec => UsesStore
<1>1. Init => StoreInit
    BY DEF Init
<1>2. TypeOK /\ InHand /\ [Next]_vars => [StoreNext]_storeVars
    BY StepUsesStore
<1> QED
    BY <1>1, <1>2, InHandInvariant, PTL DEF Spec, UsesStore, StoreSpec

(* The deployed system keeps the books: no task ends without its one         *)
(* terminal event, whichever processes crash or go on too long.              *)
THEOREM PlatformLedger == Spec => []LedgerBalanced
BY PlatformUsesStore, LedgerInvariant DEF UsesStore

(* The deployed system implements the life cycle its users are promised.     *)
THEOREM PlatformImplementsLifecycle == Spec => ImplementsLifecycle
BY PlatformUsesStore, StoreImplementsLifecycle DEF UsesStore

-----------------------------------------------------------------------------
(* What a step may do to one worker *)

Kept(w) == pc'[w] = pc[w] /\ job'[w] = job[w] /\ rows'[w] = rows[w]
Onward(w) ==
    /\ pc[w] \in Running /\ pc'[w] \in Running
    /\ job'[w] = job[w] /\ rows'[w] = rows[w]
Scanned(w) ==
    /\ pc'[w] = "check"
    /\ \A r \in rows'[w] : r.attempt = tasks[r.task].attempt /\ tasks' = tasks
Checked(w) ==
    /\ pc'[w] = "reclaim" /\ rows'[w] \subseteq rows[w]
    /\ job'[w] \in rows[w] /\ ~Leased(job'[w].task)
Claiming(w) ==
    /\ pc[w] = "claim" /\ pc'[w] = "clear"
    /\ Claim(Mine(w), w)
    /\ job'[w].task = Mine(w) /\ job'[w].attempt = tasks'[Mine(w)].attempt
    /\ rows'[w] = rows[w]
Elsewhere(w) ==
    /\ pc'[w] \notin {"reclaim"} \cup Running
    /\ rows'[w] \subseteq rows[w]
    /\ pc'[w] \in Holding =>
        \/ pc[w] \in Holding /\ job'[w] = job[w]
        \/ TakeLease(w) /\ job'[w] = job[w]
WorkerMoves(w) ==
    Kept(w) \/ Onward(w) \/ Scanned(w) \/ Checked(w) \/ Claiming(w) \/ Elsewhere(w)

LEMMA RestartMoves ==
    ASSUME TypeOK, NEW w \in WorkerId, NEW l \in {"down", "scan"}, Restart(w, l),
           NEW v \in WorkerId
    PROVE  IF v = w THEN Elsewhere(v) ELSE Kept(v)
BY LocationFacts DEF Restart, GoTo, Elsewhere, Kept, TypeOK, WorkerTypeOK

LEMMA OwnStepMoves ==
    ASSUME TypeOK, InHand, NEW w \in WorkerId, WorkerStep(w) \/ WorkerFault(w),
           NEW v \in WorkerId
    PROVE  WorkerMoves(v)
<1> USE LocationFacts DEF Step, At, GoTo, TypeOK, WorkerTypeOK, KeepLocals, locals, WorkerMoves
<1>1. CASE Swept(w) \/ GateShut(w) \/ PopNothing(w) \/ LeaseTaken(w)
            \/ DropLease(w) \/ Crash(w) \/ StartFails(w)
    BY <1>1, RestartMoves
       DEF Swept, GateShut, PopNothing, LeaseTaken, DropLease, Crash, StartFails
<1>2. CASE ScanRunning(w)
    <2>1. CASE v = w
        <3>1. /\ pc'[w] = "check" /\ tasks' = tasks
              /\ rows'[w] = {[task |-> t, attempt |-> tasks[t].attempt] :
                                t \in WithStatus(RUNNING)}
            BY <1>2 DEF ScanRunning, KeepShared
        <3> QED
            BY <2>1, <3>1 DEF Scanned
    <2>2. CASE v # w
        BY <1>2, <2>2 DEF ScanRunning, Kept
    <2> QED
        BY <2>1, <2>2
<1>3. CASE CheckLease(w)
    <2>1. PICK r \in rows[w] :
            /\ rows' = [rows EXCEPT ![w] = @ \ {r}]
            /\ IF Leased(r.task)
               THEN UNCHANGED <<pc, job>>
               ELSE GoTo(w, "reclaim") /\ job' = [job EXCEPT ![w] = r]
        BY <1>3 DEF CheckLease
    <2>2. CASE v # w
        BY <2>1, <2>2 DEF Kept
    <2>3. CASE v = w /\ Leased(r.task)
        BY <1>3, <2>1, <2>3 DEF CheckLease, Elsewhere
    <2>4. CASE v = w /\ ~Leased(r.task)
        BY <1>3, <2>1, <2>4 DEF CheckLease, Checked
    <2> QED
        BY <2>2, <2>3, <2>4
<1>4. CASE ReadActive(w) \/ ListOrphans(w) \/ RowsDone(w) \/ GiveBack(w) \/ GiveUp(w)
            \/ ReclaimLost(w) \/ PushReclaimed(w) \/ ListQueue(w) \/ MatchQueued(w)
            \/ Repush(w) \/ Reconciled(w)
    BY <1>4 DEF ReadActive, ListOrphans, RowsDone, GiveBack, GiveUp, ReclaimLost,
                PushReclaimed, ListQueue, MatchQueued, Repush, Reconciled, Elsewhere, Kept
<1>5. CASE GateOpen(w) \/ PopTask(w) \/ TakeLease(w) \/ ClaimRefused(w)
    BY <1>5 DEF GateOpen, PopTask, TakeLease, ClaimRefused, Elsewhere, Kept
<1>6. CASE ClaimTask(w)
    <2>1. CASE v # w
        BY <1>6, <2>1 DEF ClaimTask, Kept
    <2>2. CASE v = w
        <3>1. job[w] \in Job
            BY <1>6, TaskAssumption DEF ClaimTask, InHand, LocalsOK, Mine, NoJob
        <3>2. job'[w].task = Mine(w) /\ job'[w].attempt = tasks'[Mine(w)].attempt
            BY <1>6, <3>1 DEF ClaimTask, Mine, Job
        <3> QED
            BY <1>6, <2>2, <3>2 DEF ClaimTask, Claiming
    <2> QED
        BY <2>1, <2>2
<1>7. CASE ListPrior(w) \/ PriorCleared(w) \/ Announce(w) \/ StartSandbox(w) \/ Emit(w)
            \/ RunEnds(w) \/ ReadTotal(w) \/ WriteTotal(w) \/ Boot(w) \/ DockerFails(w)
    BY <1>7 DEF ListPrior, PriorCleared, Announce, StartSandbox, Emit, RunEnds, ReadTotal,
                WriteTotal, Boot, DockerFails, Onward, Kept, Elsewhere
<1>8. CASE Unwind(w) \/ OwnContainerStays(w) \/ ReadLease(w) \/ Raise(w)
    <2>1. CASE Restart(w, "scan")
        BY <2>1, RestartMoves
    <2>2. CASE (Unwind(w) \/ OwnContainerStays(w)) /\ ~Restart(w, "scan")
        <3>1. PICK l \in {"bank", "finish"} : pc' = [pc EXCEPT ![w] = l]
            BY <2>2, AfterUnwindFacts DEF Unwind, OwnContainerStays, LeaveTry
        <3>2. pc[w] = "unwind" /\ UNCHANGED <<rows, job>>
            BY <2>2 DEF Unwind, OwnContainerStays, LeaveTry, locals
        <3> QED
            BY <3>1, <3>2 DEF Onward, Kept
    <2>3. CASE (ReadLease(w) \/ Raise(w)) /\ ~Restart(w, "scan")
        BY <2>3 DEF ReadLease, Raise, Onward, Kept, Elsewhere
    <2> QED
        BY <1>8, <2>1, <2>2, <2>3
<1>9. CASE FinishTask(w) \/ FinishRefused(w)
    BY <1>9 DEF FinishTask, FinishRefused, Elsewhere, Kept
<1>10. CASE RemoveFound(w) \/ ContainerStays(w)
    BY <1>10 DEF RemoveFound, ContainerStays, Kept
<1> QED
    BY <1>1, <1>2, <1>3, <1>4, <1>5, <1>6, <1>7, <1>8, <1>9, <1>10
       DEF WorkerStep, WorkerFault, Reconcile, PollOnce, RunAttempt

LEMMA StepMoves ==
    ASSUME TypeOK, InHand, [Next]_vars, NEW v \in WorkerId
    PROVE  WorkerMoves(v)
<1>1. CASE UNCHANGED <<pc, rows, job>>
    BY <1>1 DEF WorkerMoves, Kept
<1>2. ASSUME NEW w \in WorkerId, WorkerStep(w) \/ WorkerFault(w) PROVE WorkerMoves(v)
    BY <1>2, OwnStepMoves
<1> QED
    BY <1>1, <1>2
       DEF Next, WorkerNext, LeaseExpires, LoseLease, RedisRestarts, Losing, workerVars,
           locals, vars

-----------------------------------------------------------------------------
(* Who runs an attempt *)

(* No worker holds an attempt number the row has not reached.                *)
AttemptsSeen ==
    \A w \in WorkerId :
        /\ pc[w] \in {"reclaim"} \cup Running => job[w].attempt <= tasks[Mine(w)].attempt
        /\ \A r \in rows[w] : r.attempt <= tasks[r.task].attempt

LEMMA SeenStep ==
    ASSUME TypeOK, InHand, AbsentIsBlank, AttemptsSeen, [Next]_vars
    PROVE  AttemptsSeen'
<1>1. \A t \in TaskId : /\ tasks[t].attempt \in Nat /\ tasks'[t].attempt \in Nat
                        /\ tasks[t].attempt <= tasks'[t].attempt
    BY StepUsesStore, StoreTypeStep, AttemptGrows, MaxAttemptsAssumption
       DEF TypeOK, StoreTypeOK, Row
<1>2. ASSUME NEW w \in WorkerId
      PROVE  /\ \A r \in rows[w] : r.task \in TaskId /\ r.attempt \in Nat
                                    /\ r.attempt <= tasks'[r.task].attempt
             /\ pc[w] \in {"reclaim"} \cup Running =>
                    job[w].attempt <= tasks'[Mine(w)].attempt
    <2>1. \A r \in rows[w] : r.task \in TaskId /\ r.attempt \in Nat
        BY MaxAttemptsAssumption DEF TypeOK, WorkerTypeOK, Job
    <2>2. pc[w] \in {"reclaim"} \cup Running => Mine(w) \in TaskId /\ job[w].attempt \in Nat
        BY MaxAttemptsAssumption DEF InHand, LocalsOK, Holding, Attempt
    <2> QED
        BY <1>1, <2>1, <2>2 DEF AttemptsSeen
<1> SUFFICES ASSUME NEW w \in WorkerId
             PROVE  /\ pc'[w] \in {"reclaim"} \cup Running =>
                            job'[w].attempt <= tasks'[job'[w].task].attempt
                    /\ \A r \in rows'[w] : r.attempt <= tasks'[r.task].attempt
    BY DEF AttemptsSeen, Mine, Running
<1>3. WorkerMoves(w)
    BY StepMoves
<1>4. CASE Kept(w) \/ Onward(w)
    BY <1>2, <1>4 DEF Kept, Onward, Mine
<1>5. CASE Scanned(w)
    <2>1. WorkerTypeOK'
        BY TypesStep DEF TypeOK
    <2>2. \A r \in rows'[w] : r.task \in TaskId
        BY <2>1 DEF WorkerTypeOK, Job
    <2> QED
        BY <1>1, <1>5, <2>2, LocationFacts DEF Scanned
<1>6. CASE Checked(w)
    BY <1>2, <1>6 DEF Checked
<1>7. CASE Claiming(w)
    <2>1. Mine(w) \in TaskId
        BY <1>7, LocationFacts DEF Claiming, InHand, LocalsOK
    <2> QED
        BY <1>1, <1>2, <1>7, <2>1 DEF Claiming
<1>8. CASE Elsewhere(w)
    BY <1>2, <1>8 DEF Elsewhere
<1> QED
    BY <1>3, <1>4, <1>5, <1>6, <1>7, <1>8 DEF WorkerMoves

(* A worker at work came by its attempt earlier, or claims it in this step.  *)
LEMMA HowRunning ==
    ASSUME TypeOK, InHand, [Next]_vars, NEW w \in WorkerId, pc'[w] \in Running
    PROVE  \/ pc[w] \in Running /\ job'[w] = job[w]
           \/ /\ Claiming(w)
              /\ Mine(w) \in TaskId
              /\ job'[w].task = Mine(w)
              /\ job'[w].attempt = tasks[Mine(w)].attempt + 1
              /\ tasks'[Mine(w)].attempt = tasks[Mine(w)].attempt + 1
              /\ tasks'[Mine(w)].status = RUNNING
              /\ tasks'[Mine(w)].worker = w
<1>1. WorkerMoves(w)
    BY StepMoves
<1>2. CASE Claiming(w)
    <2>1. Mine(w) \in TaskId
        BY <1>2, LocationFacts DEF Claiming, InHand, LocalsOK
    <2>2. /\ tasks'[Mine(w)].attempt = tasks[Mine(w)].attempt + 1
          /\ tasks'[Mine(w)].status = RUNNING
          /\ tasks'[Mine(w)].worker = w
        BY <1>2, <2>1 DEF Claiming, Claim, TypeOK, StoreTypeOK, Row
    <2> QED
        BY <1>2, <2>1, <2>2 DEF Claiming
<1>3. CASE ~Claiming(w)
    BY <1>1, <1>3, LocationFacts
       DEF WorkerMoves, Kept, Onward, Scanned, Checked, Elsewhere
<1> QED
    BY <1>2, <1>3

LEMMA RunnerStep ==
    ASSUME TypeOK, InHand, AttemptsSeen, OneRunnerPerAttempt, [Next]_vars
    PROVE  OneRunnerPerAttempt'
<1> SUFFICES ASSUME NEW v \in WorkerId, NEW w \in WorkerId,
                    pc'[v] \in Running, pc'[w] \in Running, job'[v] = job'[w]
             PROVE  v = w
    BY DEF OneRunnerPerAttempt, Running
<1> DEFINE Old(u) == pc[u] \in Running /\ job'[u] = job[u]
<1>1. ASSUME NEW u \in WorkerId, Old(u)
      PROVE  job[u].attempt <= tasks[job[u].task].attempt /\ job[u].task \in TaskId
    BY <1>1 DEF AttemptsSeen, InHand, LocalsOK, Holding, Mine
<1>2. \A t \in TaskId : tasks[t].attempt \in Nat
    BY MaxAttemptsAssumption DEF TypeOK, StoreTypeOK, Row
<1>3. CASE Old(v) /\ Old(w)
    BY <1>3 DEF OneRunnerPerAttempt
<1>4. ASSUME NEW x \in WorkerId, NEW y \in WorkerId, Old(x), ~Old(y),
             pc'[y] \in Running, job'[x] = job'[y]
      PROVE  FALSE
    <2>1. /\ job'[y].attempt = tasks[job'[y].task].attempt + 1
          /\ job'[y].task \in TaskId
        BY <1>4, HowRunning
    <2>2. job[x] = job'[y]
        BY <1>4
    <2> QED
        BY <1>1, <1>2, <1>4, <2>1, <2>2
<1>5. CASE (Old(v) /\ ~Old(w)) \/ (~Old(v) /\ Old(w))
    BY <1>4, <1>5
<1>6. CASE ~Old(v) /\ ~Old(w)
    BY <1>6, HowRunning
<1> QED
    BY <1>3, <1>4, <1>5, <1>6

RunnerInv == TypeOK /\ InHand /\ AttemptsSeen /\ OneRunnerPerAttempt

LEMMA RunnerInvariant == Spec => [](RunnerInv /\ AbsentIsBlank)
<1>1. Init => RunnerInv
    <2>1. Init => AttemptsSeen /\ OneRunnerPerAttempt
        BY LocationFacts DEF Init, WorkerInit, AttemptsSeen, OneRunnerPerAttempt
    <2> QED
        BY <2>1, TypesInit DEF RunnerInv
<1>2. RunnerInv /\ AbsentIsBlank /\ [Next]_vars => RunnerInv'
    BY TypesStep, SeenStep, RunnerStep DEF RunnerInv
<1> QED
    BY <1>1, <1>2, PlatformUsesStore, AbsentInvariant, PTL DEF Spec, UsesStore

(* No attempt of a task is ever run by two workers, however many leases are  *)
(* lost, ids queued twice and processes restarted: the claim hands out each  *)
(* attempt number once.                                                      *)
THEOREM OneRunner == Spec => []OneRunnerPerAttempt
BY RunnerInvariant, PTL DEF RunnerInv

-----------------------------------------------------------------------------
(* Who may be fenced off *)

LeaseHeld ==
    lost = 0 => \A w \in WorkerId : pc[w] \in Holding => lease[Mine(w)] = w

(* reconcile never has in hand the attempt of a worker at work.              *)
NoneReclaimed ==
    lost = 0 => \A v, w \in WorkerId :
        pc[v] = "reclaim" /\ pc[w] \in Running => job[v] # job[w]

FenceInv ==
    RunnerInv /\ AbsentIsBlank /\ LeaseHeld /\ NoneReclaimed /\ FencedOnlyAfterLeaseLoss

LEMMA LostGrows ==
    ASSUME TypeOK, [Next]_vars, lost' = 0
    PROVE  /\ lost = 0
           /\ \A t \in TaskId : ~LoseLease(t)
           /\ ~RedisRestarts
<1> USE DEF KeepLocals, KeepBounds, Fault
<1>0. lost \in Nat
    BY BoundAssumption DEF TypeOK, WorkerTypeOK
<1>1. ASSUME NEW w \in WorkerId, WorkerStep(w) \/ WorkerFault(w) PROVE lost' = lost
    <2>1. CASE ReadActive(w) \/ ListOrphans(w) \/ RemoveFound(w) \/ Swept(w) \/ Reconcile(w)
        BY <2>1 DEF ReadActive, ListOrphans, RemoveFound, Swept, Reconcile, ScanRunning,
           CheckLease, RowsDone, GiveBack, GiveUp, ReclaimLost, PushReclaimed, ListQueue,
           MatchQueued, Repush, Reconciled
    <2>2. CASE PollOnce(w)
        BY <2>2 DEF PollOnce, GateOpen, GateShut, PopTask, PopNothing, TakeLease,
           LeaseTaken, ClaimTask, ClaimRefused, ListPrior, PriorCleared
    <2>3. CASE RunAttempt(w)
        BY <2>3 DEF RunAttempt, Announce, StartSandbox, Emit, RunEnds, Unwind, ReadTotal,
           WriteTotal, FinishTask, FinishRefused, ReadLease, DropLease
    <2>4. CASE WorkerFault(w)
        BY <2>4 DEF WorkerFault, Crash, Boot, Raise, StartFails, DockerFails, ContainerStays,
           OwnContainerStays
    <2> QED
        BY <1>1, <2>1, <2>2, <2>3, <2>4 DEF WorkerStep
<1>2. (\E t \in TaskId : LoseLease(t)) \/ RedisRestarts => lost' = lost + 1
    BY DEF LoseLease, RedisRestarts, Losing
<1>3. ~((\E t \in TaskId : LoseLease(t)) \/ RedisRestarts) => lost' = lost
    BY <1>1 DEF Next, WorkerNext, LeaseExpires, workerVars, vars
<1> QED
    BY <1>0, <1>2, <1>3

(* Only an expiry, a release or a fault takes a lease away.                  *)
LEMMA LeaseMoves ==
    ASSUME TypeOK, InHand, [Next]_vars, lost' = 0, NEW t \in TaskId
    PROVE  \/ lease'[t] = lease[t]
           \/ ~Leased(t) /\ \E w \in WorkerId : TakeLease(w) /\ Mine(w) = t
           \/ \E w \in WorkerId : DropLease(w) /\ Mine(w) = t
           \/ LeaseExpires(t)
<1> USE DEF OnlyStore, OnlySandbox, KeepShared
<1>1. CASE UNCHANGED lease
    BY <1>1
<1>2. ASSUME NEW w \in WorkerId, TakeLease(w)
      PROVE  lease'[t] = lease[t] \/ (~Leased(t) /\ Mine(w) = t)
    <2>1. Mine(w) \in TaskId
        BY <1>2 DEF TakeLease, Step, At, InHand, LocalsOK
    <2> QED
        BY <1>2, <2>1 DEF TakeLease, AcquireLease, TypeOK, BusTypeOK
<1>3. ASSUME NEW w \in WorkerId, DropLease(w) PROVE lease'[t] = lease[t] \/ Mine(w) = t
    BY <1>3 DEF DropLease, DeleteLease, TypeOK, BusTypeOK
<1>4. ASSUME NEW u \in TaskId, LeaseExpires(u) PROVE lease'[t] = lease[t] \/ u = t
    BY <1>4 DEF LeaseExpires, DeleteLease, TypeOK, BusTypeOK
<1>5. ASSUME NEW w \in WorkerId, WorkerStep(w) \/ WorkerFault(w), ~TakeLease(w), ~DropLease(w)
      PROVE  UNCHANGED lease
    <2>1. CASE ReadActive(w) \/ ListOrphans(w) \/ RemoveFound(w) \/ Swept(w) \/ Reconcile(w)
        BY <2>1 DEF ReadActive, ListOrphans, RemoveFound, Swept, Reconcile, ScanRunning,
           CheckLease, RowsDone, GiveBack, GiveUp, ReclaimLost, PushReclaimed, ListQueue,
           MatchQueued, Repush, Reconciled, Enqueue
    <2>2. CASE PollOnce(w)
        BY <1>5, <2>2 DEF PollOnce, GateOpen, GateShut, PopTask, PopNothing, LeaseTaken,
           ClaimTask, ClaimRefused, ListPrior, PriorCleared, Dequeue
    <2>3. CASE RunAttempt(w)
        BY <1>5, <2>3 DEF RunAttempt, Announce, StartSandbox, Emit, RunEnds, Unwind,
           ReadTotal, WriteTotal, FinishTask, FinishRefused, ReadLease
    <2>4. CASE WorkerFault(w)
        BY <2>4 DEF WorkerFault, Crash, Boot, Raise, StartFails, DockerFails, ContainerStays,
           OwnContainerStays
    <2> QED
        BY <1>5, <2>1, <2>2, <2>3, <2>4 DEF WorkerStep
<1>6. ApiNext => UNCHANGED lease
    BY DEF ApiNext, PostTask, CancelTask, LoseRequest, LookUp, InsertTask, InsertRefused,
       EnqueueTask, Enqueue, GetForCancel, CancelInQueue, FlagRunning, KeepTables
<1>7. (\A u \in TaskId : ~LoseLease(u)) /\ ~RedisRestarts
    BY LostGrows
<1> QED
    BY <1>1, <1>2, <1>3, <1>4, <1>5, <1>6, <1>7 DEF Next, WorkerNext, vars, busVars

LEMMA LeaseStep ==
    ASSUME TypeOK, InHand, LeaseHeld, [Next]_vars
    PROVE  LeaseHeld'
<1> SUFFICES ASSUME lost' = 0, NEW w \in WorkerId, pc'[w] \in Holding
             PROVE  lease'[job'[w].task] = w
    BY DEF LeaseHeld, Mine, Holding, Running, Releasing
<1>1. lost = 0
    BY LostGrows
<1>2. CASE TakeLease(w)
    <2>1. Mine(w) \in TaskId
        BY <1>2 DEF TakeLease, Step, At, InHand, LocalsOK
    <2> QED
        BY <1>2, <2>1 DEF TakeLease, KeepLocals, locals, AcquireLease, Mine, TypeOK, BusTypeOK
<1>3. CASE ~TakeLease(w)
    <2>1. pc[w] \in Holding /\ job'[w].task = Mine(w)
        BY <1>3, StepMoves, LocationFacts
           DEF WorkerMoves, Kept, Onward, Scanned, Checked, Claiming, Elsewhere, Mine
    <2>2. lease[Mine(w)] = w /\ Mine(w) \in TaskId
        BY <1>1, <2>1 DEF LeaseHeld, InHand, LocalsOK
    <2>3. ~(\E v \in WorkerId : TakeLease(v) /\ Mine(v) = Mine(w) /\ ~Leased(Mine(w)))
        BY <2>2, WorkerAssumption DEF Leased
    <2>4. ~LeaseExpires(Mine(w))
        BY <2>1, <2>2 DEF LeaseExpires, BelievesHeld
    <2>5. ASSUME NEW v \in WorkerId, DropLease(v), Mine(v) = Mine(w) PROVE FALSE
        <3>1. pc[v] \in Holding /\ pc'[v] = "scan"
            BY <2>5, LocationFacts DEF DropLease, At, Restart, GoTo, TypeOK, WorkerTypeOK
        <3>2. lease[Mine(v)] = v
            BY <1>1, <3>1 DEF LeaseHeld
        <3> QED
            BY <2>2, <2>5, <3>1, <3>2, LocationFacts
    <2> QED
        BY <2>1, <2>2, <2>3, <2>4, <2>5, LeaseMoves
<1> QED
    BY <1>2, <1>3

LEMMA NoneReclaimedStep ==
    ASSUME TypeOK, InHand, AttemptsSeen, LeaseHeld, NoneReclaimed, [Next]_vars
    PROVE  NoneReclaimed'
<1> SUFFICES ASSUME lost' = 0, NEW v \in WorkerId, NEW w \in WorkerId,
                    pc'[v] = "reclaim", pc'[w] \in Running, job'[v] = job'[w]
             PROVE  FALSE
    BY DEF NoneReclaimed, Running
<1>1. lost = 0
    BY LostGrows
<1>2. (pc[v] = "reclaim" /\ job'[v] = job[v]) \/ Checked(v)
    BY StepMoves, LocationFacts
       DEF WorkerMoves, Kept, Onward, Scanned, Checked, Claiming, Elsewhere
<1>3. job'[v].attempt <= tasks[job'[v].task].attempt
    <2>1. CASE pc[v] = "reclaim" /\ job'[v] = job[v]
        BY <2>1 DEF AttemptsSeen, Mine
    <2>2. CASE Checked(v)
        BY <2>2 DEF Checked, AttemptsSeen
    <2> QED
        BY <1>2, <2>1, <2>2
<1>4. \A t \in TaskId : tasks[t].attempt \in Nat
    BY MaxAttemptsAssumption DEF TypeOK, StoreTypeOK, Row
<1>5. pc[w] \in Running /\ job'[w] = job[w]
    BY <1>3, <1>4, HowRunning
<1>6. CASE pc[v] = "reclaim" /\ job'[v] = job[v]
    BY <1>1, <1>5, <1>6 DEF NoneReclaimed
<1>7. CASE Checked(v)
    <2>1. lease[Mine(w)] = w
        BY <1>1, <1>5 DEF LeaseHeld, Holding
    <2> QED
        BY <1>5, <1>7, <2>1, WorkerAssumption DEF Checked, Leased, Mine
<1> QED
    BY <1>2, <1>6, <1>7

(* An attempt stops being the current one only when reconcile takes it back  *)
(* or when it is finished.                                                   *)
LEMMA StillRuns ==
    ASSUME TypeOK, InHand, [Next]_vars, NEW t \in TaskId, NEW a \in Attempt,
           RunsAttempt(t, a)
    PROVE  \/ RunsAttempt(t, a)'
           \/ \E v \in WorkerId : /\ pc[v] = "reclaim"
                                  /\ Mine(v) = t /\ job[v].attempt = a
           \/ \E v \in WorkerId : FinishTask(v) /\ Mine(v) = t /\ job[v].attempt = a
<1>1. CASE tasks'[t].status = tasks[t].status /\ tasks'[t].attempt = tasks[t].attempt
    BY <1>1 DEF RunsAttempt, RUNNING
<1>2. CASE UNCHANGED tasks
    BY <1>1, <1>2
<1>3. ASSUME NEW w \in WorkerId, GiveBack(w) \/ GiveUp(w), Mine(w) # t
      PROVE  UNCHANGED tasks[t]
    BY <1>3 DEF GiveBack, GiveUp, Requeue, FailExhausted, Settle, TypeOK, StoreTypeOK
<1>4. ASSUME NEW w \in WorkerId, GiveBack(w) \/ GiveUp(w)
      PROVE  pc[w] = "reclaim" /\ (Mine(w) = t => job[w].attempt = a)
    BY <1>4 DEF GiveBack, GiveUp, Step, At, Requeue, FailExhausted, RunsAttempt
<1>5. ASSUME NEW w \in WorkerId, FinishTask(w)
      PROVE  Mine(w) # t => UNCHANGED tasks[t]
    BY <1>5 DEF FinishTask, Finish, Settle, TypeOK, StoreTypeOK
<1>6. ASSUME NEW w \in WorkerId, FinishTask(w), Mine(w) = t
      PROVE  job[w].attempt = a
    BY <1>6 DEF FinishTask, Finish, RunsAttempt
<1>7. ASSUME NEW w \in WorkerId, ClaimTask(w) PROVE UNCHANGED tasks[t]
    BY <1>7 DEF ClaimTask, Claim, Claimable, RunsAttempt, QUEUED, RUNNING, TypeOK, StoreTypeOK
<1>8. ASSUME NEW w \in WorkerId, WorkerStep(w) \/ WorkerFault(w),
             ~GiveBack(w), ~GiveUp(w), ~FinishTask(w), ~ClaimTask(w), ~WriteTotal(w)
      PROVE  UNCHANGED tasks
    <2> USE DEF KeepShared, OnlyBus, OnlySandbox
    <2>1. CASE ReadActive(w) \/ ListOrphans(w) \/ RemoveFound(w) \/ Swept(w) \/ Reconcile(w)
        BY <1>8, <2>1 DEF ReadActive, ListOrphans, RemoveFound, Swept, Reconcile, ScanRunning,
           CheckLease, RowsDone, ReclaimLost, PushReclaimed, ListQueue, MatchQueued, Repush,
           Reconciled
    <2>2. CASE PollOnce(w)
        BY <1>8, <2>2 DEF PollOnce, GateOpen, GateShut, PopTask, PopNothing, TakeLease,
           LeaseTaken, ClaimRefused, ListPrior, PriorCleared
    <2>3. CASE RunAttempt(w)
        BY <1>8, <2>3 DEF RunAttempt, Announce, StartSandbox, Emit, RunEnds, Unwind, ReadTotal,
           FinishRefused, ReadLease, DropLease, AppendProgress
    <2>4. CASE WorkerFault(w)
        BY <2>4 DEF WorkerFault, Crash, Boot, Raise, StartFails, DockerFails, ContainerStays,
           OwnContainerStays
    <2> QED
        BY <1>8, <2>1, <2>2, <2>3, <2>4 DEF WorkerStep
<1>9. ASSUME NEW r \in RequestId, PostTask(r) \/ CancelTask(r) \/ LoseRequest(r)
      PROVE  tasks'[t].status = tasks[t].status /\ tasks'[t].attempt = tasks[t].attempt
    <2> USE DEF KeepTables, TypeOK, StoreTypeOK, Row
    <2>1. CASE InsertTask(r)
        BY <2>1 DEF InsertTask, Insert, Exists, RunsAttempt, RUNNING
    <2>2. CASE CancelInQueue(r)
        BY <2>2 DEF CancelInQueue, CancelQueued, Settle, RunsAttempt, RUNNING, QUEUED,
           storeVars
    <2>3. CASE FlagRunning(r)
        <3>1. tasks' = tasks \/ tasks' = [tasks EXCEPT ![req[r].task].cancel = TRUE]
            BY <2>3 DEF FlagRunning, RequestCancel, storeVars
        <3>2. ASSUME NEW u, tasks' = [tasks EXCEPT ![u].cancel = TRUE]
              PROVE  tasks'[t].status = tasks[t].status /\ tasks'[t].attempt = tasks[t].attempt
            <4>1. CASE u # t
                BY <3>2, <4>1
            <4>2. CASE u = t
                BY <3>2, <4>2
            <4> QED
                BY <4>1, <4>2
        <3> QED
            BY <3>1, <3>2
    <2> QED
        BY <1>9, <2>1, <2>2, <2>3
           DEF PostTask, CancelTask, LoseRequest, LookUp, InsertRefused, EnqueueTask,
               GetForCancel
<1>10. ASSUME NEW w \in WorkerId, WriteTotal(w)
       PROVE  tasks'[t].status = tasks[t].status /\ tasks'[t].attempt = tasks[t].attempt
    <2>1. PICK u, usage : tasks' = [tasks EXCEPT ![u].usage = usage]
        BY <1>10 DEF WriteTotal, AddUsage
    <2>2. CASE u # t
        BY <2>1, <2>2 DEF TypeOK, StoreTypeOK
    <2>3. CASE u = t
        BY <2>1, <2>3 DEF TypeOK, StoreTypeOK, Row
    <2> QED
        BY <2>2, <2>3
<1> QED
    BY <1>1, <1>2, <1>3, <1>4, <1>5, <1>6, <1>7, <1>8, <1>9, <1>10
       DEF Next, WorkerNext, ApiNext, LeaseExpires, LoseLease, RedisRestarts, OnlyBus,
           vars, storeVars

LEMMA FencedStep ==
    ASSUME TypeOK, InHand, AttemptsSeen, OneRunnerPerAttempt, NoneReclaimed,
           FencedOnlyAfterLeaseLoss, [Next]_vars
    PROVE  FencedOnlyAfterLeaseLoss'
<1> SUFFICES ASSUME lost' = 0, NEW w \in WorkerId, pc'[w] \in Running
             PROVE  /\ tasks'[job'[w].task].status = RUNNING
                    /\ tasks'[job'[w].task].attempt = job'[w].attempt
    BY DEF FencedOnlyAfterLeaseLoss, RunsAttempt, Mine, Running, RUNNING
<1>1. lost = 0
    BY LostGrows
<1>2. CASE pc[w] \in Running /\ job'[w] = job[w]
    <2>1. /\ RunsAttempt(Mine(w), job[w].attempt)
          /\ Mine(w) \in TaskId /\ job[w].attempt \in Attempt
        BY <1>1, <1>2 DEF FencedOnlyAfterLeaseLoss, InHand, LocalsOK, Holding
    <2>2. ASSUME NEW v \in WorkerId, Mine(v) = Mine(w), job[v].attempt = job[w].attempt,
                 pc[v] \in {"reclaim"} \cup Running
          PROVE  job[v] = job[w]
        <3>1. job[v] \in Job /\ job[w] \in Job
            BY <2>1, <2>2, TaskAssumption DEF TypeOK, WorkerTypeOK, Mine, NoJob
        <3> QED
            BY <2>2, <3>1 DEF Job, Mine
    <2>3. ~\E v \in WorkerId : /\ pc[v] = "reclaim"
                               /\ Mine(v) = Mine(w) /\ job[v].attempt = job[w].attempt
        BY <1>1, <1>2, <2>2 DEF NoneReclaimed
    <2>4. ASSUME NEW v \in WorkerId, FinishTask(v), Mine(v) = Mine(w),
                 job[v].attempt = job[w].attempt
          PROVE  FALSE
        <3>1. pc[v] \in Running /\ pc'[v] = "readlease"
            BY <2>4, LocationFacts DEF FinishTask, Step, At, GoTo, TypeOK, WorkerTypeOK
        <3>2. v = w
            BY <1>2, <2>2, <2>4, <3>1 DEF OneRunnerPerAttempt
        <3> QED
            BY <3>1, <3>2, LocationFacts
    <2>5. PICK t \in TaskId, a \in Attempt : t = Mine(w) /\ a = job[w].attempt
        BY <2>1
    <2>6. RunsAttempt(t, a)'
        <3>1. RunsAttempt(t, a)
            BY <2>1, <2>5
        <3>2. ~\E v \in WorkerId : pc[v] = "reclaim" /\ Mine(v) = t /\ job[v].attempt = a
            BY <2>3, <2>5
        <3>3. ~\E v \in WorkerId : FinishTask(v) /\ Mine(v) = t /\ job[v].attempt = a
            BY <2>4, <2>5
        <3> QED
            BY <3>1, <3>2, <3>3, StillRuns
    <2> QED
        BY <1>2, <2>5, <2>6 DEF RunsAttempt, Mine, RUNNING
<1>3. CASE ~(pc[w] \in Running /\ job'[w] = job[w])
    BY <1>3, HowRunning
<1> QED
    BY <1>2, <1>3

LEMMA FenceInit ==
    ASSUME Init
    PROVE  LeaseHeld /\ NoneReclaimed /\ FencedOnlyAfterLeaseLoss
BY LocationFacts DEF Init, WorkerInit, LeaseHeld, NoneReclaimed, FencedOnlyAfterLeaseLoss

LEMMA FenceInvariant == Spec => []FenceInv
<1> DEFINE Inv == LeaseHeld /\ NoneReclaimed /\ FencedOnlyAfterLeaseLoss
<1>1. Init => Inv
    BY FenceInit
<1>2. (RunnerInv /\ AbsentIsBlank) /\ Inv /\ [Next]_vars => Inv'
    BY LeaseStep, NoneReclaimedStep, FencedStep DEF RunnerInv
<1>3. (RunnerInv /\ AbsentIsBlank) /\ Inv => FenceInv
    BY DEF FenceInv
<1> QED
    BY <1>1, <1>2, <1>3, RunnerInvariant, PTL DEF Spec

(* As long as no live worker loses its lease, recovery never touches an      *)
(* attempt that is at work: not with any snapshot, however old, of any       *)
(* number of reconciling workers, whichever of them crash and restart.       *)
THEOREM NoLiveAttemptReclaimed == Spec => []FencedOnlyAfterLeaseLoss
BY FenceInvariant, PTL DEF FenceInv

-----------------------------------------------------------------------------
(* What clients are told *)

Looked(r) ==
    /\ req'[r].at = "done" /\ req'[r].answer = "existing"
    /\ req'[r].task \in FindByKey(req'[r].key)
Inserted(r) ==
    /\ req[r].at = "insert" /\ req'[r].at = "enqueue" /\ req'[r].answer = req[r].answer
    /\ req'[r].key = req[r].key
    /\ req'[r].task \in TaskId
    /\ Insert(req'[r].task, req[r].key)
    /\ \A q \in RequestId \ {r} : req'[q] = req[q]
Acknowledged(r) ==
    /\ req[r].at = "enqueue"
    /\ req'[r].at = "done" /\ req'[r].answer = "created"
    /\ req'[r].key = req[r].key /\ req'[r].task = req[r].task
Refused(r) ==
    /\ tasks' = tasks /\ req'[r].at = "done" /\ req'[r].answer = "noop"
    /\ req'[r].task \in TaskId /\ tasks[req'[r].task].status \in TERMINAL
Cancelled(r) ==
    /\ req'[r].at = "done" /\ req'[r].answer = "cancelled"
    /\ req'[r].task \in TaskId /\ tasks'[req'[r].task].status = CANCELLED
Otherwise(r) ==
    \/ req'[r].at = "done" /\ req'[r].answer \in {"conflict", "requested", "lost"}
    \/ req'[r].at \in {"insert", "cancel", "flag"} /\ req'[r].answer = "none"
RequestMoves(r) ==
    \/ req'[r] = req[r]
    \/ Looked(r) \/ Inserted(r) \/ Acknowledged(r) \/ Refused(r) \/ Cancelled(r) \/ Otherwise(r)

(* A request still on its way has no answer yet.                             *)
NoEarlyAnswer == \A r \in RequestId : req[r].at # "done" => req[r].answer = "none"

LEMMA RequestStep ==
    ASSUME TypeOK, InHand, NoEarlyAnswer, [Next]_vars, NEW r \in RequestId
    PROVE  RequestMoves(r)
<1> USE DEF RequestMoves, TypeOK, ApiTypeOK, Request, NoEarlyAnswer
<1>1. CASE UNCHANGED req
    BY <1>1
<1>2. ASSUME NEW q \in RequestId, NEW k \in Key \cup {NoKey}, LookUp(q, k)
      PROVE  RequestMoves(r)
    <2>1. CASE q # r
        BY <1>2, <2>1 DEF LookUp
    <2>2. CASE q = r
        <3>1. ASSUME NEW t \in FindByKey(k),
                     req' = [req EXCEPT ![r] =
                        [at |-> "done", task |-> t, key |-> k, answer |-> "existing"]]
              PROVE  Looked(r)
            BY <3>1 DEF Looked
        <3>2. CASE req' = [req EXCEPT ![r].at = "insert", ![r].key = k]
            BY <1>2, <2>2, <3>2 DEF LookUp, Otherwise
        <3> QED
            BY <1>2, <2>2, <3>1, <3>2 DEF LookUp
    <2> QED
        BY <2>1, <2>2
<1>3. ASSUME NEW q \in RequestId, InsertTask(q) PROVE RequestMoves(r)
    <2>1. PICK t \in TaskId : Insert(t, req[q].key) /\ Proceed(q, "enqueue", t)
        BY <1>3 DEF InsertTask
    <2>2. CASE q # r
        BY <2>1, <2>2 DEF Proceed
    <2>3. CASE q = r
        <3>1. /\ req'[r].at = "enqueue" /\ req'[r].task = t
              /\ req'[r].key = req[r].key /\ req'[r].answer = req[r].answer
              /\ \A p \in RequestId \ {r} : req'[p] = req[p]
            BY <2>1, <2>3 DEF Proceed
        <3> QED
            BY <1>3, <2>1, <2>3, <3>1 DEF InsertTask, Inserted
    <2> QED
        BY <2>2, <2>3
<1>4. ASSUME NEW q \in RequestId, EnqueueTask(q) PROVE RequestMoves(r)
    BY <1>4 DEF EnqueueTask, Reply, Acknowledged
<1>5. ASSUME NEW q \in RequestId, InsertRefused(q) \/ LoseRequest(q) \/ FlagRunning(q)
      PROVE  RequestMoves(r)
    BY <1>5 DEF InsertRefused, LoseRequest, FlagRunning, Reply, Otherwise
<1>6. ASSUME NEW q \in RequestId, NEW t \in TaskId, GetForCancel(q, t) PROVE RequestMoves(r)
    BY <1>6 DEF GetForCancel, Reply, Proceed, KeepTables, Otherwise, Refused
<1>7. ASSUME NEW q \in RequestId, CancelInQueue(q) PROVE RequestMoves(r)
    <2>1. CASE tasks[req[q].task].status # QUEUED
        BY <1>7, <2>1 DEF CancelInQueue, Proceed, Otherwise
    <2>2. CASE tasks[req[q].task].status = QUEUED
        <3>1. req[q].task \in TaskId
            BY <1>7 DEF CancelInQueue, InHand, RequestOK
        <3>2. tasks'[req[q].task].status = CANCELLED
            BY <1>7, <2>2, <3>1 DEF CancelInQueue, CancelQueued, Settle, StoreTypeOK, Row
        <3> QED
            BY <1>7, <2>2, <3>1, <3>2 DEF CancelInQueue, Reply, Cancelled
    <2> QED
        BY <2>1, <2>2
<1> QED
    BY <1>1, <1>2, <1>3, <1>4, <1>5, <1>6, <1>7
       DEF Next, ApiNext, PostTask, CancelTask, vars

LEMMA NoEarlyAnswerStep ==
    ASSUME TypeOK, InHand, NoEarlyAnswer, [Next]_vars
    PROVE  NoEarlyAnswer'
<1> SUFFICES ASSUME NEW r \in RequestId, req'[r].at # "done" PROVE req'[r].answer = "none"
    BY DEF NoEarlyAnswer
<1>1. RequestMoves(r)
    BY RequestStep
<1> QED
    BY <1>1
       DEF RequestMoves, Looked, Inserted, Acknowledged, Refused, Cancelled, Otherwise,
           NoEarlyAnswer

AnswerOK(r) ==
    /\ req[r].answer = "cancelled" => req[r].task \in TaskId /\ tasks[req[r].task].status = CANCELLED
    /\ req[r].answer = "noop" => req[r].task \in TaskId /\ Terminal(req[r].task)

AnswersKept == \A r \in RequestId : AnswerOK(r)

LEMMA AnswersStep ==
    ASSUME TypeOK, InHand, NoEarlyAnswer, AnswersKept, [Next]_vars
    PROVE  AnswersKept'
<1> SUFFICES ASSUME NEW r \in RequestId PROVE AnswerOK(r)'
    BY DEF AnswersKept
<1>1. RequestMoves(r)
    BY RequestStep
<1>2. \A t \in TaskId : tasks[t].status \in TERMINAL => tasks'[t].status = tasks[t].status
    BY StepUsesStore, RowStep
       DEF TypeOK, RowMoves, Created, Claimed, GivenBack, Ended, Flagged, Billed,
           QUEUED, RUNNING, TERMINAL, SUCCEEDED, FAILED, CANCELLED
<1>3. CASE req'[r] = req[r]
    BY <1>2, <1>3 DEF AnswersKept, AnswerOK, Terminal, TERMINAL
<1>4. CASE Inserted(r)
    BY <1>4 DEF Inserted, NoEarlyAnswer, AnswerOK
<1>5. CASE Refused(r)
    BY <1>5 DEF Refused, AnswerOK, Terminal, TERMINAL
<1>6. CASE Cancelled(r)
    BY <1>6 DEF Cancelled, AnswerOK, CANCELLED
<1>7. CASE Looked(r) \/ Acknowledged(r) \/ Otherwise(r)
    BY <1>7 DEF Looked, Acknowledged, Otherwise, AnswerOK
<1> QED
    BY <1>1, <1>3, <1>4, <1>5, <1>6, <1>7 DEF RequestMoves

(* Whoever was told that a task is cancelled, or that it had ended already,  *)
(* was told the truth for good: no worker with an old lease, an old id or an *)
(* old attempt brings it back.                                               *)
THEOREM CancelAnswers == Spec => []CancelAnswersHold
<1> DEFINE Inv == NoEarlyAnswer /\ AnswersKept
<1>1. Init => Inv
    BY DEF Init, ApiInit, NoEarlyAnswer, AnswersKept, AnswerOK
<1>2. (TypeOK /\ InHand) /\ Inv /\ [Next]_vars => Inv'
    BY NoEarlyAnswerStep, AnswersStep
<1>3. Inv => CancelAnswersHold
    BY DEF AnswersKept, AnswerOK, CancelAnswersHold
<1> QED
    BY <1>1, <1>2, <1>3, InHandInvariant, PTL DEF Spec

-----------------------------------------------------------------------------
(* Idempotency keys *)

(* A request that names a task under a key names the task with that key, and *)
(* a task that was created has one request to its name.                      *)
Owns(r) == req[r].at = "enqueue" \/ req[r].answer = "created"

NamesItsKey ==
    /\ \A r \in RequestId : Owns(r) => req[r].task \in TaskId /\ Exists(req[r].task)
    /\ \A r \in RequestId :
        (Owns(r) \/ req[r].answer = "existing") /\ req[r].key \in Key
            => req[r].task \in TaskId /\ tasks[req[r].task].key = req[r].key
    /\ \A q, r \in RequestId : q # r /\ Owns(q) /\ Owns(r) => req[q].task # req[r].task

LEMMA KeyStays ==
    ASSUME TypeOK, InHand, [Next]_vars, NEW t \in TaskId, Exists(t)
    PROVE  tasks'[t].status # "absent" /\ tasks'[t].key = tasks[t].key
<1>1. RowMoves(t)
    BY StepUsesStore, RowStep DEF TypeOK
<1> QED
    BY <1>1 DEF RowMoves, Created, Claimed, GivenBack, Ended, Flagged, Billed, Exists,
       QUEUED, RUNNING, TERMINAL, SUCCEEDED, FAILED, CANCELLED

(* A row that was never created has no key.                                  *)
AbsentHasNoKey == \A t \in TaskId : ~Exists(t) => tasks[t].key = NoKey

LEMMA AbsentHasNoKeyStep ==
    ASSUME TypeOK, InHand, AbsentHasNoKey, [Next]_vars
    PROVE  AbsentHasNoKey'
<1> SUFFICES ASSUME NEW t \in TaskId, tasks'[t].status = "absent" PROVE tasks'[t].key = NoKey
    BY DEF AbsentHasNoKey, Exists
<1>1. RowMoves(t)
    BY StepUsesStore, RowStep DEF TypeOK
<1> QED
    BY <1>1 DEF AbsentHasNoKey, RowMoves, Created, Claimed, GivenBack, Ended, Flagged, Billed,
       Exists, QUEUED, RUNNING, TERMINAL, SUCCEEDED, FAILED, CANCELLED

LEMMA NamesStep ==
    ASSUME TypeOK, InHand, NoEarlyAnswer, AbsentHasNoKey, NamesItsKey, [Next]_vars
    PROVE  NamesItsKey'
<1>1. ASSUME NEW r \in RequestId
      PROVE  RequestMoves(r)
    BY RequestStep
<1>2. ASSUME NEW r \in RequestId, Inserted(r)
      PROVE  /\ ~Exists(req'[r].task) /\ tasks'[req'[r].task].status # "absent"
             /\ tasks'[req'[r].task].key = req'[r].key
    BY <1>2 DEF Inserted, Insert, Exists, NewRow, QUEUED, TypeOK, StoreTypeOK
<1>3. ASSUME NEW r \in RequestId, Owns(r)'
      PROVE  (Owns(r) /\ req'[r].task = req[r].task /\ req'[r].key = req[r].key)
                \/ Inserted(r)
    BY <1>1, <1>3 DEF Owns, RequestMoves, Looked, Acknowledged, Refused, Cancelled, Otherwise
<1>4. ASSUME NEW r \in RequestId, Owns(r)'
      PROVE  req'[r].task \in TaskId /\ tasks'[req'[r].task].status # "absent"
    BY <1>2, <1>3, <1>4, KeyStays DEF NamesItsKey, Inserted
<1>5. ASSUME NEW r \in RequestId, Owns(r)', req'[r].key \in Key
      PROVE  req'[r].task \in TaskId /\ tasks'[req'[r].task].key = req'[r].key
    BY <1>2, <1>3, <1>5, KeyStays DEF NamesItsKey, Inserted
<1>6. ASSUME NEW r \in RequestId, req'[r].answer = "existing", req'[r].key \in Key
      PROVE  req'[r].task \in TaskId /\ tasks'[req'[r].task].key = req'[r].key
    <2>1. (req'[r] = req[r] \/ Inserted(r)) \/ Looked(r)
        BY <1>1, <1>6 DEF RequestMoves, Acknowledged, Refused, Cancelled, Otherwise
    <2>2. ~Inserted(r)
        BY <1>6 DEF Inserted, NoEarlyAnswer
    <2>3. req'[r].task \in TaskId /\ tasks[req'[r].task].key = req'[r].key
        BY <1>6, <2>1, <2>2 DEF Looked, FindByKey, HasKey, NamesItsKey
    <2>4. Exists(req'[r].task)
        BY <1>6, <2>3, KeyAssumption DEF AbsentHasNoKey
    <2> QED
        BY <2>3, <2>4, KeyStays
<1>7. ASSUME NEW q \in RequestId, NEW r \in RequestId, q # r, Owns(q)', Owns(r)'
      PROVE  req'[q].task # req'[r].task
    <2>1. ASSUME NEW x \in RequestId, NEW y \in RequestId, x # y, Inserted(x), Owns(y)'
          PROVE  req'[x].task # req'[y].task
        <3>1. req'[y] = req[y]
            BY <2>1 DEF Inserted
        <3>2. Owns(y)
            BY <2>1, <3>1 DEF Owns
        <3> QED
            BY <1>2, <2>1, <3>1, <3>2 DEF NamesItsKey
    <2> QED
        BY <1>3, <1>7, <2>1 DEF NamesItsKey
<1> QED
    BY <1>4, <1>5, <1>6, <1>7 DEF NamesItsKey, Owns, Exists

LEMMA NamesInvariant == Spec => [](NoEarlyAnswer /\ AbsentHasNoKey /\ NamesItsKey)
<1> DEFINE Inv == NoEarlyAnswer /\ AbsentHasNoKey /\ NamesItsKey
<1>1. Init => Inv
    BY DEF Init, StoreInit, ApiInit, NoEarlyAnswer, AbsentHasNoKey, NamesItsKey, Owns,
       Exists, NoRow, NewRow
<1>2. (TypeOK /\ InHand) /\ Inv /\ [Next]_vars => Inv'
    BY NoEarlyAnswerStep, AbsentHasNoKeyStep, NamesStep
<1> QED
    BY <1>1, <1>2, InHandInvariant, PTL DEF Spec

(* Two submissions under one key that are both answered name the same task,  *)
(* and one of them at most is told that it created it, in whatever order     *)
(* their lookups and inserts come.                                           *)
THEOREM KeyAnswers == Spec => []SameKeySameTask
<1>1. ASSUME NoEarlyAnswer, AbsentHasNoKey, NamesItsKey, OneTaskPerKey
      PROVE  SameKeySameTask
    <2> SUFFICES ASSUME NEW q \in RequestId, NEW r \in RequestId, q # r,
                        Submitted(q), Submitted(r),
                        req[q].key = req[r].key, req[q].key \in Key
                 PROVE  /\ req[q].task = req[r].task
                        /\ {req[q].answer, req[r].answer} # {"created"}
        BY DEF SameKeySameTask
    <2>1. req[q].task = req[r].task
        BY <1>1, KeyAssumption DEF NamesItsKey, Owns, Submitted, OneTaskPerKey
    <2>2. ~(req[q].answer = "created" /\ req[r].answer = "created")
        BY <1>1, <2>1 DEF NamesItsKey, Owns
    <2> QED
        BY <2>1, <2>2
<1>2. NoEarlyAnswer /\ AbsentHasNoKey /\ NamesItsKey /\ OneTaskPerKey => SameKeySameTask
    BY <1>1
<1> QED
    BY <1>2, NamesInvariant, PlatformUsesStore, KeyInvariant, PTL DEF UsesStore
=============================================================================

------------------------ MODULE PlatformBoundsProofs ------------------------
(* Theorems of Platform about capacity: how many leases there are at once,   *)
(* and how often one id stands in the queue.  Both count workers, so they    *)
(* need the one assumption that there are finitely many of them.             *)
EXTENDS PlatformProofs, FiniteSetTheorems, FunctionTheorems

-----------------------------------------------------------------------------
(* The leases *)

(* The workers that have passed the gate and taken no lease yet.             *)
Admitted == {w \in WorkerId : pc[w] \in {"pop", "acquire"}}

(* Each of them may still take one more lease than the gate has counted.     *)
LeaseBudget ==
    /\ IsFiniteSet(ActiveLeases)
    /\ Cardinality(ActiveLeases) + Cardinality(Admitted)
            <= MaxConcurrency + Cardinality(WorkerId) - 1

PassesGate(w) == GateOpen(w) /\ ActiveLeases' = ActiveLeases
TakesSlot(w) ==
    /\ w \in Admitted /\ Admitted' \subseteq Admitted \ {w}
    /\ \E t \in TaskId : ActiveLeases' = ActiveLeases \cup {t}
FreesSlots == Admitted' \subseteq Admitted /\ ActiveLeases' \subseteq ActiveLeases

LEMMA AdmittedMoves ==
    ASSUME TypeOK, NEW w \in WorkerId, WorkerStep(w) \/ WorkerFault(w), ~GateOpen(w)
    PROVE  Admitted' \subseteq Admitted
<1> USE LocationFacts, AfterUnwindFacts
    DEF Step, At, GoTo, Restart, KeepLocals, locals, LeaveTry, TypeOK, WorkerTypeOK, Admitted
<1>1. CASE ReadActive(w) \/ ListOrphans(w) \/ RemoveFound(w) \/ Swept(w) \/ Reconcile(w)
    BY <1>1 DEF ReadActive, ListOrphans, RemoveFound, Swept, Reconcile, ScanRunning,
       CheckLease, RowsDone, GiveBack, GiveUp, ReclaimLost, PushReclaimed, ListQueue,
       MatchQueued, Repush, Reconciled
<1>2. CASE PollOnce(w)
    BY <1>2 DEF PollOnce, GateShut, PopTask, PopNothing, TakeLease,
       LeaseTaken, ClaimTask, ClaimRefused, ListPrior, PriorCleared
<1>3. CASE RunAttempt(w)
    BY <1>3 DEF RunAttempt, Announce, StartSandbox, Emit, RunEnds, Unwind, ReadTotal,
       WriteTotal, FinishTask, FinishRefused, ReadLease, DropLease
<1>4. CASE WorkerFault(w)
    BY <1>4 DEF WorkerFault, Crash, Boot, Raise, StartFails, DockerFails, ContainerStays,
       OwnContainerStays
<1> QED
    BY <1>1, <1>2, <1>3, <1>4 DEF WorkerStep

LEMMA ActiveMoves ==
    ASSUME TypeOK, InHand, [Next]_vars, \A w \in WorkerId : ~TakeLease(w)
    PROVE  ActiveLeases' \subseteq ActiveLeases
<1> USE DEF OnlyStore, OnlySandbox, KeepShared, ActiveLeases, Leased
<1>1. CASE UNCHANGED lease
    BY <1>1
<1>2. ASSUME NEW t \in TaskId, DeleteLease(t) PROVE ActiveLeases' \subseteq ActiveLeases
    BY <1>2 DEF DeleteLease, TypeOK, BusTypeOK
<1>3. CASE RedisRestarts
    BY <1>3 DEF RedisRestarts, Wipe
<1>4. ASSUME NEW w \in WorkerId, DropLease(w) PROVE ActiveLeases' \subseteq ActiveLeases
    <2>1. Mine(w) \in TaskId
        BY <1>4, LocationFacts DEF DropLease, At, InHand, LocalsOK
    <2> QED
        BY <1>2, <1>4, <2>1 DEF DropLease
<1>5. ASSUME NEW w \in WorkerId, WorkerStep(w) \/ WorkerFault(w), ~DropLease(w)
      PROVE  UNCHANGED lease
    <2>1. CASE ReadActive(w) \/ ListOrphans(w) \/ RemoveFound(w) \/ Swept(w) \/ Reconcile(w)
        BY <2>1 DEF ReadActive, ListOrphans, RemoveFound, Swept, Reconcile, ScanRunning,
           CheckLease, RowsDone, GiveBack, GiveUp, ReclaimLost, PushReclaimed, ListQueue,
           MatchQueued, Repush, Reconciled, Enqueue
    <2>2. CASE PollOnce(w)
        BY <2>2 DEF PollOnce, GateOpen, GateShut, PopTask, PopNothing, LeaseTaken,
           ClaimTask, ClaimRefused, ListPrior, PriorCleared, Dequeue
    <2>3. CASE RunAttempt(w)
        BY <1>5, <2>3 DEF RunAttempt, Announce, StartSandbox, Emit, RunEnds, Unwind,
           ReadTotal, WriteTotal, FinishTask, FinishRefused, ReadLease
    <2>4. CASE WorkerFault(w)
        BY <2>4 DEF WorkerFault, Crash, Boot, Raise, StartFails, DockerFails, ContainerStays,
           OwnContainerStays
    <2> QED
        BY <1>5, <2>1, <2>2, <2>3, <2>4 DEF WorkerStep
<1>6. ApiNext => UNCHANGED lease
    BY DEF ApiNext, PostTask, CancelTask, LoseRequest, LookUp, InsertTask, InsertRefused,
       EnqueueTask, Enqueue, GetForCancel, CancelInQueue, FlagRunning, KeepTables
<1> QED
    BY <1>1, <1>2, <1>3, <1>4, <1>5, <1>6
       DEF Next, WorkerNext, LeaseExpires, LoseLease, vars, busVars

LEMMA SlotsMove ==
    ASSUME TypeOK, InHand, [Next]_vars
    PROVE  FreesSlots \/ \E w \in WorkerId : PassesGate(w) \/ TakesSlot(w)
<1>1. ASSUME NEW w \in WorkerId, TakeLease(w) PROVE TakesSlot(w)
    <2>1. Mine(w) \in TaskId
        BY <1>1 DEF TakeLease, Step, At, InHand, LocalsOK
    <2>2. ActiveLeases' = ActiveLeases \cup {Mine(w)}
        BY <1>1, <2>1, WorkerAssumption
           DEF TakeLease, AcquireLease, ActiveLeases, Leased, TypeOK, BusTypeOK
    <2>3. w \in Admitted /\ Admitted' \subseteq Admitted \ {w}
        BY <1>1 DEF TakeLease, Step, At, GoTo, Admitted, TypeOK, WorkerTypeOK
    <2> QED
        BY <2>1, <2>2, <2>3 DEF TakesSlot
<1>2. ASSUME NEW w \in WorkerId, GateOpen(w) PROVE PassesGate(w)
    BY <1>2 DEF GateOpen, PassesGate, KeepShared, ActiveLeases, Leased
<1>3. ASSUME \A w \in WorkerId : ~TakeLease(w) /\ ~GateOpen(w)
      PROVE  FreesSlots
    <2>1. UNCHANGED pc => Admitted' \subseteq Admitted
        BY DEF Admitted
    <2>2. Admitted' \subseteq Admitted
        BY <1>3, <2>1, AdmittedMoves
           DEF Next, WorkerNext, LeaseExpires, LoseLease, RedisRestarts, Losing,
               workerVars, locals, vars
    <2> QED
        BY <1>3, <2>2, ActiveMoves DEF FreesSlots
<1> QED
    BY <1>1, <1>2, <1>3

LEMMA LeaseBudgetStep ==
    ASSUME TypeOK, InHand, LeaseBudget, [Next]_vars
    PROVE  LeaseBudget'
<1> DEFINE N == Cardinality(WorkerId)
           A == Admitted
           L == ActiveLeases
<1>0. /\ \A S : S \subseteq WorkerId => IsFiniteSet(S) /\ Cardinality(S) \in Nat
                                        /\ Cardinality(S) <= N
      /\ N \in Nat /\ MaxConcurrency \in Nat \ {0}
    BY WorkersAreFinite, FS_Subset, FS_CardinalityType, ConcurrencyAssumption
<1>1. /\ A \subseteq WorkerId /\ A' \subseteq WorkerId
      /\ IsFiniteSet(L) /\ Cardinality(L) \in Nat
      /\ Cardinality(L) + Cardinality(A) <= MaxConcurrency + N - 1
    BY FS_CardinalityType DEF Admitted, LeaseBudget
<1> SUFFICES /\ IsFiniteSet(L')
             /\ Cardinality(L') + Cardinality(A') <= MaxConcurrency + N - 1
    BY DEF LeaseBudget
<1>2. ASSUME FreesSlots
      PROVE  IsFiniteSet(L') /\ Cardinality(L') + Cardinality(A') <= MaxConcurrency + N - 1
    <2>1. IsFiniteSet(L') /\ Cardinality(L') <= Cardinality(L) /\ Cardinality(L') \in Nat
        BY <1>1, <1>2, FS_Subset, FS_CardinalityType DEF FreesSlots
    <2>2. Cardinality(A') <= Cardinality(A) /\ Cardinality(A) \in Nat /\ Cardinality(A') \in Nat
        BY <1>0, <1>1, <1>2, FS_Subset DEF FreesSlots
    <2> HIDE DEF A, L, N
    <2> QED
        BY <1>0, <1>1, <2>1, <2>2
<1>3. ASSUME NEW w \in WorkerId, PassesGate(w)
      PROVE  IsFiniteSet(L') /\ Cardinality(L') + Cardinality(A') <= MaxConcurrency + N - 1
    <2>1. L' = L /\ ~(Cardinality(L) >= MaxConcurrency)
        BY <1>3 DEF PassesGate, GateOpen, AtCapacity
    <2>2. Cardinality(A') \in Nat /\ Cardinality(A') <= N
        BY <1>0, <1>1
    <2> HIDE DEF A, L, N
    <2> QED
        BY <1>0, <1>1, <2>1, <2>2
<1>4. ASSUME NEW w \in WorkerId, TakesSlot(w)
      PROVE  IsFiniteSet(L') /\ Cardinality(L') + Cardinality(A') <= MaxConcurrency + N - 1
    <2>1. PICK t \in TaskId : L' = L \cup {t}
        BY <1>4 DEF TakesSlot
    <2>2. IsFiniteSet(L') /\ Cardinality(L') \in Nat /\ Cardinality(L') <= Cardinality(L) + 1
        <3> HIDE DEF L
        <3>1. /\ IsFiniteSet(L \cup {t})
              /\ Cardinality(L \cup {t})
                    = IF t \in L THEN Cardinality(L) ELSE Cardinality(L) + 1
            BY <1>1, FS_AddElement
        <3>2. Cardinality(L \cup {t}) \in Nat /\ Cardinality(L \cup {t}) <= Cardinality(L) + 1
            BY <1>1, <3>1
        <3> QED
            BY <2>1, <3>1, <3>2
    <2>3. /\ IsFiniteSet(A \ {w}) /\ Cardinality(A \ {w}) = Cardinality(A) - 1
          /\ Cardinality(A) \in Nat
        BY <1>0, <1>1, <1>4, FS_RemoveElement DEF TakesSlot
    <2>4. Cardinality(A') <= Cardinality(A \ {w}) /\ Cardinality(A') \in Nat
        BY <1>0, <1>1, <1>4, <2>3, FS_Subset DEF TakesSlot
    <2> HIDE DEF A, L, N
    <2> QED
        BY <1>0, <1>1, <2>2, <2>3, <2>4
<1> QED
    BY <1>2, <1>3, <1>4, SlotsMove

(* However the workers pass the gate at once, the tasks under a lease exceed *)
(* CAP_MAX_CONCURRENCY by less than the number of workers.                   *)
THEOREM LeasesStayBounded == Spec => []LeasesBounded
<1>1. Init => LeaseBudget
    <2> SUFFICES ASSUME Init PROVE LeaseBudget
        OBVIOUS
    <2>1. ActiveLeases = {} /\ Admitted = {}
        BY DEF Init, BusInit, WorkerInit, ActiveLeases, Leased, Admitted
    <2> QED
        BY <2>1, FS_EmptySet, FS_CardinalityType, WorkersAreFinite, ConcurrencyAssumption
           DEF LeaseBudget
<1>2. (TypeOK /\ InHand) /\ LeaseBudget /\ [Next]_vars => LeaseBudget'
    BY LeaseBudgetStep
<1>3. LeaseBudget => LeasesBounded
    <2> SUFFICES ASSUME LeaseBudget PROVE LeasesBounded
        OBVIOUS
    <2>1. /\ Cardinality(ActiveLeases) \in Nat /\ Cardinality(WorkerId) \in Nat
          /\ Cardinality(Admitted) \in Nat
        BY FS_CardinalityType, FS_Subset, WorkersAreFinite DEF LeaseBudget, Admitted
    <2> QED
        BY <2>1, ConcurrencyAssumption DEF LeaseBudget, LeasesBounded
<1> QED
    BY <1>1, <1>2, <1>3, InHandInvariant, PTL DEF Spec

-----------------------------------------------------------------------------
(* Occurrences of an id in a sequence *)

Places(q, t) == {i \in DOMAIN q : q[i] = t}

LEMMA PlacesFinite ==
    ASSUME NEW S, NEW q \in Seq(S), NEW t
    PROVE  IsFiniteSet(Places(q, t)) /\ Cardinality(Places(q, t)) \in Nat
<1>1. DOMAIN q = 1 .. Len(q) /\ Len(q) \in Nat
    OBVIOUS
<1>2. IsFiniteSet(1 .. Len(q))
    BY <1>1, FS_Interval
<1>3. Places(q, t) \subseteq 1 .. Len(q)
    BY <1>1 DEF Places
<1> QED
    BY <1>2, <1>3, FS_Subset, FS_CardinalityType

LEMMA PlacesAppend ==
    ASSUME NEW S, NEW q \in Seq(S), NEW t \in S, NEW u \in S
    PROVE  Cardinality(Places(Append(q, u), t)) =
                Cardinality(Places(q, t)) + (IF u = t THEN 1 ELSE 0)
<1> DEFINE n == Len(q)
<1>1. /\ DOMAIN q = 1 .. n /\ DOMAIN Append(q, u) = 1 .. n + 1 /\ n \in Nat
      /\ \A i \in 1 .. n : Append(q, u)[i] = q[i]
      /\ Append(q, u)[n + 1] = u
    BY AppendFacts
<1>2. /\ IsFiniteSet(Places(q, t)) /\ Cardinality(Places(q, t)) \in Nat
      /\ n + 1 \notin Places(q, t)
    <2>1. n + 1 \notin Places(q, t)
        BY <1>1 DEF Places
    <2> QED
        BY <2>1, PlacesFinite
<1>3. CASE u = t
    <2>1. Places(Append(q, u), t) = Places(q, t) \cup {n + 1}
        BY <1>1, <1>3 DEF Places
    <2> QED
        BY <1>2, <1>3, <2>1, FS_AddElement
<1>4. CASE u # t
    <2>1. Places(Append(q, u), t) = Places(q, t)
        BY <1>1, <1>4 DEF Places
    <2> QED
        BY <1>2, <1>4, <2>1
<1> QED
    BY <1>3, <1>4

LEMMA PlacesTail ==
    ASSUME NEW S, NEW q \in Seq(S), q # <<>>, NEW t
    PROVE  Cardinality(Places(Tail(q), t)) <= Cardinality(Places(q, t))
<1> DEFINE shift == [i \in Places(Tail(q), t) |-> i + 1]
<1>1. /\ Tail(q) \in Seq(S) /\ Len(q) \in Nat \ {0}
      /\ DOMAIN q = 1 .. Len(q) /\ DOMAIN Tail(q) = 1 .. Len(q) - 1
      /\ \A i \in 1 .. Len(q) - 1 : Tail(q)[i] = q[i + 1]
    OBVIOUS
<1>2. \A i \in Places(Tail(q), t) : i \in Nat /\ i + 1 \in Places(q, t)
    BY <1>1 DEF Places
<1>3. shift \in Injection(Places(Tail(q), t), Places(q, t))
    <2>1. shift \in [Places(Tail(q), t) -> Places(q, t)]
        BY <1>2
    <2>2. \A i, j \in Places(Tail(q), t) : shift[i] = shift[j] => i = j
        BY <1>2
    <2> HIDE DEF shift
    <2> QED
        BY <2>1, <2>2, Fun_IsInj
<1> HIDE DEF shift
<1> QED
    BY <1>3, PlacesFinite, FS_Injection

LEMMA CopiesArePlaces ==
    /\ \A t \in TaskId : Copies(t) = Cardinality(Places(queue, t))
    /\ \A t \in TaskId : Copies(t)' = Cardinality(Places(queue', t))
BY DEF Copies, Places

-----------------------------------------------------------------------------
(* The queue *)

(* The workers that may still push the id of a task: those that go through    *)
(* what they read of the queue without it, and the one that gave it back.    *)
CanPush(w, t) ==
    \/ pc[w] = "match" /\ t \notin ids[w]
    \/ pc[w] = "repush" /\ t \in ids[w]
    \/ pc[w] = "push" /\ Mine(w) = t

Pushers(t) == {w \in WorkerId : CanPush(w, t)}

(* The push of the request that creates the task, and those of the attempts  *)
(* that may still be given back.                                             *)
Posting(t) == {r \in RequestId : req[r].at = "enqueue" /\ req[r].task = t}

Waiting(t) == IF ~Exists(t) \/ Posting(t) # {} THEN 1 ELSE 0

Left(t) ==
    IF tasks[t].status = "absent" THEN MaxAttempts - 1
    ELSE IF tasks[t].status = QUEUED THEN MaxAttempts - 1 - tasks[t].attempt
    ELSE IF tasks[t].status = RUNNING THEN MaxAttempts - tasks[t].attempt
    ELSE 0

(* What stands in the queue and what may still be added to it.               *)
PushBudget ==
    \A t \in TaskId :
        Copies(t) + Cardinality(Pushers(t)) + Waiting(t) + Left(t)
            <= Cardinality(WorkerId) + MaxAttempts

LEMMA LeftFalls ==
    ASSUME TypeOK, InHand, AbsentIsBlank, QueuedHasAttemptLeft, [Next]_vars, NEW t \in TaskId
    PROVE  /\ Left(t) \in 0 .. MaxAttempts - 1
           /\ Left(t)' \in Int /\ Left(t)' <= Left(t)
<1>1. RowMoves(t)
    BY StepUsesStore, RowStep DEF TypeOK
<1>2. /\ tasks[t].attempt \in 0 .. MaxAttempts /\ tasks'[t].attempt \in 0 .. MaxAttempts
      /\ MaxAttempts \in Nat \ {0}
    BY TypesStep, MaxAttemptsAssumption DEF TypeOK, StoreTypeOK, Row
<1>3. /\ tasks[t].status = QUEUED => tasks[t].attempt < MaxAttempts
      /\ tasks[t].status = RUNNING => tasks[t].attempt >= 1
    BY DEF QueuedHasAttemptLeft, InHand, RunningHasAttempt, Attempt
<1>4. Left(t) \in 0 .. MaxAttempts - 1
    BY <1>2, <1>3 DEF Left
<1>5. Left(t)' = IF tasks'[t].status = "absent" THEN MaxAttempts - 1
                 ELSE IF tasks'[t].status = QUEUED THEN MaxAttempts - 1 - tasks'[t].attempt
                 ELSE IF tasks'[t].status = RUNNING THEN MaxAttempts - tasks'[t].attempt
                 ELSE 0
    BY DEF Left, QUEUED, RUNNING
<1>6. Left(t)' <= Left(t)
    BY <1>1, <1>2, <1>3, <1>5
       DEF Left, RowMoves, Created, Claimed, GivenBack, Ended, Flagged, Billed,
           QUEUED, RUNNING, TERMINAL, SUCCEEDED, FAILED, CANCELLED
<1> QED
    BY <1>2, <1>4, <1>5, <1>6

LEMMA WaitingFalls ==
    ASSUME TypeOK, InHand, NoEarlyAnswer, [Next]_vars, NEW t \in TaskId
    PROVE  Waiting(t) \in {0, 1} /\ Waiting(t)' \in {0, 1} /\ Waiting(t)' <= Waiting(t)
<1>1. ASSUME Waiting(t) = 0 PROVE Waiting(t)' = 0
    <2>1. Exists(t) /\ Posting(t) = {}
        BY <1>1 DEF Waiting
    <2>2. tasks'[t].status # "absent"
        BY <2>1, KeyStays
    <2>3. ASSUME NEW r \in RequestId, req'[r].at = "enqueue", req'[r].task = t PROVE FALSE
        <3>1. req'[r] = req[r] \/ Inserted(r)
            BY <2>3, RequestStep
               DEF RequestMoves, Looked, Acknowledged, Refused, Cancelled, Otherwise
        <3> QED
            BY <2>1, <2>3, <3>1 DEF Posting, Inserted, Insert
    <2> QED
        BY <2>2, <2>3 DEF Waiting, Exists, Posting
<1> QED
    BY <1>1 DEF Waiting

Quiet(t) == Copies(t)' <= Copies(t) /\ Pushers(t)' \subseteq Pushers(t)
Pushed(w, t) ==
    /\ w \in Pushers(t) /\ Pushers(t)' \subseteq Pushers(t) \ {w}
    /\ Copies(t)' = Copies(t) + 1
Returned(w, t) ==
    /\ w \in WorkerId /\ Pushers(t)' \subseteq Pushers(t) \cup {w}
    /\ Copies(t)' = Copies(t)
    /\ Left(t)' < Left(t)
Unlisted(t) == Copies(t)' = 0
Posted(t) ==
    /\ Waiting(t) = 1 /\ Waiting(t)' = 0
    /\ Pushers(t)' = Pushers(t)
    /\ Copies(t)' = Copies(t) + 1
QueueMoves(t) ==
    \/ Quiet(t) \/ Unlisted(t) \/ Posted(t)
    \/ \E w \in WorkerId : Pushed(w, t) \/ Returned(w, t)

LEMMA CopiesEnqueued ==
    ASSUME BusTypeOK, NEW u \in TaskId, Enqueue(u), NEW t \in TaskId
    PROVE  /\ Copies(t) \in Nat
           /\ Copies(t)' = Copies(t) + (IF u = t THEN 1 ELSE 0)
BY CopiesArePlaces, PlacesFinite, PlacesAppend DEF BusTypeOK, Enqueue

LEMMA CopiesDequeued ==
    ASSUME BusTypeOK, queue' \in {queue, <<>>} \/ (queue # <<>> /\ queue' = Tail(queue)),
           NEW t \in TaskId
    PROVE  Copies(t)' <= Copies(t)
<1>1. queue \in Seq(TaskId)
    BY DEF BusTypeOK
<1>2. CASE queue' = queue
    BY <1>1, <1>2, CopiesArePlaces, PlacesFinite
<1>3. CASE queue' = <<>>
    <2>1. Places(queue', t) = {}
        BY <1>3 DEF Places
    <2>2. Copies(t)' = 0
        BY <2>1, CopiesArePlaces, FS_EmptySet
    <2>3. Copies(t) \in Nat
        BY <1>1, CopiesArePlaces, PlacesFinite
    <2> QED
        BY <2>2, <2>3
<1>4. CASE queue # <<>> /\ queue' = Tail(queue)
    BY <1>1, <1>4, CopiesArePlaces, PlacesTail
<1> QED
    BY <1>2, <1>3, <1>4

LEMMA QueueShrinks ==
    ASSUME [Next]_vars, \A w \in WorkerId : ~PushReclaimed(w) /\ ~Repush(w),
           \A r \in RequestId : ~EnqueueTask(r)
    PROVE  queue' \in {queue, <<>>} \/ (queue # <<>> /\ queue' = Tail(queue))
<1> USE DEF OnlyStore, OnlySandbox, KeepShared
<1>1. ASSUME NEW w \in WorkerId, WorkerStep(w) \/ WorkerFault(w)
      PROVE  UNCHANGED queue \/ (queue # <<>> /\ queue' = Tail(queue))
    <2>1. CASE ReadActive(w) \/ ListOrphans(w) \/ RemoveFound(w) \/ Swept(w) \/ Reconcile(w)
        BY <2>1 DEF ReadActive, ListOrphans, RemoveFound, Swept, Reconcile, ScanRunning,
           CheckLease, RowsDone, GiveBack, GiveUp, ReclaimLost, ListQueue, MatchQueued,
           Reconciled
    <2>2. CASE PollOnce(w)
        BY <2>2 DEF PollOnce, GateOpen, GateShut, PopTask, PopNothing, TakeLease,
           AcquireLease, LeaseTaken, ClaimTask, ClaimRefused, ListPrior, PriorCleared, Dequeue
    <2>3. CASE RunAttempt(w)
        BY <2>3 DEF RunAttempt, Announce, StartSandbox, Emit, RunEnds, Unwind, ReadTotal,
           WriteTotal, FinishTask, FinishRefused, ReadLease, DropLease, DeleteLease
    <2>4. CASE WorkerFault(w)
        BY <2>4 DEF WorkerFault, Crash, Boot, Raise, StartFails, DockerFails, ContainerStays,
           OwnContainerStays
    <2> QED
        BY <1>1, <2>1, <2>2, <2>3, <2>4 DEF WorkerStep
<1>2. CASE RedisRestarts
    BY <1>2 DEF RedisRestarts, Wipe
<1>3. CASE ~RedisRestarts /\ ~\E w \in WorkerId : WorkerStep(w) \/ WorkerFault(w)
    BY <1>3 DEF Next, WorkerNext, LeaseExpires, LoseLease, DeleteLease, ApiNext, PostTask,
       CancelTask, LoseRequest, LookUp, InsertTask, InsertRefused, GetForCancel,
       CancelInQueue, FlagRunning, KeepTables, vars, busVars
<1> QED
    BY <1>1, <1>2, <1>3

LEMMA PushersFall ==
    ASSUME TypeOK, NEW w \in WorkerId, WorkerStep(w) \/ WorkerFault(w),
           ~ListQueue(w), ~GiveBack(w), NEW t \in TaskId
    PROVE  Pushers(t)' \subseteq Pushers(t)
<1> USE LocationFacts, AfterUnwindFacts
    DEF Step, At, GoTo, Restart, KeepLocals, locals, LeaveTry, TypeOK, WorkerTypeOK, Pushers,
        CanPush, Mine
<1>1. CASE ReadActive(w) \/ ListOrphans(w) \/ RemoveFound(w) \/ Swept(w)
            \/ ScanRunning(w) \/ CheckLease(w)
    BY <1>1 DEF ReadActive, ListOrphans, RemoveFound, Swept, ScanRunning, CheckLease
<1>2. CASE RowsDone(w) \/ GiveUp(w) \/ ReclaimLost(w) \/ PushReclaimed(w) \/ Reconciled(w)
    BY <1>2 DEF RowsDone, GiveUp, ReclaimLost, PushReclaimed, Reconciled
<1>3. CASE MatchQueued(w)
    BY <1>3 DEF MatchQueued
<1>4. CASE Repush(w)
    BY <1>4 DEF Repush
<1>5. CASE PollOnce(w)
    BY <1>5 DEF PollOnce, GateOpen, GateShut, PopTask, PopNothing, TakeLease,
       LeaseTaken, ClaimTask, ClaimRefused, ListPrior, PriorCleared
<1>6. CASE RunAttempt(w)
    BY <1>6 DEF RunAttempt, Announce, StartSandbox, Emit, RunEnds, Unwind, ReadTotal,
       WriteTotal, FinishTask, FinishRefused, ReadLease, DropLease
<1>7. CASE WorkerFault(w)
    BY <1>7 DEF WorkerFault, Crash, Boot, Raise, StartFails, DockerFails, ContainerStays,
       OwnContainerStays
<1> QED
    BY <1>1, <1>2, <1>3, <1>4, <1>5, <1>6, <1>7 DEF WorkerStep, Reconcile

LEMMA PushMoves ==
    ASSUME TypeOK, InHand, NEW w \in WorkerId, PushReclaimed(w) \/ Repush(w),
           NEW t \in TaskId
    PROVE  Quiet(t) \/ Pushed(w, t)
<1> USE DEF TypeOK
<1>1. Pushers(t)' \subseteq Pushers(t)
    BY PushersFall, LocationFacts
       DEF WorkerStep, Reconcile, PushReclaimed, Repush, ListQueue, GiveBack, Step, At
<1>2. PICK u \in TaskId : /\ Enqueue(u) /\ w \in Pushers(u)
                          /\ w \notin Pushers(u)'
    <2>1. CASE PushReclaimed(w)
        <3>1. /\ Mine(w) \in TaskId /\ Enqueue(Mine(w)) /\ w \in Pushers(Mine(w))
              /\ pc'[w] = "check"
            BY <2>1 DEF PushReclaimed, Step, At, GoTo, InHand, LocalsOK, Pushers, CanPush,
               WorkerTypeOK
        <3>2. \A u \in TaskId : w \notin Pushers(u)'
            BY <3>1 DEF Pushers, CanPush
        <3> QED
            BY <3>1, <3>2
    <2>2. CASE Repush(w)
        <3>1. PICK u \in ids[w] : Enqueue(u) /\ ids' = [ids EXCEPT ![w] = @ \ {u}]
            BY <2>2 DEF Repush
        <3>2. u \in TaskId /\ u \notin ids'[w] /\ pc'[w] = "repush" /\ pc[w] = "repush"
            BY <2>2, <3>1 DEF Repush, At, WorkerTypeOK
        <3>3. w \in Pushers(u) /\ w \notin Pushers(u)'
            BY <3>2 DEF Pushers, CanPush
        <3> QED
            BY <3>1, <3>2, <3>3
    <2> QED
        BY <2>1, <2>2
<1>3. Copies(t) \in Nat /\ Copies(t)' = Copies(t) + (IF u = t THEN 1 ELSE 0)
    BY <1>2, CopiesEnqueued
<1>4. CASE u = t
    BY <1>1, <1>2, <1>3, <1>4 DEF Pushed
<1>5. CASE u # t
    BY <1>1, <1>3, <1>5 DEF Quiet
<1> QED
    BY <1>4, <1>5

LEMMA PostMoves ==
    ASSUME TypeOK, InHand, NamesItsKey, NEW r \in RequestId, EnqueueTask(r),
           UNCHANGED workerVars, NEW t \in TaskId
    PROVE  Quiet(t) \/ Posted(t)
<1> DEFINE u == req[r].task
<1>1. /\ req[r].at = "enqueue" /\ Enqueue(u) /\ UNCHANGED tasks
      /\ req' = [req EXCEPT ![r].at = "done", ![r].task = u, ![r].answer = "created"]
      /\ u \in TaskId
    BY DEF EnqueueTask, Reply, InHand, RequestOK
<1>2. Pushers(t)' = Pushers(t)
    BY DEF Pushers, CanPush, Mine, workerVars, locals
<1>3. Copies(t) \in Nat /\ Copies(t)' = Copies(t) + (IF u = t THEN 1 ELSE 0)
    BY <1>1, CopiesEnqueued DEF TypeOK
<1>4. CASE u = t
    <2>1. Waiting(t) = 1
        BY <1>1, <1>4 DEF Waiting, Posting
    <2>2. Exists(t)
        BY <1>1, <1>4 DEF NamesItsKey, Owns
    <2>3. ASSUME NEW q \in RequestId, req'[q].at = "enqueue", req'[q].task = t PROVE FALSE
        <3>1. q # r /\ req[q].at = "enqueue" /\ req[q].task = t
            BY <1>1, <2>3 DEF TypeOK, ApiTypeOK, Request
        <3> QED
            BY <1>1, <1>4, <3>1 DEF NamesItsKey, Owns
    <2>4. Waiting(t)' = 0
        BY <1>1, <2>2, <2>3 DEF Waiting, Exists, Posting
    <2> QED
        BY <1>2, <1>3, <1>4, <2>1, <2>4 DEF Posted
<1>5. CASE u # t
    BY <1>2, <1>3, <1>5 DEF Quiet
<1> QED
    BY <1>4, <1>5

LEMMA GiveBackMoves ==
    ASSUME TypeOK, InHand, NEW w \in WorkerId, GiveBack(w), NEW t \in TaskId
    PROVE  Quiet(t) \/ Returned(w, t)
<1>1. /\ pc[w] = "reclaim" /\ pc' = [pc EXCEPT ![w] = "push"]
      /\ RunsAttempt(Mine(w), job[w].attempt) /\ Mine(w) \in TaskId
      /\ tasks' = [tasks EXCEPT ![Mine(w)].status = QUEUED, ![Mine(w)].worker = NoWorker]
      /\ UNCHANGED <<queue, ids, job>>
    BY DEF GiveBack, Step, At, GoTo, KeepLocals, locals, OnlyStore, Requeue, InHand, LocalsOK
<1>2. Copies(t) \in Nat /\ Copies(t)' = Copies(t)
    BY <1>1, CopiesArePlaces, PlacesFinite DEF TypeOK, BusTypeOK
<1>3. Pushers(t)' \subseteq Pushers(t) \cup {w}
    BY <1>1 DEF Pushers, CanPush, Mine, TypeOK, WorkerTypeOK
<1>4. CASE Mine(w) = t
    <2>1. /\ tasks[t].status = RUNNING /\ tasks'[t].status = QUEUED
          /\ tasks'[t].attempt = tasks[t].attempt /\ tasks[t].attempt \in 0 .. MaxAttempts
        BY <1>1, <1>4 DEF RunsAttempt, TypeOK, StoreTypeOK, Row
    <2>2. Left(t)' < Left(t)
        BY <2>1, MaxAttemptsAssumption DEF Left, QUEUED, RUNNING
    <2> QED
        BY <1>2, <1>3, <2>2 DEF Returned
<1>5. CASE Mine(w) # t
    <2>1. w \notin Pushers(t)'
        BY <1>1, <1>5 DEF Pushers, CanPush, Mine, TypeOK, WorkerTypeOK
    <2> QED
        BY <1>2, <1>3, <2>1 DEF Quiet
<1> QED
    BY <1>4, <1>5

LEMMA ListMoves ==
    ASSUME TypeOK, NEW w \in WorkerId, ListQueue(w), NEW t \in TaskId
    PROVE  Quiet(t) \/ Unlisted(t)
<1>1. /\ pc[w] = "list" /\ pc' = [pc EXCEPT ![w] = "match"]
      /\ ids' = [ids EXCEPT ![w] = QueuedIds]
      /\ UNCHANGED <<queue, job>>
    BY DEF ListQueue, Step, At, GoTo, KeepShared
<1>2. Copies(t) \in Nat /\ Copies(t)' = Copies(t)
    BY <1>1, CopiesArePlaces, PlacesFinite DEF TypeOK, BusTypeOK
<1>3. CASE t \in QueuedIds
    <2>1. Pushers(t)' \subseteq Pushers(t)
        BY <1>1, <1>3 DEF Pushers, CanPush, Mine, TypeOK, WorkerTypeOK
    <2> QED
        BY <1>2, <2>1 DEF Quiet
<1>4. CASE t \notin QueuedIds
    <2>1. Places(queue, t) = {}
        BY <1>4 DEF Places, QueuedIds, Range
    <2>2. Copies(t) = 0
        BY <2>1, CopiesArePlaces, FS_EmptySet
    <2> QED
        BY <1>2, <2>2 DEF Unlisted
<1> QED
    BY <1>3, <1>4

LEMMA QueueMovesOn ==
    ASSUME TypeOK, InHand, NamesItsKey, [Next]_vars, NEW t \in TaskId
    PROVE  QueueMoves(t)
<1> USE DEF QueueMoves
<1>1. ASSUME NEW w \in WorkerId, PushReclaimed(w) \/ Repush(w) PROVE QueueMoves(t)
    BY <1>1, PushMoves
<1>2. ASSUME NEW w \in WorkerId, GiveBack(w) PROVE QueueMoves(t)
    BY <1>2, GiveBackMoves
<1>3. ASSUME NEW w \in WorkerId, ListQueue(w) PROVE QueueMoves(t)
    BY <1>3, ListMoves
<1>4. ASSUME NEW r \in RequestId, EnqueueTask(r), UNCHANGED workerVars PROVE QueueMoves(t)
    BY <1>4, PostMoves
<1>5. ASSUME \A w \in WorkerId : ~PushReclaimed(w) /\ ~Repush(w) /\ ~GiveBack(w)
                                /\ ~ListQueue(w),
             \A r \in RequestId : ~EnqueueTask(r)
      PROVE  Quiet(t)
    <2>1. Copies(t)' <= Copies(t)
        BY <1>5, QueueShrinks, CopiesDequeued DEF TypeOK
    <2>2. UNCHANGED <<pc, ids, job>> => Pushers(t)' \subseteq Pushers(t)
        BY DEF Pushers, CanPush, Mine
    <2>3. Pushers(t)' \subseteq Pushers(t)
        BY <1>5, <2>2, PushersFall
           DEF Next, WorkerNext, LeaseExpires, LoseLease, RedisRestarts, Losing,
               workerVars, locals, vars
    <2> QED
        BY <2>1, <2>3 DEF Quiet
<1>6. ASSUME NEW r \in RequestId, EnqueueTask(r), ~UNCHANGED workerVars PROVE QueueMoves(t)
    <2>1. req'[r].at = "done" /\ req[r].at = "enqueue"
        BY <1>6 DEF EnqueueTask, Reply, TypeOK, ApiTypeOK, Request
    <2> QED
        BY <1>6, <2>1 DEF Next, vars
<1> QED
    BY <1>1, <1>2, <1>3, <1>4, <1>5, <1>6

LEMMA PushBudgetStep ==
    ASSUME TypeOK, InHand, AbsentIsBlank, QueuedHasAttemptLeft, NoEarlyAnswer, NamesItsKey,
           PushBudget, [Next]_vars
    PROVE  PushBudget'
<1> SUFFICES ASSUME NEW t \in TaskId
             PROVE  Copies(t)' + Cardinality(Pushers(t)') + Waiting(t)' + Left(t)'
                        <= Cardinality(WorkerId) + MaxAttempts
    BY DEF PushBudget
<1> DEFINE N == Cardinality(WorkerId)
           P == Pushers(t)
           Q == Pushers(t)'
           c == Copies(t)
           d == Copies(t)'
<1>1. /\ Waiting(t) \in {0, 1} /\ Waiting(t)' \in {0, 1} /\ Waiting(t)' <= Waiting(t)
      /\ Left(t) \in 0 .. MaxAttempts - 1 /\ Left(t)' \in Int /\ Left(t)' <= Left(t)
      /\ MaxAttempts \in Nat \ {0}
    BY WaitingFalls, LeftFalls, MaxAttemptsAssumption
<1>2. /\ P \subseteq WorkerId /\ Q \subseteq WorkerId /\ IsFiniteSet(P) /\ IsFiniteSet(Q)
      /\ Cardinality(P) \in Nat /\ Cardinality(Q) \in Nat /\ N \in Nat
      /\ Cardinality(Q) <= N
    BY WorkersAreFinite, FS_Subset, FS_CardinalityType DEF Pushers
<1>3. c \in Nat /\ d \in Nat
    BY CopiesArePlaces, PlacesFinite, TypesStep DEF TypeOK, BusTypeOK
<1>4. c + Cardinality(P) + Waiting(t) + Left(t) <= N + MaxAttempts
    BY DEF PushBudget
<1> HIDE DEF P, Q, N, c, d
<1> SUFFICES d + Cardinality(Q) + Waiting(t)' + Left(t)' <= N + MaxAttempts
    BY DEF Q, N, d
<1>5. CASE Quiet(t)
    <2>1. Cardinality(Q) <= Cardinality(P) /\ d <= c
        BY <1>2, <1>5, FS_Subset DEF Quiet, P, Q, c, d
    <2> QED
        BY <1>1, <1>2, <1>3, <1>4, <2>1
<1>6. CASE Unlisted(t)
    <2>1. d = 0
        BY <1>6 DEF Unlisted, d
    <2> QED
        BY <1>1, <1>2, <2>1
<1>7. CASE Posted(t)
    <2>1. Q = P /\ d = c + 1 /\ Waiting(t) = 1 /\ Waiting(t)' = 0
        BY <1>7 DEF Posted, P, Q, c, d
    <2> QED
        BY <1>1, <1>2, <1>3, <1>4, <2>1
<1>8. ASSUME NEW w \in WorkerId, Pushed(w, t)
      PROVE  d + Cardinality(Q) + Waiting(t)' + Left(t)' <= N + MaxAttempts
    <2>1. w \in P /\ Q \subseteq P \ {w} /\ d = c + 1
        BY <1>8 DEF Pushed, P, Q, c, d
    <2>2. IsFiniteSet(P \ {w}) /\ Cardinality(P \ {w}) = Cardinality(P) - 1
        BY <1>2, <2>1, FS_RemoveElement
    <2>3. Cardinality(Q) <= Cardinality(P) - 1
        BY <2>1, <2>2, FS_Subset
    <2> QED
        BY <1>1, <1>2, <1>3, <1>4, <2>1, <2>3
<1>9. ASSUME NEW w \in WorkerId, Returned(w, t)
      PROVE  d + Cardinality(Q) + Waiting(t)' + Left(t)' <= N + MaxAttempts
    <2>1. Q \subseteq P \cup {w} /\ d = c /\ Left(t)' < Left(t)
        BY <1>9 DEF Returned, P, Q, c, d
    <2>2. /\ IsFiniteSet(P \cup {w})
          /\ Cardinality(P \cup {w})
                = IF w \in P THEN Cardinality(P) ELSE Cardinality(P) + 1
        BY <1>2, FS_AddElement
    <2>3. Cardinality(Q) <= Cardinality(P \cup {w})
        BY <2>1, <2>2, FS_Subset
    <2> QED
        BY <1>1, <1>2, <1>3, <1>4, <2>1, <2>2, <2>3
<1> QED
    BY <1>5, <1>6, <1>7, <1>8, <1>9, QueueMovesOn DEF QueueMoves

LEMMA PushBudgetInit ==
    ASSUME Init
    PROVE  PushBudget
<1> SUFFICES ASSUME NEW t \in TaskId
             PROVE  Copies(t) + Cardinality(Pushers(t)) + Waiting(t) + Left(t)
                        <= Cardinality(WorkerId) + MaxAttempts
    BY DEF PushBudget
<1>1. Copies(t) = 0
    <2>1. {i \in DOMAIN queue : queue[i] = t} = {}
        BY DEF Init, BusInit
    <2> QED
        BY <2>1, FS_EmptySet DEF Copies
<1>2. Cardinality(Pushers(t)) = 0
    <2>1. Pushers(t) = {}
        BY DEF Init, WorkerInit, Pushers, CanPush
    <2> QED
        BY <2>1, FS_EmptySet
<1>3. Waiting(t) = 1 /\ Left(t) = MaxAttempts - 1
    BY DEF Init, StoreInit, NoRow, NewRow, Waiting, Exists, Left
<1>4. Cardinality(WorkerId) \in Nat
    BY WorkersAreFinite, FS_CardinalityType
<1> QED
    BY <1>1, <1>2, <1>3, <1>4, MaxAttemptsAssumption

(* However reconciling workers overlap, an id stands in the queue at most     *)
(* once for the request that made the task, once for each attempt that was   *)
(* given back, and once for each worker that read the queue without it.      *)
THEOREM CopiesStayBounded == Spec => []CopiesBounded
<1>1. Init => PushBudget
    BY PushBudgetInit
<1>2. /\ (TypeOK /\ InHand) /\ AbsentIsBlank /\ QueuedHasAttemptLeft
      /\ NoEarlyAnswer /\ NamesItsKey /\ PushBudget /\ [Next]_vars
      => PushBudget'
    BY PushBudgetStep
<1>3. TypeOK /\ InHand /\ QueuedHasAttemptLeft /\ PushBudget => CopiesBounded
    <2> SUFFICES ASSUME TypeOK, InHand, QueuedHasAttemptLeft, PushBudget, NEW t \in TaskId
                 PROVE  Copies(t) <= Cardinality(WorkerId) + MaxAttempts
        BY DEF CopiesBounded
    <2>1. Copies(t) \in Nat
        BY CopiesArePlaces, PlacesFinite DEF TypeOK, BusTypeOK
    <2>2. Cardinality(Pushers(t)) \in Nat /\ Cardinality(WorkerId) \in Nat
        BY WorkersAreFinite, FS_Subset, FS_CardinalityType DEF Pushers
    <2>3. Waiting(t) \in Nat
        BY DEF Waiting
    <2>4. Left(t) \in Nat
        <3>1. tasks[t].attempt \in 0 .. MaxAttempts
            BY DEF TypeOK, StoreTypeOK, Row
        <3> QED
            BY <3>1, MaxAttemptsAssumption DEF Left, QueuedHasAttemptLeft
    <2> QED
        BY <2>1, <2>2, <2>3, <2>4, MaxAttemptsAssumption DEF PushBudget
<1> QED
    BY <1>1, <1>2, <1>3, InHandInvariant, NamesInvariant, PlatformUsesStore,
       AbsentInvariant, QueuedInvariant, PTL DEF Spec, UsesStore
=============================================================================

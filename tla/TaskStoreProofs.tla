-------------------------- MODULE TaskStoreProofs --------------------------
(* Theorems of TaskStore, for every set of tasks, workers and keys and every *)
(* number of attempts.  The callers are those of StoreNext: any caller, with *)
(* any attempt number, however stale.                                        *)
EXTENDS TaskStore, TLAPS

(* What appending to the history of a task does.                             *)
LEMMA AppendFacts ==
    ASSUME NEW S, NEW s \in Seq(S), NEW e \in S
    PROVE  /\ Append(s, e) \in Seq(S)
           /\ DOMAIN s = 1 .. Len(s)
           /\ DOMAIN Append(s, e) = 1 .. Len(s) + 1
           /\ \A i \in 1 .. Len(s) : Append(s, e)[i] = s[i]
           /\ Append(s, e)[Len(s) + 1] = e
           /\ Len(s) \in Nat
OBVIOUS

-----------------------------------------------------------------------------
(* Types *)

LEMMA OutcomeType ==
    ASSUME NEW o \in Outcome
    PROVE  /\ o.status \in TERMINAL
           /\ o.reason \in FailReason \cup {R_CANCELLED, NoReason}
BY DEF Outcome, TERMINAL

LEMMA AppendEventType ==
    ASSUME StoreTypeOK, NEW t \in TaskId, NEW a \in 0 .. MaxAttempts,
           NEW type \in ProgressType \cup TerminalType,
           NEW status \in TERMINAL \cup {"none"},
           NEW reason \in FailReason \cup {R_RETRIES, R_CANCELLED, NoReason},
           AppendEvent(t, a, type, status, reason)
    PROVE  events' \in [TaskId -> Seq(Event)]
<1> DEFINE e == [attempt |-> a, type |-> type, status |-> status, reason |-> reason]
<1>1. e \in Event
    BY DEF Event
<1>2. Append(events[t], e) \in Seq(Event)
    BY <1>1, AppendFacts DEF StoreTypeOK
<1>3. events' = [events EXCEPT ![t] = Append(events[t], e)]
    BY DEF AppendEvent
<1> HIDE DEF e
<1> QED
    BY <1>2, <1>3 DEF StoreTypeOK

LEMMA RowWritten ==
    ASSUME StoreTypeOK, NEW t \in TaskId, NEW row \in Row, tasks' = [tasks EXCEPT ![t] = row]
    PROVE  tasks' \in [TaskId -> Row]
BY DEF StoreTypeOK

LEMMA SettleType ==
    ASSUME StoreTypeOK, NEW t \in TaskId, NEW a \in 0 .. MaxAttempts,
           NEW status \in TERMINAL,
           NEW reason \in FailReason \cup {R_RETRIES, R_CANCELLED, NoReason},
           Settle(t, a, status, reason)
    PROVE  StoreTypeOK'
<1>1. events' \in [TaskId -> Seq(Event)]
    BY AppendEventType DEF Settle, TerminalType
<1>2. tasks' \in [TaskId -> Row]
    <2> DEFINE row == [tasks[t] EXCEPT !.status = status, !.reason = reason]
    <2>1. tasks[t] \in Row
        BY DEF StoreTypeOK
    <2>2. row \in Row
        BY <2>1 DEF Row
    <2>3. tasks' = [tasks EXCEPT ![t] = row]
        BY DEF Settle
    <2> HIDE DEF row
    <2> QED
        BY <2>2, <2>3, RowWritten
<1> QED
    BY <1>1, <1>2 DEF StoreTypeOK

LEMMA StoreTypeStep ==
    ASSUME StoreTypeOK, [StoreNext]_storeVars
    PROVE  StoreTypeOK'
<1> USE MaxAttemptsAssumption
<1>1. CASE UNCHANGED storeVars
    BY <1>1 DEF storeVars, StoreTypeOK
<1>2. ASSUME NEW t \in TaskId, NEW k \in Key \cup {NoKey}, Insert(t, k)
      PROVE  StoreTypeOK'
    <2>1. NewRow(QUEUED, k) \in Row
        BY DEF Row, NewRow, Usage
    <2> QED
        BY <1>2, <2>1 DEF Insert, StoreTypeOK
<1>3. ASSUME NEW t \in TaskId, NEW w \in WorkerId, Claim(t, w)
      PROVE  StoreTypeOK'
    <2> DEFINE row == [tasks[t] EXCEPT !.status = RUNNING, !.attempt = @ + 1, !.worker = w]
    <2>1. tasks[t] \in Row
        BY DEF StoreTypeOK
    <2>2. tasks[t].attempt + 1 \in 0 .. MaxAttempts
        BY <1>3, <2>1 DEF Claim, Claimable, Row
    <2>3. row \in Row
        BY <2>1, <2>2 DEF Row
    <2>4. tasks' = [tasks EXCEPT ![t] = row] /\ events' = events
        BY <1>3 DEF Claim
    <2> HIDE DEF row
    <2> QED
        BY <2>3, <2>4, RowWritten DEF StoreTypeOK
<1>4. ASSUME NEW t \in TaskId, NEW a \in 1 .. MaxAttempts, NEW type \in ProgressType,
             AppendProgress(t, a, type)
      PROVE  StoreTypeOK'
    <2>1. events' \in [TaskId -> Seq(Event)]
        BY <1>4, AppendEventType DEF AppendProgress
    <2> QED
        BY <1>4, <2>1 DEF AppendProgress, StoreTypeOK
<1>5. ASSUME NEW t \in TaskId, NEW a \in 1 .. MaxAttempts, NEW o \in Outcome,
             Finish(t, a, o)
      PROVE  StoreTypeOK'
    BY <1>5, OutcomeType, SettleType DEF Finish
<1>6. ASSUME NEW t \in TaskId, NEW a \in 1 .. MaxAttempts, Requeue(t, a)
      PROVE  StoreTypeOK'
    <2> DEFINE row == [tasks[t] EXCEPT !.status = QUEUED, !.worker = NoWorker]
    <2>1. tasks[t] \in Row
        BY DEF StoreTypeOK
    <2>2. row \in Row
        BY <2>1 DEF Row
    <2>3. tasks' = [tasks EXCEPT ![t] = row] /\ events' = events
        BY <1>6 DEF Requeue
    <2> HIDE DEF row
    <2> QED
        BY <2>2, <2>3, RowWritten DEF StoreTypeOK
<1>7. ASSUME NEW t \in TaskId, NEW a \in 1 .. MaxAttempts, FailExhausted(t, a)
      PROVE  StoreTypeOK'
    BY <1>7, SettleType DEF FailExhausted, TERMINAL
<1>8. ASSUME NEW t \in TaskId, CancelQueued(t)
      PROVE  StoreTypeOK'
    BY <1>8, SettleType DEF CancelQueued, TERMINAL
<1>9. ASSUME NEW t \in TaskId, RequestCancel(t)
      PROVE  StoreTypeOK'
    <2> DEFINE row == [tasks[t] EXCEPT !.cancel = TRUE]
    <2>1. tasks[t] \in Row
        BY DEF StoreTypeOK
    <2>2. row \in Row
        BY <2>1 DEF Row
    <2>3. tasks' = [tasks EXCEPT ![t] = row] /\ events' = events
        BY <1>9 DEF RequestCancel
    <2> HIDE DEF row
    <2> QED
        BY <2>2, <2>3, RowWritten DEF StoreTypeOK
<1>10. ASSUME NEW t \in TaskId, NEW a \in 1 .. MaxAttempts, NEW total \in Usage,
              AddUsage(t, a, total)
       PROVE  StoreTypeOK'
    <2> DEFINE row == [tasks[t] EXCEPT !.usage = total \cup {a}]
    <2>1. tasks[t] \in Row
        BY DEF StoreTypeOK
    <2>2. total \cup {a} \in Usage
        BY DEF Usage
    <2>3. row \in Row
        BY <2>1, <2>2 DEF Row
    <2>4. tasks' = [tasks EXCEPT ![t] = row] /\ events' = events
        BY <1>10 DEF AddUsage
    <2> HIDE DEF row
    <2> QED
        BY <2>3, <2>4, RowWritten DEF StoreTypeOK
<1> QED
    BY <1>1, <1>2, <1>3, <1>4, <1>5, <1>6, <1>7, <1>8, <1>9, <1>10 DEF StoreNext

(* The tables keep the types of their columns; in particular the attempt     *)
(* number never passes max_attempts.                                         *)
THEOREM StoreTypeInvariant == StoreSpec => []StoreTypeOK
<1>1. StoreInit => StoreTypeOK
    BY MaxAttemptsAssumption DEF StoreInit, StoreTypeOK, Row, NoRow, NewRow, Usage
<1>2. StoreTypeOK /\ [StoreNext]_storeVars => StoreTypeOK'
    BY StoreTypeStep
<1> QED
    BY <1>1, <1>2, PTL DEF StoreSpec

-----------------------------------------------------------------------------
(* The books *)

(* The terminal events of a history that grew by one row.                    *)
LEMMA AppendTerminalEvents ==
    ASSUME StoreTypeOK, NEW t \in TaskId, NEW e \in Event,
           events'[t] = Append(events[t], e)
    PROVE  /\ TerminalEvents(t)' =
                TerminalEvents(t)
                    \cup (IF e.type \in TerminalType THEN {Len(events[t]) + 1} ELSE {})
           /\ TerminalEvents(t) \subseteq 1 .. Len(events[t])
           /\ \A i \in 1 .. Len(events[t]) : events'[t][i] = events[t][i]
           /\ events'[t][Len(events[t]) + 1] = e
           /\ DOMAIN events'[t] = 1 .. Len(events[t]) + 1
           /\ DOMAIN events[t] = 1 .. Len(events[t])
           /\ Len(events[t]) \in Nat
<1> DEFINE s == events[t]
<1>1. s \in Seq(Event)
    BY DEF StoreTypeOK
<1>2. /\ DOMAIN s = 1 .. Len(s)
      /\ DOMAIN events'[t] = 1 .. Len(s) + 1
      /\ \A i \in 1 .. Len(s) : events'[t][i] = s[i]
      /\ events'[t][Len(s) + 1] = e
      /\ Len(s) \in Nat
    BY <1>1, AppendFacts
<1>3. 1 .. Len(s) + 1 = (1 .. Len(s)) \cup {Len(s) + 1}
    BY <1>2
<1>4. TerminalEvents(t)' = {i \in DOMAIN events'[t] : events'[t][i].type \in TerminalType}
    BY DEF TerminalEvents, TerminalType
<1>5. TerminalEvents(t) = {i \in DOMAIN s : s[i].type \in TerminalType}
    BY DEF TerminalEvents
<1> HIDE DEF s
<1>6. TerminalEvents(t)' = TerminalEvents(t)
            \cup (IF e.type \in TerminalType THEN {Len(s) + 1} ELSE {})
    BY <1>2, <1>3, <1>4, <1>5
<1> QED
    BY <1>2, <1>5, <1>6 DEF s

(* What Settle appends.                                                      *)
LEMMA SettleAppends ==
    ASSUME StoreTypeOK, NEW t \in TaskId, NEW a \in 0 .. MaxAttempts,
           NEW status \in TERMINAL,
           NEW reason \in FailReason \cup {R_RETRIES, R_CANCELLED, NoReason},
           Settle(t, a, status, reason)
    PROVE  \E e \in Event :
              /\ e.type \in TerminalType
              /\ e.type = EV_COMPLETED <=> status = SUCCEEDED
              /\ e.attempt = a /\ e.status = status /\ e.reason = reason
              /\ events'[t] = Append(events[t], e)
              /\ \A u \in TaskId \ {t} : events'[u] = events[u] /\ tasks'[u] = tasks[u]
              /\ tasks'[t].status = status /\ tasks'[t].reason = reason
              /\ tasks'[t].attempt = tasks[t].attempt
<1> DEFINE type == IF status = SUCCEEDED THEN EV_COMPLETED ELSE EV_FAILED
           e == [attempt |-> a, type |-> type, status |-> status, reason |-> reason]
<1>1. e \in Event /\ e.type \in TerminalType /\ (e.type = EV_COMPLETED <=> status = SUCCEEDED)
    BY DEF Event, TerminalType, EV_COMPLETED, EV_FAILED
<1>2. /\ e.attempt = a /\ e.status = status /\ e.reason = reason
    OBVIOUS
<1>3. events' = [events EXCEPT ![t] = Append(events[t], e)]
    BY DEF Settle, AppendEvent
<1> HIDE DEF e
<1>4. /\ events'[t] = Append(events[t], e)
      /\ \A u \in TaskId \ {t} : events'[u] = events[u]
    BY <1>3 DEF StoreTypeOK
<1>5. /\ \A u \in TaskId \ {t} : tasks'[u] = tasks[u]
      /\ tasks'[t].status = status /\ tasks'[t].reason = reason
      /\ tasks'[t].attempt = tasks[t].attempt
    BY DEF Settle, StoreTypeOK, Row
<1> QED
    BY <1>1, <1>2, <1>4, <1>5

LEMMA SettleBalances ==
    ASSUME StoreTypeOK, LedgerBalanced, NEW t \in TaskId,
           NEW a \in 0 .. MaxAttempts, NEW status \in TERMINAL,
           NEW reason \in FailReason \cup {R_RETRIES, R_CANCELLED, NoReason},
           tasks[t].status \notin TERMINAL,
           a = tasks[t].attempt \/ (a = 0 /\ status = CANCELLED),
           Settle(t, a, status, reason)
    PROVE  LedgerBalanced'
<1>1. PICK e \in Event :
              /\ e.type \in TerminalType
              /\ e.type = EV_COMPLETED <=> status = SUCCEEDED
              /\ e.attempt = a /\ e.status = status /\ e.reason = reason
              /\ events'[t] = Append(events[t], e)
              /\ \A u \in TaskId \ {t} : events'[u] = events[u] /\ tasks'[u] = tasks[u]
              /\ tasks'[t].status = status /\ tasks'[t].reason = reason
              /\ tasks'[t].attempt = tasks[t].attempt
    BY SettleAppends
<1>2. Balanced(t)'
    <2>1. TerminalEvents(t) = {}
        BY DEF LedgerBalanced, Balanced
    <2>2. /\ TerminalEvents(t)' = {Len(events[t]) + 1}
          /\ events'[t][Len(events[t]) + 1] = e
          /\ Len(events[t]) + 1 \in DOMAIN events'[t]
        BY <1>1, <2>1, AppendTerminalEvents
    <2>3. Closes(e, tasks'[t])
        BY <1>1 DEF Closes
    <2> QED
        BY <1>1, <2>2, <2>3 DEF Balanced, Closes, TERMINAL
<1>3. ASSUME NEW u \in TaskId \ {t} PROVE Balanced(u)'
    BY <1>1 DEF LedgerBalanced, Balanced, TerminalEvents, Closes
<1> QED
    BY <1>2, <1>3 DEF LedgerBalanced

(* A call that writes no event and moves between live statuses.              *)
LEMMA LiveBalances ==
    ASSUME LedgerBalanced, UNCHANGED events,
           \A t \in TaskId :
              \/ tasks'[t] = tasks[t]
              \/ tasks[t].status \notin TERMINAL /\ tasks'[t].status \notin TERMINAL
    PROVE  LedgerBalanced'
<1> SUFFICES ASSUME NEW t \in TaskId PROVE Balanced(t)'
    BY DEF LedgerBalanced
<1>1. TerminalEvents(t)' = TerminalEvents(t)
    BY DEF TerminalEvents
<1> QED
    BY <1>1 DEF LedgerBalanced, Balanced, TERMINAL, Closes

(* A call that writes no event and leaves verdict and attempt alone.         *)
LEMMA SameVerdictBalances ==
    ASSUME LedgerBalanced, UNCHANGED events,
           \A t \in TaskId : /\ tasks'[t].status = tasks[t].status
                             /\ tasks'[t].reason = tasks[t].reason
                             /\ tasks'[t].attempt = tasks[t].attempt
    PROVE  LedgerBalanced'
<1> SUFFICES ASSUME NEW t \in TaskId PROVE Balanced(t)'
    BY DEF LedgerBalanced
<1>1. TerminalEvents(t)' = TerminalEvents(t)
    BY DEF TerminalEvents
<1> QED
    BY <1>1 DEF LedgerBalanced, Balanced, TERMINAL, Closes

LEMMA ProgressBalances ==
    ASSUME StoreTypeOK, LedgerBalanced, NEW t \in TaskId,
           NEW a \in 1 .. MaxAttempts, NEW type \in ProgressType,
           AppendProgress(t, a, type)
    PROVE  LedgerBalanced'
<1> DEFINE e == [attempt |-> a, type |-> type, status |-> "none", reason |-> NoReason]
<1>1. e \in Event /\ e.type \notin TerminalType
    BY MaxAttemptsAssumption
       DEF Event, ProgressType, TerminalType, EV_STARTED, EV_MESSAGE, EV_COMPLETED, EV_FAILED
<1>2. events' = [events EXCEPT ![t] = Append(events[t], e)]
    BY DEF AppendProgress, AppendEvent
<1> HIDE DEF e
<1>3. /\ events'[t] = Append(events[t], e)
      /\ \A u \in TaskId \ {t} : events'[u] = events[u]
      /\ tasks' = tasks
    BY <1>2 DEF StoreTypeOK, AppendProgress
<1>4. TerminalEvents(t)' = TerminalEvents(t)
    <2>1. TerminalEvents(t)' = TerminalEvents(t) \cup
                (IF e.type \in TerminalType THEN {Len(events[t]) + 1} ELSE {})
        BY <1>1, <1>3, AppendTerminalEvents
    <2> QED
        BY <1>1, <2>1
<1>5. \A i \in TerminalEvents(t) : events'[t][i] = events[t][i] /\ i \in DOMAIN events'[t]
    BY <1>1, <1>3, AppendTerminalEvents
<1>6. Balanced(t)'
    BY <1>3, <1>4, <1>5 DEF LedgerBalanced, Balanced, Closes
<1>7. ASSUME NEW u \in TaskId \ {t} PROVE Balanced(u)'
    BY <1>3 DEF LedgerBalanced, Balanced, TerminalEvents, Closes
<1> QED
    BY <1>6, <1>7 DEF LedgerBalanced

LEMMA LedgerStep ==
    ASSUME StoreTypeOK, LedgerBalanced, [StoreNext]_storeVars
    PROVE  LedgerBalanced'
<1> USE MaxAttemptsAssumption
<1>1. CASE UNCHANGED storeVars
    BY <1>1, LiveBalances DEF storeVars
<1>2. ASSUME NEW t \in TaskId, NEW k \in Key \cup {NoKey}, Insert(t, k)
      PROVE  LedgerBalanced'
    BY <1>2, LiveBalances
       DEF Insert, Exists, NewRow, StoreTypeOK, TERMINAL, QUEUED, SUCCEEDED, FAILED, CANCELLED
<1>3. ASSUME NEW t \in TaskId, NEW w \in WorkerId, Claim(t, w)
      PROVE  LedgerBalanced'
    BY <1>3, LiveBalances
       DEF Claim, Claimable, StoreTypeOK, Row, TERMINAL, QUEUED, RUNNING, SUCCEEDED, FAILED, CANCELLED
<1>4. ASSUME NEW t \in TaskId, NEW a \in 1 .. MaxAttempts, NEW type \in ProgressType,
             AppendProgress(t, a, type)
      PROVE  LedgerBalanced'
    BY <1>4, ProgressBalances
<1>5. ASSUME NEW t \in TaskId, NEW a \in 1 .. MaxAttempts, NEW o \in Outcome,
             Finish(t, a, o)
      PROVE  LedgerBalanced'
    <2>1. tasks[t].status \notin TERMINAL /\ tasks[t].attempt = a
        BY <1>5 DEF Finish, RunsAttempt, TERMINAL, RUNNING, SUCCEEDED, FAILED, CANCELLED
    <2> QED
        BY <1>5, <2>1, OutcomeType, SettleBalances DEF Finish
<1>6. ASSUME NEW t \in TaskId, NEW a \in 1 .. MaxAttempts, Requeue(t, a)
      PROVE  LedgerBalanced'
    BY <1>6, LiveBalances
       DEF Requeue, RunsAttempt, StoreTypeOK, Row, TERMINAL, QUEUED, RUNNING, SUCCEEDED, FAILED, CANCELLED
<1>7. ASSUME NEW t \in TaskId, NEW a \in 1 .. MaxAttempts, FailExhausted(t, a)
      PROVE  LedgerBalanced'
    <2>1. tasks[t].status \notin TERMINAL /\ tasks[t].attempt = a /\ FAILED \in TERMINAL
        BY <1>7 DEF FailExhausted, RunsAttempt, TERMINAL, RUNNING, SUCCEEDED, FAILED, CANCELLED
    <2> QED
        BY <1>7, <2>1, SettleBalances DEF FailExhausted
<1>8. ASSUME NEW t \in TaskId, CancelQueued(t)
      PROVE  LedgerBalanced'
    <2>1. tasks[t].status \notin TERMINAL /\ CANCELLED \in TERMINAL /\ 0 \in 0 .. MaxAttempts
        BY <1>8 DEF CancelQueued, TERMINAL, QUEUED, SUCCEEDED, FAILED, CANCELLED
    <2> QED
        BY <1>8, <2>1, SettleBalances DEF CancelQueued
<1>9. ASSUME NEW t \in TaskId, RequestCancel(t)
      PROVE  LedgerBalanced'
    BY <1>9, LiveBalances DEF RequestCancel, Flaggable, StoreTypeOK, Row
<1>10. ASSUME NEW t \in TaskId, NEW a \in 1 .. MaxAttempts, NEW total \in Usage,
              AddUsage(t, a, total)
       PROVE  LedgerBalanced'
    BY <1>10, SameVerdictBalances DEF AddUsage, StoreTypeOK, Row
<1> QED
    BY <1>1, <1>2, <1>3, <1>4, <1>5, <1>6, <1>7, <1>8, <1>9, <1>10 DEF StoreNext

(* The books balance in every reachable state of the tables: a task is       *)
(* terminal if and only if it has exactly one terminal event, and the two    *)
(* agree.                                                                    *)
THEOREM LedgerInvariant == StoreSpec => []LedgerBalanced
<1>1. StoreInit => LedgerBalanced
    <2> SUFFICES ASSUME StoreInit, NEW t \in TaskId PROVE Balanced(t)
        BY DEF LedgerBalanced
    <2>1. DOMAIN events[t] = {}
        BY DEF StoreInit
    <2>2. tasks[t].status \notin TERMINAL
        BY DEF StoreInit, NoRow, NewRow, TERMINAL, SUCCEEDED, FAILED, CANCELLED
    <2> QED
        BY <2>1, <2>2 DEF Balanced, TerminalEvents
<1>2. StoreTypeOK /\ LedgerBalanced /\ [StoreNext]_storeVars => LedgerBalanced'
    BY LedgerStep
<1> QED
    BY <1>1, <1>2, StoreTypeInvariant, PTL DEF StoreSpec

-----------------------------------------------------------------------------
(* What a step may do to one row *)

Created(t) ==
    /\ tasks[t].status = "absent" /\ tasks'[t].status = QUEUED
    /\ tasks'[t].attempt = 0
    /\ \E k \in Key \cup {NoKey} : Insert(t, k)
Claimed(t) ==
    /\ tasks[t].status = QUEUED /\ tasks'[t].status = RUNNING
    /\ tasks[t].attempt < MaxAttempts
    /\ tasks'[t].attempt = tasks[t].attempt + 1
    /\ tasks'[t].key = tasks[t].key
GivenBack(t) ==
    /\ tasks[t].status = RUNNING /\ tasks'[t].status = QUEUED
    /\ tasks[t].attempt < MaxAttempts
    /\ tasks'[t].attempt = tasks[t].attempt
    /\ tasks'[t].key = tasks[t].key
Ended(t) ==
    /\ tasks[t].status = RUNNING \/ (tasks[t].status = QUEUED /\ tasks'[t].status = CANCELLED)
    /\ tasks'[t].status \in TERMINAL
    /\ tasks'[t].attempt = tasks[t].attempt
    /\ tasks'[t].key = tasks[t].key
Flagged(t) ==
    /\ tasks[t].status \in {QUEUED, RUNNING} /\ tasks'[t].status = tasks[t].status
    /\ tasks'[t].attempt = tasks[t].attempt
    /\ tasks'[t].key = tasks[t].key
Billed(t) ==
    /\ tasks[t].status # "absent"
    /\ tasks'[t].status = tasks[t].status
    /\ tasks'[t].attempt = tasks[t].attempt
    /\ tasks'[t].key = tasks[t].key
    /\ tasks'[t].reason = tasks[t].reason
    /\ tasks'[t].worker = tasks[t].worker
    /\ tasks'[t].cancel = tasks[t].cancel
RowMoves(t) ==
    \/ tasks'[t] = tasks[t]
    \/ Created(t) \/ Claimed(t) \/ GivenBack(t) \/ Ended(t) \/ Flagged(t) \/ Billed(t)

LEMMA SettleMoves ==
    ASSUME StoreTypeOK, NEW u \in TaskId, NEW a, NEW status \in TERMINAL, NEW reason,
           tasks[u].status = RUNNING \/ (tasks[u].status = QUEUED /\ status = CANCELLED),
           Settle(u, a, status, reason), NEW t \in TaskId
    PROVE  RowMoves(t)
<1>1. CASE t # u
    BY <1>1 DEF Settle, StoreTypeOK, RowMoves
<1>2. CASE t = u
    BY <1>2 DEF Settle, StoreTypeOK, Row, RowMoves, Ended
<1> QED
    BY <1>1, <1>2

LEMMA RowStep ==
    ASSUME StoreTypeOK, [StoreNext]_storeVars, NEW t \in TaskId
    PROVE  RowMoves(t)
<1> USE DEF StoreTypeOK, Row
<1>1. CASE UNCHANGED storeVars
    BY <1>1 DEF storeVars, RowMoves
<1>2. ASSUME NEW u \in TaskId, NEW k \in Key \cup {NoKey}, Insert(u, k)
      PROVE  RowMoves(t)
    <2>1. CASE t = u
        BY <1>2, <2>1 DEF Insert, Exists, NewRow, RowMoves, Created
    <2>2. CASE t # u
        BY <1>2, <2>2 DEF Insert, RowMoves
    <2> QED
        BY <2>1, <2>2
<1>3. ASSUME NEW u \in TaskId, NEW w \in WorkerId, Claim(u, w)
      PROVE  RowMoves(t)
    BY <1>3 DEF Claim, Claimable, RowMoves, Claimed
<1>4. ASSUME NEW u \in TaskId, NEW a \in 1 .. MaxAttempts, NEW type \in ProgressType,
             AppendProgress(u, a, type)
      PROVE  RowMoves(t)
    BY <1>4 DEF AppendProgress, RowMoves
<1>5. ASSUME NEW u \in TaskId, NEW a \in 1 .. MaxAttempts, NEW o \in Outcome,
             Finish(u, a, o)
      PROVE  RowMoves(t)
    BY <1>5, OutcomeType, SettleMoves DEF Finish, RunsAttempt
<1>6. ASSUME NEW u \in TaskId, NEW a \in 1 .. MaxAttempts, a < MaxAttempts, Requeue(u, a)
      PROVE  RowMoves(t)
    BY <1>6 DEF Requeue, RunsAttempt, RowMoves, GivenBack
<1>7. ASSUME NEW u \in TaskId, NEW a \in 1 .. MaxAttempts, FailExhausted(u, a)
      PROVE  RowMoves(t)
    BY <1>7, SettleMoves DEF FailExhausted, RunsAttempt, TERMINAL
<1>8. ASSUME NEW u \in TaskId, CancelQueued(u)
      PROVE  RowMoves(t)
    BY <1>8, SettleMoves DEF CancelQueued, TERMINAL
<1>9. ASSUME NEW u \in TaskId, RequestCancel(u)
      PROVE  RowMoves(t)
    BY <1>9 DEF RequestCancel, Flaggable, Exists, RowMoves, Flagged
<1>10. ASSUME NEW u \in TaskId, NEW a \in 1 .. MaxAttempts, NEW total \in Usage,
              AddUsage(u, a, total)
       PROVE  RowMoves(t)
    <2>1. CASE t = u
        BY <1>10, <2>1 DEF AddUsage, Exists, RowMoves, Billed
    <2>2. CASE t # u
        BY <1>10, <2>2 DEF AddUsage, RowMoves
    <2> QED
        BY <2>1, <2>2
<1> QED
    BY <1>1, <1>2, <1>3, <1>4, <1>5, <1>6, <1>7, <1>8, <1>9, <1>10 DEF StoreNext

(* The store never parks a task that no claim would accept, as long as its   *)
(* callers give an attempt back only while another one is left.              *)
THEOREM QueuedInvariant == StoreSpec => []QueuedHasAttemptLeft
<1>1. StoreInit => QueuedHasAttemptLeft
    BY MaxAttemptsAssumption DEF StoreInit, QueuedHasAttemptLeft, NoRow, NewRow, QUEUED
<1>2. ASSUME StoreTypeOK, QueuedHasAttemptLeft, [StoreNext]_storeVars
      PROVE  QueuedHasAttemptLeft'
    BY <1>2, RowStep, MaxAttemptsAssumption
       DEF QueuedHasAttemptLeft, RowMoves, Created, Claimed, GivenBack, Ended, Flagged, Billed,
           QUEUED, RUNNING, TERMINAL, SUCCEEDED, FAILED, CANCELLED
<1> QED
    BY <1>1, <1>2, StoreTypeInvariant, PTL DEF StoreSpec

LEMMA FinalStep ==
    ASSUME StoreTypeOK, [StoreNext]_storeVars
    PROVE  \A t \in TaskId : tasks[t].status \in TERMINAL =>
              tasks'[t] = [tasks[t] EXCEPT !.usage = tasks'[t].usage]
<1> SUFFICES ASSUME NEW t \in TaskId, tasks[t].status \in TERMINAL
             PROVE  tasks'[t] = [tasks[t] EXCEPT !.usage = tasks'[t].usage]
    OBVIOUS
<1>1. tasks'[t] = tasks[t] \/ Billed(t)
    BY RowStep
       DEF RowMoves, Created, Claimed, GivenBack, Ended, Flagged,
           QUEUED, RUNNING, TERMINAL, SUCCEEDED, FAILED, CANCELLED
<1>2. tasks[t] \in Row /\ tasks'[t] \in Row
    BY StoreTypeStep DEF StoreTypeOK
<1> QED
    BY <1>1, <1>2 DEF Billed, Row

(* No call, however late, changes what an ended task came to: add_usage, the *)
(* one call that compares neither status nor attempt, writes its own column. *)
THEOREM VerdictsAreFinal == StoreSpec => VerdictIsFinal
BY FinalStep, StoreTypeInvariant, PTL DEF StoreSpec, VerdictIsFinal

(* A task that was never created has had no attempt and no event.            *)
AbsentIsBlank ==
    \A t \in TaskId : tasks[t].status = "absent" => tasks[t].attempt = 0

LEMMA AbsentInvariant == StoreSpec => []AbsentIsBlank
<1>1. StoreInit => AbsentIsBlank
    BY DEF StoreInit, AbsentIsBlank, NoRow, NewRow
<1>2. ASSUME StoreTypeOK, AbsentIsBlank, [StoreNext]_storeVars
      PROVE  AbsentIsBlank'
    BY <1>2, RowStep
       DEF AbsentIsBlank, RowMoves, Created, Claimed, GivenBack, Ended, Flagged, Billed,
           QUEUED, RUNNING, TERMINAL, SUCCEEDED, FAILED, CANCELLED
<1> QED
    BY <1>1, <1>2, StoreTypeInvariant, PTL DEF StoreSpec

LEMMA AttemptGrows ==
    ASSUME StoreTypeOK, AbsentIsBlank, [StoreNext]_storeVars, NEW t \in TaskId
    PROVE  /\ tasks'[t].attempt >= tasks[t].attempt
           /\ tasks'[t].status = RUNNING /\ tasks[t].status # RUNNING
                  => tasks'[t].attempt > tasks[t].attempt
<1>1. tasks[t].attempt \in Nat
    BY MaxAttemptsAssumption DEF StoreTypeOK, Row
<1> QED
    BY <1>1, RowStep
       DEF AbsentIsBlank, RowMoves, Created, Claimed, GivenBack, Ended, Flagged, Billed,
           QUEUED, RUNNING, TERMINAL, SUCCEEDED, FAILED, CANCELLED

(* The attempt number fences: no run of a task repeats the number of an      *)
(* earlier one.                                                              *)
THEOREM AttemptsAreFresh == StoreSpec => AttemptIsFresh
<1>1. StoreTypeOK /\ AbsentIsBlank /\ [StoreNext]_storeVars
        => \A t \in TaskId :
              /\ tasks'[t].attempt >= tasks[t].attempt
              /\ tasks'[t].status = RUNNING /\ tasks[t].status # RUNNING
                    => tasks'[t].attempt > tasks[t].attempt
    BY AttemptGrows
<1> QED
    BY <1>1, StoreTypeInvariant, AbsentInvariant, PTL DEF StoreSpec, AttemptIsFresh

(* One idempotency key never names two tasks: what the UNIQUE column is for. *)
OneTaskPerKey ==
    \A t, u \in TaskId : tasks[t].key # NoKey /\ tasks[t].key = tasks[u].key => t = u

LEMMA KeyInvariant == StoreSpec => []OneTaskPerKey
<1>1. StoreInit => OneTaskPerKey
    BY DEF StoreInit, OneTaskPerKey, NoRow, NewRow
<1>2. ASSUME StoreTypeOK, OneTaskPerKey, [StoreNext]_storeVars
      PROVE  OneTaskPerKey'
    <2>1. ASSUME NEW t \in TaskId, NEW k \in Key \cup {NoKey}, Insert(t, k)
          PROVE  OneTaskPerKey'
        <3>1. /\ tasks'[t].key = k
              /\ \A u \in TaskId \ {t} : tasks'[u] = tasks[u]
            BY <1>2, <2>1 DEF Insert, StoreTypeOK, NewRow
        <3>2. k # NoKey => \A u \in TaskId : tasks[u].key # k
            BY <2>1 DEF Insert, Clashes, HasKey
        <3> QED
            BY <1>2, <3>1, <3>2 DEF OneTaskPerKey
    <2>2. CASE ~\E t \in TaskId, k \in Key \cup {NoKey} : Insert(t, k)
        <3>1. \A t \in TaskId : tasks'[t].key = tasks[t].key
            BY <1>2, <2>2, RowStep
               DEF RowMoves, Created, Claimed, GivenBack, Ended, Flagged, Billed
        <3> QED
            BY <1>2, <3>1 DEF OneTaskPerKey
    <2> QED
        BY <2>1, <2>2
<1> QED
    BY <1>1, <1>2, StoreTypeInvariant, PTL DEF StoreSpec

-----------------------------------------------------------------------------
(* Refinement *)

LEMMA OneRowMoves ==
    ASSUME StoreTypeOK, [StoreNext]_storeVars
    PROVE  TaskId = {} \/ \E t \in TaskId : \A u \in TaskId \ {t} : tasks'[u] = tasks[u]
<1>1. CASE UNCHANGED storeVars
    BY <1>1 DEF storeVars
<1>2. ASSUME NEW t \in TaskId,
             \/ \E k \in Key \cup {NoKey} : Insert(t, k)
             \/ \E w \in WorkerId : Claim(t, w)
             \/ \E a \in 1 .. MaxAttempts, type \in ProgressType :
                    AppendProgress(t, a, type)
             \/ \E a \in 1 .. MaxAttempts, o \in Outcome : Finish(t, a, o)
             \/ \E a \in 1 .. MaxAttempts : a < MaxAttempts /\ Requeue(t, a)
             \/ \E a \in 1 .. MaxAttempts : FailExhausted(t, a)
             \/ CancelQueued(t)
             \/ RequestCancel(t)
             \/ \E a \in 1 .. MaxAttempts, total \in Usage : AddUsage(t, a, total)
      PROVE  \A u \in TaskId \ {t} : tasks'[u] = tasks[u]
    BY <1>2 DEF StoreTypeOK, Insert, Claim, AppendProgress, Finish, Requeue,
                FailExhausted, CancelQueued, RequestCancel, AddUsage, Settle
<1> QED
    BY <1>1, <1>2 DEF StoreNext

(* In balanced books the announced verdict is the verdict of the row.        *)
VerdictOf(row) == IF row.status \in TERMINAL THEN {row.status} ELSE {}

LEMMA ClosedBook ==
    ASSUME NEW row, NEW book,
           NEW ends, ends = {j \in DOMAIN book : book[j].type \in TerminalType},
           IF row.status \in TERMINAL
           THEN \E i \in DOMAIN book : ends = {i} /\ Closes(book[i], row)
           ELSE ends = {}
    PROVE  {book[i].status : i \in ends} = VerdictOf(row)
<1>1. CASE row.status \in TERMINAL
    <2>1. PICK i \in DOMAIN book : ends = {i} /\ Closes(book[i], row)
        BY <1>1
    <2>2. book[i].status = row.status
        BY <2>1 DEF Closes
    <2> QED
        BY <1>1, <2>1, <2>2 DEF VerdictOf
<1>2. CASE row.status \notin TERMINAL
    BY <1>2 DEF VerdictOf
<1> QED
    BY <1>1, <1>2

LEMMA AnnouncedVerdict ==
    ASSUME LedgerBalanced, LedgerBalanced'
    PROVE  /\ \A t \in TaskId : Announced(t) = VerdictOf(tasks[t])
           /\ \A t \in TaskId : Announced(t)' = VerdictOf(tasks'[t])
<1>1. ASSUME NEW t \in TaskId PROVE Announced(t) = VerdictOf(tasks[t])
    BY ClosedBook DEF LedgerBalanced, Balanced, TerminalEvents, Announced
<1>2. ASSUME NEW t \in TaskId PROVE Announced(t)' = VerdictOf(tasks'[t])
    <2> DEFINE book == events'[t]
               ends == {j \in DOMAIN book : book[j].type \in TerminalType}
    <2>1. TerminalEvents(t)' = ends
        BY DEF TerminalEvents, TerminalType
    <2>2. IF tasks'[t].status \in TERMINAL
          THEN \E i \in DOMAIN book : ends = {i} /\ Closes(book[i], tasks'[t])
          ELSE ends = {}
        BY <2>1 DEF LedgerBalanced, Balanced, Closes, TERMINAL
    <2>3. Announced(t)' = {book[i].status : i \in ends}
        BY <2>1 DEF Announced
    <2>4. {book[i].status : i \in ends} = VerdictOf(tasks'[t])
        <3> HIDE DEF book
        <3> QED
            BY <2>2, ClosedBook
    <2> QED
        BY <2>3, <2>4
<1> QED
    BY <1>1, <1>2

(* A step of the tables is a step of the automaton, or none.                 *)
LEMMA RefinementStep ==
    ASSUME StoreTypeOK, AbsentIsBlank, LedgerBalanced, LedgerBalanced',
           [StoreNext]_storeVars
    PROVE  [Lifecycle!Next]_(Lifecycle!lifecycleVars)
<1> DEFINE phase == [t \in TaskId |-> PhaseOf(tasks[t].status)]
           tries == [t \in TaskId |-> tasks[t].attempt]
           announced == [t \in TaskId |-> Announced(t)]
<1>0. /\ announced = [u \in TaskId |-> VerdictOf(tasks[u])]
      /\ announced' = [u \in TaskId |-> VerdictOf(tasks'[u])]
      /\ phase' = [u \in TaskId |-> PhaseOf(tasks'[u].status)]
      /\ tries' = [u \in TaskId |-> tasks'[u].attempt]
    BY AnnouncedVerdict DEF PhaseOf, QUEUED, RUNNING
<1>1. CASE TaskId = {}
    BY <1>0, <1>1 DEF Lifecycle!lifecycleVars
<1>2. ASSUME NEW t \in TaskId, \A u \in TaskId \ {t} : tasks'[u] = tasks[u]
      PROVE  [Lifecycle!Next]_(Lifecycle!lifecycleVars)
    <2>0. /\ phase' = [phase EXCEPT ![t] = PhaseOf(tasks'[t].status)]
          /\ tries' = [tries EXCEPT ![t] = tasks'[t].attempt]
          /\ announced' = [announced EXCEPT ![t] = VerdictOf(tasks'[t])]
        BY <1>0, <1>2
    <2>a. /\ phase[t] = PhaseOf(tasks[t].status)
          /\ tries[t] = tasks[t].attempt
          /\ announced[t] = VerdictOf(tasks[t])
        BY <1>0
    <2>b. /\ phase = [phase EXCEPT ![t] = phase[t]]
          /\ tries = [tries EXCEPT ![t] = tries[t]]
          /\ announced = [announced EXCEPT ![t] = announced[t]]
        BY <1>0
    <2> HIDE DEF phase, tries, announced
    <2> USE DEF PhaseOf, VerdictOf, QUEUED, RUNNING, TERMINAL, SUCCEEDED, FAILED, CANCELLED
    <2>1. CASE tasks'[t] = tasks[t] \/ Flagged(t) \/ Billed(t)
        <3>1. /\ phase' = phase /\ tries' = tries /\ announced' = announced
            BY <2>0, <2>a, <2>b, <2>1 DEF Flagged, Billed
        <3> QED
            BY <3>1 DEF Lifecycle!lifecycleVars, phase, tries, announced
    <2>2. CASE Created(t)
        <3>1. /\ phase[t] = "absent"
              /\ phase' = [phase EXCEPT ![t] = "waiting"]
              /\ tries' = tries /\ announced' = announced
            BY <2>0, <2>a, <2>b, <2>2 DEF Created, AbsentIsBlank
        <3>2. Lifecycle!Submit(t)
            BY <3>1 DEF Lifecycle!Submit, phase, tries, announced
        <3> QED
            BY <3>2 DEF Lifecycle!Next
    <2>3. CASE Claimed(t)
        <3>1. /\ phase[t] = "waiting"
              /\ tries[t] < MaxAttempts
              /\ phase' = [phase EXCEPT ![t] = "working"]
              /\ tries' = [tries EXCEPT ![t] = tries[t] + 1]
              /\ announced' = announced
            BY <2>0, <2>a, <2>b, <2>3 DEF Claimed
        <3>2. Lifecycle!Start(t)
            BY <3>1 DEF Lifecycle!Start, phase, tries, announced
        <3> QED
            BY <3>2 DEF Lifecycle!Next
    <2>4. CASE GivenBack(t)
        <3>1. /\ phase[t] = "working"
              /\ tries[t] < MaxAttempts
              /\ phase' = [phase EXCEPT ![t] = "waiting"]
              /\ tries' = tries /\ announced' = announced
            BY <2>0, <2>a, <2>b, <2>4 DEF GivenBack
        <3>2. Lifecycle!GiveBack(t)
            BY <3>1 DEF Lifecycle!GiveBack, phase, tries, announced
        <3> QED
            BY <3>2 DEF Lifecycle!Next
    <2>5. CASE Ended(t)
        <3>0. PICK v \in TERMINAL : v = tasks'[t].status
            BY <2>5 DEF Ended
        <3>1. /\ phase[t] = "working" \/ (phase[t] = "waiting" /\ v = "cancelled")
              /\ v \in {"succeeded", "failed", "cancelled"}
              /\ phase' = [phase EXCEPT ![t] = "ended"]
              /\ tries' = tries
              /\ announced' = [announced EXCEPT ![t] = {v}]
            BY <2>0, <2>a, <2>b, <2>5, <3>0 DEF Ended
        <3>2. Lifecycle!End(t, v)
            BY <3>1 DEF Lifecycle!End, phase, tries, announced
        <3> QED
            BY <3>1, <3>2 DEF Lifecycle!Next, Lifecycle!Verdict
    <2> QED
        BY <2>1, <2>2, <2>3, <2>4, <2>5, RowStep DEF RowMoves
<1> QED
    BY <1>1, <1>2, OneRowMoves

(* The tables implement the life cycle that docs/ARCHITECTURE.md draws:      *)
(* however late the callers and whatever attempt they name, no task is tried *)
(* more than MaxAttempts times, leaves its end again, or ends unannounced.   *)
THEOREM StoreImplementsLifecycle == StoreSpec => ImplementsLifecycle
<1>1. StoreInit => Lifecycle!Init
    <2> SUFFICES ASSUME StoreInit PROVE Lifecycle!Init
        OBVIOUS
    <2>1. ASSUME NEW t \in TaskId
          PROVE  /\ PhaseOf(tasks[t].status) = "absent"
                 /\ tasks[t].attempt = 0
                 /\ Announced(t) = {}
        <3>1. tasks[t] = NoRow /\ DOMAIN events[t] = {}
            BY DEF StoreInit
        <3> QED
            <4>1. TerminalEvents(t) = {}
                BY <3>1 DEF TerminalEvents
            <4>2. Announced(t) = {}
                BY <4>1 DEF Announced
            <4>3. tasks[t].status = "absent" /\ tasks[t].attempt = 0
                BY <3>1 DEF NoRow, NewRow
            <4> QED
                BY <4>2, <4>3 DEF PhaseOf, QUEUED, RUNNING
    <2> QED
        BY <2>1 DEF Lifecycle!Init
<1>2. StoreTypeOK /\ AbsentIsBlank /\ LedgerBalanced /\ LedgerBalanced' /\ [StoreNext]_storeVars
        => [Lifecycle!Next]_(Lifecycle!lifecycleVars)
    BY RefinementStep
<1> QED
    BY <1>1, <1>2, StoreTypeInvariant, AbsentInvariant, LedgerInvariant, PTL
       DEF StoreSpec, ImplementsLifecycle, Lifecycle!Spec
=============================================================================

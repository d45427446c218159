----------------------------- MODULE TaskStore -----------------------------
(* core/store.py: the SQLite tables and the store calls that change them.    *)
(* A call is one transaction, so it is one atomic action; the SELECTs that   *)
(* create_task and add_usage issue before their first write run outside the  *)
(* transaction and are reads of their own (FindByKey, ReadUsage).  An UPDATE *)
(* whose WHERE clause matches no row changes nothing: the action is then      *)
(* disabled, and the caller takes the branch of its own code for rowcount = 0.*)
EXTENDS Models, Sequences

VARIABLES
    tasks,    \* table tasks: one row per id, status "absent" when there is none
    events    \* table events: the rows of each task in the order of their ids

storeVars == <<tasks, events>>

(* usage_json is a sum of token counts; what matters of it is whose tokens   *)
(* are in it.                                                                *)
Usage == SUBSET (1 .. MaxAttempts)

Row ==
    [status : {"absent", QUEUED, RUNNING} \cup TERMINAL,
     attempt : 0 .. MaxAttempts,
     worker : WorkerId \cup {NoWorker},
     reason : FailReason \cup {R_RETRIES, R_CANCELLED, NoReason},
     cancel : BOOLEAN,
     key : Key \cup {NoKey},
     usage : Usage]

(* The defaults of the columns. *)
NewRow(status, k) ==
    [status |-> status, attempt |-> 0, worker |-> NoWorker,
     reason |-> NoReason, cancel |-> FALSE, key |-> k, usage |-> {}]

NoRow == NewRow("absent", NoKey)

Event ==
    [attempt : 0 .. MaxAttempts,
     type : ProgressType \cup TerminalType,
     status : TERMINAL \cup {"none"},
     reason : FailReason \cup {R_RETRIES, R_CANCELLED, NoReason}]

StoreTypeOK ==
    /\ tasks \in [TaskId -> Row]
    /\ events \in [TaskId -> Seq(Event)]

StoreInit ==
    /\ tasks = [t \in TaskId |-> NoRow]
    /\ events = [t \in TaskId |-> <<>>]

-----------------------------------------------------------------------------
(* Reads *)

WithStatus(s) == {t \in TaskId : tasks[t].status = s}

Exists(t) == tasks[t].status # "absent"

HasKey(k) == {t \in TaskId : tasks[t].key = k}

(* The lookup is skipped for a missing key and for the empty one.            *)
FindByKey(k) == IF k \in {NoKey, EmptyKey} THEN {} ELSE HasKey(k)

(* The SELECT of add_usage.                                                  *)
ReadUsage(t) == tasks[t].usage

(* Mutant: the column without UNIQUE.                                        *)
ClashesNever(k) == FALSE

(* The UNIQUE constraint on idempotency_key; SQL NULLs never clash.          *)
Clashes(k) == k # NoKey /\ HasKey(k) # {}

(* Mutants: the comparison without the status; without the attempt.          *)
RunsAttemptAnyStatus(t, a) == tasks[t].attempt = a
RunsAnyAttempt(t, a) == tasks[t].status = RUNNING

(* WHERE id = t AND status = 'running' AND attempt = a *)
RunsAttempt(t, a) == tasks[t].status = RUNNING /\ tasks[t].attempt = a

-----------------------------------------------------------------------------
(* Writes *)

Insert(t, k) ==
    /\ ~Exists(t)
    /\ ~Clashes(k)
    /\ tasks' = [tasks EXCEPT ![t] = NewRow(QUEUED, k)]
    /\ UNCHANGED events

(* Mutant: the claim without the comparison of the status.                   *)
ClaimableAnyStatus(t) == Exists(t) /\ tasks[t].attempt < MaxAttempts

Claimable(t) == tasks[t].status = QUEUED /\ tasks[t].attempt < MaxAttempts

(* Mutant: the attempt counts failures and is not raised by the claim.       *)
ClaimSameAttempt(t, w) ==
    /\ Claimable(t)
    /\ tasks' = [tasks EXCEPT ![t].status = RUNNING,
                              ![t].attempt = IF @ = 0 THEN 1 ELSE @,
                              ![t].worker = w]
    /\ UNCHANGED events

Claim(t, w) ==
    /\ Claimable(t)
    /\ tasks' = [tasks EXCEPT ![t].status = RUNNING,
                              ![t].attempt = @ + 1,
                              ![t].worker = w]
    /\ UNCHANGED events

AppendEvent(t, a, type, status, reason) ==
    events' = [events EXCEPT ![t] = Append(@,
        [attempt |-> a, type |-> type, status |-> status, reason |-> reason])]

(* append_event as emit calls it: neither the attempt nor the status of the  *)
(* row is looked at.                                                         *)
AppendProgress(t, a, type) ==
    /\ AppendEvent(t, a, type, "none", NoReason)
    /\ UNCHANGED tasks

(* The terminal UPDATE and its event share a transaction.                    *)
Settle(t, a, status, reason) ==
    /\ tasks' = [tasks EXCEPT ![t].status = status, ![t].reason = reason]
    /\ AppendEvent(t, a, IF status = SUCCEEDED THEN EV_COMPLETED ELSE EV_FAILED,
                   status, reason)

Finish(t, a, o) ==
    /\ RunsAttempt(t, a)
    /\ Settle(t, a, o.status, o.reason)

Requeue(t, a) ==
    /\ RunsAttempt(t, a)
    /\ tasks' = [tasks EXCEPT ![t].status = QUEUED, ![t].worker = NoWorker]
    /\ UNCHANGED events

(* Mutant: the event is written for the attempt that will not take place.    *)
FailExhaustedNextAttempt(t, a) ==
    /\ RunsAttempt(t, a)
    /\ Settle(t, a + 1, FAILED, R_RETRIES)

FailExhausted(t, a) ==
    /\ RunsAttempt(t, a)
    /\ Settle(t, a, FAILED, R_RETRIES)

CancelQueued(t) ==
    /\ tasks[t].status = QUEUED
    /\ Settle(t, 0, CANCELLED, R_CANCELLED)

(* Mutant: the flag is set on ended tasks too.                               *)
FlaggableAlways(t) == Exists(t)

Flaggable(t) == Exists(t) /\ tasks[t].status \notin TERMINAL

RequestCancel(t) ==
    /\ Flaggable(t)
    /\ tasks' = [tasks EXCEPT ![t].cancel = TRUE]
    /\ UNCHANGED events

(* The UPDATE of add_usage: the total the caller read, and the tokens of the *)
(* attempt a.  Neither status nor attempt is compared, so ended rows are     *)
(* written too.                                                              *)
AddUsage(t, a, total) ==
    /\ Exists(t)
    /\ tasks' = [tasks EXCEPT ![t].usage = total \cup {a}]
    /\ UNCHANGED events

-----------------------------------------------------------------------------
(* The store with callers that hold any attempt number and any total, however*)
(* stale.  The one thing asked of them is what worker/reconcile.py:14 checks: *)
(* an attempt is given back only while another one is left.                  *)
StoreNext ==
    \E t \in TaskId :
        \/ \E k \in Key \cup {NoKey} : Insert(t, k)
        \/ \E w \in WorkerId : Claim(t, w)
        \/ \E a \in 1 .. MaxAttempts, type \in ProgressType :
                AppendProgress(t, a, type)
        \/ \E a \in 1 .. MaxAttempts, o \in Outcome : Finish(t, a, o)
        \/ \E a \in 1 .. MaxAttempts : a < MaxAttempts /\ Requeue(t, a)
        \/ \E a \in 1 .. MaxAttempts : FailExhausted(t, a)
        \/ CancelQueued(t)
        \/ RequestCancel(t)
        \/ \E a \in 1 .. MaxAttempts, total \in Usage : AddUsage(t, a, total)

StoreSpec == StoreInit /\ [][StoreNext]_storeVars

-----------------------------------------------------------------------------
(* Properties *)

TerminalEvents(t) == {i \in DOMAIN events[t] : events[t][i].type \in TerminalType}

(* The event that closes a row: it carries the row's own verdict, its reason *)
(* and its attempt, or attempt 0 when the task was cancelled in the queue.   *)
Closes(e, row) ==
    /\ e.status = row.status
    /\ e.reason = row.reason
    /\ e.type = EV_COMPLETED <=> row.status = SUCCEEDED
    /\ e.attempt = row.attempt \/ (e.attempt = 0 /\ row.status = CANCELLED)

Balanced(t) ==
    IF tasks[t].status \in TERMINAL
    THEN \E i \in DOMAIN events[t] :
            /\ TerminalEvents(t) = {i}
            /\ Closes(events[t][i], tasks[t])
    ELSE TerminalEvents(t) = {}

(* The books balance (docs/ARCHITECTURE.md section 2, item 7): no task is     *)
(* terminal without a terminal event, none has two, none is announced as     *)
(* finished while its row is not, and event and row tell the same story.     *)
LedgerBalanced == \A t \in TaskId : Balanced(t)

(* A queued task can always be claimed: the store never parks a task that    *)
(* has used its last attempt, which no worker would ever pick up again.      *)
QueuedHasAttemptLeft ==
    \A t \in TaskId : tasks[t].status = QUEUED => tasks[t].attempt < MaxAttempts

(* What a task came to is never written again, whoever wakes up late: of an  *)
(* ended row at most usage_json changes (and updated_at, not modelled), in   *)
(* which add_usage goes on counting.                                         *)
VerdictIsFinal ==
    [][\A t \in TaskId : tasks[t].status \in TERMINAL =>
          tasks'[t] = [tasks[t] EXCEPT !.usage = tasks'[t].usage]]_storeVars

(* The attempt number is a fencing token: a task that starts running again   *)
(* does so under a number no earlier run had, so that the comparison         *)
(* (running, attempt) in finish, requeue and fail_exhausted cannot take a    *)
(* stale caller for the current one.                                         *)
AttemptIsFresh ==
    [][\A t \in TaskId :
          /\ tasks'[t].attempt >= tasks[t].attempt
          /\ tasks'[t].status = RUNNING /\ tasks[t].status # RUNNING
                => tasks'[t].attempt > tasks[t].attempt]_storeVars

-----------------------------------------------------------------------------
(* Refinement *)

PhaseOf(status) ==
    CASE status = "absent" -> "absent"
      [] status = QUEUED -> "waiting"
      [] status = RUNNING -> "working"
      [] OTHER -> "ended"

Announced(t) == {events[t][i].status : i \in TerminalEvents(t)}

Lifecycle == INSTANCE TaskLifecycle WITH
    phase <- [t \in TaskId |-> PhaseOf(tasks[t].status)],
    tries <- [t \in TaskId |-> tasks[t].attempt],
    announced <- [t \in TaskId |-> Announced(t)]

(* The tables implement the automaton the architecture document draws.       *)
ImplementsLifecycle == Lifecycle!Spec
=============================================================================

# Verification of the cloud agent platform

The repository is a small platform that runs coding agents in Docker sandboxes:
an API takes a prompt, worker processes take it from a Redis queue, run an agent
loop in a fresh container, record every step in SQLite and stream it to clients.
Its difficult part is not the agent.  It is the agreement between processes that
may die, stall or be run twice about *who runs which attempt of which task, how
the task ended, and what a client that follows it gets to see*.  This directory
models that in TLA+, checks it with TLC and proves the heart of it with TLAPS.

## 1. The system

Several processes share four pieces of state; nothing else connects them.

| Shared state | Written by | Lost when |
|---|---|---|
| SQLite file, tables `tasks` and `events` (`core/store.py`) | API, workers | never |
| Redis: list `cap:queue`, keys `cap:lease:*`, pubsub (`core/queuebus.py`) | API, workers | Redis restarts |
| Docker containers, labelled with task and attempt (`sandbox/docker_provider.py`) | workers | removed by label |
| artifact files (`worker/attempt.py`) | workers | never |

### Components

| Component | State | Operations | What makes it correct |
|---|---|---|---|
| `core/models` | the vocabulary | | |
| `core/config` | limits, from the environment | `load_config` | |
| `core/store` TaskStore | rows and events | `create_task`, `claim`, `append_event`, `finish`, `requeue`, `fail_exhausted`, `cancel_queued`, `request_cancel`, `add_usage`, reads | one terminal event per ended task, agreeing with its row; a verdict never changes, though usage may still be added to its row; the attempt number fences late callers; a queued task has an attempt left |
| `core/queuebus` QueueBus | queue, leases | `enqueue`, `dequeue`, `queued_ids`, `acquire_lease`, `renew_lease`, `release_lease`, `lease_token`, `active_leases`, pubsub | nothing in it is needed for safety; ids are not lost for good and do not pile up; slots are given back |
| `worker/reconcile` | snapshots of rows and of the queue | one pass per poll | takes an attempt away only after its lease is gone; finds every stored task again |
| `worker/main` | the loop | start-up gc, `poll_once` | survives what `poll_once` raises; keeps the concurrency within a bound; tries to clear what a crash left |
| `worker/attempt` | cancel/timeout flags, two threads | `run_attempt`, `heartbeat`, `reaper`, `emit` | the verdict of the attempt matches what ended it; run_attempt itself tries to save artifacts before it destroys |
| `sandbox/` | containers | `start`, `destroy`, `remove_for_task`, `gc`, exec and copy | a container exists while its attempt runs; errors of Docker are swallowed, so nothing ensures that it goes |
| `api/main` tasks, cancel | requests in flight | `POST /tasks`, `POST /tasks/{id}/cancel` | answers stay true; a repeated key names the task it made |
| `api/main` `_stream` | position in the history | subscribe, replay, live | events in order, none twice, none missing that the history had; live, some may be lost |
| `api/main` artifacts | none | list, download | a download stays inside its directory |
| `agent/loop`, `agent/tools` | messages, step count | model turn, tool calls, nudge, stop checks | ends within the step limit; every call is answered once |
| `agent/llm` | none | retry with pauses | a bounded number of tries and pauses; transport errors and every status from 400 up are retried, an unreadable body is not |
| `agent/mock`, `worker/record` | replay cursor | `chat`, record | a recording that was written replays to its end, step for step |
| `cli/main` | last event id, reconnects | `follow_events` | never shows an event twice or out of order, whatever breaks |

### How they interact

`POST /tasks` inserts a row and pushes its id, in that order.  A worker polls:
it reconciles, passes the concurrency gate, pops an id, takes the lease
(`SET NX EX`), claims the row (a compare-and-set on status and attempt), clears
old containers of the task, runs the attempt under a heartbeat that renews the
lease and a reaper that watches the cancel flag and the deadline, writes the
verdict with its event in one transaction, and deletes its lease.  `reconcile`
takes back running rows without a lease and pushes queued rows that are in no
queue.  A cancellation ends a queued task outright and flags a running one.

### What is hard

* **Interleaving.**  `poll_once` and `reconcile` are sequences of single calls;
  every other process may act between any two of them, and reconcile keeps
  acting on the rows and ids it read first.
* **Failure.**  A process may die between any two calls; `poll_once` may raise
  anywhere and is simply polled again; Redis may restart empty.
* **Zombies.**  A worker may lose its lease without noticing, and go on with an
  attempt that others have requeued, rerun or cancelled.
* **Duplicates.**  Ids are pushed by the API, by several reconciles and by
  requeues, with nothing to keep them unique.
* **Threads.**  Heartbeat and reaper act between any two calls of the attempt they
  belong to, on its lease and on its container, and may die without a sound.
* **Order of news.**  An event is inserted first and published afterwards, by
  several writers, to subscribers that come, go and come back.

`PROJECT.json` lists the hazards one by one, each at its line.

## 2. Modules

| Module | Models | Built on |
|---|---|---|
| `TaskLifecycle` | abstract: the automaton `docs/ARCHITECTURE.md` section 2 draws, with no queue, lease or worker in it | |
| `Models` | `core/models.py`, the constants and their assumptions | |
| `TaskStore` | `core/store.py` | `Models` |
| `QueueBus` | `core/queuebus.py`: queue and leases | `Models` |
| `Sandbox` | which containers exist | `Models` |
| `Worker` | `worker/main.py`, `worker/reconcile.py`, `worker/attempt.py` | store, bus, sandbox |
| `Api` | submission and cancellation in `api/main.py` | store, bus |
| `Platform` | the deployed system, its properties and its fairness | `Worker`, `Api` |
| `Attempt` | `worker/attempt.py` in full: three threads, the lease as a key that runs out, artifacts, `add_usage` | `TaskStore` |
| `Agent` | `agent/loop.py`, `chat` of `agent/llm.py`, what `agent/tools.py` may end in, `worker/record.py` and `agent/mock.py` | |
| `FollowedLog` | abstract: what a client that follows a task is promised | |
| `EventStream` | `_stream` of `api/main.py`, pubsub, `follow_events` of `cli/main.py` | `FollowedLog` |
| `TaskStoreProofs` | theorems about `TaskStore` | `TaskStore` |
| `PlatformProofs` | theorems about `Platform`: types, the store contract, who runs what, answers | `Platform`, `TaskStoreProofs` |
| `PlatformHistoryProofs` | what attempts leave behind: containers and histories | `PlatformProofs` |
| `PlatformBoundsProofs` | capacity: leases, copies of an id in the queue | `PlatformProofs` |
| `AttemptProofs` | theorems about `Attempt` | `Attempt`, `TaskStoreProofs` |
| `AgentProofs`, `ReplayProofs` | theorems about `Agent`; its recordings and their replay | `Agent` |
| `EventStreamProofs` | theorems about `EventStream` | `EventStream` |
| `MCTaskStore`, `MCPlatform` | bounds and symmetry for TLC; the other modules are small enough to be run as they are | |

`Platform` composes the components and keeps the inside of an attempt coarse.
`Attempt`, `Agent` and `EventStream` each open one box that `Platform` keeps shut:
what the heartbeat and the reaper do during `RunEnds` and `LoseLease`, what
happens inside `run_agent`, and who reads what `Emit` writes.

### TaskStore

`tasks[t]` is the row of task `t`, status `"absent"` when there is none; `events[t]`
the rows of table `events` for `t` in the order of their ids.  Each method that
changes them is one action (`Insert`, `Claim`, `AppendProgress`, `Finish`,
`Requeue`, `FailExhausted`, `CancelQueued`, `RequestCancel`, `AddUsage`), because
each is one transaction.  The exceptions are `create_task` and `add_usage`, whose
`SELECT` runs before the transaction: these are the reads `FindByKey` and
`ReadUsage`, which the callers take as steps of their own.  `usage` is the set of
attempts whose tokens are in `usage_json`; `AddUsage` compares neither status nor
attempt, and so writes ended rows too.  `updated_at` is left out.  An `UPDATE` whose
`WHERE` matches nothing leaves the action disabled and the caller takes its
`rowcount = 0` branch (`ClaimRefused`, `FinishRefused`, `ReclaimLost`).

`StoreNext` is the store under *every* caller, naming any attempt and bringing any
usage total, however stale.
One thing is asked of callers: `requeue` only while an attempt is left, which is
the test in `worker/reconcile.py:14`.  The run `platform_crashes` checks that the
workers and the API keep to it (`UsesStore`), and `PlatformProofs` proves it.

### QueueBus and Sandbox

A lease is a token drawn with `uuid4` when it is taken.  The model names the
worker instead of the token.  The two agree because a worker holds one attempt at
a time and draws no other token between `SET NX` and its release; a lease it
reads back under its own name is the one it wrote.  `release_lease` is a `GET`
and a `DEL`, two steps (`ReadLease`, `DropLease`).  `containers` is the set of
`<<task, attempt>>` labels; it survives its worker.  `gc` and `remove_for_task` list
first and remove one container after the other (`found`), and swallow what Docker
answers: `Remove` is the removal, `RemoveRefused` the error nobody hears of, which
`refused` records for the properties alone.  `destroy` does the same with one.

### Worker

`pc[w]` says which call a worker makes next; the other variables hold the locals
that outlive a call: `rows` and `ids` (the snapshots of reconcile and of the
start-up gc), `found` (containers listed and still to remove), `job` (task and attempt
in hand), `outcome`, `total` (the usage read).

    main        boot gc sweep
    reconcile   scan check reclaim push list match repush
    poll_once   gate pop acquire claim clear prior
    run_attempt announce start run unwind bank add finish
    release     readlease dellease

`Restart` is the return to the top of the loop, which drops every local.
`ScanRunning` reads the running rows once, `CheckLease` reads one lease, and
`GiveBack` / `GiveUp` act on that row with the attempt number read at the scan.
`ListQueue` reads the queue *before* `MatchQueued` reads the table, as the code
does, so both snapshots may be old when `Repush` acts.

What goes wrong is explicit: `Crash` (any point), `Boot`, `Raise` (any call of the
loop; while the agent runs the `finally` block comes first), `StartFails` (the
container runs, copying the workspace raises, nobody has its handle),
`DockerFails` (a tool's call), `ContainerStays` and `OwnContainerStays` (a removal is
refused), `LeaseExpires` (nobody renews any more), `LoseLease` (a live worker's
lease runs out) and `RedisRestarts`.

Abstractions, and why they lose nothing the properties speak of:

* the heartbeat and the reaper are folded into `LoseLease` (a renewal that fails
  or comes late) and `RunEnds` (the run may end as cancelled only once the flag
  is up);
* the model's turns are `Emit`: one event type stands for `llm.message`,
  `tool.call` and `tool.result`, which no property tells apart;
* `model_error` stands for every failure that has nothing to do with the other
  components (`max_steps`, `timeout`, `sandbox_oom`); `tool_error` is kept apart
  because a container that vanishes causes it;
* artifacts and pubsub change no state that any of these components reads back;
  `Attempt` and `EventStream` model them.

### Api

`req[r]` is a request in flight: where it stands, its task, its key, and what it
was answered.  `LookUp`, `InsertTask` / `InsertRefused`, `EnqueueTask` are
`POST /tasks`; `GetForCancel`, `CancelInQueue`, `FlagRunning` the cancellation;
`LoseRequest` is the API dying in the middle.  `FindByKey` skips the empty key,
as `if idempotency_key:` does in Python, while the UNIQUE column does not.

### Attempt

A claim gives every attempt a number, and everything one call of `run_attempt`
owns is indexed by it.  `pc[a]` is the main thread:

    clear start run askoom                 poll_once, and run_attempt up to its verdict
    save destroy bank add finish release delete     the finally block and what follows

`bank` and `add` are the `SELECT` and the `UPDATE` of `add_usage`, `release` and
`delete` the `GET` and the `DEL` of `release_lease`; `askoom` is the moment
between the look at `stop_reason` (`attempt.py:64`) and the one at the container.
`hb[a]` is the heartbeat, with the `GET` (`CheckToken`) and the `EXPIRE` (`Extend`)
of a renewal apart; `reaper[a]` the reaper, with the reason it appends (`Look`) and
the container it removes (`Kill`) apart.  The lease is its holder and the ticks it
has left; `beat[a]` counts down to the next renewal, and `Tick` moves both.  Time
stops for nobody but a renewal that would otherwise be more than `MaxLate` late: a
call of the main thread takes as many ticks as it likes.

Faults are `Crash`, `RunRaises` (an exception out of `run_agent`), `Raise` (any
other call of the main thread), `HeartbeatDies`, `ReaperDies`, `OomKills`,
`DockerFails` (a tool's call), and the Docker errors the code swallows:
`AskOomFails`, `SaveFails`, `BoxStays`, `KillFails`, and a `Clear` that does not
remove all; with `RequestStop`, `DeadlinePasses` and a lease that runs out under an
attempt at work they share the bound `MaxIncidents`.  `hit[a]` records what befell
the container, the reaper's own `destroy` apart, and a download Docker refused.
Simplified: `SET NX` and `claim` are one step, and so are the listing and the
removals of `remove_for_task` (`Worker` has them apart); what nobody reads after an
attempt is set back (`Forget`), so that states stay few.

### Agent

`at` is the place in `run_agent`: the top of the loop, inside `chat`, between two
calls, inside a tool, out.  `chat` is one `POST` per step, each of which is
answered, fails, or brings a body `_parse` cannot read.  A message keeps its role
and the ids of the calls it makes or answers, an event its type and its id.  A
call is one of five kinds: it runs, it is refused (unknown tool, missing argument),
its arguments are no JSON object, the tool raises what `run_agent` does not catch,
or Docker refuses what the tool asks of it in a live container.  `Stop` is the
reaper's reason and `BoxDies` the loss of the container, each at any moment.
With `mode = "record"` the run is one of `worker/record.py`; `StartReplay` hands a
recording that was written to `MockProvider`, and the run starts over.

### EventStream and FollowedLog

`log` is the history of one task; the id of an event is its place in it.  A writer
inserts (`InsertEvent`) and then publishes (`Publish`) or never does (`Forget`).
`stream` is the place in the generator, `seen`, `upto`, `done` its locals, `inbox`
what its subscription has received, `wire` the frames under way to the client.
`Subscribe` returns when the command is sent; Redis takes it in later
(`TakeSubscription`), because nothing waits for its answer.  `client`, `last` and
`reconnects` are `follow_events`.  `Break` cuts a connection anywhere and delivers
any part of what was on the wire; `Refused` is a connection that is not made, and
`Rejected` an error status, which `raise_for_status` turns into an exception that
`follow_events` does not catch.

Three sets only record: `overtaken` (ids beyond the history of this connection that
were unpublished when a later one was published), `unheard` (published after that
history was read, but before Redis had the subscription) and `forgotten`.  A live
stream drops what is not above the last id it sent, so the first two are exactly
what it may leave out; a new connection starts with both empty.  `FollowedLog` has
`missed` for their union and no connection, position or pubsub at all.  It promises
less than `cli/main.py` and `api/main.py` say of themselves: section 6 has the runs
that show these events lost.

## 3. Runs

| Run | Instance | What it shows |
|---|---|---|
| `store` | 2 tasks without keys, 2 attempts | the tables keep their books and implement `TaskLifecycle` under arbitrary callers; of an ended row only the usage is written |
| `platform_crashes` | 1 task, 2 workers, 1 request, 2 faults | recovery takes no attempt from a worker that keeps its lease; histories are in order; a new attempt finds no old container but one Docker refused to remove; every step is a step of `StoreNext` |
| `platform_zombies` | 1 task, 2 workers, 2 requests, 1 lost lease | attempts overlap, yet no attempt runs twice, no answer to a cancellation is taken back, and the queue holds few copies of an id |
| `platform_requests` | 2 tasks, 1 worker, 2 requests, 1 fault | concurrent submissions under equal, empty and absent keys |
| `platform_liveness` | 1 task in the table, queued or not, 2 workers, 1 fault, 1 lost lease or Redis restart | the task ends, given up when both attempts are used up, and its slot and queue entries go away for good |
| `attempt` | 2 attempts at 1 task, 2 incidents | verdicts have their causes; artifacts are saved unless a stop or a successor came first or Docker refused; usage adds up unless a lease ran out; a renewed lease is not lost to time; a stop is obeyed |
| `agent` | 2 turns, 2 calls per reply, 3 tries per chat | calls and answers pair up in transcript and events; a stop takes hold before the next chat or tool; tries, pauses and tool calls keep to their budget; recordings replay |
| `stream` | 2 writers, 3 events, 1 reconnect, 1 event never published | the stream and its client implement `FollowedLog`; nothing but an unheard event is stranded at the hand-over; a follower gets to the end, gives up or is rejected, unless its open connection missed the end |

Four more runs, `finding_*`, are expected to end in a counterexample; section 6 has
them, and the configurations beside them that are not listed as runs: those with a
counterexample each (`Finding*.cfg`), and two that pass:

* `PlatformCapacity.cfg` (`MCPlatform`; 3 queued tasks, 2 workers, cap 1, 1 fault):
  both workers pass the gate at once, beside the lease of a crash, and `LeasesBounded`
  holds, fewer leases than cap and workers together.  Theorem `LeasesStayBounded`
  says so for any number of workers.
* `PlatformRecovery.cfg` (`MCPlatform`; 1 task, 1 worker, 1 request, 2 faults, 1 lost
  lease or Redis restart): `EveryTaskEnds` from the first request on.

### Bounds

| Constant | Why the value is enough |
|---|---|
| `TaskId` | tasks meet only in the queue, the cap and the keys; one is enough where those play no part, two where keys do, three where the cap does (`PlatformCapacity.cfg`) |
| `WorkerId` | two: a holder and a rival.  With two workers and a lost lease both ends of every compare-and-set are reached |
| `MaxAttempts` | 2, the program's own default: a first attempt, a retry, and the refusal of a third |
| `RequestId` | two: two submissions that race, or a submission and its cancellation |
| `MaxFaults` | crashes, exceptions, Docker failures and refused removals: 2 use up both attempts, so that a task is given up, or crash one attempt and refuse to remove its container |
| `MaxLostLeases` | 1 lease lost by a live worker, or one Redis restart: enough for a zombie beside its successor, and with one crash to use up both attempts (`platform_liveness`) |
| `MaxProgress`, `MaxEvents` | rows a history may have while it still gains loop events; 2 lets both attempts write.  0 where no property looks at histories |
| `MaxConcurrency` | 1: with two workers the gate is contended |
| `Interval`, `MaxLate` (`Attempt`) | one tick between renewals, a third of the TTL, and one tick of delay: with 3 ticks to live a renewal may come with one tick to spare |
| `MaxIncidents` | 2: a stop or a deadline together with a fault, or a lease that ran out together with either |
| `MaxSteps`, `MaxCalls` (`Agent`) | 2 and 2: a turn after a turn, a call after a call, and the end of both loops |
| `MaxRetries` | 3, the program's own: the pauses 1 and 2 differ, and the last try has none |
| `MaxEvents` (`EventStream`) | 3: an event before, at and after the hand-over, or after the end |
| `StartId` | 0 and 1: from the beginning, and from an event that may not be there yet |
| `MaxReconnects` | 1 instead of 30: a reconnect that succeeds, and giving up |
| `MaxForgotten` | 1 event that is never published: the terminal one or one before it |

Each bound is a guard on a fault, a request or a progress event, never on a
worker's own step.  `platform_crashes` and `platform_zombies` split the faults
between them, so that each exhausts its state space in one or two minutes.
`platform_liveness`, `PlatformCapacity.cfg` and three of the counterexamples begin
with the tasks in the table (`LoadedInit`), a state every run of `Init` can get to:
the requests are over, no worker has looked yet, and an id is in the queue unless the
API died before it was pushed.

### Fairness

`FairSpec` assumes that a worker that is up keeps taking steps (the `while True`
of `worker/main.py`, whose calls all return or raise) and that Redis expires a key
that is not renewed (`SET ... EX`).  Nothing is assumed of clients, of the API or
of faults, and nothing of `Boot`: `docker-compose.yml` sets no restart policy, so
a crashed worker may stay down.  That not all of them do is the hypothesis of the two
liveness properties (`SomeWorkerUp`: some worker is up again and again), without
which `docs/ARCHITECTURE.md` section 2, item 8, promises nothing either.
Weak fairness suffices: while one worker's step is enabled only its own moves
disable it, except for steps whose alternative is then enabled, which
`WorkerStep` contains as well.

`Attempt` assumes that the reaper is scheduled and that an agent that has been told
to stop finds out (`RunStopped`: chats and tools have timeouts, and a tool blocked
in a destroyed container ends).  `EventStream` assumes that the API serves its
generators, that Redis takes in a subscription, that the client reads and
reconnects, and that a writer that has inserted an event publishes it or dies.
Nothing is assumed of connections, and no event has to be written.  Both say
`CHECK_DEADLOCK FALSE`: there the system may stop, when the task has ended or the
client is done.  `Agent` has no liveness property; its `Finished` is the end of a run.

## 4. Proofs

Every invariant and every action property that a passing run checks is also a
theorem, and so are the refinements of the two abstract specifications.  TLC shows
them on the instances above, TLAPS for all values of the constants that the named
assumptions admit, the bounds of the runs among them, and without symmetry.

### The store

`TaskStoreProofs` proves, for every set of tasks, workers and keys and every
`MaxAttempts` in `Nat \ {0}` (`MaxAttemptsAssumption`; no other assumption is used):

| Theorem | States |
|---|---|
| `StoreTypeInvariant` | `StoreSpec => []StoreTypeOK`: columns keep their types, the attempt never passes `max_attempts` |
| `LedgerInvariant` | `[]LedgerBalanced`: ended if and only if announced once, with the row's verdict, reason and attempt |
| `QueuedInvariant` | `[]QueuedHasAttemptLeft` |
| `VerdictsAreFinal` | `VerdictIsFinal`, an action property: of an ended row only the usage is still written |
| `AttemptsAreFresh` | `AttemptIsFresh`: the attempt number is a fencing token |
| `StoreImplementsLifecycle` | `StoreSpec => ImplementsLifecycle`: the refinement of `TaskLifecycle` |

**Argument.**  The type invariant is inductive as it stands: a claim raises the
attempt only below `MaxAttempts`, and finish, requeue and fail_exhausted compare
the attempt they are given with the row's.  `LedgerBalanced` is inductive beside
it.  Its proof splits the calls four ways: those that write no event and leave the
verdict alone (`SameVerdictBalances`: flagging, billing), those that move a row
between live statuses (`LiveBalances`), those that append a progress event
(`ProgressBalances`: the indices of terminal events do not change), and those that
settle a row (`SettleBalances`: the row was live, so it had no terminal event; it
gets exactly the one that is appended).  The CAS enters as "the row was live, and
its attempt is the caller's".

The other theorems look only at what a step does to *one row*.  `RowStep` shows
that any step leaves a row alone or creates, claims, gives back, ends, flags or bills it
(`RowMoves`), and each theorem is then a case split on six lines.  Freshness also
needs that a row not yet created has attempt 0 (`AbsentInvariant`).  Billing, that
is `add_usage`, asks for neither status nor attempt, and is why an ended row keeps
its verdict and not every column.  `KeyInvariant`, the UNIQUE column, is a lemma for
the answers below.

The refinement maps the status to the phase, the attempt to the tries and the
verdicts of the terminal events to what was announced.  `LedgerBalanced`, before
and after the step, turns the last into a function of the row alone
(`AnnouncedVerdict`); `OneRowMoves` says that one row changes at a time; the moves
of `RowMoves` are then the steps Submit, Start, GiveBack and End, flagging and
billing a stutter.

### The platform

`PlatformProofs` proves, for every number of workers, tasks, requests, keys,
attempts, faults and lost leases, from `MaxAttemptsAssumption`,
`BoundAssumption`, `TaskAssumption`, `WorkerAssumption`, `KeyAssumption` and
`ToolErrorAssumption`:

| Theorem | States |
|---|---|
| `PlatformTypeInvariant` | `Spec => []TypeOK` |
| `PlatformUsesStore` | `Spec => StoreSpec`: every step of a worker or of the API is a store call the contract allows, or none |
| `PlatformLedger`, `PlatformImplementsLifecycle` | with the above, two store theorems for the deployed system |
| `OneRunner` | `[]OneRunnerPerAttempt` |
| `NoLiveAttemptReclaimed` | `[]FencedOnlyAfterLeaseLoss` |
| `CancelAnswers` | `[]CancelAnswersHold` |
| `KeyAnswers` | `[]SameKeySameTask` |
| `SandboxIsCleared` | `[]PriorSandboxCleared` (`PlatformHistoryProofs`) |
| `HistoryIsOrderly` | `[]OrderlyHistory` (`PlatformHistoryProofs`) |
| `LeasesStayBounded` | `[]LeasesBounded` (`PlatformBoundsProofs`) |
| `CopiesStayBounded` | `[]CopiesBounded` (`PlatformBoundsProofs`) |

The last two count workers, so they use `WorkersAreFinite` as well, and the first of
them `ConcurrencyAssumption`; no other proof needs the set of workers to be finite.

**Argument.**  `TypeOK` is not inductive: that `finish` is called with a task and
an attempt follows only from where the worker stands.  `InHand` adds what each
location knows (`LocalsOK`, `RequestOK`) and that a running row has been claimed
(`RunningHasAttempt`, without which a scan could hand attempt 0 to `requeue`).
From these two, `StepUsesStore` maps every action to `StoreNext`.

The rest speaks of one worker at a time.  `StepMoves` shows that a step leaves a
worker's program counter, rows and job alone, moves it on with the same job, or
makes it scan, check a lease, claim, or go elsewhere (`WorkerMoves`).

* *One runner.*  `AttemptsSeen`: no worker holds an attempt number above the one
  in the row.  A claim hands out the row's number plus one, which is then nobody
  else's; two claims cannot be one step because the row names one claimant.
* *Fencing*, while no lease was lost.  `LeaseHeld`: from `SET NX` to the release, a
  worker holds the lease of its task.  `NoneReclaimed`: reconcile's row in hand is
  never the attempt of a worker at work.  It was checked without a lease, at which
  moment nobody ran it; and whoever starts later runs a higher number.
  `StillRuns` then shows that a current attempt is only ended by a reclaim of that
  very attempt or by its own finish.  This is why a snapshot of any age is
  harmless.
* *Answers.*  `RequestMoves` lists what a step does to a request; the verdicts of ended
  tasks do not change (`RowMoves`), a created task has one request to its name
  (`NamesItsKey`), and the UNIQUE column does the rest.
* *Containers*, while no lease was lost.  The fencing argument is collected in
  `FenceInv`, from which `OneHolder` says that of the workers that believe to hold
  the lease of a task there is one.  A worker comes to where it runs an attempt by
  way of `remove_for_task` alone (`HowCleared`), from whose listing on only it makes
  a container of that task (`OwnContainers`).  `PriorListed` carries the listing
  through the removals: what was found is still to be removed, or gone, or refused
  (`HowListed`), and a refusal is forgotten only with its container
  (`RefusedMoves`).
* *Histories*, while no lease was lost.  Whoever appends a progress event then runs
  the current attempt (`NoLiveAttemptReclaimed`), and whoever appends a terminal one
  settles a row that was live.  So the row had not ended, nothing terminal was
  there (`LedgerBalanced`), and the new event carries the row's attempt, above which
  no event of the history is (`EventsSeen`), or none.
* *Leases.*  `LeasesBounded` is not inductive: a worker that has passed the gate may
  still take a lease the gate did not count.  `LeaseBudget` adds these workers
  (`Admitted`): leases and admitted workers together stay below the cap and all
  workers.  Only passing the gate raises the sum, and behind it there are at most
  all workers and, as the gate has just counted, fewer leases than the cap.
* *Copies.*  `PushBudget` counts for every task what is in the queue and what may
  yet be put there: the copies, the workers that go through a snapshot of the queue
  without the id or stand before its push (`Pushers`), the request that has not
  pushed it (`Waiting`) and the attempts that may be given back (`Left`).  A push
  takes its worker, or the request, out of the sum; giving an attempt back brings
  one in and spends that attempt.  A worker that lists the queue becomes a pusher
  only if the id is not in it, and then the sum is at most all workers, the
  request and the attempts, whatever it was before.

### Attempt, agent and stream

`AttemptProofs` uses `AttemptAssumption`, `MaxAttemptsAssumption` and, for the types
of verdicts, `VerdictAssumption` (the reasons the code names are among `FailReason`);
`AgentProofs` and `ReplayProofs` use `AgentAssumption`, `EventStreamProofs`
`StreamAssumption`.

| Module | Theorem | States |
|---|---|---|
| `AttemptProofs` | `AttemptTypesHold` | `Spec => []AttemptTypeOK` |
| | `AttemptUsesStore` | `Spec => [][StoreNext]_storeVars`: the threads of an attempt keep to the contract of the store, too |
| | `AttemptKeepsLedger`, `AttemptEndsOnce` | `Spec => []LedgerBalanced`, `Spec => VerdictIsFinal`: two store theorems, carried over |
| | `HeartbeatIsEnough` | `Spec => HeartbeatKeepsLease` |
| | `VerdictsHaveCauses` | `Spec => []VerdictHasCause` |
| | `ArtifactsAreKept` | `Spec => []ArtifactsKept` |
| | `UsageIsSummed` | `Spec => []UsageAddsUp` |
| `AgentProofs` | `AgentTypesHold` | `Spec => []AgentTypeOK` |
| | `StopIsSoon` | `Spec => []StopsSoon` |
| | `RunsWithinBudget` | `Spec => []BudgetKept` |
| | `TranscriptsAreWellFormed` | `Spec => []TranscriptWellFormed` |
| `ReplayProofs` | `RecordingsReplay` | `Spec => []ReplayMatches` |
| `EventStreamProofs` | `StreamTypeInvariant` | `Spec => []StreamTypeOK` |
| | `NothingIsStranded` | `Spec => []NothingStranded` |
| | `StreamImplementsFollowedLog` | `Spec => ImplementsFollowedLog` |

* *Heartbeat.*  `LeaseInv`: while an attempt that holds the lease waits for its next
  renewal, the lease has more ticks left than the renewal may still take
  (`LeaseCovers`).  A tick lowers both sides by one; a renewal sets them to `TTL`
  and `Interval`; the inequality `MaxLate < 2 * Interval` is what the code's "a
  third of the TTL" buys.
* *Causes.*  `CauseInv` follows a container from the reaper's reason to the verdict:
  a container that is gone and that no other attempt cleared was removed by a reaper
  that had its reason before (`Look` before `Kill`, the mutant `LookAndKill` swaps
  them), so whoever finds it gone and no reason has something else to blame.  Between
  the looks at the reason and at the container (`askoom`) a reaper may still remove
  it: then a stop was asked for, which is the one way an OOM kill turns into a
  `tool_error` with Docker answering as it should.
* *Types and the store.*  `AttemptInv` needs, beside types, that a running row was
  claimed (`RunningIsClaimed`).  As every claim raises
  the row's attempt, `finish`, `requeue` and `fail_exhausted` are called as
  `StoreNext` allows, in every interleaving of the threads (`StoreUsed`).  The first
  state of `Attempt` is not that of the store, a task having been submitted, so
  the step lemmas of `TaskStoreProofs` are used and not its theorems.
* *Usage.*  `BooksRight`: while no lease has run out under an attempt at work,
  whoever is at work holds the lease; there is one lease, so nobody else writes the
  row between the `SELECT` and the `UPDATE` of `add_usage`.  Then what was read is
  still there when it is written (`total = usage` at `add`).
* *Stops.*  `LateInv`: no tool and no first `POST` begins with the reason there, and
  a chat's late `POST`s are at most its failed tries.
* *Budget.*  `ToolsCounted` and `PostsCounted` say at each place of the loop how much
  of the turn's share is used: before the `tries`-th retry the pauses sum up to
  `2 ^ tries - 1`.  At the end of a turn the tools that were called are at most
  `MaxCalls` for every turn (`ToolsOfTurns`).  That `2 ^ (n + 1) = 2 * 2 ^ n` is taken from the library's
  theorem on the cardinality of powersets, because it would otherwise be an
  induction over `n`.
* *Transcript.*  `TalkInv`: every answer stands behind a call that it answers
  (`Owned`), the calls of every earlier reply are answered (`AnsweredUpTo`), and
  those of the reply in hand up to the current one (`Open`).  `BookInv` compares
  messages and events: both are in the order of the calls, and name the same ids
  but for the call under way.  The property is stated with places and orders
  (`InOrder`, `IdsAt`), not with filtered sequences: the same claim, without an
  induction over their length.
* *Replay.*  While recording, the events are, step after step, the text, the calls and
  the results of that step (`Recorder`), from places that some function `off` gives:
  the sum of the sizes of the steps before.  It exists because a step can be added
  to it; that way the sum needs no recursive definition.  `StartReplay` passes on
  such a recording in which only the last step was final (`Script`), and the mock
  repeats it: its cursor is the number of turns, and what it has emitted is a prefix
  of what was recorded (`Player`).  It never runs out because the last step ends the
  run, and it can only end otherwise by a stop or the loss of its sandbox.
* *The stream.*  `StreamInv` has four parts.  `Connection` says that a client
  without a connection has no generator and an empty wire.  `Announcements`, while
  the connection lives on pubsub: an unpublished id that a published one has passed
  is overtaken, and so is an id that stands behind a greater one in the inbox.
  `NothingStranded` is inductive beside it.  `Trail` runs from the last id the
  client was shown, along the wire, to the last id the generator sent: upwards, and
  what it skips was missed.  With it every step is a step of `FollowedLog` or a
  stutter: an insert is `Write`, a publish `Miss`, reading a history too (nothing is
  missed any more), a receipt `Show`, and connecting, breaking and relaying change
  nothing.

## 5. What is only model-checked

* Liveness (`EveryTaskEnds`, `SlotsAreReturned`, `StopIsObeyed`, `FollowerEnds`):
  fairness and `ENABLED` are out of the prover's reach.
* The properties of section 6 are false of the code: TLC finds a counterexample of
  each, and there is nothing to prove.

The inductive invariants of the last proofs (`LeaseBudget`, `PushBudget`,
`AttemptInv`, `BooksRight`, `TalkInv`, `BookInv`, `ReplayInv`) are operators of the
proof modules; TLC, given those modules and the instances of section 3, finds no
violation of them either (of `ReplayInv` with the sums of sizes written out, as TLC
cannot enumerate the functions `off`).

## 6. Where the program and its documents disagree

| Run | The code | The repository says |
|---|---|---|
| `finding_startup_gc` | `worker/main.py:56` reads the running tasks, then gc lists the containers: a task claimed in between loses its container and fails with `tool_error`, with no crash and no lost lease | `docs/ARCHITECTURE.md:92`, no container of another task is removed |
| `finding_key_conflict` | a repeated key ends in an uncaught `IntegrityError` when two lookups precede two inserts, and always for `""` | `docs/ARCHITECTURE.md:48`, the existing task is returned with status 200 |
| `finding_cancel_artifacts` | on a cancellation or a timeout the reaper removes the container before `download_artifacts` is called | `docs/ARCHITECTURE.md:91`, artifacts are saved on these paths too |
| `finding_event_loss` | inserted in one order and published in the other, an event is dropped (`api/main.py:104`), and a reconnect asks only for what comes after the last id | `cli/main.py:27-29`, detaching and reattaching loses no event |

The following disagreements are not listed as runs; each configuration ends in the
counterexample to the property it names, at `tlc -config <configuration> <module>`.

| Configuration, module | The code | The repository says |
|---|---|---|
| `FindingToolErrors.cfg`, `Agent` | `run_agent` answers `KeyError` and `TypeError` only: any other exception of a tool, and any Docker error in a live container, ends the run | the design document, section 5: a tool's failure is given back to the model and does not end the task |
| `FindingCap.cfg`, `MCPlatform` | the gate counts the leases before its own is taken: two workers pass it at once, and the leases exceed the cap (`LeasesBounded` is what holds) | `docs/ARCHITECTURE.md:49`, at the cap nothing is claimed; the leases are the slots |
| `FindingLeftover.cfg`, `MCPlatform` | `remove_for_task` swallows the daemon's error for a container: the next attempt runs beside the old one's | `docs/ARCHITECTURE.md:51`, the containers a crash left are removed first |
| `FindingZombie.cfg`, `MCPlatform` | `append_event` and `add_usage` compare neither status nor attempt: a worker without its lease writes behind the end its successor announced, and into the ended row | `docs/LIMITATIONS.md:27`, a zombie's writes are bound to fail |
| `FindingOom.cfg`, `Attempt` | when the reaper removes an OOM-killed container between the look at `stop_reason` and `oom_killed()`, the verdict is `tool_error` | `docs/ARCHITECTURE.md:85`, an OOM kill is named `sandbox_oom` and not a vague tool error |
| `FindingLapse.cfg`, `Attempt` | the heartbeat starts after the container and first renews a third of the TTL later: a slow start loses the lease under the first tool, no renewal being late | `docs/ARCHITECTURE.md:53`, the lease does not fall while a tool blocks |
| `FindingUsage.cfg`, `Attempt` | `add_usage` reads and writes in two transactions, after the heartbeat has ended: two attempts that overlap lose one's usage | the design document, section 4.5: usage adds up in the task's row |
| `FindingHandOver.cfg`, `EventStream` | nothing waits for Redis to take in the SUBSCRIBE: an event published in between reaches nobody | `api/main.py:83`, the hand-over cannot drop events; `docs/ARCHITECTURE.md:67`, at worst a duplicate |
| `FindingLostPublish.cfg`, `EventStream` | a worker that dies between `finish` and the publish leaves an open stream without its end | `docs/ARCHITECTURE.md:65`, pubsub bears latency only |

Some behaviours are visible in the models without a run of their own.

* A requeued task may be cancelled "in the queue" while its old worker is still at
  it.  The verdict is not corrupted.
* The container of a failed *last* attempt stays until a worker restarts.
* The result of `request_cancel` is ignored: a task that ended meanwhile is answered
  `cancel_requested: true`.
* An error status ends `follow_events` with an exception: `raise_for_status` throws
  an `HTTPStatusError`, which is no `TransportError` (`Rejected`).

## 7. Plan

Built in this order: the store, the worker loop and reconcile over it, the requests;
then what happens inside an attempt (`Attempt`, `Agent`) and what comes out of it
(`EventStream`); then the proofs, of `TaskStore`, `Platform`, `EventStream`, `Attempt`
and `Agent`.  Left to do:

1. `Attempt` shown to allow no more than `LoseLease` and `RunEnds` of `Worker` do, by
   a refinement over their shared variables.
2. A bound on how far the events of a superseded attempt reach into the history of
   its successor, once leases are lost.

### Not modelled

* `core/config`, argument parsing, rendering, exit codes and the web page: no state
  of their own.
* Truncation (`agent/tools.py:25`): a function of lengths; that `read_file` never
  reports its own cut is a fact about one number and needs no model.
* The artifacts endpoints: a path check over strings, and read-only.
* `preflight`, the fixture's hash and the archives in which files travel: one call
  each, with no protocol.
* Token counts apart from whether an attempt's usage is added: no property tells
  two of them apart.

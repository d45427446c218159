------------------------------ MODULE Attempt ------------------------------
(* worker/attempt.py in full: run_attempt and its two threads, heartbeat and *)
(* reaper, with the lease as a key that runs out.  Worker folds the threads  *)
(* into two guards; here they are steps of their own, for one task.          *)
(*                                                                           *)
(* A claim gives the attempt its number, so everything one run_attempt owns  *)
(* (its place, threads, handle, token) is indexed by it.  Attempts run on    *)
(* any worker; acquiring the lease and claiming are one step here (Worker    *)
(* has them apart).  Progress events are left out.                           *)
(*                                                                           *)
(* Time passes by Tick, a third of the lease's TTL at Interval = 1.  A call  *)
(* of the main thread may take any time; a renewal is at most MaxLate late.  *)
EXTENDS TaskStore, FiniteSets

CONSTANTS
    Task,        \* the task followed
    Interval,    \* cfg.lease_ttl / 3
    MaxLate,     \* how late a renewal may come
    MaxIncidents \* bound: failures, stops, deadlines and lapses together

ASSUME AttemptAssumption ==
    /\ Task \in TaskId
    /\ Interval \in Nat \ {0} /\ MaxLate \in Nat /\ MaxIncidents \in Nat
    /\ MaxLate < 2 * Interval

VARIABLES
    pc,          \* where run_attempt stands
    hb, beat,    \* the heartbeat thread; ticks until its next renewal is due
    reaper,      \* the reaper thread
    reason,      \* stop_reason
    overdue,     \* the deadline has passed
    box,         \* the container of the attempt
    hit,         \* what befell the container, the reaper's destroy apart
    outcome,
    saved,       \* download_artifacts got hold of /workspace/output, or found
                 \* none: nothing to keep counts as kept
    holder, left,   \* the attempt that holds the lease, or 0; ticks it lasts
    total,       \* add_usage: the total it read
    banked,      \* the attempts that have added their usage
    lapsed,      \* a lease ran out under an attempt that was still at work
    incidents

threadVars == <<hb, beat, reaper, reason>>
runVars == <<pc, outcome, saved, overdue>>
boxVars == <<box, hit>>
leaseVars == <<holder, left, lapsed>>
usageVars == <<total, banked>>
vars == <<storeVars, threadVars, runVars, boxVars, leaseVars, usageVars, incidents>>

Attempts == 1 .. MaxAttempts
TTL == 3 * Interval

R_TIMEOUT == "timeout"
R_OOM == "sandbox_oom"

ASSUME VerdictAssumption == {R_MODEL, R_TOOL, R_TIMEOUT, R_OOM} \subseteq FailReason

Verdict(status, why) == [status |-> status, reason |-> why]
Undecided == Verdict("pending", NoReason)
Raised == Verdict("raised", NoReason)
StopVerdict(why) == Verdict(IF why = R_CANCELLED THEN CANCELLED ELSE FAILED, why)

(* run_agent returned an Outcome of its own: only those carry usage.         *)
OwnVerdict == {Verdict(SUCCEEDED, NoReason), Verdict(FAILED, R_MODEL)}

Unwinding == {"save", "destroy", "bank", "add", "finish", "release", "delete"}
AtWork == {"clear", "start", "run", "askoom"} \cup Unwinding

AttemptTypeOK ==
    /\ StoreTypeOK
    /\ pc \in [Attempts -> AtWork \cup {"idle", "over"}]
    /\ hb \in [Attempts -> {"off", "first", "wait", "extend", "over"}]
    /\ beat \in [Attempts -> -MaxLate .. TTL]
    /\ reaper \in [Attempts -> {"off", "wait", "kill", "over", "died"}]
    /\ reason \in [Attempts -> {NoReason, R_CANCELLED, R_TIMEOUT}]
    /\ overdue \in [Attempts -> BOOLEAN]
    /\ box \in [Attempts -> {"none", "up", "oom", "gone"}]
    /\ hit \in [Attempts -> SUBSET {"oom", "cleared", "docker", "unsaved"}]
    /\ outcome \in [Attempts -> Outcome \cup {Undecided, Raised}]
    /\ saved \in [Attempts -> BOOLEAN]
    /\ holder \in 0 .. MaxAttempts /\ left \in 0 .. TTL /\ lapsed \in BOOLEAN
    /\ (holder = 0) = (left = 0)
    /\ total \in [Attempts -> Usage] /\ banked \in Usage
    /\ incidents \in 0 .. MaxIncidents

Each(v) == [a \in Attempts |-> v]

(* The task has been submitted. *)
Init ==
    /\ tasks = [t \in TaskId |-> NewRow(QUEUED, NoKey)]
    /\ events = [t \in TaskId |-> <<>>]
    /\ pc = Each("idle") /\ outcome = Each(Undecided)
    /\ saved = Each(FALSE) /\ overdue = Each(FALSE)
    /\ hb = Each("off") /\ beat = Each(0)
    /\ reaper = Each("off") /\ reason = Each(NoReason)
    /\ box = Each("none") /\ hit = Each({})
    /\ holder = 0 /\ left = 0 /\ lapsed = FALSE
    /\ total = Each({}) /\ banked = {}
    /\ incidents = 0

Incident == incidents < MaxIncidents /\ incidents' = incidents + 1

At(a, l) == pc[a] = l
GoTo(a, l) == pc' = [pc EXCEPT ![a] = l]
Step(a, from, to) == At(a, from) /\ GoTo(a, to)

OnlyRun == UNCHANGED <<storeVars, threadVars, boxVars, leaseVars, usageVars, incidents>>
OnlyPc == UNCHANGED <<outcome, saved, overdue>>

-----------------------------------------------------------------------------
(* The main thread *)

Begin(a) ==
    /\ Step(a, "idle", "clear") /\ OnlyPc
    /\ holder = 0 /\ holder' = a /\ left' = TTL
    /\ \E w \in WorkerId : Claim(Task, w)
    /\ tasks'[Task].attempt = a
    /\ UNCHANGED <<threadVars, boxVars, lapsed, usageVars, incidents>>

Standing == {b \in Attempts : box[b] \in {"up", "oom"}}

(* remove_for_task: the containers of all earlier attempts, but for those    *)
(* the daemon refuses to remove, of which nobody hears.  Worker takes the    *)
(* listing and each removal apart.                                           *)
Clear(a) ==
    /\ Step(a, "clear", "start") /\ OnlyPc
    /\ \E removed \in SUBSET Standing :
        /\ box' = [b \in Attempts |-> IF b \in removed THEN "gone" ELSE box[b]]
        /\ hit' = [b \in Attempts |-> IF b \in removed /\ pc[b] \in AtWork
                                      THEN hit[b] \cup {"cleared"} ELSE hit[b]]
        /\ IF removed = Standing THEN UNCHANGED incidents ELSE Incident
    /\ UNCHANGED <<storeVars, threadVars, leaseVars, usageVars>>

(* provider.start has returned; both threads start.                          *)
StartBox(a) ==
    /\ Step(a, "start", "run") /\ OnlyPc
    /\ box' = [box EXCEPT ![a] = "up"]
    /\ hb' = [hb EXCEPT ![a] = "first"] /\ beat' = [beat EXCEPT ![a] = Interval]
    /\ reaper' = [reaper EXCEPT ![a] = "wait"]
    /\ UNCHANGED <<storeVars, reason, hit, leaseVars, usageVars, incidents>>

(* stop.set(): a heartbeat that waits ends, one in the middle of a renewal   *)
(* and the reaper find out later.                                            *)
SetStop(a) ==
    /\ hb' = [hb EXCEPT ![a] = IF @ = "extend" THEN @ ELSE "over"]
    /\ beat' = [beat EXCEPT ![a] = 0]
    /\ UNCHANGED <<reaper, reason>>

(* The verdict is reached, and the finally block begins.                     *)
Conclude(a, from, o) ==
    /\ Step(a, from, "save") /\ SetStop(a)
    /\ outcome' = [outcome EXCEPT ![a] = o]
    /\ UNCHANGED <<storeVars, saved, overdue, leaseVars, usageVars>>

RunEnds(a) ==
    /\ \E o \in OwnVerdict : Conclude(a, "run", o)
    /\ UNCHANGED <<boxVars, incidents>>

RunStopped(a) ==
    /\ reason[a] # NoReason
    /\ Conclude(a, "run", StopVerdict(reason[a]))
    /\ UNCHANGED <<boxVars, incidents>>

(* A tool raises SandboxDied, and nobody has asked for a stop so far.        *)
SandboxDies(a) ==
    /\ Step(a, "run", "askoom") /\ OnlyPc
    /\ box[a] # "up" /\ reason[a] = NoReason
    /\ OnlyRun

AskOom(a) ==
    /\ Conclude(a, "askoom", Verdict(FAILED, IF box[a] = "oom" THEN R_OOM ELSE R_TOOL))
    /\ UNCHANGED <<boxVars, incidents>>

(* Mutant: destroy, then download.                                           *)
SaveAfterDestroy(a) ==
    /\ Step(a, "save", "destroy")
    /\ box' = [box EXCEPT ![a] = "gone"]
    /\ UNCHANGED <<storeVars, threadVars, outcome, saved, overdue, hit, leaseVars,
                   usageVars, incidents>>

(* A container that is gone has nothing left to download, and that is no     *)
(* error.                                                                    *)
Save(a) ==
    /\ Step(a, "save", "destroy")
    /\ saved' = [saved EXCEPT ![a] = box[a] # "gone"]
    /\ UNCHANGED <<outcome, overdue>> /\ OnlyRun

(* What nobody reads any more is set back to keep the state small.           *)
Forget(a, l) ==
    /\ GoTo(a, l)
    /\ outcome' = [outcome EXCEPT ![a] = Undecided]
    /\ saved' = [saved EXCEPT ![a] = FALSE]
    /\ overdue' = [overdue EXCEPT ![a] = FALSE]
    /\ hit' = [hit EXCEPT ![a] = {}]
    /\ reason' = [reason EXCEPT ![a] = NoReason]

(* A reaper that has stop to wait for is as good as over.                    *)
RestReaper(a) == reaper' = [reaper EXCEPT ![a] = IF @ = "wait" THEN "over" ELSE @]

(* The finally block is over.  An exception run_agent let through leaves     *)
(* run_attempt here.                                                         *)
LeaveTry(a) ==
    /\ At(a, "destroy")
    /\ IF outcome[a] = Raised
       THEN Forget(a, "over") /\ RestReaper(a)
       ELSE /\ GoTo(a, IF outcome[a] \in OwnVerdict THEN "bank" ELSE "finish")
            /\ OnlyPc /\ UNCHANGED <<hit, reaper, reason>>
    /\ UNCHANGED <<storeVars, hb, beat, leaseVars, usageVars>>

DestroyBox(a) ==
    /\ LeaveTry(a)
    /\ box' = [box EXCEPT ![a] = "gone"]
    /\ UNCHANGED incidents

(* add_usage, whose SELECT comes before its transaction.                     *)
ReadTotal(a) ==
    /\ Step(a, "bank", "add") /\ OnlyPc
    /\ total' = [total EXCEPT ![a] = ReadUsage(Task)]
    /\ UNCHANGED <<storeVars, threadVars, boxVars, leaseVars, banked, incidents>>

(* Mutant: the attempt's own usage is written, not the sum.                  *)
WriteOwn(a) ==
    /\ Step(a, "add", "finish") /\ OnlyPc
    /\ AddUsage(Task, a, {})
    /\ total' = [total EXCEPT ![a] = {}] /\ banked' = banked \cup {a}
    /\ UNCHANGED <<threadVars, boxVars, leaseVars, incidents>>

WriteTotal(a) ==
    /\ Step(a, "add", "finish") /\ OnlyPc
    /\ AddUsage(Task, a, total[a])
    /\ total' = [total EXCEPT ![a] = {}] /\ banked' = banked \cup {a}
    /\ UNCHANGED <<threadVars, boxVars, leaseVars, incidents>>

FinishTask(a) ==
    /\ At(a, "finish") /\ Forget(a, "release") /\ RestReaper(a)
    /\ IF RunsAttempt(Task, a) THEN Finish(Task, a, outcome[a]) ELSE UNCHANGED storeVars
    /\ UNCHANGED <<hb, beat, box, leaseVars, usageVars, incidents>>

ReadLease(a) ==
    /\ Step(a, "release", IF holder = a THEN "delete" ELSE "over") /\ OnlyPc
    /\ OnlyRun

DeleteLease(a) ==
    /\ Step(a, "delete", "over") /\ OnlyPc
    /\ holder' = 0 /\ left' = 0
    /\ UNCHANGED <<storeVars, threadVars, boxVars, lapsed, usageVars, incidents>>

-----------------------------------------------------------------------------
(* heartbeat *)

StopSet(a) == pc[a] \notin {"idle", "clear", "start", "run", "askoom"}

OnlyBeat == UNCHANGED <<storeVars, runVars, boxVars, lapsed, usageVars, incidents>>
                /\ UNCHANGED <<reaper, reason>>

(* GET: whose lease is it? *)
CheckToken(a) ==
    /\ hb[a] \in {"first", "wait"} /\ beat[a] <= 0
    /\ hb' = [hb EXCEPT ![a] = IF holder = a THEN "extend" ELSE "over"]
    /\ UNCHANGED <<beat, holder, left>> /\ OnlyBeat

(* Mutant: the next renewal is due after the whole TTL.                      *)
NextBeatAfterTTL == TTL - MaxLate

NextBeat == Interval

(* EXPIRE: whoever holds the key by now, if anybody does.                    *)
Extend(a) ==
    /\ hb[a] = "extend"
    /\ IF holder = 0
       THEN hb' = [hb EXCEPT ![a] = "over"] /\ UNCHANGED <<beat, left>>
       ELSE /\ hb' = [hb EXCEPT ![a] = IF StopSet(a) THEN "over" ELSE "wait"]
            /\ beat' = [beat EXCEPT ![a] = IF StopSet(a) THEN 0 ELSE NextBeat]
            /\ left' = TTL
    /\ UNCHANGED holder /\ OnlyBeat

-----------------------------------------------------------------------------
(* reaper *)

OnlyReaper == UNCHANGED <<storeVars, runVars, hit, leaseVars, usageVars, incidents>>
                /\ UNCHANGED <<hb, beat>>

Grounds(a) ==
    IF tasks[Task].cancel THEN R_CANCELLED ELSE IF overdue[a] THEN R_TIMEOUT ELSE NoReason

(* Mutants: the container goes before the reason is there; one look is all.  *)
LookAndKill(a) ==
    /\ reaper[a] = "wait" /\ Grounds(a) # NoReason
    /\ reaper' = [reaper EXCEPT ![a] = "over"]
    /\ box' = [box EXCEPT ![a] = "gone"]
    /\ UNCHANGED reason /\ OnlyReaper

LookOnce(a) ==
    /\ reaper[a] = "wait"
    /\ reason' = [reason EXCEPT ![a] = Grounds(a)]
    /\ reaper' = [reaper EXCEPT ![a] = IF Grounds(a) = NoReason THEN "over" ELSE "kill"]
    /\ UNCHANGED box /\ OnlyReaper

(* A look without grounds changes nothing.  A look may come after stop was   *)
(* set, by a thread that had passed stop.wait before.                        *)
Look(a) ==
    /\ reaper[a] = "wait" /\ Grounds(a) # NoReason
    /\ reason' = [reason EXCEPT ![a] = Grounds(a)]
    /\ reaper' = [reaper EXCEPT ![a] = "kill"]
    /\ UNCHANGED box /\ OnlyReaper

ReaperStops(a) ==
    /\ reaper[a] = "wait" /\ StopSet(a)
    /\ reaper' = [reaper EXCEPT ![a] = "over"]
    /\ UNCHANGED <<reason, box>> /\ OnlyReaper

Kill(a) ==
    /\ reaper[a] = "kill"
    /\ reaper' = [reaper EXCEPT ![a] = "over"]
    /\ box' = [box EXCEPT ![a] = "gone"]
    /\ UNCHANGED reason /\ OnlyReaper

-----------------------------------------------------------------------------
(* The rest of the system, and time *)

RequestStop ==
    /\ RequestCancel(Task) /\ ~tasks[Task].cancel
    /\ Incident /\ UNCHANGED <<threadVars, runVars, boxVars, leaseVars, usageVars>>

DeadlinePasses(a) ==
    /\ pc[a] \in {"start", "run", "askoom", "save", "destroy"} /\ ~overdue[a]
    /\ overdue' = [overdue EXCEPT ![a] = TRUE]
    /\ Incident
    /\ UNCHANGED <<pc, outcome, saved, storeVars, threadVars, boxVars, leaseVars, usageVars>>

Reclaimable == tasks[Task].status = RUNNING /\ holder = 0

Reclaim ==
    /\ Reclaimable
    /\ LET a == tasks[Task].attempt IN
           IF a < MaxAttempts THEN Requeue(Task, a) ELSE FailExhausted(Task, a)
    /\ UNCHANGED <<threadVars, runVars, boxVars, leaseVars, usageVars, incidents>>

Renewing(a) == hb[a] \in {"first", "wait", "extend"} /\ ~StopSet(a)

Tick ==
    /\ \A a \in Attempts : Renewing(a) => beat[a] > -MaxLate
    /\ holder # 0 \/ \E a \in Attempts : Renewing(a) /\ beat[a] > 0
    /\ beat' = [a \in Attempts |-> IF Renewing(a) THEN beat[a] - 1 ELSE beat[a]]
    /\ left' = IF left > 0 THEN left - 1 ELSE 0
    /\ holder' = IF left' = 0 THEN 0 ELSE holder
    /\ IF holder # 0 /\ left' = 0 /\ pc[holder] \in AtWork
       THEN lapsed' = TRUE /\ Incident
       ELSE UNCHANGED <<lapsed, incidents>>
    /\ UNCHANGED <<storeVars, runVars, boxVars, usageVars, hb, reaper, reason>>

-----------------------------------------------------------------------------
(* What goes wrong *)

FaultOutside == Incident /\ UNCHANGED <<storeVars, leaseVars, usageVars>>
FaultInside == FaultOutside /\ UNCHANGED runVars

(* The process dies, and its threads with it.                                *)
Crash(a) ==
    /\ pc[a] \in AtWork /\ Forget(a, "over")
    /\ hb' = [hb EXCEPT ![a] = "over"] /\ beat' = [beat EXCEPT ![a] = 0]
    /\ reaper' = [reaper EXCEPT ![a] = "over"]
    /\ UNCHANGED box /\ FaultOutside

(* run_agent lets an exception through: the finally block comes next.        *)
RunRaises(a) == Conclude(a, "run", Raised) /\ UNCHANGED boxVars /\ Incident

(* A call before the try or in the finally block or after it raises: main    *)
(* polls again, and nobody has the lease.  provider.start may raise with the *)
(* container already there.                                                  *)
Raise(a) ==
    /\ pc[a] \in {"clear", "start"} \cup Unwinding /\ Forget(a, "over") /\ RestReaper(a)
    /\ box' = box \/ (At(a, "start") /\ box' = [box EXCEPT ![a] = "up"])
    /\ UNCHANGED <<hb, beat>> /\ FaultOutside

(* renew_lease raises: an exception nobody catches ends the thread.          *)
HeartbeatDies(a) ==
    /\ hb[a] \in {"first", "wait", "extend"} /\ hb' = [hb EXCEPT ![a] = "over"]
    /\ beat' = [beat EXCEPT ![a] = 0]
    /\ UNCHANGED <<reaper, reason, boxVars>> /\ FaultInside

(* The same for cancel_requested.                                            *)
ReaperDies(a) ==
    /\ reaper[a] = "wait" /\ reaper' = [reaper EXCEPT ![a] = "died"]
    /\ UNCHANGED <<hb, beat, reason, boxVars>> /\ FaultInside

OomKills(a) ==
    /\ box[a] = "up"
    /\ box' = [box EXCEPT ![a] = "oom"] /\ hit' = [hit EXCEPT ![a] = @ \cup {"oom"}]
    /\ UNCHANGED threadVars /\ FaultInside

(* A Docker call fails though the container is there: SandboxDied as well.   *)
DockerFails(a) ==
    /\ IF reason[a] = NoReason
       THEN Step(a, "run", "askoom") /\ OnlyPc /\ UNCHANGED threadVars /\ FaultOutside
       ELSE Conclude(a, "run", StopVerdict(reason[a])) /\ Incident
    /\ hit' = [hit EXCEPT ![a] = @ \cup {"docker"}]
    /\ UNCHANGED box

(* oom_killed, download_artifacts and destroy answer a Docker error with     *)
(* False, [] and nothing: the caller cannot tell it from the truth.          *)
AskOomFails(a) ==
    /\ Conclude(a, "askoom", Verdict(FAILED, R_TOOL))
    /\ hit' = [hit EXCEPT ![a] = @ \cup {"docker"}]
    /\ Incident /\ UNCHANGED box

SaveFails(a) ==
    /\ Step(a, "save", "destroy") /\ OnlyPc
    /\ box[a] # "gone"
    /\ hit' = [hit EXCEPT ![a] = @ \cup {"unsaved"}]
    /\ UNCHANGED <<threadVars, box>> /\ FaultOutside

BoxStays(a) == LeaveTry(a) /\ Incident /\ UNCHANGED box

KillFails(a) ==
    /\ reaper[a] = "kill"
    /\ reaper' = [reaper EXCEPT ![a] = "over"]
    /\ UNCHANGED <<hb, beat, reason, boxVars>> /\ FaultInside

-----------------------------------------------------------------------------
(* What the main thread does of itself, an end of the run apart.             *)
Main(a) ==
    \/ Clear(a) \/ StartBox(a) \/ RunStopped(a) \/ SandboxDies(a) \/ AskOom(a)
    \/ Save(a) \/ DestroyBox(a) \/ ReadTotal(a) \/ WriteTotal(a) \/ FinishTask(a)
    \/ ReadLease(a) \/ DeleteLease(a)

Heartbeat(a) == CheckToken(a) \/ Extend(a)

Reaper(a) == Look(a) \/ ReaperStops(a) \/ Kill(a)

Environment(a) ==
    \/ DeadlinePasses(a) \/ Crash(a) \/ RunRaises(a) \/ Raise(a) \/ HeartbeatDies(a)
    \/ ReaperDies(a) \/ OomKills(a) \/ DockerFails(a) \/ AskOomFails(a)
    \/ SaveFails(a) \/ BoxStays(a) \/ KillFails(a)

Next ==
    \/ \E a \in Attempts :
          Begin(a) \/ Main(a) \/ RunEnds(a) \/ Heartbeat(a) \/ Reaper(a) \/ Environment(a)
    \/ RequestStop \/ Reclaim \/ Tick

Spec == Init /\ [][Next]_vars

(* The reaper is scheduled and its calls return, and an agent that is told   *)
(* to stop finds out: chat and tools have timeouts, and the destroyed        *)
(* container ends an exec that blocks sooner.                                *)
Fairness ==
    \A a \in Attempts : WF_vars(RunStopped(a)) /\ WF_vars(Look(a) \/ Kill(a))

FairSpec == Spec /\ Fairness

-----------------------------------------------------------------------------
(* Properties *)

(* What the reaper does to the container is never read as a failure of the   *)
(* sandbox (worker/attempt.py:63-71): tool_error and sandbox_oom need a      *)
(* cause of their own.  The reason is there before the container goes.  An   *)
(* OOM kill passes for a tool_error only where a stop was asked for as well, *)
(* and the reaper was faster than the look at the container.                 *)
VerdictHasCause ==
    \A a \in Attempts :
        /\ outcome[a].reason = R_TOOL =>
              /\ hit[a] # {}
              /\ hit[a] = {"oom"} => tasks[Task].cancel \/ overdue[a]
        /\ outcome[a].reason = R_OOM => "oom" \in hit[a]
        /\ outcome[a].reason = R_TIMEOUT => overdue[a]

(* Once it has been renewed, the lease of a healthy attempt is never lost to *)
(* time (docs/ARCHITECTURE.md:53), however long the agent's tools block: only*)
(* an old release, stopped between its GET and its DEL, takes it away.       *)
HeartbeatKeepsLease ==
    [][\A a \in Attempts :
          holder = a /\ hb[a] = "wait" /\ Renewing(a) /\ holder' # a
              => \E b \in Attempts \ {a} : At(b, "delete")]_vars

(* The tokens of every attempt that had its say add up, as long as no lease  *)
(* ran out under an attempt at work: add_usage reads outside its transaction *)
(* and relies on nobody else writing the row meanwhile.                      *)
UsageAddsUp == ~lapsed => tasks[Task].usage = banked

(* An attempt that comes to its terminal write has had its artifacts saved,  *)
(* unless a stop was asked for, a later attempt cleared its container, or    *)
(* Docker refused the download: of itself run_attempt never destroys what it *)
(* has not saved (docs/ARCHITECTURE.md section 2, item 6).                   *)
ArtifactsKept ==
    \A a \in Attempts :
        pc[a] \in {"bank", "add", "finish"} /\ ~saved[a]
            => \/ tasks[Task].cancel \/ overdue[a]
               \/ hit[a] \cap {"cleared", "unsaved"} # {}

(* A cancellation and a deadline reach the agent, whatever it is doing, as   *)
(* long as the reaper lives.                                                 *)
StopIsObeyed ==
    \A a \in Attempts :
        At(a, "run") /\ (tasks[Task].cancel \/ overdue[a]) ~> ~At(a, "run") \/ reaper[a] = "died"

-----------------------------------------------------------------------------
(* What the documents say of the program and the program does not do *)

(* docs/ARCHITECTURE.md:91: on the failure and cancellation paths too, the   *)
(* artifacts do not vanish with the container.                               *)
ArtifactsSurviveStop ==
    \A a \in Attempts : At(a, "finish") /\ hit[a] = {} => saved[a]

(* docs/ARCHITECTURE.md:85: after an OOM kill the reason is sandbox_oom and  *)
(* not a vague tool error, Docker answering as it should.                    *)
OomIsNamed ==
    \A a \in Attempts : hit[a] = {"oom"} => outcome[a].reason # R_TOOL

(* docs/ARCHITECTURE.md:53: while a tool blocks, the lease does not fall.    *)
LeaseOutlivesTools ==
    [][\A a \in Attempts : At(a, "run") /\ holder = a => holder' = a]_vars

(* docs/specs/2026-07-25-cloud-agent-platform-design.md:93: usage adds up in *)
(* the row of the task.                                                      *)
UsageAccumulates == tasks[Task].usage = banked
=============================================================================

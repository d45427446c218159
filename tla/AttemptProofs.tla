---------------------------- MODULE AttemptProofs ----------------------------
(* Proofs about worker/attempt.py, for every interval and every lateness the *)
(* TTL allows for, and any number of attempts, failures and stops: the       *)
(* heartbeat keeps the lease it renews, a verdict has its cause, and what is  *)
(* not saved was stopped, cleared or refused.                                *)
EXTENDS Attempt, TaskStoreProofs

LeaseTypes ==
    /\ DOMAIN pc = Attempts /\ DOMAIN hb = Attempts
    /\ beat \in [Attempts -> Int]
    /\ holder \in Int /\ left \in Nat

NotStarted == \A a \in Attempts : pc[a] = "idle" => hb[a] = "off"

BeatBounded == \A a \in Attempts : hb[a] = "wait" => beat[a] <= Interval

(* The lease outlasts the latest moment at which its next renewal may come.  *)
LeaseCovers ==
    \A a \in Attempts :
        hb[a] = "wait" /\ ~StopSet(a) /\ holder = a => left >= beat[a] + MaxLate + 1

LeaseInv == LeaseTypes /\ NotStarted /\ BeatBounded /\ LeaseCovers

(* Nobody starts, and nobody comes back from a stop.                         *)
NoStart ==
    /\ DOMAIN pc' = Attempts
    /\ \A a \in Attempts : pc'[a] = "idle" => pc[a] = "idle"
    /\ \A a \in Attempts : StopSet(a) => StopSet(a)'

leaseOnly == <<hb, beat, holder, left>>

(* What a step does to the lease and to the heartbeats.                      *)
Ends(a) ==
    /\ hb[a] # "off" \/ pc'[a] # "idle"
    /\ \E l \in {"extend", "over"} : hb' = [hb EXCEPT ![a] = l]
    /\ beat' = [beat EXCEPT ![a] = 0]
    /\ UNCHANGED <<holder, left>>

Moves(a) ==
    \/ Begin(a)
    \/ StartBox(a)
    \/ Heartbeat(a)
    \/ DeleteLease(a)
    \/ (NoStart /\ Ends(a))
    \/ (NoStart /\ UNCHANGED leaseOnly)

-----------------------------------------------------------------------------
LEMMA Numbers ==
    /\ Interval \in Nat /\ Interval > 0 /\ MaxLate \in Nat /\ MaxLate < 2 * Interval
    /\ TTL = 3 * Interval /\ MaxAttempts \in Nat
  BY AttemptAssumption, MaxAttemptsAssumption, SMT DEF TTL

(* Only Tick is no step of one attempt or of its surroundings.               *)
LEMMA StepMoves ==
    ASSUME LeaseTypes, Next
    PROVE  \/ Tick
           \/ NoStart /\ UNCHANGED leaseOnly
           \/ \E a \in Attempts : Moves(a)
<1> USE DEF LeaseTypes, NoStart, leaseOnly, StopSet
<1>1. ASSUME NEW a \in Attempts, Main(a)
      PROVE  Moves(a)
  <2>1. CASE Clear(a)
    BY <2>1 DEF Moves, Clear, Step, At, GoTo, threadVars, leaseVars
  <2>2. CASE StartBox(a)
    BY <2>2 DEF Moves
  <2>3. CASE RunStopped(a)
    BY <2>3 DEF Moves, Ends, RunStopped, Conclude, Step, At, GoTo, SetStop, leaseVars
  <2>4. CASE SandboxDies(a)
    BY <2>4 DEF Moves, SandboxDies, OnlyRun, Step, At, GoTo, threadVars, leaseVars
  <2>5. CASE AskOom(a)
    BY <2>5 DEF Moves, Ends, AskOom, Conclude, Step, At, GoTo, SetStop, leaseVars
  <2>6. CASE Save(a)
    BY <2>6 DEF Moves, Save, OnlyRun, Step, At, GoTo, threadVars, leaseVars
  <2>7. CASE DestroyBox(a)
    BY <2>7 DEF Moves, DestroyBox, LeaveTry, Forget, At, GoTo, OnlyPc, leaseVars
  <2>8. CASE ReadTotal(a)
    BY <2>8 DEF Moves, ReadTotal, Step, At, GoTo, threadVars, leaseVars
  <2>9. CASE WriteTotal(a)
    BY <2>9 DEF Moves, WriteTotal, Step, At, GoTo, threadVars, leaseVars
  <2>10. CASE FinishTask(a)
    BY <2>10 DEF Moves, FinishTask, Forget, At, GoTo, leaseVars
  <2>11. CASE ReadLease(a)
    BY <2>11 DEF Moves, ReadLease, OnlyRun, Step, At, GoTo, threadVars, leaseVars
  <2>12. CASE DeleteLease(a)
    BY <2>12 DEF Moves
  <2> QED
    BY <1>1, <2>1, <2>2, <2>3, <2>4, <2>5, <2>6, <2>7, <2>8, <2>9, <2>10, <2>11, <2>12
    DEF Main
<1>2. ASSUME NEW a \in Attempts, RunEnds(a)
      PROVE  Moves(a)
  BY <1>2 DEF Moves, Ends, RunEnds, Conclude, Step, At, GoTo, SetStop, leaseVars
<1>3. ASSUME NEW a \in Attempts, Reaper(a)
      PROVE  Moves(a)
  BY <1>3 DEF Moves, Reaper, Look, ReaperStops, Kill, OnlyReaper, runVars, leaseVars
<1>4. ASSUME NEW a \in Attempts, Environment(a)
      PROVE  Moves(a)
  <2>1. CASE DeadlinePasses(a)
    BY <2>1 DEF Moves, DeadlinePasses, threadVars, leaseVars
  <2>2. CASE Crash(a)
    BY <2>2 DEF Moves, Ends, Crash, Forget, GoTo, AtWork, Unwinding, FaultOutside, leaseVars
  <2>3. CASE RunRaises(a)
    BY <2>3 DEF Moves, Ends, RunRaises, Conclude, Step, At, GoTo, SetStop, leaseVars
  <2>4. CASE Raise(a)
    BY <2>4 DEF Moves, Raise, Forget, GoTo, Unwinding, FaultOutside, leaseVars
  <2>5. CASE HeartbeatDies(a)
    BY <2>5 DEF Moves, Ends, HeartbeatDies, FaultInside, FaultOutside, runVars, leaseVars
  <2>6. CASE ReaperDies(a)
    BY <2>6 DEF Moves, ReaperDies, FaultInside, FaultOutside, runVars, leaseVars
  <2>7. CASE OomKills(a)
    BY <2>7 DEF Moves, OomKills, FaultInside, FaultOutside, runVars, leaseVars, threadVars
  <2>8. CASE DockerFails(a)
    BY <2>8 DEF Moves, Ends, DockerFails, Conclude, Step, At, GoTo, SetStop, FaultOutside,
                leaseVars, threadVars
  <2>9. CASE AskOomFails(a)
    BY <2>9 DEF Moves, Ends, AskOomFails, Conclude, Step, At, GoTo, SetStop, leaseVars
  <2>10. CASE SaveFails(a)
    BY <2>10 DEF Moves, SaveFails, Step, At, GoTo, FaultOutside, leaseVars, threadVars
  <2>11. CASE BoxStays(a)
    BY <2>11 DEF Moves, BoxStays, LeaveTry, Forget, At, GoTo, OnlyPc, leaseVars
  <2>12. CASE KillFails(a)
    BY <2>12 DEF Moves, KillFails, FaultInside, FaultOutside, runVars, leaseVars
  <2> QED
    BY <1>4, <2>1, <2>2, <2>3, <2>4, <2>5, <2>6, <2>7, <2>8, <2>9, <2>10, <2>11, <2>12
    DEF Environment
<1>5. ASSUME RequestStop \/ Reclaim
      PROVE  NoStart /\ UNCHANGED leaseOnly
  BY <1>5 DEF RequestStop, Reclaim, threadVars, runVars, leaseVars
<1> QED
  BY <1>1, <1>2, <1>3, <1>4, <1>5 DEF Next, Moves

LEMMA LeaseInvInit == Init => LeaseInv
  BY Numbers DEF Init, Each, LeaseInv, LeaseTypes, NotStarted, BeatBounded, LeaseCovers

LEMMA LeaseInvStep == LeaseInv /\ [Next]_vars => LeaseInv'
<1> SUFFICES ASSUME LeaseInv, [Next]_vars
             PROVE  LeaseInv'
  OBVIOUS
<1>1. LeaseTypes /\ NotStarted /\ BeatBounded /\ LeaseCovers
  BY DEF LeaseInv
<1> USE Numbers
<1>2. ASSUME NoStart, UNCHANGED leaseOnly
      PROVE  LeaseInv'
  BY <1>1, <1>2
  DEF LeaseInv, LeaseTypes, NotStarted, BeatBounded, LeaseCovers, NoStart, leaseOnly
<1>3. ASSUME NEW a \in Attempts, Moves(a)
      PROVE  LeaseInv'
  <2> USE DEF LeaseInv, LeaseTypes, NotStarted, BeatBounded, LeaseCovers, StopSet
  <2>1. CASE Begin(a)
    <3>1. /\ holder' = a /\ left' = TTL /\ hb' = hb /\ beat' = beat
          /\ pc[a] = "idle" /\ pc' = [pc EXCEPT ![a] = "clear"]
      BY <2>1 DEF Begin, Step, At, GoTo, threadVars
    <3>2. hb[a] = "off" /\ a \in Int
      BY <1>1, <3>1 DEF Attempts
    <3> QED
      BY <1>1, <3>1, <3>2
  <2>2. CASE StartBox(a)
    <3>1. /\ hb' = [hb EXCEPT ![a] = "first"] /\ beat' = [beat EXCEPT ![a] = Interval]
          /\ pc[a] = "start" /\ pc' = [pc EXCEPT ![a] = "run"]
          /\ holder' = holder /\ left' = left
      BY <2>2 DEF StartBox, Step, At, GoTo, leaseVars
    <3> QED
      BY <1>1, <3>1
  <2>3. CASE CheckToken(a)
    <3>1. /\ hb[a] # "off" /\ UNCHANGED <<pc, beat, holder, left>>
          /\ \E l \in {"extend", "over"} : hb' = [hb EXCEPT ![a] = l]
      BY <2>3 DEF CheckToken, OnlyBeat, runVars
    <3> QED
      BY <1>1, <3>1
  <2>4. CASE Extend(a)
    <3>1. hb[a] = "extend" /\ pc' = pc /\ holder' = holder
      BY <2>4 DEF Extend, OnlyBeat, runVars
    <3>2. CASE holder = 0
      <4>1. hb' = [hb EXCEPT ![a] = "over"] /\ UNCHANGED <<beat, left>>
        BY <2>4, <3>2 DEF Extend
      <4> QED
        BY <1>1, <3>1, <4>1
    <3>3. CASE holder # 0
      <4>1. /\ hb' = [hb EXCEPT ![a] = IF StopSet(a) THEN "over" ELSE "wait"]
            /\ beat' = [beat EXCEPT ![a] = IF StopSet(a) THEN 0 ELSE Interval]
            /\ left' = TTL
        BY <2>4, <3>3 DEF Extend, NextBeat
      <4> QED
        BY <1>1, <3>1, <4>1
    <3> QED
      BY <3>2, <3>3
  <2>5. CASE DeleteLease(a)
    <3>1. /\ holder' = 0 /\ left' = 0 /\ hb' = hb /\ beat' = beat
          /\ pc[a] = "delete" /\ pc' = [pc EXCEPT ![a] = "over"]
      BY <2>5 DEF DeleteLease, Step, At, GoTo, threadVars
    <3>2. \A b \in Attempts : b # 0
      BY DEF Attempts
    <3> QED
      BY <1>1, <3>1, <3>2
  <2>6. CASE NoStart /\ Ends(a)
    BY <1>1, <2>6 DEF NoStart, Ends
  <2>7. CASE NoStart /\ UNCHANGED leaseOnly
    BY <1>2, <2>7
  <2> QED
    BY <1>3, <2>1, <2>2, <2>3, <2>4, <2>5, <2>6, <2>7 DEF Moves, Heartbeat
<1>4. CASE Tick
  <2>1. /\ beat' = [a \in Attempts |-> IF Renewing(a) THEN beat[a] - 1 ELSE beat[a]]
        /\ left' = IF left > 0 THEN left - 1 ELSE 0
        /\ holder' = IF left' = 0 THEN 0 ELSE holder
        /\ UNCHANGED <<pc, hb>>
    BY <1>4 DEF Tick, runVars
  <2>2. \A a \in Attempts : a # 0 /\ (hb[a] = "wait" /\ ~StopSet(a) => Renewing(a))
    BY DEF Attempts, Renewing
  <2>3. LeaseTypes' /\ NotStarted' /\ BeatBounded'
    BY <1>1, <2>1 DEF LeaseTypes, NotStarted, BeatBounded
  <2>4. ASSUME NEW a \in Attempts, hb'[a] = "wait", ~StopSet(a)', holder' = a
        PROVE  left' >= beat'[a] + MaxLate + 1
    <3>1. hb[a] = "wait" /\ ~StopSet(a) /\ holder = a /\ left' # 0
      BY <2>1, <2>2, <2>4 DEF StopSet
    <3>2. left >= beat[a] + MaxLate + 1 /\ Renewing(a)
      BY <1>1, <2>2, <3>1 DEF LeaseCovers
    <3> QED
      BY <1>1, <2>1, <3>1, <3>2 DEF LeaseTypes
  <2> QED
    BY <2>3, <2>4 DEF LeaseInv, LeaseCovers
<1>5. CASE UNCHANGED vars
  <2>1. NoStart /\ UNCHANGED leaseOnly
    BY <1>1, <1>5
    DEF NoStart, LeaseTypes, StopSet, leaseOnly, vars, threadVars, runVars, leaseVars
  <2> QED
    BY <1>2, <2>1
<1> QED
  BY <1>1, <1>2, <1>3, <1>4, <1>5, StepMoves

(* worker/attempt.py:17-20: a renewal that comes on time finds the lease     *)
(* still there, so no step but the late release of an older attempt takes it *)
(* from an attempt at work that has renewed it once.                         *)
THEOREM HeartbeatIsEnough == Spec => HeartbeatKeepsLease
<1> DEFINE Kept == \A a \in Attempts :
                      holder = a /\ hb[a] = "wait" /\ Renewing(a) /\ holder' # a
                          => \E b \in Attempts \ {a} : At(b, "delete")
<1>1. ASSUME LeaseInv, [Next]_vars
      PROVE  [Kept]_vars
  <2> SUFFICES ASSUME Next, NEW a \in Attempts,
                      holder = a, hb[a] = "wait", Renewing(a), holder' # a
               PROVE  \E b \in Attempts \ {a} : At(b, "delete")
    BY <1>1
  <2>1. a # 0 /\ ~StopSet(a) /\ LeaseTypes
    BY <1>1 DEF Attempts, Renewing, LeaseInv
  <2>2. ~Tick
    <3>1. left >= beat[a] + MaxLate + 1 /\ beat[a] \in Int /\ left \in Nat
      BY <1>1, <2>1 DEF LeaseInv, LeaseTypes, LeaseCovers
    <3>2. ASSUME Tick
          PROVE  /\ beat[a] > -MaxLate
                 /\ left' = IF left > 0 THEN left - 1 ELSE 0
                 /\ left' = 0
      BY <2>1, <3>2 DEF Tick
    <3> QED
      BY <3>1, <3>2, Numbers
  <2>3. PICK b \in Attempts : Moves(b)
    BY <2>1, <2>2, StepMoves DEF leaseOnly
  <2>4. DeleteLease(b)
    <3>1. ~Begin(b)
      BY <2>1 DEF Begin
    <3>2. ~StartBox(b)
      BY DEF StartBox, leaseVars
    <3>3. ~Heartbeat(b)
      BY DEF Heartbeat, CheckToken, Extend
    <3> QED
      BY <2>3, <3>1, <3>2, <3>3 DEF Moves, Ends, leaseOnly
  <2>5. At(b, "delete") /\ b # a
    BY <2>1, <2>4 DEF DeleteLease, Step, At, StopSet
  <2> QED
    BY <2>5
<1> QED
  BY <1>1, LeaseInvInit, LeaseInvStep, PTL DEF Spec, HeartbeatKeepsLease

-----------------------------------------------------------------------------
(* What ended an attempt, and what became of its artifacts.  Both follow     *)
(* from what is known of the stop, of the container and of the verdict.      *)
CauseTypes ==
    /\ DOMAIN pc = Attempts /\ DOMAIN outcome = Attempts /\ DOMAIN saved = Attempts
    /\ DOMAIN overdue = Attempts /\ DOMAIN reason = Attempts /\ DOMAIN reaper = Attempts
    /\ DOMAIN hit = Attempts /\ box \in [Attempts -> {"none", "up", "oom", "gone"}]
    /\ DOMAIN tasks = TaskId /\ {"cancel", "usage"} \subseteq DOMAIN tasks[Task]

StopKnown(a) ==
    /\ reason[a] \in {NoReason, R_CANCELLED, R_TIMEOUT}
    /\ reason[a] = R_TIMEOUT => overdue[a]
    /\ reason[a] = R_CANCELLED => tasks[Task].cancel
    /\ reaper[a] = "kill" /\ pc[a] \notin {"release", "delete", "over"} => reason[a] # NoReason

(* Somebody had a reason to remove the container.                            *)
Removable(a) == reason[a] # NoReason \/ "cleared" \in hit[a]

Excused(a) == Removable(a) \/ "unsaved" \in hit[a]

BoxKnown(a) ==
    /\ pc[a] \in {"run", "askoom"} => box[a] # "none"
    /\ pc[a] = "askoom" /\ box[a] = "up" => "docker" \in hit[a]
    /\ pc[a] \in {"run", "askoom"} /\ box[a] = "oom" => "oom" \in hit[a]
    /\ pc[a] \in {"run", "askoom", "save"} /\ box[a] = "gone" => Removable(a)
    /\ pc[a] = "askoom" => hit[a] # {}
    /\ pc[a] \in {"destroy", "bank", "add", "finish"} /\ ~saved[a] => Excused(a)

VerdictKnown(a) ==
    /\ outcome[a].reason = R_TOOL =>
          hit[a] # {} /\ (hit[a] = {"oom"} => tasks[Task].cancel \/ overdue[a])
    /\ outcome[a].reason = R_OOM => "oom" \in hit[a]
    /\ outcome[a].reason = R_TIMEOUT => overdue[a]

Causes(a) == StopKnown(a) /\ BoxKnown(a) /\ VerdictKnown(a)

CauseInv == CauseTypes /\ \A a \in Attempts : Causes(a)

(* What the actions do not touch of it.                                      *)
causeVars == <<pc, outcome, saved, overdue, reason, reaper, box, hit>>

LEMMA PcFacts ==
    /\ AtWork = {"clear", "start", "run", "askoom", "save", "destroy", "bank", "add",
                 "finish", "release", "delete"}
    /\ Unwinding = {"save", "destroy", "bank", "add", "finish", "release", "delete"}
BY DEF AtWork, Unwinding

LEMMA CauseInvInit == Init => CauseInv
  BY AttemptAssumption
  DEF Init, Each, NewRow, CauseInv, CauseTypes, Causes, StopKnown, BoxKnown, VerdictKnown,
      Undecided, Verdict, NoReason, R_CANCELLED, R_TIMEOUT, R_TOOL, R_OOM

(* The calls the step makes of the store, add_usage apart, neither take the  *)
(* flag back nor touch the usage.                                            *)
FlagKept ==
    /\ DOMAIN tasks' = TaskId /\ {"cancel", "usage"} \subseteq DOMAIN tasks'[Task]
    /\ tasks[Task].cancel => tasks'[Task].cancel

UsageKept == tasks'[Task].usage = tasks[Task].usage

LEMMA CallsKeep ==
    ASSUME DOMAIN tasks = TaskId, {"cancel", "usage"} \subseteq DOMAIN tasks[Task],
           \/ UNCHANGED storeVars
           \/ \E w \in WorkerId : Claim(Task, w)
           \/ \E a, o : Finish(Task, a, o)
           \/ \E a : Requeue(Task, a) \/ FailExhausted(Task, a)
           \/ RequestCancel(Task)
    PROVE  FlagKept /\ UsageKept
<1> USE AttemptAssumption DEF FlagKept, UsageKept
<1>1. CASE UNCHANGED storeVars
  BY <1>1 DEF storeVars
<1>2. CASE \E w \in WorkerId : Claim(Task, w)
  <2>1. PICK w \in WorkerId : Claim(Task, w)
    BY <1>2
  <2> DEFINE row == [tasks[Task] EXCEPT !.status = RUNNING, !.attempt = @ + 1, !.worker = w]
  <2>2. tasks' = [tasks EXCEPT ![Task] = row]
    BY <2>1 DEF Claim
  <2>3. DOMAIN row = DOMAIN tasks[Task] /\ row.cancel = tasks[Task].cancel
        /\ row.usage = tasks[Task].usage
    OBVIOUS
  <2> HIDE DEF row
  <2> QED
    BY <2>2, <2>3
<1>3. ASSUME NEW a, NEW status, NEW why, Settle(Task, a, status, why)
      PROVE  FlagKept /\ UsageKept
  <2> DEFINE row == [tasks[Task] EXCEPT !.status = status, !.reason = why]
  <2>1. tasks' = [tasks EXCEPT ![Task] = row]
    BY <1>3 DEF Settle
  <2>2. DOMAIN row = DOMAIN tasks[Task] /\ row.cancel = tasks[Task].cancel
        /\ row.usage = tasks[Task].usage
    OBVIOUS
  <2> HIDE DEF row
  <2> QED
    BY <2>1, <2>2
<1>4. CASE \E a, o : Finish(Task, a, o)
  BY <1>3, <1>4 DEF Finish
<1>5. CASE \E a : Requeue(Task, a) \/ FailExhausted(Task, a)
  BY <1>3, <1>5 DEF Requeue, FailExhausted
<1>6. CASE RequestCancel(Task)
  BY <1>6 DEF RequestCancel
<1> QED
  BY <1>1, <1>2, <1>4, <1>5, <1>6

LEMMA BillKeepsFlag ==
    ASSUME DOMAIN tasks = TaskId, {"cancel", "usage"} \subseteq DOMAIN tasks[Task],
           NEW a, NEW sum, AddUsage(Task, a, sum)
    PROVE  FlagKept
BY AttemptAssumption DEF AddUsage, FlagKept

LEMMA CauseInvStep == CauseInv /\ [Next]_vars => CauseInv'
<1> SUFFICES ASSUME CauseInv, [Next]_vars
             PROVE  CauseInv'
  OBVIOUS
<1> USE DEF CauseInv
<1>1. CauseTypes
  OBVIOUS
<1>2. UNCHANGED storeVars => FlagKept
  BY CallsKeep DEF CauseTypes
<1>3. ASSUME FlagKept, UNCHANGED causeVars
      PROVE  CauseInv'
  BY <1>3 DEF FlagKept, CauseTypes, Causes, StopKnown, BoxKnown, VerdictKnown, Excused,
     Removable, causeVars
<1>4. ASSUME NEW b \in Attempts, Main(b)
      PROVE  CauseInv'
  <2> USE DEF FlagKept, CauseTypes, Causes, StopKnown, BoxKnown, VerdictKnown, Excused, Removable,
              Step, At, GoTo
  <2>1. CASE Clear(b)
    <3>1. PICK removed \in SUBSET Standing :
              /\ box' = [a \in Attempts |-> IF a \in removed THEN "gone" ELSE box[a]]
              /\ hit' = [a \in Attempts |-> IF a \in removed /\ pc[a] \in AtWork
                                            THEN hit[a] \cup {"cleared"} ELSE hit[a]]
      BY <2>1 DEF Clear
    <3>2. /\ pc[b] = "clear" /\ pc' = [pc EXCEPT ![b] = "start"]
          /\ UNCHANGED <<outcome, saved, overdue, reason, reaper>> /\ FlagKept
      BY <2>1, <1>2 DEF Clear, OnlyPc, threadVars
    <3>3. \A a \in Attempts : Causes(a)'
      BY <3>1, <3>2, PcFacts DEF Standing
    <3> QED
      BY <3>1, <3>2, <3>3
  <2>2. CASE StartBox(b)
    <3>1. /\ pc[b] = "start" /\ pc' = [pc EXCEPT ![b] = "run"]
          /\ UNCHANGED <<outcome, saved, overdue, reason, hit>> /\ FlagKept
          /\ reaper' = [reaper EXCEPT ![b] = "wait"]
          /\ box' = [box EXCEPT ![b] = "up"]
      BY <2>2, <1>2 DEF StartBox, OnlyPc
    <3> QED
      BY <3>1
  <2>3. CASE RunStopped(b)
    <3>1. /\ pc[b] = "run" /\ pc' = [pc EXCEPT ![b] = "save"]
          /\ UNCHANGED <<box, hit, saved, overdue, reason, reaper>> /\ FlagKept
          /\ outcome' = [outcome EXCEPT ![b] = StopVerdict(reason[b])]
      BY <2>3, <1>2 DEF RunStopped, Conclude, SetStop, boxVars
    <3>2. StopVerdict(reason[b]).reason = reason[b]
      BY DEF StopVerdict, Verdict
    <3> QED
      BY <3>1, <3>2 DEF NoReason, R_CANCELLED, R_TIMEOUT, R_TOOL, R_OOM
  <2>4. CASE SandboxDies(b)
    <3>1. /\ pc[b] = "run" /\ pc' = [pc EXCEPT ![b] = "askoom"]
          /\ box[b] # "up" /\ reason[b] = NoReason
          /\ UNCHANGED <<outcome, saved, overdue, reason, reaper, box, hit>> /\ FlagKept
      BY <2>4, <1>2 DEF SandboxDies, OnlyPc, OnlyRun, threadVars, boxVars
    <3> QED
      BY <3>1
  <2>5. CASE AskOom(b)
    <3>1. /\ pc[b] = "askoom" /\ pc' = [pc EXCEPT ![b] = "save"]
          /\ UNCHANGED <<box, hit, saved, overdue, reason, reaper>> /\ FlagKept
          /\ outcome' = [outcome EXCEPT
                ![b] = Verdict(FAILED, IF box[b] = "oom" THEN R_OOM ELSE R_TOOL)]
      BY <2>5, <1>2 DEF AskOom, Conclude, SetStop, boxVars
    <3> QED
      BY <3>1 DEF Verdict, R_TIMEOUT, R_TOOL, R_OOM
  <2>6. CASE Save(b)
    <3>1. /\ pc[b] = "save" /\ pc' = [pc EXCEPT ![b] = "destroy"]
          /\ saved' = [saved EXCEPT ![b] = box[b] # "gone"]
          /\ UNCHANGED <<outcome, overdue, reason, reaper, box, hit>> /\ FlagKept
      BY <2>6, <1>2 DEF Save, OnlyRun, threadVars, boxVars
    <3> QED
      BY <3>1
  <2>7. CASE DestroyBox(b)
    <3>1. CASE outcome[b] = Raised
      BY <1>2, <2>7, <3>1
      DEF DestroyBox, LeaveTry, Forget, RestReaper, Undecided, Verdict, NoReason, R_CANCELLED,
          R_TIMEOUT, R_TOOL, R_OOM
    <3>2. CASE outcome[b] # Raised
      BY <1>2, <2>7, <3>2 DEF DestroyBox, LeaveTry, OnlyPc
    <3> QED
      BY <3>1, <3>2
  <2>8. CASE ReadTotal(b)
    BY <1>2, <2>8 DEF ReadTotal, OnlyPc, threadVars, boxVars
  <2>9. CASE WriteTotal(b)
    <3>1. FlagKept
      BY <1>1, <2>9, BillKeepsFlag DEF WriteTotal
    <3> QED
      BY <2>9, <3>1 DEF WriteTotal, OnlyPc, threadVars, boxVars
  <2>10. CASE FinishTask(b)
    <3>1. FlagKept
      BY <1>1, <2>10, CallsKeep DEF FinishTask
    <3> QED
      BY <2>10, <3>1
      DEF FinishTask, Forget, RestReaper, Undecided, Verdict, NoReason, R_CANCELLED, R_TIMEOUT,
          R_TOOL, R_OOM
  <2>11. CASE ReadLease(b)
    BY <1>2, <2>11 DEF ReadLease, OnlyPc, OnlyRun, threadVars, boxVars
  <2>12. CASE DeleteLease(b)
    BY <1>2, <2>12 DEF DeleteLease, OnlyPc, threadVars, boxVars
  <2> QED
    BY <1>4, <2>1, <2>2, <2>3, <2>4, <2>5, <2>6, <2>7, <2>8, <2>9, <2>10, <2>11, <2>12
    DEF Main
<1>5. ASSUME NEW b \in Attempts, Begin(b)
      PROVE  CauseInv'
  <2>1. FlagKept
    BY <1>1, <1>5, CallsKeep DEF CauseTypes, Begin
  <2>2. /\ pc[b] = "idle" /\ pc' = [pc EXCEPT ![b] = "clear"]
        /\ UNCHANGED <<outcome, saved, overdue, reason, reaper, box, hit>>
    BY <1>5 DEF Begin, Step, At, GoTo, OnlyPc, threadVars, boxVars
  <2> QED
    BY <2>1, <2>2 DEF FlagKept, CauseTypes, Causes, StopKnown, BoxKnown, VerdictKnown,
       Excused, Removable
<1>6. ASSUME NEW b \in Attempts, RunEnds(b)
      PROVE  CauseInv'
  <2>1. PICK o \in OwnVerdict : Conclude(b, "run", o)
    BY <1>6 DEF RunEnds
  <2>2. /\ pc[b] = "run" /\ pc' = [pc EXCEPT ![b] = "save"]
        /\ UNCHANGED <<box, hit, saved, overdue, reason, reaper>> /\ FlagKept
        /\ outcome' = [outcome EXCEPT ![b] = o]
    BY <1>2, <1>6, <2>1 DEF RunEnds, Conclude, Step, At, GoTo, SetStop, boxVars
  <2>3. o.reason \in {NoReason, R_MODEL}
    BY <2>1 DEF OwnVerdict, Verdict
  <2> QED
    BY <2>2, <2>3
    DEF FlagKept, CauseTypes, Causes, StopKnown, BoxKnown, VerdictKnown, Excused, Removable,
        NoReason, R_MODEL, R_TIMEOUT, R_TOOL, R_OOM
<1>7. ASSUME NEW b \in Attempts, Heartbeat(b)
      PROVE  CauseInv'
  BY <1>2, <1>3, <1>7
  DEF Heartbeat, CheckToken, Extend, OnlyBeat, causeVars, runVars, boxVars
<1>8. ASSUME NEW b \in Attempts, Reaper(b)
      PROVE  CauseInv'
  <2> USE DEF FlagKept, CauseTypes, Causes, StopKnown, BoxKnown, VerdictKnown, Excused, Removable,
              OnlyReaper, runVars
  <2>1. CASE Look(b)
    BY <1>2, <2>1 DEF Look, Grounds, NoReason, R_CANCELLED, R_TIMEOUT
  <2>2. CASE ReaperStops(b)
    BY <1>2, <2>2 DEF ReaperStops
  <2>3. CASE Kill(b)
    BY <1>2, <2>3 DEF Kill
  <2> QED
    BY <1>8, <2>1, <2>2, <2>3 DEF Reaper
<1>9. ASSUME NEW b \in Attempts, Environment(b)
      PROVE  CauseInv'
  <2>1. FlagKept
    BY <1>2, <1>9
    DEF Environment, DeadlinePasses, Crash, RunRaises, Conclude, Raise, HeartbeatDies,
        ReaperDies, OomKills, DockerFails, AskOomFails, SaveFails, BoxStays, LeaveTry,
        KillFails, FaultInside, FaultOutside
  <2> USE DEF FlagKept, CauseTypes, Causes, StopKnown, BoxKnown, VerdictKnown, Excused, Removable,
              FaultInside,
              FaultOutside, Step, At, GoTo
  <2>2. CASE DeadlinePasses(b)
    BY <2>1, <2>2 DEF DeadlinePasses, threadVars, boxVars
  <2>3. CASE Crash(b) \/ Raise(b)
    BY <2>1, <2>3, PcFacts
    DEF Crash, Raise, Forget, RestReaper, Undecided, Verdict, NoReason, R_CANCELLED, R_TIMEOUT,
        R_TOOL, R_OOM
  <2>4. CASE RunRaises(b)
    BY <2>1, <2>4
    DEF RunRaises, Conclude, SetStop, boxVars, Raised, Verdict, NoReason, R_TIMEOUT, R_TOOL,
        R_OOM
  <2>5. CASE HeartbeatDies(b)
    BY <1>3, <2>1, <2>5 DEF HeartbeatDies, causeVars, runVars, boxVars
  <2>6. CASE ReaperDies(b)
    BY <2>1, <2>6 DEF ReaperDies, runVars, boxVars
  <2>7. CASE OomKills(b)
    BY <2>1, <2>7 DEF OomKills, runVars, threadVars
  <2>8. CASE DockerFails(b)
    <3>1. CASE reason[b] = NoReason
      BY <2>1, <2>8, <3>1 DEF DockerFails, OnlyPc, threadVars
    <3>2. CASE reason[b] # NoReason
      <4>1. StopVerdict(reason[b]).reason = reason[b]
        BY DEF StopVerdict, Verdict
      <4> QED
        BY <2>1, <2>8, <3>2, <4>1
        DEF DockerFails, Conclude, SetStop, NoReason, R_CANCELLED, R_TIMEOUT, R_TOOL, R_OOM
    <3> QED
      BY <3>1, <3>2
  <2>9. CASE AskOomFails(b)
    BY <2>1, <2>9
    DEF AskOomFails, Conclude, SetStop, Verdict, NoReason, R_TIMEOUT, R_TOOL, R_OOM
  <2>10. CASE SaveFails(b)
    BY <2>1, <2>10 DEF SaveFails, OnlyPc, threadVars
  <2>11. CASE BoxStays(b)
    <3>1. CASE outcome[b] = Raised
      BY <2>1, <2>11, <3>1
      DEF BoxStays, LeaveTry, Forget, RestReaper, Undecided, Verdict, NoReason, R_CANCELLED,
          R_TIMEOUT, R_TOOL, R_OOM
    <3>2. CASE outcome[b] # Raised
      BY <2>1, <2>11, <3>2 DEF BoxStays, LeaveTry, OnlyPc
    <3> QED
      BY <3>1, <3>2
  <2>12. CASE KillFails(b)
    BY <2>1, <2>12 DEF KillFails, runVars, boxVars
  <2> QED
    BY <1>9, <2>2, <2>3, <2>4, <2>5, <2>6, <2>7, <2>8, <2>9, <2>10, <2>11, <2>12
    DEF Environment
<1>10. ASSUME RequestStop \/ Reclaim \/ Tick
       PROVE  CauseInv'
  <2>1. Reclaim => FlagKept
    <3>1. ASSUME Reclaim
          PROVE  Requeue(Task, tasks[Task].attempt) \/ FailExhausted(Task, tasks[Task].attempt)
      BY <3>1 DEF Reclaim
    <3> QED
      BY <3>1, CallsKeep DEF CauseTypes
  <2>2. FlagKept
    BY <1>2, <1>10, <2>1, CallsKeep DEF CauseTypes, RequestStop, Tick
  <2> QED
    BY <1>3, <1>10, <2>2
    DEF RequestStop, Reclaim, Tick, causeVars, threadVars, runVars, boxVars
<1>11. CASE UNCHANGED vars
  BY <1>2, <1>3, <1>11 DEF causeVars, vars, threadVars, runVars, boxVars
<1> QED
  BY <1>4, <1>5, <1>6, <1>7, <1>8, <1>9, <1>10, <1>11 DEF Next

(* worker/attempt.py:60-71: what the reaper does to the container is never   *)
(* reported as a broken sandbox, nor a timeout before the deadline.          *)
THEOREM VerdictsHaveCauses == Spec => []VerdictHasCause
<1>1. CauseInv => VerdictHasCause
  BY DEF CauseInv, Causes, VerdictKnown, VerdictHasCause
<1> QED
  BY <1>1, CauseInvInit, CauseInvStep, PTL DEF Spec

(* worker/attempt.py:72-77: artifacts come before the destroy: who comes to  *)
(* the terminal write without them was stopped, lost the container to a      *)
(* later attempt, or had the download refused by Docker.                     *)
THEOREM ArtifactsAreKept == Spec => []ArtifactsKept
<1>1. CauseInv => ArtifactsKept
  BY DEF CauseInv, Causes, StopKnown, BoxKnown, Excused, Removable, ArtifactsKept
<1> QED
  BY <1>1, CauseInvInit, CauseInvStep, PTL DEF Spec

-----------------------------------------------------------------------------
(* Types of the main thread.  A verdict is complete when the books are made. *)
Settling == {"bank", "add", "finish"}

RunTypes ==
    /\ pc \in [Attempts -> AtWork \cup {"idle", "over"}]
    /\ outcome \in [Attempts -> Outcome \cup {Undecided, Raised}]
    /\ saved \in [Attempts -> BOOLEAN] /\ overdue \in [Attempts -> BOOLEAN]
    /\ \A a \in Attempts :
        /\ pc[a] \in {"save", "destroy"} => outcome[a] \in Outcome \cup {Raised}
        /\ pc[a] \in Settling => outcome[a] \in Outcome

ThreadTypes ==
    /\ hb \in [Attempts -> {"off", "first", "wait", "extend", "over"}]
    /\ beat \in [Attempts -> -MaxLate .. TTL]
    /\ reaper \in [Attempts -> {"off", "wait", "kill", "over", "died"}]
    /\ reason \in [Attempts -> {NoReason, R_CANCELLED, R_TIMEOUT}]

BoxTypes ==
    /\ box \in [Attempts -> {"none", "up", "oom", "gone"}]
    /\ hit \in [Attempts -> SUBSET {"oom", "cleared", "docker", "unsaved"}]

LEMMA VerdictTypes ==
    /\ OwnVerdict \subseteq Outcome
    /\ \A why \in {R_CANCELLED, R_TIMEOUT} : StopVerdict(why) \in Outcome
    /\ \A why \in {R_OOM, R_TOOL} : Verdict(FAILED, why) \in Outcome
    /\ Raised \notin Outcome /\ Undecided \notin Outcome /\ Raised # Undecided
BY VerdictAssumption
DEF OwnVerdict, StopVerdict, Verdict, Outcome, Raised, Undecided, SUCCEEDED, FAILED, CANCELLED,
    R_CANCELLED, R_TIMEOUT

LEMMA ConcludeTyped ==
    ASSUME RunTypes, NEW a \in Attempts, NEW from, NEW o \in Outcome \cup {Raised},
           Conclude(a, from, o)
    PROVE  RunTypes'
BY PcFacts DEF RunTypes, Conclude, Step, At, GoTo, Settling

LEMMA ForgetTyped ==
    ASSUME RunTypes, NEW a \in Attempts, NEW l \in {"release", "over"}, Forget(a, l)
    PROVE  RunTypes'
BY PcFacts DEF RunTypes, Forget, GoTo, Settling

LEMMA RunTyped ==
    ASSUME RunTypes, ThreadTypes, [Next]_vars
    PROVE  RunTypes'
<1> USE PcFacts DEF Settling, Step, At, GoTo, OnlyPc
<1>1. CASE UNCHANGED runVars
  BY <1>1 DEF RunTypes, runVars
<1>2. ASSUME NEW a \in Attempts,
             \/ Begin(a) \/ Clear(a) \/ StartBox(a) \/ SandboxDies(a)
             \/ ReadTotal(a) \/ WriteTotal(a) \/ ReadLease(a) \/ DeleteLease(a)
      PROVE  RunTypes'
  BY <1>2
  DEF RunTypes, Begin, Clear, StartBox, SandboxDies, ReadTotal, WriteTotal, ReadLease,
      DeleteLease
<1>3. ASSUME NEW a \in Attempts, RunEnds(a) \/ RunRaises(a) \/ AskOom(a) \/ AskOomFails(a)
      PROVE  RunTypes'
  <2>1. PICK from \in {"run", "askoom"}, o \in Outcome \cup {Raised} : Conclude(a, from, o)
    BY <1>3, VerdictTypes DEF RunEnds, RunRaises, AskOom, AskOomFails
  <2> QED
    BY <2>1, ConcludeTyped
<1>4. ASSUME NEW a \in Attempts, reason[a] # NoReason,
             Conclude(a, "run", StopVerdict(reason[a]))
      PROVE  RunTypes'
  <2>1. StopVerdict(reason[a]) \in Outcome
    BY <1>4, VerdictTypes DEF ThreadTypes
  <2> QED
    BY <1>4, <2>1, ConcludeTyped
<1>5. ASSUME NEW a \in Attempts, Save(a) \/ SaveFails(a) PROVE RunTypes'
  BY <1>5 DEF RunTypes, Save, SaveFails
<1>6. ASSUME NEW a \in Attempts, LeaveTry(a) PROVE RunTypes'
  <2>1. CASE outcome[a] = Raised
    BY <1>6, <2>1, ForgetTyped DEF LeaveTry
  <2>2. CASE outcome[a] # Raised
    <3>1. outcome[a] \in Outcome
      BY <1>6, <2>2 DEF LeaveTry, RunTypes
    <3>2. PICK l \in {"bank", "finish"} : pc' = [pc EXCEPT ![a] = l] /\ OnlyPc
      BY <1>6, <2>2 DEF LeaveTry
    <3> QED
      BY <3>1, <3>2 DEF RunTypes
  <2> QED
    BY <2>1, <2>2
<1>7. ASSUME NEW a \in Attempts, FinishTask(a) \/ Crash(a) \/ Raise(a) PROVE RunTypes'
  BY <1>7, ForgetTyped DEF FinishTask, Crash, Raise
<1>8. ASSUME NEW a \in Attempts, DockerFails(a) PROVE RunTypes'
  <2>1. CASE reason[a] = NoReason
    BY <1>8, <2>1 DEF DockerFails, RunTypes
  <2>2. CASE reason[a] # NoReason
    BY <1>4, <1>8, <2>2 DEF DockerFails
  <2> QED
    BY <2>1, <2>2
<1>9. ASSUME NEW a \in Attempts, DeadlinePasses(a) PROVE RunTypes'
  BY <1>9 DEF RunTypes, DeadlinePasses
<1>10. ASSUME NEW a \in Attempts,
              \/ Heartbeat(a) \/ Reaper(a)
              \/ HeartbeatDies(a) \/ ReaperDies(a) \/ OomKills(a) \/ KillFails(a)
       PROVE  UNCHANGED runVars
  BY <1>10
  DEF Heartbeat, CheckToken, Extend, OnlyBeat, Reaper, Look, ReaperStops, Kill, OnlyReaper,
      HeartbeatDies, ReaperDies, OomKills, KillFails, FaultInside
<1>11. ASSUME RequestStop \/ Reclaim \/ Tick PROVE UNCHANGED runVars
  BY <1>11 DEF RequestStop, Reclaim, Tick
<1> QED
  BY <1>1, <1>2, <1>3, <1>4, <1>5, <1>6, <1>7, <1>8, <1>9, <1>10, <1>11
  DEF Next, Main, Environment, RunStopped, DestroyBox, BoxStays, vars

LEMMA ThreadTyped ==
    ASSUME ThreadTypes, [Next]_vars
    PROVE  ThreadTypes'
<1> USE Numbers
<1>0. 0 \in -MaxLate .. TTL /\ Interval \in -MaxLate .. TTL
  OBVIOUS
<1>1. CASE UNCHANGED threadVars
  BY <1>1 DEF ThreadTypes, threadVars
<1>2. ASSUME NEW a \in Attempts, Begin(a) \/ Main(a) \/ RunEnds(a)
      PROVE  ThreadTypes'
  BY <1>0, <1>1, <1>2
  DEF ThreadTypes, Begin, Main, Clear, StartBox, RunStopped, SandboxDies, OnlyRun, AskOom,
      Save, DestroyBox, LeaveTry, ReadTotal, WriteTotal, FinishTask, ReadLease, DeleteLease,
      RunEnds, Conclude, SetStop, Forget, RestReaper, threadVars
<1>3. ASSUME NEW a \in Attempts, Heartbeat(a)
      PROVE  ThreadTypes'
  <2>1. CASE CheckToken(a)
    BY <2>1 DEF ThreadTypes, CheckToken, OnlyBeat
  <2>2. CASE Extend(a)
    BY <1>0, <2>2 DEF ThreadTypes, Extend, NextBeat, OnlyBeat
  <2> QED
    BY <1>3, <2>1, <2>2 DEF Heartbeat
<1>4. ASSUME NEW a \in Attempts, Reaper(a)
      PROVE  ThreadTypes'
  BY <1>4
  DEF ThreadTypes, Reaper, Look, Grounds, ReaperStops, Kill, OnlyReaper
<1>5. ASSUME NEW a \in Attempts, Environment(a)
      PROVE  ThreadTypes'
  BY <1>0, <1>1, <1>5
  DEF ThreadTypes, Environment, DeadlinePasses, Crash, RunRaises, Raise, HeartbeatDies,
      ReaperDies, OomKills, DockerFails, AskOomFails, SaveFails, BoxStays, LeaveTry, KillFails,
      Conclude, SetStop, Forget, RestReaper, threadVars
<1>6. CASE RequestStop \/ Reclaim
  BY <1>1, <1>6 DEF RequestStop, Reclaim
<1>7. CASE Tick
  <2>1. \A a \in Attempts : Renewing(a) => beat[a] - 1 \in -MaxLate .. TTL
    BY <1>7 DEF Tick, ThreadTypes
  <2> QED
    BY <1>7, <2>1 DEF Tick, ThreadTypes
<1> QED
  BY <1>1, <1>2, <1>3, <1>4, <1>5, <1>6, <1>7 DEF Next, vars

LEMMA BoxTyped ==
    ASSUME BoxTypes, [Next]_vars
    PROVE  BoxTypes'
<1>1. CASE UNCHANGED boxVars
  BY <1>1 DEF BoxTypes, boxVars
<1>2. ASSUME NEW a \in Attempts, Clear(a)
      PROVE  BoxTypes'
  <2>1. PICK removed \in SUBSET Standing :
            /\ box' = [b \in Attempts |-> IF b \in removed THEN "gone" ELSE box[b]]
            /\ hit' = [b \in Attempts |-> IF b \in removed /\ pc[b] \in AtWork
                                          THEN hit[b] \cup {"cleared"} ELSE hit[b]]
    BY <1>2 DEF Clear
  <2> QED
    BY <2>1 DEF BoxTypes
<1>3. ASSUME NEW a \in Attempts,
             \/ Begin(a) \/ (Main(a) /\ ~Clear(a)) \/ RunEnds(a)
             \/ Heartbeat(a) \/ Reaper(a) \/ Environment(a)
      PROVE  BoxTypes'
  <2>1. CASE Begin(a) \/ RunEnds(a) \/ Heartbeat(a)
    BY <1>1, <1>3, <2>1 DEF Begin, RunEnds, Heartbeat, CheckToken, Extend, OnlyBeat
  <2>2. CASE Main(a) /\ ~Clear(a)
    BY <1>1, <1>3, <2>2
    DEF BoxTypes, Main, StartBox, RunStopped, SandboxDies, OnlyRun, AskOom, Save, DestroyBox,
        LeaveTry, ReadTotal, WriteTotal, FinishTask, ReadLease, DeleteLease, Forget, boxVars
  <2>3. CASE Reaper(a)
    BY <1>3, <2>3 DEF BoxTypes, Reaper, Look, ReaperStops, Kill, OnlyReaper
  <2>4. CASE Environment(a)
    BY <1>1, <1>3, <2>4
    DEF BoxTypes, Environment, DeadlinePasses, Crash, RunRaises, Raise, HeartbeatDies,
        ReaperDies, OomKills, DockerFails, AskOomFails, SaveFails, BoxStays, LeaveTry,
        KillFails, Forget, boxVars
  <2> QED
    BY <1>3, <2>1, <2>2, <2>3, <2>4
<1>4. CASE RequestStop \/ Reclaim \/ Tick
  BY <1>1, <1>4 DEF RequestStop, Reclaim, Tick
<1> QED
  BY <1>1, <1>2, <1>3, <1>4 DEF Next, vars

-----------------------------------------------------------------------------
(* The store, as run_attempt and those around it use it.                     *)
RunningIsClaimed == tasks[Task].status = RUNNING => tasks[Task].attempt \in 1 .. MaxAttempts

LEMMA StoreUsed ==
    ASSUME StoreTypeOK, RunningIsClaimed, RunTypes, total \in [Attempts -> Usage], [Next]_vars
    PROVE  [StoreNext]_storeVars
<1> USE AttemptAssumption, Numbers DEF Attempts
<1>1. CASE UNCHANGED storeVars
  BY <1>1
<1>2. ASSUME NEW a \in Attempts, Begin(a)
      PROVE  StoreNext
  BY <1>2 DEF Begin, StoreNext
<1>3. ASSUME NEW a \in Attempts, Main(a), ~FinishTask(a), ~WriteTotal(a)
      PROVE  UNCHANGED storeVars
  BY <1>3
  DEF Main, Clear, StartBox, RunStopped, SandboxDies, OnlyRun, AskOom, Conclude, Save,
      DestroyBox, LeaveTry, ReadTotal, ReadLease, DeleteLease
<1>4. ASSUME NEW a \in Attempts, FinishTask(a)
      PROVE  [StoreNext]_storeVars
  <2>1. outcome[a] \in Outcome
    BY <1>4 DEF FinishTask, At, RunTypes, Settling
  <2> QED
    BY <1>1, <1>4, <2>1 DEF FinishTask, StoreNext
<1>5. ASSUME NEW a \in Attempts, RunEnds(a) \/ Heartbeat(a) \/ Reaper(a) \/ Environment(a)
      PROVE  UNCHANGED storeVars
  BY <1>5
  DEF RunEnds, Conclude, Heartbeat, CheckToken, Extend, OnlyBeat, Reaper, Look, ReaperStops,
      Kill, OnlyReaper, Environment, DeadlinePasses, Crash, RunRaises, Raise, HeartbeatDies,
      ReaperDies, OomKills, DockerFails, AskOomFails, SaveFails, BoxStays, LeaveTry, KillFails,
      FaultInside, FaultOutside
<1>6. CASE RequestStop
  BY <1>6 DEF RequestStop, StoreNext
<1>7. CASE Reclaim
  <2>1. tasks[Task].attempt \in 1 .. MaxAttempts
    BY <1>7 DEF Reclaim, Reclaimable, RunningIsClaimed
  <2> QED
    BY <1>7, <2>1 DEF Reclaim, StoreNext
<1>8. CASE Tick
  BY <1>1, <1>8 DEF Tick
<1>9. ASSUME NEW a \in Attempts, WriteTotal(a)
      PROVE  StoreNext
  <2>1. AddUsage(Task, a, total[a]) /\ total[a] \in Usage
    BY <1>9 DEF WriteTotal
  <2> QED
    BY <2>1 DEF StoreNext
<1> QED
  BY <1>1, <1>2, <1>3, <1>4, <1>5, <1>6, <1>7, <1>8, <1>9 DEF Next, vars

LEMMA RunningStaysClaimed ==
    ASSUME StoreTypeOK, RunningIsClaimed, [StoreNext]_storeVars
    PROVE  RunningIsClaimed'
<1>1. RowMoves(Task)
  BY RowStep, AttemptAssumption
<1>2. tasks[Task].attempt \in 0 .. MaxAttempts
  BY AttemptAssumption DEF StoreTypeOK, Row
<1> QED
  BY <1>1, <1>2, Numbers
  DEF RunningIsClaimed, RowMoves, Created, Claimed, GivenBack, Ended, Flagged, Billed, QUEUED,
      RUNNING, TERMINAL, SUCCEEDED, FAILED, CANCELLED

-----------------------------------------------------------------------------
(* The lease and the usage.                                                  *)
BookTypes ==
    /\ holder \in 0 .. MaxAttempts /\ left \in 0 .. TTL /\ lapsed \in BOOLEAN
    /\ (holder = 0) = (left = 0)
    /\ total \in [Attempts -> Usage] /\ banked \in Usage
    /\ incidents \in 0 .. MaxIncidents

(* While no lease ran out under an attempt at work, who is at work has it,   *)
(* so that nobody wrote the row since add_usage read it.                     *)
BooksRight ==
    ~lapsed =>
        /\ \A a \in Attempts : pc[a] \in AtWork => holder = a
        /\ \A a \in Attempts : pc[a] = "add" => total[a] = tasks[Task].usage
        /\ tasks[Task].usage = banked

bookVars == <<holder, left, lapsed, total, banked>>

(* An attempt walks on.                                                      *)
Walks(a) ==
    /\ pc[a] \in AtWork
    /\ \E l \in (AtWork \cup {"over"}) \ {"add"} :
          pc' = [pc EXCEPT ![a] = l]

Counted == incidents' = incidents \/ Incident

(* What a step does to all this.                                             *)
BookMoves(a) ==
    \/ Begin(a) \/ ReadTotal(a) \/ WriteTotal(a) \/ DeleteLease(a) \/ Extend(a)
    \/ UNCHANGED bookVars /\ Counted /\ (Walks(a) \/ pc' = pc)

LEMMA BooksMove ==
    ASSUME RunTypes, Next
    PROVE  Tick \/ \E a \in Attempts : BookMoves(a)
<1> USE PcFacts DEF Walks, Counted, bookVars, leaseVars, usageVars, Step, At, GoTo
<1>1. ASSUME NEW a \in Attempts, Main(a)
      PROVE  BookMoves(a)
  <2>1. CASE Clear(a) \/ StartBox(a) \/ SandboxDies(a) \/ Save(a) \/ ReadLease(a)
    BY <2>1 DEF Clear, StartBox, SandboxDies, Save, ReadLease, OnlyRun, BookMoves
  <2>2. CASE RunStopped(a) \/ AskOom(a)
    BY <2>2 DEF RunStopped, AskOom, Conclude, BookMoves
  <2>3. CASE DestroyBox(a)
    BY <2>3 DEF DestroyBox, LeaveTry, Forget, BookMoves
  <2>4. CASE FinishTask(a)
    BY <2>4 DEF FinishTask, Forget, BookMoves
  <2> QED
    BY <1>1, <2>1, <2>2, <2>3, <2>4 DEF Main, BookMoves
<1>2. ASSUME NEW a \in Attempts, Environment(a)
      PROVE  BookMoves(a)
  <2>1. CASE \/ DeadlinePasses(a) \/ HeartbeatDies(a) \/ ReaperDies(a) \/ OomKills(a)
             \/ KillFails(a)
    BY <2>1
    DEF DeadlinePasses, HeartbeatDies, ReaperDies, OomKills, KillFails, FaultInside,
        FaultOutside, runVars, BookMoves
  <2>2. CASE Crash(a) \/ Raise(a)
    BY <2>2 DEF Crash, Raise, Forget, FaultOutside, BookMoves
  <2>3. CASE RunRaises(a) \/ AskOomFails(a)
    BY <2>3 DEF RunRaises, AskOomFails, Conclude, BookMoves
  <2>4. CASE DockerFails(a) \/ SaveFails(a)
    BY <2>4 DEF DockerFails, SaveFails, Conclude, FaultOutside, BookMoves
  <2>5. CASE BoxStays(a)
    BY <2>5 DEF BoxStays, LeaveTry, Forget, BookMoves
  <2> QED
    BY <1>2, <2>1, <2>2, <2>3, <2>4, <2>5 DEF Environment
<1>3. ASSUME NEW a \in Attempts, Begin(a) \/ RunEnds(a) \/ Heartbeat(a) \/ Reaper(a)
      PROVE  BookMoves(a)
  BY <1>3
  DEF RunEnds, Conclude, Heartbeat, CheckToken, OnlyBeat, Reaper, Look, ReaperStops, Kill,
      OnlyReaper, runVars, BookMoves
<1>4. ASSUME RequestStop \/ Reclaim
      PROVE  BookMoves(1)
  BY <1>4 DEF RequestStop, Reclaim, runVars, BookMoves
<1> QED
  BY <1>1, <1>2, <1>3, <1>4, Numbers, MaxAttemptsAssumption DEF Next, Attempts

(* Only add_usage changes the usage of a row.                                *)
LEMMA UsageStays ==
    ASSUME StoreTypeOK, [Next]_vars, \A a \in Attempts : ~WriteTotal(a)
    PROVE  UsageKept
<1>1. DOMAIN tasks = TaskId /\ {"cancel", "usage"} \subseteq DOMAIN tasks[Task]
  BY AttemptAssumption DEF StoreTypeOK, Row
<1>2. UNCHANGED storeVars => UsageKept
  BY DEF storeVars, UsageKept
<1>3. ASSUME NEW a \in Attempts, Main(a)
      PROVE  UsageKept
  <2>1. CASE FinishTask(a)
    BY <1>1, <2>1, CallsKeep DEF FinishTask
  <2>2. CASE ~FinishTask(a)
    BY <1>2, <1>3, <2>2
    DEF Main, Clear, StartBox, RunStopped, SandboxDies, OnlyRun, AskOom, Conclude, Save,
        DestroyBox, LeaveTry, ReadTotal, ReadLease, DeleteLease
  <2> QED
    BY <2>1, <2>2
<1>4. ASSUME NEW a \in Attempts, Begin(a)
      PROVE  UsageKept
  BY <1>1, <1>4, CallsKeep DEF Begin
<1>5. ASSUME NEW a \in Attempts, RunEnds(a) \/ Heartbeat(a) \/ Reaper(a) \/ Environment(a)
      PROVE  UsageKept
  BY <1>2, <1>5
  DEF RunEnds, Conclude, Heartbeat, CheckToken, Extend, OnlyBeat, Reaper, Look, ReaperStops,
      Kill, OnlyReaper, Environment, DeadlinePasses, Crash, RunRaises, Raise, HeartbeatDies,
      ReaperDies, OomKills, DockerFails, AskOomFails, SaveFails, BoxStays, LeaveTry, KillFails,
      FaultInside, FaultOutside
<1>6. CASE RequestStop \/ Reclaim
  BY <1>1, <1>6, CallsKeep DEF RequestStop, Reclaim
<1>7. CASE Tick \/ UNCHANGED vars
  BY <1>2, <1>7 DEF Tick, vars
<1> QED
  BY <1>3, <1>4, <1>5, <1>6, <1>7 DEF Next

LEMMA BooksTyped ==
    ASSUME StoreTypeOK, RunTypes, BookTypes, [Next]_vars
    PROVE  BookTypes'
<1> USE Numbers, AttemptAssumption DEF Attempts
<1>1. /\ holder \in 0 .. MaxAttempts /\ left \in 0 .. TTL /\ (holder = 0) = (left = 0)
      /\ lapsed \in BOOLEAN /\ incidents \in 0 .. MaxIncidents
      /\ total \in [Attempts -> Usage] /\ banked \in Usage
      /\ tasks[Task].usage \in Usage
  BY DEF BookTypes, StoreTypeOK, Row
<1>2. ASSUME NEW a \in Attempts, BookMoves(a)
      PROVE  BookTypes'
  <2>1. CASE Begin(a)
    BY <1>1, <2>1 DEF BookTypes, Begin, usageVars
  <2>2. CASE ReadTotal(a)
    BY <1>1, <2>2 DEF BookTypes, ReadTotal, ReadUsage, leaseVars
  <2>3. CASE WriteTotal(a)
    BY <1>1, <2>3 DEF BookTypes, WriteTotal, Usage, leaseVars
  <2>4. CASE DeleteLease(a)
    BY <1>1, <2>4 DEF BookTypes, DeleteLease, usageVars
  <2>5. CASE Extend(a)
    BY <1>1, <2>5 DEF BookTypes, Extend, OnlyBeat, usageVars
  <2>6. CASE UNCHANGED bookVars /\ Counted
    BY <1>1, <2>6 DEF BookTypes, bookVars, Counted, Incident
  <2> QED
    BY <1>2, <2>1, <2>2, <2>3, <2>4, <2>5, <2>6 DEF BookMoves
<1>3. CASE Tick
  <2>1. /\ left' = IF left > 0 THEN left - 1 ELSE 0
        /\ holder' = IF left' = 0 THEN 0 ELSE holder
        /\ UNCHANGED <<total, banked>>
        /\ (lapsed' = TRUE /\ Incident) \/ UNCHANGED <<lapsed, incidents>>
    BY <1>3 DEF Tick, usageVars
  <2>2. left' \in 0 .. TTL /\ holder' \in 0 .. MaxAttempts /\ (holder' = 0) = (left' = 0)
    BY <1>1, <2>1
  <2>3. lapsed' \in BOOLEAN /\ incidents' \in 0 .. MaxIncidents
    <3>1. CASE lapsed' = TRUE /\ Incident
      BY <1>1, <3>1 DEF Incident
    <3>2. CASE UNCHANGED <<lapsed, incidents>>
      BY <1>1, <3>2
    <3> QED
      BY <2>1, <3>1, <3>2
  <2> QED
    BY <1>1, <2>1, <2>2, <2>3 DEF BookTypes
<1>4. CASE UNCHANGED vars
  BY <1>1, <1>4 DEF BookTypes, vars, leaseVars, usageVars
<1> QED
  BY <1>2, <1>3, <1>4, BooksMove

LEMMA BooksStayRight ==
    ASSUME StoreTypeOK, RunTypes, BookTypes, BooksRight, [Next]_vars
    PROVE  BooksRight'
<1> USE PcFacts, Numbers DEF Attempts
<1>1. DOMAIN pc = Attempts /\ DOMAIN total = Attempts /\ lapsed \in BOOLEAN
  BY DEF RunTypes, BookTypes
<1>2. CASE lapsed
  <2>1. ASSUME NEW a \in Attempts, BookMoves(a)
        PROVE  UNCHANGED lapsed
    BY <2>1 DEF BookMoves, Begin, ReadTotal, WriteTotal, DeleteLease, Extend, OnlyBeat,
                leaseVars, bookVars
  <2>2. Tick \/ UNCHANGED vars => lapsed'
    BY <1>1, <1>2 DEF Tick, vars, leaseVars
  <2> QED
    BY <1>2, <2>1, <2>2, BooksMove DEF BooksRight
<1>3. SUFFICES ASSUME ~lapsed, ~lapsed',
                      \A a \in Attempts : pc[a] \in AtWork => holder = a,
                      \A a \in Attempts : pc[a] = "add" => total[a] = tasks[Task].usage,
                      tasks[Task].usage = banked
               PROVE  /\ \A a \in Attempts : pc'[a] \in AtWork => holder' = a
                      /\ \A a \in Attempts : pc'[a] = "add" => total'[a] = tasks'[Task].usage
                      /\ tasks'[Task].usage = banked'
  BY <1>2 DEF BooksRight
<1>4. ASSUME NEW a \in Attempts, WriteTotal(a)
      PROVE  /\ \A b \in Attempts : pc'[b] \in AtWork => holder' = b
             /\ \A b \in Attempts : pc'[b] = "add" => total'[b] = tasks'[Task].usage
             /\ tasks'[Task].usage = banked'
  <2>1. /\ pc[a] = "add" /\ pc' = [pc EXCEPT ![a] = "finish"]
        /\ banked' = banked \cup {a} /\ holder' = holder
        /\ AddUsage(Task, a, total[a])
    BY <1>4 DEF WriteTotal, Step, At, GoTo, leaseVars
  <2>2. tasks'[Task].usage = total[a] \cup {a}
    BY <2>1, AttemptAssumption DEF AddUsage, StoreTypeOK, Row
  <2>3. \A b \in Attempts : pc'[b] # "add"
    BY <1>1, <1>3, <2>1
  <2> QED
    BY <1>1, <1>3, <2>1, <2>2, <2>3
<1>5. ASSUME \A a \in Attempts : ~WriteTotal(a)
      PROVE  /\ \A b \in Attempts : pc'[b] \in AtWork => holder' = b
             /\ \A b \in Attempts : pc'[b] = "add" => total'[b] = tasks'[Task].usage
             /\ tasks'[Task].usage = banked'
  <2> USE DEF Step, At, GoTo
  <2>1. tasks'[Task].usage = tasks[Task].usage
    BY <1>5, UsageStays DEF UsageKept
  <2> HIDE <1>5
  <2>2. ASSUME NEW a \in Attempts, Begin(a)
        PROVE  /\ \A b \in Attempts : pc'[b] \in AtWork => holder' = b
               /\ UNCHANGED <<total, banked>> /\ pc' = [pc EXCEPT ![a] = "clear"]
    BY <1>1, <1>3, <2>2 DEF Begin, usageVars
  <2>3. ASSUME NEW a \in Attempts, ReadTotal(a)
        PROVE  /\ UNCHANGED <<holder, banked>> /\ pc[a] = "bank"
               /\ pc' = [pc EXCEPT ![a] = "add"]
               /\ total' = [total EXCEPT ![a] = tasks[Task].usage]
    BY <2>3 DEF ReadTotal, ReadUsage, leaseVars
  <2>4. ASSUME NEW a \in Attempts, DeleteLease(a)
        PROVE  /\ \A b \in Attempts : pc'[b] \in AtWork => holder' = b
               /\ UNCHANGED <<total, banked>> /\ pc' = [pc EXCEPT ![a] = "over"]
    <3>1. \A b \in Attempts \ {a} : pc[b] \notin AtWork
      BY <1>3, <2>4 DEF DeleteLease
    <3> QED
      BY <1>1, <1>3, <2>4, <3>1 DEF DeleteLease, usageVars
  <2>5. ASSUME NEW a \in Attempts, Extend(a)
        PROVE  UNCHANGED <<pc, holder, total, banked>>
    BY <2>5 DEF Extend, OnlyBeat, runVars, usageVars
  <2>6. ASSUME NEW a \in Attempts, UNCHANGED bookVars, Walks(a) \/ pc' = pc
        PROVE  /\ \A b \in Attempts : pc'[b] \in AtWork => holder' = b
               /\ UNCHANGED <<total, banked>>
               /\ \A b \in Attempts : pc'[b] = "add" => pc[b] = "add"
    BY <1>1, <1>3, <2>6 DEF bookVars, Walks
  <2>7. ASSUME Tick
        PROVE  /\ \A b \in Attempts : pc'[b] \in AtWork => holder' = b
               /\ UNCHANGED <<pc, total, banked>>
    <3>1. UNCHANGED <<pc, total, banked>>
      BY <2>7 DEF Tick, runVars, usageVars
    <3>2. ASSUME NEW b \in Attempts, pc[b] \in AtWork
          PROVE  holder' = b
      <4>1. holder = b /\ holder # 0
        BY <1>3, <3>2
      <4>2. left' # 0
        BY <1>3, <2>7, <3>2, <4>1 DEF Tick
      <4> QED
        BY <2>7, <4>1, <4>2 DEF Tick
    <3> QED
      BY <3>1, <3>2
  <2>8. ASSUME UNCHANGED vars
        PROVE  UNCHANGED <<pc, holder, total, banked>>
    BY <2>8 DEF vars, runVars, leaseVars, usageVars
  <2>9. ASSUME NEW a \in Attempts, BookMoves(a), ~WriteTotal(a)
        PROVE  /\ \A b \in Attempts : pc'[b] \in AtWork => holder' = b
               /\ \A b \in Attempts : pc'[b] = "add" => total'[b] = tasks[Task].usage
               /\ banked' = banked
    BY <1>1, <1>3, <2>2, <2>3, <2>4, <2>5, <2>6, <2>9 DEF BookMoves
  <2> QED
    BY <1>3, <1>5, <2>1, <2>7, <2>8, <2>9, BooksMove
<1> QED
  BY <1>4, <1>5

-----------------------------------------------------------------------------
AttemptInv ==
    /\ StoreTypeOK /\ RunningIsClaimed
    /\ RunTypes /\ ThreadTypes /\ BoxTypes /\ BookTypes

LEMMA AttemptInvInit == Init => AttemptInv
<1> SUFFICES ASSUME Init
             PROVE  AttemptInv
  OBVIOUS
<1> USE Numbers, PcFacts, AttemptAssumption DEF Init, Each
<1>1. StoreTypeOK /\ RunningIsClaimed
  BY DEF StoreTypeOK, Row, NewRow, Usage, RunningIsClaimed, QUEUED, RUNNING
<1>2. RunTypes
  BY DEF RunTypes, Settling
<1>3. ThreadTypes /\ BoxTypes
  BY DEF ThreadTypes, BoxTypes
<1>4. BookTypes
  <2>1. lapsed \in BOOLEAN
    BY Zenon
  <2>2. (holder = 0) = (left = 0) /\ holder \in 0 .. MaxAttempts /\ left \in 0 .. TTL
    OBVIOUS
  <2>3. total \in [Attempts -> Usage] /\ banked \in Usage /\ incidents \in 0 .. MaxIncidents
    BY DEF Usage
  <2> QED
    BY <2>1, <2>2, <2>3, Zenon DEF BookTypes
<1> QED
  BY <1>1, <1>2, <1>3, <1>4 DEF AttemptInv

LEMMA AttemptInvStep == AttemptInv /\ [Next]_vars => AttemptInv' /\ [StoreNext]_storeVars
<1> SUFFICES ASSUME AttemptInv, [Next]_vars
             PROVE  AttemptInv' /\ [StoreNext]_storeVars
  OBVIOUS
<1>1. [StoreNext]_storeVars
  BY StoreUsed DEF AttemptInv, BookTypes
<1>2. StoreTypeOK' /\ RunningIsClaimed'
  BY <1>1, StoreTypeStep, RunningStaysClaimed DEF AttemptInv
<1>3. RunTypes' /\ ThreadTypes' /\ BoxTypes'
  BY RunTyped, ThreadTyped, BoxTyped DEF AttemptInv
<1>4. BookTypes'
  BY BooksTyped DEF AttemptInv
<1> QED
  BY <1>1, <1>2, <1>3, <1>4 DEF AttemptInv

(* The types of run_attempt, of its threads and of the lease; among them     *)
(* that a lease key exists exactly while its TTL is positive, and that no    *)
(* renewal is later than it may be.                                          *)
THEOREM AttemptTypesHold == Spec => []AttemptTypeOK
<1>1. AttemptInv => AttemptTypeOK
  BY DEF AttemptInv, RunTypes, ThreadTypes, BoxTypes, BookTypes, AttemptTypeOK
<1> QED
  BY <1>1, AttemptInvInit, AttemptInvStep, PTL DEF Spec

(* core/store.py:199-207: add_usage reads outside its transaction, and the   *)
(* tokens of all attempts add up all the same, as long as no lease ran out   *)
(* under an attempt at work.                                                 *)
THEOREM UsageIsSummed == Spec => []UsageAddsUp
<1>1. Init => BooksRight
  BY PcFacts, AttemptAssumption DEF Init, Each, NewRow, BooksRight
<1>2. AttemptInv /\ BooksRight /\ [Next]_vars => BooksRight'
  BY BooksStayRight DEF AttemptInv
<1>3. BooksRight => UsageAddsUp
  BY DEF BooksRight, UsageAddsUp
<1> QED
  BY <1>1, <1>2, <1>3, AttemptInvInit, AttemptInvStep, PTL DEF Spec

(* Whatever the threads, the faults and the leases do, an attempt asks the   *)
(* store only for what TaskStore says it does, and gives an attempt back     *)
(* only while another one is left.                                           *)
THEOREM AttemptUsesStore == Spec => [][StoreNext]_storeVars
BY AttemptInvInit, AttemptInvStep, PTL DEF Spec

(* So the books balance at every moment of every thread: a task has ended if *)
(* and only if one terminal event says so, with its row's verdict (worker/   *)
(* attempt.py:87-90, and reconcile meanwhile).                               *)
THEOREM AttemptKeepsLedger == Spec => []LedgerBalanced
<1>1. Init => LedgerBalanced
  BY DEF Init, LedgerBalanced, Balanced, TerminalEvents, NewRow,
         TERMINAL, QUEUED, SUCCEEDED, FAILED, CANCELLED
<1>2. AttemptInv /\ LedgerBalanced /\ [StoreNext]_storeVars => LedgerBalanced'
  BY LedgerStep DEF AttemptInv
<1> QED
  BY <1>1, <1>2, AttemptInvInit, AttemptInvStep, AttemptUsesStore, PTL DEF Spec

(* And no thread of an attempt that was superseded, cancelled or timed out   *)
(* changes what was decided: all it can still write of an ended row is the   *)
(* usage it adds (worker/attempt.py:86).                                     *)
THEOREM AttemptEndsOnce == Spec => VerdictIsFinal
<1>1. AttemptInv /\ [StoreNext]_storeVars
        => \A t \in TaskId : tasks[t].status \in TERMINAL =>
              tasks'[t] = [tasks[t] EXCEPT !.usage = tasks'[t].usage]
  BY FinalStep DEF AttemptInv
<1> QED
  BY <1>1, AttemptInvInit, AttemptInvStep, AttemptUsesStore, PTL DEF Spec, VerdictIsFinal
=============================================================================

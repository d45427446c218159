--------------------------- MODULE TaskLifecycle ---------------------------
(* What the platform promises its users about a task, with no word on       *)
(* queues, leases, workers or tables: a submitted task waits, is tried at    *)
(* most MaxAttempts times, and ends once, with one verdict that is           *)
(* announced in the very step that ends it.  docs/ARCHITECTURE.md section 2  *)
(* draws this automaton; TaskStore and Platform are shown to implement it.   *)
EXTENDS Naturals

CONSTANTS TaskId, MaxAttempts

VARIABLES
    phase,      \* where the task stands
    tries,      \* how many attempts it has been given
    announced   \* the verdicts its subscribers have been told

lifecycleVars == <<phase, tries, announced>>

Verdict == {"succeeded", "failed", "cancelled"}

LifecycleTypeOK ==
    /\ phase \in [TaskId -> {"absent", "waiting", "working", "ended"}]
    /\ tries \in [TaskId -> 0 .. MaxAttempts]
    /\ announced \in [TaskId -> SUBSET Verdict]

Init ==
    /\ phase = [t \in TaskId |-> "absent"]
    /\ tries = [t \in TaskId |-> 0]
    /\ announced = [t \in TaskId |-> {}]

Submit(t) ==
    /\ phase[t] = "absent"
    /\ phase' = [phase EXCEPT ![t] = "waiting"]
    /\ UNCHANGED <<tries, announced>>

Start(t) ==
    /\ phase[t] = "waiting"
    /\ tries[t] < MaxAttempts
    /\ phase' = [phase EXCEPT ![t] = "working"]
    /\ tries' = [tries EXCEPT ![t] = @ + 1]
    /\ UNCHANGED announced

(* A try is given up without a verdict only while another one is left.       *)
GiveBack(t) ==
    /\ phase[t] = "working"
    /\ tries[t] < MaxAttempts
    /\ phase' = [phase EXCEPT ![t] = "waiting"]
    /\ UNCHANGED <<tries, announced>>

(* A waiting task can only be cancelled; a try may end in any verdict.       *)
End(t, v) ==
    /\ \/ phase[t] = "working"
       \/ phase[t] = "waiting" /\ v = "cancelled"
    /\ phase' = [phase EXCEPT ![t] = "ended"]
    /\ announced' = [announced EXCEPT ![t] = {v}]
    /\ UNCHANGED tries

Next ==
    \E t \in TaskId :
        \/ Submit(t)
        \/ Start(t)
        \/ GiveBack(t)
        \/ \E v \in Verdict : End(t, v)

Spec == Init /\ [][Next]_lifecycleVars
=============================================================================

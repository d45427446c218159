---------------------------- MODULE MCPlatform ----------------------------
(* The platform for TLC.  Safety runs take the symmetry; liveness runs do not. *)
EXTENDS Platform, TLC

S == INSTANCE SequencesExt

Symmetry == Permutations(TaskId) \cup Permutations(WorkerId)
                \cup Permutations(RequestId)

(* The submissions are over, and no worker has looked yet: every task is in   *)
(* the table, and in the queue unless the API died before it was pushed.     *)
LoadedInit ==
    /\ tasks = [t \in TaskId |-> NewRow(QUEUED, NoKey)]
    /\ events = [t \in TaskId |-> <<>>]
    /\ \E T \in SUBSET TaskId : queue \in S!SetToSeqs(T)
    /\ lease = [t \in TaskId |-> NoWorker]
    /\ SandboxInit /\ WorkerInit /\ ApiInit

LoadedSpec == LoadedInit /\ [][Next]_vars
LoadedFairSpec == LoadedSpec /\ Fairness
=============================================================================

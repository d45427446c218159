---------------------------- MODULE MCTaskStore ----------------------------
(* The store on its own, with callers that may hold stale attempt numbers.   *)
EXTENDS TaskStore

CONSTANT MaxEvents   \* bound on the rows of table events, per task

(* A task keeps room for its terminal event, so that the bound never stands  *)
(* in the way of a verdict.                                                  *)
BoundedNext ==
    /\ StoreNext
    /\ \A t \in TaskId : Len(events'[t]) <= MaxEvents
                         \/ events'[t][Len(events'[t])].type \in TerminalType

BoundedSpec == StoreInit /\ [][BoundedNext]_storeVars
=============================================================================

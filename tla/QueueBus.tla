------------------------------ MODULE QueueBus ------------------------------
(* core/queuebus.py: the coordination state kept in Redis, all of which can  *)
(* be rebuilt from TaskStore.  A Redis command is atomic; release_lease is   *)
(* two of them, GET and DEL, and the worker takes them as two steps.         *)
(*                                                                           *)
(* A lease is written with a token, uuid4 per acquisition, and deleted by    *)
(* whoever reads that token back.  The token is modelled by the worker that  *)
(* drew it: a worker runs one attempt at a time and, from the SET NX to the  *)
(* release, draws no other token, so a lease it reads back under its own     *)
(* name is the one it wrote.  Pubsub carries no state and is left out here.  *)
EXTENDS Models, Sequences, Functions

VARIABLES
    queue,   \* cap:queue, the next id to be popped first
    lease    \* cap:lease:<task>, NoWorker when the key does not exist

busVars == <<queue, lease>>

BusTypeOK ==
    /\ queue \in Seq(TaskId)
    /\ lease \in [TaskId -> WorkerId \cup {NoWorker}]

BusInit ==
    /\ queue = <<>>
    /\ lease = [t \in TaskId |-> NoWorker]

QueuedIds == Range(queue)

(* LPUSH at one end, BRPOP from the other. *)
Enqueue(t) ==
    /\ queue' = Append(queue, t)
    /\ UNCHANGED lease

Dequeue(t) ==
    /\ queue # <<>>
    /\ t = Head(queue)
    /\ queue' = Tail(queue)
    /\ UNCHANGED lease

Leased(t) == lease[t] # NoWorker

ActiveLeases == {t \in TaskId : Leased(t)}

(* SET NX *)
AcquireLease(t, w) ==
    /\ ~Leased(t)
    /\ lease' = [lease EXCEPT ![t] = w]
    /\ UNCHANGED queue

(* DEL, or the TTL running out: whoever's lease it is by then is gone.       *)
DeleteLease(t) ==
    /\ lease' = [lease EXCEPT ![t] = NoWorker]
    /\ UNCHANGED queue

(* Redis restarts empty. *)
Wipe ==
    /\ queue' = <<>>
    /\ lease' = [t \in TaskId |-> NoWorker]
=============================================================================

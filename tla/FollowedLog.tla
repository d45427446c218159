---------------------------- MODULE FollowedLog ----------------------------
(* What a client that follows a task is promised, with no word on pubsub,    *)
(* connections or positions: it is shown events of the log in their order,   *)
(* none twice, up to the event that ends the task, and leaves out only what  *)
(* is missed at that moment.  That is less than every event: which ones may  *)
(* be missed is for EventStream to say, which is shown to implement this.    *)
EXTENDS Naturals, Sequences

CONSTANT StartId   \* the ids a client may ask to start after

VARIABLES
    log,         \* the kinds of the events, the id of an event is its place
    missed,      \* ids the connection has missed
    start,       \* the id this client starts after
    shown        \* the ids it has been shown

followedVars == <<log, missed, start, shown>>

Kind == {"progress", "end"}

Ended(ids) == \E i \in DOMAIN ids : log[ids[i]] = "end"

Position == IF shown = <<>> THEN start ELSE shown[Len(shown)]

Init ==
    /\ log = <<>>
    /\ missed = {}
    /\ start \in StartId
    /\ shown = <<>>

Write(k) ==
    /\ log' = Append(log, k)
    /\ UNCHANGED <<missed, start, shown>>

Miss(ids) ==
    /\ ids \subseteq DOMAIN log
    /\ missed' = ids
    /\ UNCHANGED <<log, start, shown>>

Show(i) ==
    /\ ~Ended(shown)
    /\ i > Position
    /\ Position + 1 .. i - 1 \subseteq missed
    /\ shown' = Append(shown, i)
    /\ UNCHANGED <<log, missed, start>>

Next ==
    \/ \E k \in Kind : Write(k)
    \/ \E ids \in SUBSET DOMAIN log : Miss(ids)
    \/ \E i \in DOMAIN log : Show(i)

Spec == Init /\ [][Next]_followedVars
=============================================================================

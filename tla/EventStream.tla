---------------------------- MODULE EventStream ----------------------------
(* api/main.py (_stream), the pubsub of core/queuebus.py and cli/main.py     *)
(* (follow_events): how the events of one task reach one client that follows *)
(* it.  Clients do not meet: a stream is a generator with a Redis connection *)
(* of its own.                                                               *)
(*                                                                           *)
(* The id of an event is its place in the log of its task: ids are drawn     *)
(* from one AUTOINCREMENT column inside the INSERT's transaction, and SQLite *)
(* commits one writer at a time, so ids become visible in their order.       *)
(* Keepalive comments change nothing on either side and are left out.        *)
EXTENDS Naturals, Sequences, FiniteSets, Functions

CONSTANTS
    Writer,          \* who writes events: the workers, and the API on cancel
    StartId,         \* the ids a client may ask to start after
    MaxReconnects,   \* max_reconnects, 30 in the program
    MaxEvents,       \* bound: events of the task
    MaxForgotten     \* bound: events inserted and never published

ASSUME StreamAssumption ==
    StartId \subseteq Nat /\ MaxReconnects \in Nat /\ MaxEvents \in Nat
        /\ MaxForgotten \in Nat

VARIABLES
    log,          \* table events: the kind of each event of the task
    pending,      \* the id a writer has inserted and not published yet, or 0
    forgotten,    \* ids whose publish never took place
    overtaken,    \* of the ids written after the last history was read: those
                  \* that were unpublished when a later one was published
    unheard,      \* and those published before Redis had taken in the SUBSCRIBE
    stream,       \* where the generator stands; "off" when there is none
    heard,        \* Redis has taken in its SUBSCRIBE
    seen, upto, done,   \* its locals: last id sent, end of the history, done
    inbox,        \* what its subscription has received
    wire,         \* the frames between the API and the client
    client,       \* where follow_events stands
    start, last,  \* from_id and last_id
    shown,        \* the ids it yielded
    reconnects

writerVars == <<log, pending, forgotten, overtaken, unheard>>
locals == <<seen, upto, done, inbox>>
streamVars == <<stream, heard, locals>>
clientVars == <<client, start, last, shown, reconnects>>
vars == <<writerVars, streamVars, wire, clientVars>>

Id == 1 .. MaxEvents

StreamTypeOK ==
    /\ log \in Seq({"progress", "end"}) /\ Len(log) <= MaxEvents
    /\ pending \in [Writer -> 0 .. Len(log)]
    /\ forgotten \subseteq DOMAIN log
    /\ overtaken \cup unheard \subseteq DOMAIN log
    /\ heard \in BOOLEAN
    /\ stream \in {"off", "subscribe", "history", "replay", "live"}
    /\ seen \in Nat /\ upto \in 0 .. Len(log) /\ done \in BOOLEAN
    /\ inbox \in Seq(DOMAIN log) /\ wire \in Seq(DOMAIN log)
    /\ client \in {"connect", "open", "ended", "gaveup", "failed"}
    /\ start \in StartId /\ last \in Nat /\ shown \in Seq(DOMAIN log)
    /\ reconnects \in 0 .. MaxReconnects + 1

Init ==
    /\ log = <<>> /\ pending = [w \in Writer |-> 0]
    /\ forgotten = {} /\ overtaken = {} /\ unheard = {}
    /\ stream = "off" /\ heard = FALSE /\ seen = 0 /\ upto = 0 /\ done = FALSE
    /\ inbox = <<>> /\ wire = <<>>
    /\ client = "connect" /\ start \in StartId /\ last = start
    /\ shown = <<>> /\ reconnects = 0

IsEnd(i) == log[i] = "end"
Ends == {i \in DOMAIN log : IsEnd(i)}

-----------------------------------------------------------------------------
(* Writers: insert, then publish *)

(* The store writes one terminal event at most (TaskStore, LedgerBalanced);  *)
(* progress may follow it, from a worker that lost its lease.                *)
InsertEvent(w, k) ==
    /\ pending[w] = 0 /\ Len(log) < MaxEvents
    /\ k = "end" => Ends = {}
    /\ log' = Append(log, k)
    /\ pending' = [pending EXCEPT ![w] = Len(log) + 1]
    /\ UNCHANGED <<forgotten, overtaken, unheard, streamVars, wire, clientVars>>

Unpublished == forgotten \cup (Range(pending) \ {0})

(* The history is read, and what is written now has to come by pubsub.       *)
Relying == stream \in {"replay", "live"}

Publish(w) ==
    /\ pending[w] # 0
    /\ inbox' = IF heard THEN Append(inbox, pending[w]) ELSE inbox
    /\ unheard' = IF Relying /\ ~heard /\ pending[w] > upto
                  THEN unheard \cup {pending[w]} ELSE unheard
    /\ overtaken' = IF Relying
                    THEN overtaken \cup {i \in Unpublished : upto < i /\ i < pending[w]}
                    ELSE overtaken
    /\ pending' = [pending EXCEPT ![w] = 0]
    /\ UNCHANGED <<log, forgotten, stream, heard, seen, upto, done, wire, clientVars>>

(* The writer dies between the two calls, or its publish raises.             *)
Forget(w) ==
    /\ pending[w] # 0 /\ Cardinality(forgotten) < MaxForgotten
    /\ forgotten' = forgotten \cup {pending[w]}
    /\ pending' = [pending EXCEPT ![w] = 0]
    /\ UNCHANGED <<log, overtaken, unheard, streamVars, wire, clientVars>>

-----------------------------------------------------------------------------
(* _stream *)

(* The finally clause, and the end of what the generator knew.               *)
CloseStream ==
    /\ stream' = "off" /\ heard' = FALSE
    /\ seen' = 0 /\ upto' = 0 /\ done' = FALSE /\ inbox' = <<>>

(* subscribe() returns when the command is sent: Redis answers it later, to  *)
(* get_message, which is told to ignore the answer (api/main.py:98).         *)
Subscribe ==
    /\ stream = "subscribe" /\ stream' = "history"
    /\ UNCHANGED <<writerVars, heard, locals, wire, clientVars>>

TakeSubscription ==
    /\ stream \in {"history", "replay", "live"} /\ ~heard
    /\ heard' = TRUE
    /\ UNCHANGED <<writerVars, stream, locals, wire, clientVars>>

ReadHistory ==
    /\ stream = "history" /\ stream' = "replay"
    /\ upto' = Len(log)
    /\ overtaken' = {} /\ unheard' = {}
    /\ UNCHANGED <<log, pending, forgotten, heard, seen, done, inbox, wire, clientVars>>

Send(i) == wire' = Append(wire, i)

SendHistory ==
    /\ stream = "replay" /\ seen < upto
    /\ Send(seen + 1) /\ seen' = seen + 1
    /\ done' = (done \/ IsEnd(seen + 1))
    /\ UNCHANGED <<writerVars, stream, heard, upto, inbox, clientVars>>

(* Mutant: what arrived while the history was sent is thrown away unread.    *)
EndHistoryDropsOverlap ==
    /\ stream = "replay" /\ seen >= upto /\ ~done
    /\ stream' = "live" /\ inbox' = <<>>
    /\ UNCHANGED <<writerVars, heard, seen, upto, done, wire, clientVars>>

EndHistory ==
    /\ stream = "replay" /\ seen >= upto
    /\ IF done THEN CloseStream ELSE stream' = "live" /\ UNCHANGED <<heard, locals>>
    /\ UNCHANGED <<writerVars, wire, clientVars>>

DropOld ==
    /\ stream = "live" /\ inbox # <<>> /\ Head(inbox) <= seen
    /\ inbox' = Tail(inbox)
    /\ UNCHANGED <<writerVars, stream, heard, seen, upto, done, wire, clientVars>>

Relay ==
    /\ stream = "live" /\ inbox # <<>> /\ Head(inbox) > seen
    /\ Send(Head(inbox))
    /\ IF IsEnd(Head(inbox))
       THEN CloseStream
       ELSE seen' = Head(inbox) /\ inbox' = Tail(inbox)
                /\ UNCHANGED <<stream, heard, upto, done>>
    /\ UNCHANGED <<writerVars, clientVars>>

-----------------------------------------------------------------------------
(* follow_events *)

ConnectAfter(i) ==
    /\ client = "connect" /\ client' = "open"
    /\ stream' = "subscribe" /\ seen' = i
    /\ UNCHANGED <<writerVars, heard, upto, done, inbox, wire, start, last, shown, reconnects>>

(* Mutants: every request names from_id; a client joins at the newest event. *)
ConnectFromStart == ConnectAfter(start)
ConnectAtNewest == ConnectAfter(Len(log))

(* GET with Last-Event-ID. *)
Connect == ConnectAfter(last)

Receive ==
    /\ client = "open" /\ wire # <<>>
    /\ last' = Head(wire)
    /\ shown' = Append(shown, Head(wire))
    /\ IF IsEnd(Head(wire))
       THEN client' = "ended" /\ wire' = <<>> /\ CloseStream
       ELSE wire' = Tail(wire) /\ UNCHANGED <<client, streamVars>>
    /\ UNCHANGED <<writerVars, start, reconnects>>

(* Mutant: no limit. *)
CountReconnectForEver ==
    /\ reconnects' = reconnects + 1 /\ client' = "connect"
    /\ UNCHANGED <<writerVars, streamVars, wire, start, last, shown>>

(* The counter is never set back. *)
CountReconnect ==
    /\ reconnects' = reconnects + 1
    /\ client' = IF reconnects' > MaxReconnects THEN "gaveup" ELSE "connect"
    /\ UNCHANGED <<writerVars, streamVars, wire, start, last, shown>>

(* The response is over, and the terminal event was not in it.               *)
Reconnect == client = "open" /\ stream = "off" /\ wire = <<>> /\ CountReconnect

(* The API is not there: a TransportError. *)
Refused == client = "connect" /\ CountReconnect

(* raise_for_status: an HTTPStatusError is no TransportError, and nobody     *)
(* catches it.                                                               *)
Rejected ==
    /\ client = "connect" /\ client' = "failed"
    /\ UNCHANGED <<writerVars, streamVars, wire, start, last, shown, reconnects>>

(* The connection breaks, or the API or its Redis connection goes away: what *)
(* is on the wire arrives up to some frame.                                  *)
Break ==
    /\ client = "open" /\ (stream # "off" \/ wire # <<>>)
    /\ CloseStream
    /\ \E n \in 0 .. Len(wire) : wire' = SubSeq(wire, 1, n)
    /\ UNCHANGED <<writerVars, clientVars>>

-----------------------------------------------------------------------------
Write(w) == (\E k \in {"progress", "end"} : InsertEvent(w, k)) \/ Publish(w) \/ Forget(w)

Server ==
    \/ Subscribe \/ TakeSubscription \/ ReadHistory \/ SendHistory \/ EndHistory \/ DropOld \/ Relay

Client == Connect \/ Receive \/ Reconnect

Next == (\E w \in Writer : Write(w)) \/ Server \/ Client \/ Refused \/ Rejected \/ Break

Spec == Init /\ [][Next]_vars

(* The API serves its generators, the client reads what arrives, and a       *)
(* writer that has inserted an event publishes it or dies.  No event has to  *)
(* be written, and no connection to hold.                                    *)
Fairness ==
    /\ WF_vars(Server) /\ WF_vars(TakeSubscription)
    /\ WF_vars(Client)
    /\ \A w \in Writer : WF_vars(Publish(w) \/ Forget(w))

FairSpec == Spec /\ Fairness

-----------------------------------------------------------------------------
(* Properties *)

Missed == overtaken \cup unheard

Followed == INSTANCE FollowedLog WITH missed <- Missed

(* However often the connection breaks: in order, none twice, nothing after  *)
(* the end.  Events are lost nevertheless, but none that was in the history  *)
(* of a connection: only one that a later event overtook, or that was        *)
(* announced before Redis listened, after this connection read its history.  *)
ImplementsFollowedLog == Followed!Spec

(* The hand-over: once the history is read, every event the stream has not   *)
(* sent is in the history, waits in the subscription or is still to be       *)
(* published, but for those announced before Redis took in the SUBSCRIBE,    *)
(* whose answer _stream does not wait for (api/main.py:83-85).               *)
NothingStranded ==
    Relying =>
        \A i \in DOMAIN log :
            \/ i <= seen \/ (stream = "replay" /\ i <= upto)
            \/ i \in Range(inbox) \cup Unpublished \cup unheard

(* The stream has no other way to learn of i than the announcement it missed *)
(* or that never came; or the client has been shown a later event.           *)
Gone(i) ==
    \/ stream = "live" /\ i > upto /\ i \in Missed \cup forgotten
    \/ i <= last

(* A client that follows a task to its end gets there, runs out of           *)
(* reconnects or is told off with an error status, unless the open           *)
(* connection cannot learn of the end or the client is past it: a lost end   *)
(* is found again in the history of the next connection.                     *)
FollowerEnds ==
    \A i \in Id :
        i \in Ends /\ i > start ~> client \in {"ended", "gaveup", "failed"} \/ Gone(i)

-----------------------------------------------------------------------------
(* What the comments and documents say and the program does not do *)

(* api/main.py:83-84: subscribing before reading history, so that the        *)
(* hand-over cannot drop events.                                             *)
HandOverDropsNothing ==
    Relying =>
        \A i \in DOMAIN log :
            \/ i <= seen \/ (stream = "replay" /\ i <= upto)
            \/ i \in Range(inbox) \cup Unpublished

(* cli/main.py:27-29: detach and reattach without event loss.                *)
NoEventLost == \A j \in DOMAIN shown : shown[j] = start + j

(* docs/ARCHITECTURE.md:65: pubsub bears the latency only, the table keeps   *)
(* the events, so that an announcement that is never made costs time.        *)
LostPublishOnlyDelays ==
    \A i \in Id :
        i \in Ends /\ i > start ~> client \in {"ended", "gaveup", "failed"} \/ i \in Missed
=============================================================================

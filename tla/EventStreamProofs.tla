-------------------------- MODULE EventStreamProofs --------------------------
(* Proofs about api/main.py (_stream) and cli/main.py (follow_events), for   *)
(* any number of writers, events, reconnects and lost announcements: at the  *)
(* hand-over from history to live only what Redis did not hear is left       *)
(* behind, and what a client sees is what FollowedLog promises.              *)
EXTENDS EventStream, SequenceTheorems, TLAPS

(* A client without a connection has no generator and nothing on the wire;   *)
(* frames come once the history is read, and live ones after all of it.      *)
Connection ==
    /\ stream \in {"subscribe", "history"} => wire = <<>>
    /\ stream = "live" => seen >= upto
    /\ client # "open" => stream = "off" /\ wire = <<>>
    /\ client \in {"connect", "open"} => reconnects <= MaxReconnects

TypeInv == StreamTypeOK /\ Connection

(* An event is announced once, in its turn or as overtaken.                  *)
Announcements ==
    /\ \A v, w \in Writer : pending[v] = pending[w] /\ pending[v] # 0 => v = w
    /\ \A w \in Writer : pending[w] \notin forgotten
    /\ \A j \in DOMAIN inbox : inbox[j] \notin Unpublished
    /\ Relying =>
        /\ \A j \in DOMAIN inbox, i \in Unpublished :
              upto < i /\ i < inbox[j] => i \in overtaken
        /\ \A j, k \in DOMAIN inbox :
              j < k /\ upto < inbox[k] /\ inbox[k] < inbox[j] => inbox[k] \in overtaken

Before(j) == IF j = 1 THEN last ELSE wire[j - 1]

(* From where the client stands to where the generator stands: upwards, and  *)
(* what is skipped was missed.                                               *)
Trail ==
    /\ \A j \in DOMAIN wire :
          /\ wire[j] > Before(j)
          /\ \A i \in DOMAIN log : Before(j) < i /\ i < wire[j] => i \in Missed
    /\ stream # "off" => seen = IF wire = <<>> THEN last ELSE wire[Len(wire)]
    /\ last = IF shown = <<>> THEN start ELSE shown[Len(shown)]
    /\ client # "ended" => \A j \in DOMAIN shown : log[shown[j]] # "end"

StreamInv == TypeInv /\ Announcements /\ NothingStranded /\ Trail

-----------------------------------------------------------------------------
(* Types *)

LEMMA TypeInit == Init => TypeInv
<1> SUFFICES ASSUME Init
             PROVE  TypeInv
  OBVIOUS
<1>1. /\ log \in Seq({"progress", "end"}) /\ Len(log) = 0
      /\ inbox \in Seq(DOMAIN log) /\ wire \in Seq(DOMAIN log) /\ shown \in Seq(DOMAIN log)
  BY EmptySeq DEF Init
<1>2. heard \in BOOLEAN /\ done \in BOOLEAN
  BY DEF Init
<1> QED
  BY <1>1, <1>2, StreamAssumption DEF Init, TypeInv, StreamTypeOK, Connection

LEMMA Closing ==
    ASSUME StreamTypeOK, CloseStream, log' = log
    PROVE  /\ stream' = "off" /\ heard' \in BOOLEAN
           /\ seen' \in Nat /\ upto' \in 0 .. Len(log') /\ done' \in BOOLEAN
           /\ inbox' \in Seq(DOMAIN log')
<1>1. stream' = "off" /\ seen' \in Nat /\ upto' \in 0 .. Len(log')
  BY DEF CloseStream, StreamTypeOK
<1>2. heard' \in BOOLEAN /\ done' \in BOOLEAN
  BY DEF CloseStream
<1>3. inbox' \in Seq(DOMAIN log')
  BY EmptySeq DEF CloseStream
<1> QED
  BY <1>1, <1>2, <1>3

LEMMA TypeStep == TypeInv /\ [Next]_vars => TypeInv'
<1> SUFFICES ASSUME TypeInv, [Next]_vars
             PROVE  TypeInv'
  OBVIOUS
<1>0. StreamTypeOK /\ Connection /\ MaxReconnects \in Nat /\ MaxEvents \in Nat
  BY StreamAssumption DEF TypeInv
<1>20. <<>> \in Seq(DOMAIN log)
  BY EmptySeq
<1> USE DEF StreamTypeOK, Connection, TypeInv, streamVars, writerVars, locals, clientVars
<1>1. ASSUME NEW w \in Writer, NEW k \in {"progress", "end"}, InsertEvent(w, k)
      PROVE  TypeInv'
  <2>1. log' \in Seq({"progress", "end"}) /\ Len(log') = Len(log) + 1 /\ Len(log') <= MaxEvents
    BY <1>0, <1>1, AppendProperties DEF InsertEvent
  <2>2. DOMAIN log \subseteq DOMAIN log'
    <3>1. DOMAIN log = 1 .. Len(log) /\ DOMAIN log' = 1 .. Len(log') /\ Len(log) \in Nat
      BY <1>0, <2>1, LenProperties
    <3> QED
      BY <2>1, <3>1
  <2>3. inbox \in Seq(DOMAIN log') /\ wire \in Seq(DOMAIN log') /\ shown \in Seq(DOMAIN log')
    BY <1>0, <2>2, SeqMonotonic
  <2>4. pending' \in [Writer -> 0 .. Len(log')]
    BY <1>0, <1>1, <2>1 DEF InsertEvent
  <2> QED
    BY <1>0, <1>1, <2>1, <2>2, <2>3, <2>4 DEF InsertEvent
<1>2. ASSUME NEW w \in Writer, Publish(w)
      PROVE  TypeInv'
  <2>1. pending[w] \in DOMAIN log /\ pending[w] \in Nat
    BY <1>0, <1>2 DEF Publish
  <2>2. Append(inbox, pending[w]) \in Seq(DOMAIN log)
    BY <1>0, <2>1, AppendProperties
  <2>3. Unpublished \subseteq DOMAIN log
    BY <1>0 DEF Unpublished, Range
  <2>4. overtaken' \cup unheard' \subseteq DOMAIN log
    BY <1>0, <1>2, <2>1, <2>3 DEF Publish
  <2>5. pending' \in [Writer -> 0 .. Len(log)]
    BY <1>0, <1>2 DEF Publish
  <2>6. inbox' \in Seq(DOMAIN log)
    <3>1. heard => inbox' = Append(inbox, pending[w])
      BY <1>2 DEF Publish
    <3>2. ~heard => inbox' = inbox
      BY <1>2 DEF Publish
    <3> QED
      BY <1>0, <2>2, <3>1, <3>2
  <2> QED
    BY <1>0, <1>2, <2>4, <2>5, <2>6 DEF Publish
<1>3. ASSUME NEW w \in Writer, Forget(w)
      PROVE  TypeInv'
  BY <1>0, <1>3 DEF Forget
<1>4. CASE Subscribe \/ TakeSubscription
  BY <1>0, <1>4 DEF Subscribe, TakeSubscription
<1>5. CASE ReadHistory
  <2>1. Len(log) \in Nat
    BY <1>0, LenProperties
  <2> QED
    BY <1>0, <1>5, <2>1 DEF ReadHistory
<1>6. CASE SendHistory
  BY <1>0, <1>6 DEF SendHistory, Send
<1>7. CASE EndHistory
  <2>1. CASE done
    BY <1>0, <1>7, <2>1, Closing DEF EndHistory
  <2>2. CASE ~done
    BY <1>0, <1>7, <2>2 DEF EndHistory
  <2> QED
    BY <2>1, <2>2
<1>8. CASE DropOld
  BY <1>0, <1>8 DEF DropOld
<1>9. CASE Relay
  <2>1. Head(inbox) \in DOMAIN log /\ Tail(inbox) \in Seq(DOMAIN log) /\ Head(inbox) \in Nat
    BY <1>0, <1>9, HeadTailProperties DEF Relay
  <2>2. wire' \in Seq(DOMAIN log)
    BY <1>0, <1>9, <2>1, AppendProperties DEF Relay, Send
  <2>3. /\ stream = "live" /\ upto <= seen /\ Head(inbox) > seen
        /\ UNCHANGED <<log, pending, forgotten, overtaken, unheard>>
        /\ UNCHANGED <<client, start, last, shown, reconnects>>
        /\ client = "open"
    BY <1>0, <1>9 DEF Relay
  <2>4. CASE IsEnd(Head(inbox))
    <3>1. CloseStream
      BY <1>9, <2>4 DEF Relay
    <3> QED
      BY <1>0, <2>2, <2>3, <3>1, Closing
  <2>5. CASE ~IsEnd(Head(inbox))
    <3>1. seen' = Head(inbox) /\ inbox' = Tail(inbox) /\ UNCHANGED <<stream, heard, upto, done>>
      BY <1>9, <2>5 DEF Relay
    <3>2. upto' <= seen'
      BY <1>0, <2>1, <2>3, <3>1
    <3> QED
      BY <1>0, <2>1, <2>2, <2>3, <3>1, <3>2
  <2> QED
    BY <2>4, <2>5
<1>10. CASE Connect
  BY <1>0, <1>10 DEF Connect, ConnectAfter
<1>11. CASE Receive
  <2>1. Head(wire) \in DOMAIN log /\ Tail(wire) \in Seq(DOMAIN log) /\ Head(wire) \in Nat
    BY <1>0, <1>11, HeadTailProperties DEF Receive
  <2>2. shown' \in Seq(DOMAIN log)
    BY <1>0, <1>11, <2>1, AppendProperties DEF Receive
  <2> QED
    BY <1>0, <1>11, <1>20, <2>1, <2>2, Closing DEF Receive
<1>12. CASE Reconnect \/ Refused
  <2>1. CountReconnect /\ UNCHANGED <<writerVars, streamVars, wire, start, last, shown>>
    BY <1>12 DEF Reconnect, Refused, CountReconnect
  <2>2. client \in {"connect", "open"} /\ reconnects' = reconnects + 1
    BY <1>12, <2>1 DEF Reconnect, Refused, CountReconnect
  <2>3. \/ client' = "connect" /\ reconnects' <= MaxReconnects
        \/ client' = "gaveup"
    BY <1>0, <2>1, <2>2 DEF CountReconnect
  <2> QED
    BY <1>0, <1>12, <2>1, <2>2, <2>3 DEF Reconnect, Refused
<1>15. CASE Rejected
  <2>1. client' = "failed" /\ stream = "off" /\ wire = <<>>
    BY <1>0, <1>15 DEF Rejected
  <2> QED
    BY <1>0, <1>15, <2>1 DEF Rejected
<1>13. CASE Break
  <2>1. wire' \in Seq(DOMAIN log)
    <3>1. PICK n \in 0 .. Len(wire) : wire' = SubSeq(wire, 1, n)
      BY <1>13 DEF Break
    <3>2. \A i \in 1 .. n : wire[i] \in DOMAIN log
      BY <1>0, <3>1
    <3> QED
      BY <3>1, <3>2, SubSeqProperties
  <2> QED
    BY <1>0, <1>13, <2>1, Closing DEF Break
<1>14. CASE UNCHANGED vars
  BY <1>0, <1>14 DEF vars
<1> QED
  BY <1>1, <1>2, <1>3, <1>4, <1>5, <1>6, <1>7, <1>8, <1>9, <1>10, <1>11, <1>12, <1>13, <1>14,
     <1>15
  DEF Next, Write, Server, Client

-----------------------------------------------------------------------------
(* Announcements *)

LEMMA UnpublishedDef ==
    ASSUME StreamTypeOK
    PROVE  \A i : i \in Unpublished <=>
               i \in forgotten \/ (i # 0 /\ \E w \in Writer : pending[w] = i)
  BY DEF StreamTypeOK, Unpublished, Range

LEMMA UnpublishedNext ==
    ASSUME StreamTypeOK'
    PROVE  \A i : i \in Unpublished' <=>
               i \in forgotten' \/ (i # 0 /\ \E w \in Writer : pending'[w] = i)
  BY DEF StreamTypeOK, Unpublished, Range

LEMMA TailOf ==
    ASSUME NEW S, NEW s \in Seq(S), s # <<>>
    PROVE  /\ Len(s) \in Nat /\ DOMAIN s = 1 .. Len(s) /\ Len(s) > 0
           /\ DOMAIN Tail(s) = 1 .. Len(s) - 1 /\ Len(Tail(s)) = Len(s) - 1
           /\ \A j \in DOMAIN Tail(s) : Tail(s)[j] = s[j + 1] /\ j + 1 \in DOMAIN s
           /\ Head(s) = s[1] /\ Head(s) \in S
<1>1. Len(s) \in Nat /\ DOMAIN s = 1 .. Len(s) /\ Len(s) # 0
  BY EmptySeq, LenProperties
<1>2. /\ Tail(s) \in Seq(S) /\ Len(Tail(s)) = Len(s) - 1 /\ Head(s) \in S
      /\ \A j \in 1 .. Len(Tail(s)) : Tail(s)[j] = s[j + 1]
  BY HeadTailProperties
<1>3. DOMAIN Tail(s) = 1 .. Len(s) - 1
  BY <1>2, LenProperties
<1>4. Head(s) = s[1]
  OBVIOUS
<1> QED
  BY <1>1, <1>2, <1>3, <1>4

LEMMA RangeOfTail ==
    ASSUME NEW S, NEW s \in Seq(S), s # <<>>, NEW e \in Range(s)
    PROVE  e = Head(s) \/ e \in Range(Tail(s))
<1>1. /\ Len(s) \in Nat /\ DOMAIN s = 1 .. Len(s)
      /\ DOMAIN Tail(s) = 1 .. Len(s) - 1 /\ Head(s) = s[1]
      /\ \A j \in DOMAIN Tail(s) : Tail(s)[j] = s[j + 1]
  BY TailOf
<1>2. PICK j \in DOMAIN s : s[j] = e
  BY DEF Range
<1>3. j # 1 => j - 1 \in DOMAIN Tail(s) /\ Tail(s)[j - 1] = e
  BY <1>1, <1>2
<1> QED
  BY <1>1, <1>2, <1>3 DEF Range

LEMMA AppendOf ==
    ASSUME NEW S, NEW s \in Seq(S), NEW e \in S
    PROVE  /\ Len(s) \in Nat /\ DOMAIN s = 1 .. Len(s)
           /\ DOMAIN Append(s, e) = 1 .. Len(s) + 1 /\ Len(Append(s, e)) = Len(s) + 1
           /\ \A j \in DOMAIN s : Append(s, e)[j] = s[j]
           /\ Append(s, e)[Len(s) + 1] = e
<1>1. Len(s) \in Nat /\ DOMAIN s = 1 .. Len(s)
  BY LenProperties
<1>2. /\ Append(s, e) \in Seq(S) /\ Len(Append(s, e)) = Len(s) + 1
      /\ \A j \in 1 .. Len(s) : Append(s, e)[j] = s[j]
      /\ Append(s, e)[Len(s) + 1] = e
  BY AppendProperties
<1>3. DOMAIN Append(s, e) = 1 .. Len(s) + 1
  BY <1>2, LenProperties
<1> QED
  BY <1>1, <1>2, <1>3

(* What the steps of the server and of the client do to the subscription.    *)
InboxShrinks ==
    /\ UNCHANGED <<log, pending, forgotten>>
    /\ Relying' => ReadHistory \/ (Relying /\ UNCHANGED <<upto, overtaken>>)
    /\ inbox' = inbox \/ inbox' = <<>> \/ (inbox # <<>> /\ inbox' = Tail(inbox))

LEMMA InboxMoves ==
    ASSUME [Next]_vars
    PROVE  \/ InboxShrinks
           \/ \E w \in Writer :
                 (\E k \in {"progress", "end"} : InsertEvent(w, k)) \/ Publish(w) \/ Forget(w)
<1> USE DEF InboxShrinks, Relying, streamVars, locals, writerVars
<1>1. CASE Server
  BY <1>1
  DEF Server, Subscribe, TakeSubscription, ReadHistory, SendHistory, EndHistory, DropOld, Relay,
      CloseStream
<1>2. CASE Client
  BY <1>2 DEF Client, Connect, ConnectAfter, Receive, Reconnect, CountReconnect, CloseStream
<1>3. CASE Refused \/ Rejected \/ Break \/ UNCHANGED vars
  BY <1>3 DEF Refused, Rejected, CountReconnect, Break, CloseStream, vars
<1> QED
  BY <1>1, <1>2, <1>3 DEF Next, Write

LEMMA AnnouncementsInit == Init => Announcements
<1> SUFFICES ASSUME Init
             PROVE  Announcements
  OBVIOUS
<1>1. DOMAIN inbox = {} /\ DOMAIN log = {}
  BY DEF Init
<1> QED
  BY <1>1 DEF Init, Announcements

LEMMA AnnouncementsStep == TypeInv /\ Announcements /\ [Next]_vars => Announcements'
<1> SUFFICES ASSUME TypeInv, Announcements, [Next]_vars
             PROVE  Announcements'
  OBVIOUS
<1>1. StreamTypeOK /\ Len(log) \in Nat /\ DOMAIN log = 1 .. Len(log)
  BY LenProperties DEF TypeInv, StreamTypeOK
<1>2. StreamTypeOK'
  BY TypeStep DEF TypeInv
<1>3. \A i : i \in Unpublished <=>
          i \in forgotten \/ (i # 0 /\ \E w \in Writer : pending[w] = i)
  BY <1>1, UnpublishedDef
<1>4. \A i : i \in Unpublished' <=>
          i \in forgotten' \/ (i # 0 /\ \E w \in Writer : pending'[w] = i)
  BY <1>2, UnpublishedNext
<1>5. CASE InboxShrinks
  <2>1. Unpublished' = Unpublished
    BY <1>5 DEF InboxShrinks, Unpublished
  <2>2. /\ \A v, w \in Writer : pending'[v] = pending'[w] /\ pending'[v] # 0 => v = w
        /\ \A w \in Writer : pending'[w] \notin forgotten'
    BY <1>5 DEF Announcements, InboxShrinks
  <2>3. PICK d \in {0, 1} :
            /\ DOMAIN inbox' \subseteq Int
            /\ \A j \in DOMAIN inbox' : inbox'[j] = inbox[j + d] /\ j + d \in DOMAIN inbox
    <3>1. CASE inbox' = inbox
      <4>1. DOMAIN inbox = 1 .. Len(inbox) /\ Len(inbox) \in Nat
        BY <1>1, LenProperties DEF StreamTypeOK
      <4>2. \A j \in DOMAIN inbox : j + 0 = j
        BY <4>1
      <4> QED
        BY <3>1, <4>1, <4>2
    <3>2. CASE inbox' = <<>>
      <4>1. DOMAIN inbox' = {}
        BY <3>2
      <4> QED
        BY <4>1
    <3>3. CASE inbox # <<>> /\ inbox' = Tail(inbox)
      BY <1>1, <3>3, TailOf DEF StreamTypeOK
    <3> QED
      BY <1>5, <3>1, <3>2, <3>3 DEF InboxShrinks
  <2>4. \A j, k \in DOMAIN inbox' : j < k => j + d < k + d
    BY <2>3
  <2>5. \A j \in DOMAIN inbox' : inbox'[j] \notin Unpublished'
    BY <2>1, <2>3 DEF Announcements
  <2>6. CASE ReadHistory
    <3>1. upto' = Len(log)
      BY <2>6 DEF ReadHistory
    <3>2. \A j \in DOMAIN inbox' : inbox'[j] \in 1 .. Len(log)
      BY <1>1, <2>3 DEF StreamTypeOK
    <3>3. \A j \in DOMAIN inbox', i \in Unpublished' : ~(upto' < i /\ i < inbox'[j])
      <4>1. \A i \in Unpublished : i \in Nat /\ i <= Len(log)
        BY <1>1, <1>3 DEF StreamTypeOK
      <4> QED
        BY <1>1, <2>1, <3>1, <4>1
    <3>4. \A k \in DOMAIN inbox' : ~(upto' < inbox'[k])
      BY <1>1, <3>1, <3>2
    <3> QED
      BY <2>2, <2>5, <3>3, <3>4 DEF Announcements
  <2>7. CASE ~ReadHistory
    <3>1. Relying' => Relying /\ upto' = upto /\ overtaken' = overtaken
      BY <1>5, <2>7 DEF InboxShrinks
    <3> QED
      BY <2>1, <2>2, <2>3, <2>4, <2>5, <3>1 DEF Announcements
  <2> QED
    BY <2>6, <2>7
<1>6. ASSUME NEW w \in Writer, NEW k \in {"progress", "end"}, InsertEvent(w, k)
      PROVE  Announcements'
  <2>1. /\ pending' = [pending EXCEPT ![w] = Len(log) + 1] /\ pending[w] = 0
        /\ UNCHANGED <<forgotten, overtaken, inbox, upto>> /\ Relying' = Relying
    BY <1>6 DEF InsertEvent, streamVars, locals, Relying
  <2>2. DOMAIN log' = 1 .. Len(log) + 1
    BY <1>1, <1>6, AppendOf DEF InsertEvent, StreamTypeOK
  <2>3. /\ \A v \in Writer : pending[v] \in 0 .. Len(log)
        /\ \A i \in forgotten : i \in 1 .. Len(log)
        /\ \A j \in DOMAIN inbox : inbox[j] \in 1 .. Len(log)
    BY <1>1 DEF StreamTypeOK
  <2>4. \A i : i \in Unpublished' <=> i \in Unpublished \/ i = Len(log) + 1
    BY <1>1, <1>3, <1>4, <2>1, <2>3 DEF StreamTypeOK
  <2>5. \A v, u \in Writer : pending'[v] = pending'[u] /\ pending'[v] # 0 => v = u
    BY <1>1, <2>1, <2>3 DEF Announcements, StreamTypeOK
  <2>6. \A v \in Writer : pending'[v] \notin forgotten'
    BY <1>1, <2>1, <2>3 DEF Announcements, StreamTypeOK
  <2> QED
    BY <1>1, <2>1, <2>2, <2>3, <2>4, <2>5, <2>6 DEF Announcements
<1>7. ASSUME NEW w \in Writer, Publish(w)
      PROVE  Announcements'
  <2>1. /\ pending' = [pending EXCEPT ![w] = 0] /\ pending[w] # 0
        /\ UNCHANGED <<log, forgotten, upto>> /\ Relying' = Relying
        /\ Relying => overtaken' = overtaken
                         \cup {i \in Unpublished : upto < i /\ i < pending[w]}
        /\ inbox' = inbox \/ inbox' = Append(inbox, pending[w])
    BY <1>7 DEF Publish, Relying
  <2>2. /\ \A v \in Writer : pending[v] \in 0 .. Len(log)
        /\ \A j \in DOMAIN inbox : inbox[j] \in 1 .. Len(log)
        /\ pending[w] \in DOMAIN log
    BY <1>1, <2>1 DEF StreamTypeOK
  <2>3. \A i : i \in Unpublished' <=> i \in Unpublished /\ i # pending[w]
    BY <1>1, <1>3, <1>4, <2>1 DEF Announcements, StreamTypeOK
  <2>4. pending[w] \in Unpublished
    BY <1>3, <2>1
  <2>5. /\ \A v, u \in Writer : pending'[v] = pending'[u] /\ pending'[v] # 0 => v = u
        /\ \A v \in Writer : pending'[v] \notin forgotten'
    BY <1>1, <2>1, <2>2 DEF Announcements, StreamTypeOK
  <2>6. \A j \in DOMAIN inbox' : inbox'[j] \notin Unpublished'
    <3>1. CASE inbox' = inbox
      BY <2>3, <3>1 DEF Announcements
    <3>2. CASE inbox' = Append(inbox, pending[w])
      <4>1. /\ Len(inbox) \in Nat /\ DOMAIN inbox = 1 .. Len(inbox)
            /\ DOMAIN inbox' = 1 .. Len(inbox) + 1
            /\ \A j \in DOMAIN inbox : inbox'[j] = inbox[j]
            /\ inbox'[Len(inbox) + 1] = pending[w]
        BY <1>1, <2>2, <3>2, AppendOf DEF StreamTypeOK
      <4>2. \A j \in DOMAIN inbox' : inbox'[j] = pending[w]
                                     \/ (j \in DOMAIN inbox /\ inbox'[j] = inbox[j])
        BY <4>1
      <4> QED
        BY <2>3, <4>2 DEF Announcements
    <3> QED
      BY <2>1, <3>1, <3>2
  <2>7. ASSUME Relying
        PROVE  /\ \A j \in DOMAIN inbox', i \in Unpublished' :
                     upto < i /\ i < inbox'[j] => i \in overtaken'
               /\ \A j, k \in DOMAIN inbox' :
                     j < k /\ upto < inbox'[k] /\ inbox'[k] < inbox'[j] => inbox'[k] \in overtaken'
    <3>1. overtaken \subseteq overtaken'
      BY <2>1, <2>7
    <3>2. CASE inbox' = inbox
      BY <2>3, <2>7, <3>1, <3>2 DEF Announcements
    <3>3. CASE inbox' = Append(inbox, pending[w])
      <4>1. /\ Len(inbox) \in Nat /\ DOMAIN inbox = 1 .. Len(inbox)
            /\ DOMAIN inbox' = 1 .. Len(inbox) + 1
            /\ \A j \in DOMAIN inbox : inbox'[j] = inbox[j]
            /\ inbox'[Len(inbox) + 1] = pending[w]
        BY <1>1, <2>2, <3>3, AppendOf DEF StreamTypeOK
      <4>2. \A j \in DOMAIN inbox' : j = Len(inbox) + 1 \/ j \in DOMAIN inbox
        BY <4>1
      <4>3. \A j \in DOMAIN inbox :
                upto < pending[w] /\ pending[w] < inbox[j] => pending[w] \in overtaken
        BY <2>4, <2>7 DEF Announcements
      <4>4. \A i \in Unpublished' : upto < i /\ i < pending[w] => i \in overtaken'
        BY <2>1, <2>3, <2>7
      <4>5. \A j, k \in DOMAIN inbox' : j < k => j \in DOMAIN inbox
        BY <4>1
      <4> QED
        BY <2>3, <2>7, <3>1, <4>1, <4>2, <4>3, <4>4, <4>5 DEF Announcements
    <3> QED
      BY <2>1, <3>2, <3>3
  <2> QED
    BY <2>1, <2>5, <2>6, <2>7 DEF Announcements
<1>8. ASSUME NEW w \in Writer, Forget(w)
      PROVE  Announcements'
  <2>1. /\ pending' = [pending EXCEPT ![w] = 0] /\ pending[w] # 0
        /\ forgotten' = forgotten \cup {pending[w]}
        /\ UNCHANGED <<log, overtaken, inbox, upto>> /\ Relying' = Relying
    BY <1>8 DEF Forget, streamVars, locals, Relying
  <2>2. \A i : i \in Unpublished' <=> i \in Unpublished
    BY <1>1, <1>3, <1>4, <2>1 DEF StreamTypeOK
  <2>3. 0 \notin forgotten
    BY <1>1 DEF StreamTypeOK
  <2>4. /\ \A v, u \in Writer : pending'[v] = pending'[u] /\ pending'[v] # 0 => v = u
        /\ \A v \in Writer : pending'[v] \notin forgotten'
    BY <1>1, <2>1, <2>3 DEF Announcements, StreamTypeOK
  <2> QED
    BY <2>1, <2>2, <2>4 DEF Announcements
<1> QED
  BY <1>5, <1>6, <1>7, <1>8, InboxMoves

-----------------------------------------------------------------------------
(* The hand-over *)

LEMMA StrandedStep ==
    TypeInv /\ Announcements /\ NothingStranded /\ [Next]_vars => NothingStranded'
<1> SUFFICES ASSUME TypeInv, Announcements, NothingStranded, [Next]_vars,
                    stream' \in {"replay", "live"}, NEW i \in DOMAIN log'
             PROVE  \/ i <= seen' \/ (stream' = "replay" /\ i <= upto')
                    \/ i \in Range(inbox') \cup Unpublished' \cup unheard'
  BY DEF NothingStranded, Relying
<1> DEFINE Goal == \/ i <= seen' \/ (stream' = "replay" /\ i <= upto')
                   \/ i \in Range(inbox') \cup Unpublished' \cup unheard'
<1>1. StreamTypeOK /\ Len(log) \in Nat /\ DOMAIN log = 1 .. Len(log)
  BY LenProperties DEF TypeInv, StreamTypeOK
<1>2. stream \in {"replay", "live"} /\ i \in DOMAIN log =>
          \/ i <= seen \/ (stream = "replay" /\ i <= upto)
          \/ i \in Range(inbox) \cup Unpublished \cup unheard
  BY DEF NothingStranded, Relying
<1>3. \A n : n \in Unpublished <=>
          n \in forgotten \/ (n # 0 /\ \E w \in Writer : pending[w] = n)
  BY <1>1, UnpublishedDef
<1>4. \A n : n \in forgotten' \/ (n # 0 /\ \E w \in Writer : pending'[w] = n)
          => n \in Unpublished'
  <2>1. StreamTypeOK'
    BY TypeStep DEF TypeInv
  <2> QED
    BY <2>1, UnpublishedNext
<1>5. ASSUME UNCHANGED writerVars
      PROVE  Unpublished' = Unpublished /\ unheard' = unheard /\ i \in DOMAIN log
  BY <1>5 DEF writerVars, Unpublished
<1>6. ASSUME NEW w \in Writer, NEW k \in {"progress", "end"}, InsertEvent(w, k)
      PROVE  Goal
  <2>1. /\ pending' = [pending EXCEPT ![w] = Len(log) + 1] /\ pending[w] = 0
        /\ UNCHANGED <<forgotten, overtaken, unheard, inbox, stream, seen, upto>>
    BY <1>6 DEF InsertEvent, streamVars, locals
  <2>2. DOMAIN log' = 1 .. Len(log) + 1
    BY <1>1, <1>6, AppendOf DEF InsertEvent, StreamTypeOK
  <2>3. CASE i = Len(log) + 1
    <3>1. pending'[w] = i /\ i # 0
      BY <1>1, <2>1, <2>3 DEF StreamTypeOK
    <3> QED
      BY <1>4, <3>1
  <2>4. CASE i # Len(log) + 1
    <3>1. i \in DOMAIN log
      BY <1>1, <2>2, <2>4
    <3>2. i \in Unpublished => i \in Unpublished'
      BY <1>1, <1>3, <1>4, <2>1 DEF StreamTypeOK
    <3> QED
      BY <1>2, <2>1, <3>1, <3>2
  <2> QED
    BY <2>3, <2>4
<1>7. ASSUME NEW w \in Writer, Publish(w)
      PROVE  Goal
  <2>1. /\ pending' = [pending EXCEPT ![w] = 0] /\ pending[w] # 0
        /\ UNCHANGED <<log, forgotten, stream, seen, upto>>
    BY <1>7 DEF Publish
  <2>2. unheard \subseteq unheard'
    BY <1>7 DEF Publish
  <2>3. i \in Unpublished => i \in Unpublished' \/ i = pending[w]
    BY <1>1, <1>3, <1>4, <2>1 DEF StreamTypeOK
  <2>4. CASE heard
    <3>1. inbox' = Append(inbox, pending[w])
      BY <1>7, <2>4 DEF Publish
    <3>2. /\ DOMAIN inbox' = 1 .. Len(inbox) + 1 /\ DOMAIN inbox = 1 .. Len(inbox)
          /\ Len(inbox) \in Nat
          /\ \A j \in DOMAIN inbox : inbox'[j] = inbox[j]
          /\ inbox'[Len(inbox) + 1] = pending[w]
      BY <1>1, <2>1, <3>1, AppendOf DEF StreamTypeOK
    <3>3. Range(inbox) \subseteq Range(inbox') /\ pending[w] \in Range(inbox')
      BY <3>2 DEF Range
    <3> QED
      BY <1>2, <2>1, <2>2, <2>3, <3>3
  <2>5. CASE ~heard
    <3>1. inbox' = inbox /\ (pending[w] > upto => pending[w] \in unheard')
      BY <1>7, <2>1, <2>5 DEF Publish, Relying
    <3>2. pending[w] <= upto => pending[w] <= seen \/ stream = "replay"
      BY <1>1, <2>1 DEF TypeInv, Connection, StreamTypeOK
    <3>3. pending[w] > upto \/ pending[w] <= upto
      BY <1>1 DEF StreamTypeOK
    <3> QED
      BY <1>2, <2>1, <2>2, <2>3, <3>1, <3>2, <3>3
  <2> QED
    BY <2>4, <2>5
<1>8. ASSUME NEW w \in Writer, Forget(w)
      PROVE  Goal
  <2>1. /\ pending' = [pending EXCEPT ![w] = 0] /\ pending[w] # 0
        /\ forgotten' = forgotten \cup {pending[w]}
        /\ UNCHANGED <<log, overtaken, unheard, inbox, stream, seen, upto>>
    BY <1>8 DEF Forget, streamVars, locals
  <2>2. i \in Unpublished => i \in Unpublished'
    BY <1>1, <1>3, <1>4, <2>1 DEF StreamTypeOK
  <2> QED
    BY <1>2, <2>1, <2>2
<1>9. CASE Subscribe \/ TakeSubscription
  BY <1>2, <1>5, <1>9 DEF Subscribe, TakeSubscription, locals
<1>10. CASE ReadHistory
  BY <1>1, <1>10 DEF ReadHistory
<1>11. CASE SendHistory
  BY <1>1, <1>2, <1>5, <1>11 DEF SendHistory, StreamTypeOK
<1>12. CASE EndHistory
  <2>1. ~done /\ stream' = "live" /\ UNCHANGED locals
    BY <1>12 DEF EndHistory, CloseStream
  <2> QED
    BY <1>1, <1>2, <1>5, <1>12, <2>1 DEF EndHistory, locals, StreamTypeOK
<1>13. CASE DropOld
  <2>1. /\ inbox # <<>> /\ inbox' = Tail(inbox) /\ Head(inbox) <= seen
        /\ stream = "live" /\ UNCHANGED <<stream, seen, upto>>
    BY <1>13 DEF DropOld
  <2>2. i \in Range(inbox) => i = Head(inbox) \/ i \in Range(inbox')
    BY <1>1, <2>1, RangeOfTail DEF StreamTypeOK
  <2> QED
    BY <1>2, <1>5, <1>13, <2>1, <2>2 DEF DropOld
<1>14. CASE Relay
  <2>1. /\ inbox # <<>> /\ inbox' = Tail(inbox) /\ Head(inbox) > seen
        /\ stream = "live" /\ stream' = "live" /\ seen' = Head(inbox)
    BY <1>14 DEF Relay, CloseStream
  <2>2. Head(inbox) \in DOMAIN log /\ Head(inbox) \in Nat
    BY <1>1, <2>1, TailOf DEF StreamTypeOK
  <2>3. i \in Range(inbox) => i = Head(inbox) \/ i \in Range(inbox')
    BY <1>1, <2>1, RangeOfTail DEF StreamTypeOK
  <2> QED
    BY <1>1, <1>2, <1>5, <1>14, <2>1, <2>2, <2>3 DEF Relay, StreamTypeOK
<1>15. CASE Client \/ Refused \/ Rejected \/ Break \/ UNCHANGED vars
  <2>1. UNCHANGED <<stream, inbox, seen, upto>> /\ UNCHANGED writerVars
    BY <1>15
    DEF Client, Connect, ConnectAfter, Receive, Reconnect, Refused, Rejected, CountReconnect, Break,
        CloseStream, vars, streamVars, locals
  <2> QED
    BY <1>2, <1>5, <2>1
<1> QED
  BY <1>6, <1>7, <1>8, <1>9, <1>10, <1>11, <1>12, <1>13, <1>14, <1>15 DEF Next, Write, Server

(* The next event a live stream relays leaves out nothing but missed ones.   *)
LEMMA HeadIsNext ==
    ASSUME StreamTypeOK, Connection, Announcements, NothingStranded,
           stream = "live", inbox # <<>>,
           NEW i \in DOMAIN log, seen < i, i < Head(inbox)
    PROVE  i \in Missed
<1>1. DOMAIN log = 1 .. Len(log) /\ Len(log) \in Nat
  BY LenProperties DEF StreamTypeOK
<1>2. /\ Head(inbox) \in DOMAIN log /\ Head(inbox) = inbox[1]
      /\ DOMAIN inbox = 1 .. Len(inbox) /\ Len(inbox) \in Nat /\ Len(inbox) > 0
  BY TailOf DEF StreamTypeOK
<1>3. Relying /\ upto < i /\ i \in Range(inbox) \cup Unpublished \cup unheard
  BY <1>1 DEF NothingStranded, Relying, Connection, StreamTypeOK
<1>4. CASE i \in Range(inbox)
  <2>1. PICK k \in DOMAIN inbox : inbox[k] = i
    BY <1>4 DEF Range
  <2>2. 1 < k /\ inbox[k] < inbox[1]
    BY <1>1, <1>2, <2>1
  <2>3. i \in overtaken
    BY <1>2, <1>3, <2>1, <2>2 DEF Announcements
  <2> QED
    BY <2>3 DEF Missed
<1>5. CASE i \in Unpublished
  <2>1. i \in overtaken
    BY <1>2, <1>3, <1>5 DEF Announcements
  <2> QED
    BY <2>1 DEF Missed
<1> QED
  BY <1>3, <1>4, <1>5 DEF Missed

LEMMA StrandedInit == Init => NothingStranded
  BY DEF Init, NothingStranded, Relying

-----------------------------------------------------------------------------
(* From the client to the generator *)

LEMMA TrailInit == Init => Trail
<1> SUFFICES ASSUME Init
             PROVE  Trail
  OBVIOUS
<1>1. DOMAIN wire = {} /\ DOMAIN shown = {}
  BY DEF Init
<1> QED
  BY <1>1 DEF Init, Trail

(* Frames, position and what was shown stay; the log and the missed grow.    *)
LEMMA TrailKept ==
    ASSUME StreamTypeOK, Trail, UNCHANGED <<wire, client, start, last, shown>>,
           Missed \subseteq Missed', Len(log') \in Nat, DOMAIN log' = 1 .. Len(log'),
           \A i \in DOMAIN log : i \in DOMAIN log' /\ log'[i] = log[i],
           stream' # "off" => stream # "off" /\ seen' = seen
    PROVE  Trail'
<1>1. DOMAIN log = 1 .. Len(log) /\ Len(log) \in Nat
  BY LenProperties DEF StreamTypeOK
<1>2. \A j \in DOMAIN wire : wire[j] \in DOMAIN log
  BY DEF StreamTypeOK
<1>3. \A j \in DOMAIN shown : shown[j] \in DOMAIN log
  BY DEF StreamTypeOK
<1>4. \A j : Before(j)' = Before(j)
  BY DEF Before
<1>5. \A j \in DOMAIN wire, i \in DOMAIN log' : i < wire[j] => i \in DOMAIN log
  BY <1>1, <1>2
<1>6. \A j \in DOMAIN wire' :
          /\ wire'[j] > Before(j)'
          /\ \A i \in DOMAIN log' : Before(j)' < i /\ i < wire'[j] => i \in Missed'
  BY <1>4, <1>5 DEF Trail
<1>7. client' # "ended" => \A j \in DOMAIN shown' : log'[shown'[j]] # "end"
  BY <1>3 DEF Trail
<1> QED
  BY <1>6, <1>7 DEF Trail

(* One more frame, the next one after where the generator stands.            *)
LEMMA TrailSent ==
    ASSUME StreamTypeOK, Trail, stream # "off",
           NEW e \in DOMAIN log, e > seen,
           \A i \in DOMAIN log : seen < i /\ i < e => i \in Missed,
           wire' = Append(wire, e), UNCHANGED <<log, client, start, last, shown>>,
           Missed' = Missed, stream' # "off" => seen' = e
    PROVE  Trail'
<1>1. /\ Len(wire) \in Nat /\ DOMAIN wire = 1 .. Len(wire)
      /\ DOMAIN wire' = 1 .. Len(wire) + 1 /\ Len(wire') = Len(wire) + 1
      /\ \A j \in DOMAIN wire : wire'[j] = wire[j]
      /\ wire'[Len(wire) + 1] = e
  <2>1. wire \in Seq(DOMAIN log) /\ wire' = Append(wire, e)
    BY DEF StreamTypeOK
  <2> QED
    BY <2>1, AppendOf
<1>2. \A j \in DOMAIN wire : Before(j)' = Before(j)
  BY <1>1 DEF Before
<1>3. ASSUME NEW n, n = Len(wire) + 1
      PROVE  Before(n)' = seen
  <2>1. CASE wire = <<>>
    <3>1. n = 1
      BY <1>3, <2>1
    <3> QED
      BY <2>1, <3>1 DEF Before, Trail
  <2>2. CASE wire # <<>>
    <3>1. Len(wire) # 0
      BY <2>2, EmptySeq DEF StreamTypeOK
    <3>2. Len(wire) \in DOMAIN wire
      BY <1>1, <3>1
    <3>3. n # 1 /\ n - 1 = Len(wire)
      BY <1>1, <1>3, <3>1
    <3>4. wire'[n - 1] = wire[Len(wire)]
      BY <1>1, <3>2, <3>3
    <3> QED
      BY <2>2, <3>3, <3>4 DEF Before, Trail
  <2> QED
    BY <2>1, <2>2
<1>4. \A j \in DOMAIN wire' : j \in DOMAIN wire \/ j = Len(wire) + 1
  BY <1>1
<1>5. ASSUME NEW j \in DOMAIN wire'
      PROVE  /\ wire'[j] > Before(j)'
             /\ \A i \in DOMAIN log' : Before(j)' < i /\ i < wire'[j] => i \in Missed'
  <2>1. CASE j \in DOMAIN wire
    BY <1>1, <1>2, <2>1 DEF Trail
  <2>2. CASE j = Len(wire) + 1
    BY <1>1, <1>3, <2>2
  <2> QED
    BY <1>4, <2>1, <2>2
<1>6. wire' # <<>>
  BY <1>1
<1> QED
  BY <1>1, <1>5, <1>6 DEF Trail

LEMMA TrailReceived ==
    ASSUME StreamTypeOK, Trail, Receive
    PROVE  Trail'
<1>1. /\ client = "open" /\ wire # <<>> /\ last' = wire[1]
      /\ Head(wire) = wire[1] /\ Head(wire) \in DOMAIN log
      /\ shown' = Append(shown, wire[1]) /\ UNCHANGED <<log, overtaken, unheard, start>>
  BY TailOf DEF Receive, StreamTypeOK, writerVars
<1>2. /\ Len(shown) \in Nat /\ DOMAIN shown = 1 .. Len(shown)
      /\ DOMAIN shown' = 1 .. Len(shown) + 1 /\ Len(shown') = Len(shown) + 1
      /\ \A j \in DOMAIN shown : shown'[j] = shown[j]
      /\ shown'[Len(shown) + 1] = wire[1]
  <2>1. shown \in Seq(DOMAIN log) /\ wire[1] \in DOMAIN log /\ shown' = Append(shown, wire[1])
    BY <1>1 DEF StreamTypeOK
  <2> QED
    BY <2>1, AppendOf
<1>3. last' = IF shown' = <<>> THEN start' ELSE shown'[Len(shown')]
  BY <1>1, <1>2
<1>4. Missed' = Missed
  BY <1>1 DEF Missed
<1>5. CASE IsEnd(Head(wire))
  <2>1. client' = "ended" /\ wire' = <<>> /\ stream' = "off"
    BY <1>5 DEF Receive, CloseStream
  <2>2. DOMAIN wire' = {}
    BY <2>1
  <2> QED
    BY <1>3, <2>1, <2>2 DEF Trail
<1>6. CASE ~IsEnd(Head(wire))
  <2>1. wire' = Tail(wire) /\ UNCHANGED <<client, stream, seen>>
    BY <1>6 DEF Receive, streamVars, locals
  <2>2. /\ Len(wire) \in Nat /\ DOMAIN wire = 1 .. Len(wire) /\ Len(wire) > 0
        /\ DOMAIN wire' = 1 .. Len(wire) - 1 /\ Len(wire') = Len(wire) - 1
        /\ \A j \in DOMAIN wire' : wire'[j] = wire[j + 1] /\ j + 1 \in DOMAIN wire
    BY <1>1, <2>1, TailOf DEF StreamTypeOK
  <2>3. \A j \in DOMAIN wire' : Before(j)' = Before(j + 1)
    <3> SUFFICES ASSUME NEW j \in DOMAIN wire'
                 PROVE  Before(j)' = Before(j + 1)
      OBVIOUS
    <3>1. j \in Nat /\ j + 1 # 1 /\ j + 1 - 1 = j
      BY <2>2
    <3>2. j # 1 => j - 1 \in DOMAIN wire' /\ (j - 1) + 1 = j
      BY <2>2
    <3> QED
      BY <1>1, <2>2, <3>1, <3>2 DEF Before
  <2>4. ASSUME NEW j \in DOMAIN wire'
        PROVE  /\ wire'[j] > Before(j)'
               /\ \A i \in DOMAIN log' : Before(j)' < i /\ i < wire'[j] => i \in Missed'
    BY <1>1, <1>4, <2>2, <2>3 DEF Trail
  <2>5. stream' # "off" => seen' = IF wire' = <<>> THEN last' ELSE wire'[Len(wire')]
    <3>1. wire' = <<>> => Len(wire) = 1
      BY <2>2
    <3>2. wire' # <<>> => Len(wire') \in DOMAIN wire' /\ Len(wire') + 1 = Len(wire)
      <4>1. wire' \in Seq(DOMAIN log)
        BY <1>1, <2>1, HeadTailProperties DEF StreamTypeOK
      <4>2. wire' # <<>> => Len(wire') # 0
        BY <4>1, EmptySeq
      <4> QED
        BY <2>2, <4>2
    <3> QED
      BY <1>1, <2>1, <2>2, <3>1, <3>2 DEF Trail
  <2>6. log[wire[1]] # "end"
    BY <1>1, <1>6 DEF IsEnd
  <2>7. \A j \in DOMAIN shown' : log'[shown'[j]] # "end"
    BY <1>1, <1>2, <2>6 DEF Trail
  <2> QED
    BY <1>3, <2>4, <2>5, <2>7 DEF Trail
<1> QED
  BY <1>5, <1>6

LEMMA TrailStep ==
    TypeInv /\ Announcements /\ NothingStranded /\ Trail /\ [Next]_vars => Trail'
<1> SUFFICES ASSUME TypeInv, Announcements, NothingStranded, Trail, [Next]_vars
             PROVE  Trail'
  OBVIOUS
<1>1. StreamTypeOK /\ Len(log) \in Nat /\ DOMAIN log = 1 .. Len(log)
  BY LenProperties DEF TypeInv, StreamTypeOK
<1>2. ASSUME UNCHANGED writerVars
      PROVE  /\ log' = log /\ Missed' = Missed
             /\ Len(log') \in Nat /\ DOMAIN log' = 1 .. Len(log')
             /\ \A i \in DOMAIN log : i \in DOMAIN log' /\ log'[i] = log[i]
  BY <1>1, <1>2 DEF writerVars, Missed
<1>3. ASSUME NEW w \in Writer, NEW k \in {"progress", "end"}, InsertEvent(w, k)
      PROVE  Trail'
  <2>1. /\ Len(log') \in Nat /\ DOMAIN log' = 1 .. Len(log')
        /\ \A i \in DOMAIN log : i \in DOMAIN log' /\ log'[i] = log[i]
    BY <1>1, <1>3, AppendOf DEF InsertEvent, StreamTypeOK
  <2>2. /\ UNCHANGED <<wire, client, start, last, shown, stream, seen>>
        /\ Missed' = Missed
    BY <1>3 DEF InsertEvent, streamVars, locals, clientVars, Missed
  <2> QED
    BY <1>1, <2>1, <2>2, TrailKept
<1>4. ASSUME NEW w \in Writer, Publish(w) \/ Forget(w)
      PROVE  Trail'
  <2>1. UNCHANGED <<log, wire, client, start, last, shown, stream, seen>>
    BY <1>4 DEF Publish, Forget, streamVars, locals, clientVars
  <2>2. Missed \subseteq Missed'
    BY <1>4 DEF Publish, Forget, Missed
  <2> QED
    BY <1>1, <2>1, <2>2, TrailKept
<1>14. CASE ReadHistory
  <2>1. /\ UNCHANGED <<log, wire, client, start, last, shown, seen>>
        /\ stream # "off" /\ wire = <<>>
    BY <1>14 DEF ReadHistory, clientVars, TypeInv, Connection
  <2>2. DOMAIN wire' = {}
    BY <2>1
  <2> QED
    BY <2>1, <2>2 DEF Trail
<1>5. CASE Subscribe \/ TakeSubscription \/ DropOld
  <2>1. /\ UNCHANGED writerVars /\ UNCHANGED <<wire, client, start, last, shown, seen>>
        /\ stream # "off"
    BY <1>5 DEF Subscribe, TakeSubscription, DropOld, locals, clientVars
  <2> QED
    BY <1>1, <1>2, <2>1, TrailKept
<1>6. CASE SendHistory
  <2>1. /\ seen < upto /\ seen \in Nat /\ upto \in 0 .. Len(log)
        /\ wire' = Append(wire, seen + 1) /\ seen' = seen + 1 /\ stream # "off"
        /\ UNCHANGED writerVars /\ UNCHANGED <<client, start, last, shown>>
    BY <1>1, <1>6 DEF SendHistory, Send, clientVars, StreamTypeOK
  <2>2. seen + 1 \in DOMAIN log /\ seen + 1 > seen
    BY <1>1, <2>1
  <2>3. \A i \in DOMAIN log : ~(seen < i /\ i < seen + 1)
    BY <1>1, <2>1
  <2> QED
    BY <1>1, <1>2, <2>1, <2>2, <2>3, TrailSent
<1>7. CASE EndHistory
  <2>1. /\ UNCHANGED writerVars /\ UNCHANGED <<wire, client, start, last, shown>>
        /\ stream # "off" /\ (stream' # "off" => seen' = seen)
    BY <1>7 DEF EndHistory, CloseStream, locals, clientVars
  <2> QED
    BY <1>1, <1>2, <2>1, TrailKept
<1>8. CASE Relay
  <2>1. /\ stream = "live" /\ inbox # <<>> /\ Head(inbox) > seen
        /\ wire' = Append(wire, Head(inbox))
        /\ stream' # "off" => seen' = Head(inbox)
        /\ UNCHANGED writerVars /\ UNCHANGED <<client, start, last, shown>>
    BY <1>8 DEF Relay, Send, CloseStream, clientVars
  <2>2. Head(inbox) \in DOMAIN log
    BY <1>1, <2>1, TailOf DEF StreamTypeOK
  <2>3. \A i \in DOMAIN log : seen < i /\ i < Head(inbox) => i \in Missed
    BY <1>1, <2>1, HeadIsNext DEF TypeInv
  <2>4. stream # "off"
    BY <2>1
  <2> QED
    BY <1>1, <1>2, <2>1, <2>2, <2>3, <2>4, TrailSent
<1>9. CASE Connect
  <2>1. /\ wire = <<>> /\ wire' = wire /\ seen' = last /\ client' = "open" /\ client = "connect"
        /\ UNCHANGED <<log, overtaken, unheard, start, last, shown>>
    BY <1>9 DEF Connect, ConnectAfter, TypeInv, Connection, writerVars
  <2>2. DOMAIN wire' = {}
    BY <2>1
  <2> QED
    BY <2>1, <2>2 DEF Trail
<1>10. CASE Receive
  BY <1>1, <1>10, TrailReceived
<1>11. CASE Reconnect \/ Refused \/ Rejected
  <2>1. /\ UNCHANGED <<log, overtaken, unheard, stream, seen, wire, start, last, shown>>
        /\ client # "ended" /\ client' # "ended"
    BY <1>11 DEF Reconnect, Refused, Rejected, CountReconnect, writerVars, streamVars, locals
  <2>2. /\ \A j : Before(j)' = Before(j)
        /\ Missed' = Missed
    BY <2>1 DEF Before, Missed
  <2> QED
    BY <2>1, <2>2 DEF Trail
<1>12. CASE Break
  <2>1. /\ stream' = "off" /\ UNCHANGED <<log, overtaken, unheard, client, start, last, shown>>
    BY <1>12 DEF Break, CloseStream, writerVars, clientVars
  <2>2. PICK n \in 0 .. Len(wire) : wire' = SubSeq(wire, 1, n)
    BY <1>12 DEF Break
  <2>3. /\ Len(wire) \in Nat /\ DOMAIN wire = 1 .. Len(wire)
    BY <1>1, LenProperties DEF StreamTypeOK
  <2>4. /\ DOMAIN wire' = 1 .. n
        /\ \A j \in DOMAIN wire' : j \in DOMAIN wire /\ wire'[j] = wire[j]
    BY <2>2, <2>3
  <2>5. /\ \A j \in DOMAIN wire' : Before(j)' = Before(j)
        /\ Missed' = Missed
    BY <2>1, <2>3, <2>4 DEF Before, Missed
  <2> QED
    BY <2>1, <2>4, <2>5 DEF Trail
<1>13. CASE UNCHANGED vars
  <2>1. UNCHANGED writerVars /\ UNCHANGED <<wire, client, start, last, shown, stream, seen>>
    BY <1>13 DEF vars, streamVars, clientVars, locals
  <2> QED
    BY <1>1, <1>2, <2>1, TrailKept
<1> QED
  BY <1>3, <1>4, <1>5, <1>6, <1>7, <1>8, <1>9, <1>10, <1>11, <1>12, <1>13,
     <1>14
  DEF Next, Write, Server, Client

-----------------------------------------------------------------------------
(* Theorems *)

LEMMA StreamInvariant == Spec => []StreamInv
<1>1. Init => StreamInv
  BY TypeInit, AnnouncementsInit, StrandedInit, TrailInit DEF StreamInv
<1>2. StreamInv /\ [Next]_vars => StreamInv'
  BY TypeStep, AnnouncementsStep, StrandedStep, TrailStep DEF StreamInv
<1> QED
  BY <1>1, <1>2, PTL DEF Spec

(* Every variable keeps its type, whoever writes, breaks and reconnects: no  *)
(* id is sent or shown that the log does not have, and a client gives up one *)
(* past the limit at the latest (cli/main.py:46).                            *)
THEOREM StreamTypeInvariant == Spec => []StreamTypeOK
<1>1. StreamInv => StreamTypeOK
  BY DEF StreamInv, TypeInv
<1> QED
  BY <1>1, StreamInvariant, PTL

(* Subscribing before the history is read leaves nothing behind at the       *)
(* hand-over (api/main.py:83), however many writers announce however late,   *)
(* but what is announced before Redis has taken in the SUBSCRIBE.            *)
THEOREM NothingIsStranded == Spec => []NothingStranded
<1>1. StreamInv => NothingStranded
  BY DEF StreamInv
<1> QED
  BY <1>1, StreamInvariant, PTL

LEMMA ShowStep ==
    ASSUME StreamInv, Receive
    PROVE  \E i \in DOMAIN log : Followed!Show(i)
<1>1. StreamTypeOK /\ Trail
  BY DEF StreamInv, TypeInv
<1>2. /\ client = "open" /\ wire # <<>> /\ Head(wire) = wire[1] /\ wire[1] \in DOMAIN log
      /\ 1 \in DOMAIN wire /\ shown' = Append(shown, wire[1])
      /\ UNCHANGED <<log, overtaken, unheard, start>>
  BY <1>1, TailOf DEF Receive, StreamTypeOK, writerVars
<1>3. DOMAIN log \subseteq Nat /\ DOMAIN log = 1 .. Len(log) /\ Len(log) \in Nat
  BY <1>1, LenProperties DEF StreamTypeOK
<1>4. Before(1) = last /\ last = Followed!Position /\ last \in Nat
  BY <1>1 DEF Before, Trail, Followed!Position, StreamTypeOK
<1>5. ~Followed!Ended(shown)
  BY <1>1, <1>2 DEF Trail, Followed!Ended
<1>6. /\ wire[1] > last
      /\ \A i \in DOMAIN log : last < i /\ i < wire[1] => i \in Missed
  BY <1>1, <1>2, <1>4 DEF Trail
<1>7. last + 1 .. wire[1] - 1 \subseteq Missed
  <2> SUFFICES ASSUME NEW i \in last + 1 .. wire[1] - 1
               PROVE  i \in Missed
    OBVIOUS
  <2>1. wire[1] \in Nat
    BY <1>2, <1>3
  <2>2. i \in DOMAIN log /\ last < i /\ i < wire[1]
    BY <1>2, <1>3, <1>4, <2>1
  <2> QED
    BY <1>6, <2>2
<1>8. Missed' = Missed
  BY <1>2 DEF Missed
<1>9. Followed!Show(wire[1])
  BY <1>2, <1>4, <1>5, <1>6, <1>7, <1>8 DEF Followed!Show
<1> QED
  BY <1>2, <1>9

LEMMA FollowedStep == StreamInv /\ StreamInv' /\ [Next]_vars => [Followed!Next]_(Followed!followedVars)
<1> SUFFICES ASSUME StreamInv, StreamInv', [Next]_vars
             PROVE  Followed!Next \/ UNCHANGED <<log, Missed, start, shown>>
  BY DEF Followed!followedVars
<1>1. ASSUME NEW w \in Writer, NEW k \in {"progress", "end"}, InsertEvent(w, k)
      PROVE  Followed!Next
  <2>1. Followed!Write(k)
    BY <1>1 DEF InsertEvent, Followed!Write, clientVars, Missed
  <2> QED
    BY <2>1 DEF Followed!Next, Followed!Kind
<1>2. ASSUME ReadHistory \/ \E w \in Writer : Publish(w)
      PROVE  Followed!Next
  <2>1. Missed' \subseteq DOMAIN log
    <3>1. Missed' \subseteq DOMAIN log'
      BY DEF StreamInv, TypeInv, StreamTypeOK, Missed
    <3> QED
      BY <1>2, <3>1 DEF Publish, ReadHistory
  <2>2. UNCHANGED <<log, start, shown>>
    BY <1>2 DEF Publish, ReadHistory, clientVars
  <2>3. Followed!Miss(Missed')
    BY <2>1, <2>2 DEF Followed!Miss
  <2> QED
    BY <2>1, <2>3 DEF Followed!Next
<1>3. CASE Receive
  BY <1>3, ShowStep DEF Followed!Next
<1>4. CASE \/ \E w \in Writer : Forget(w)
           \/ (Server /\ ~ReadHistory) \/ Connect \/ Reconnect \/ Refused \/ Rejected
           \/ Break \/ UNCHANGED vars
  <2>1. UNCHANGED <<log, overtaken, unheard, start, shown>>
    <3>1. CASE (\E w \in Writer : Forget(w)) \/ (Server /\ ~ReadHistory)
      BY <3>1
      DEF Forget, Server, Subscribe, TakeSubscription, SendHistory, EndHistory,
          DropOld, Relay, writerVars, clientVars
    <3>2. CASE Connect \/ Reconnect \/ Refused \/ Rejected \/ Break \/ UNCHANGED vars
      BY <3>2
      DEF Connect, ConnectAfter, Reconnect, Refused, Rejected, CountReconnect, Break, vars, writerVars,
          clientVars
    <3> QED
      BY <1>4, <3>1, <3>2
  <2> QED
    BY <2>1 DEF Missed
<1> QED
  BY <1>1, <1>2, <1>3, <1>4 DEF Next, Write, Client

(* What a client is shown is what FollowedLog promises, over every chain of  *)
(* breaks and reconnects: upwards, each event once, nothing after the end,    *)
(* and no gap but of events this connection missed after it had read its     *)
(* history.                                                                  *)
THEOREM StreamImplementsFollowedLog == Spec => ImplementsFollowedLog
<1>1. Init => Followed!Init
  BY DEF Init, Followed!Init, Missed
<1> QED
  BY <1>1, FollowedStep, StreamInvariant, PTL DEF Spec, ImplementsFollowedLog, Followed!Spec
=============================================================================

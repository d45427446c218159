----------------------------- MODULE AgentProofs -----------------------------
(* Proofs about run_agent and chat for any number of steps, tries and calls  *)
(* in a reply: a stop is obeyed soon, a run asks and waits within its budget *)
(* and the transcript is one an endpoint accepts.                            *)
EXTENDS Agent, FiniteSetTheorems, FunctionTheorems, TLAPS

LateTypes ==
    /\ late \in [posts : Nat, tools : Nat]
    /\ tries \in Nat /\ tries <= MaxRetries - 1
    /\ at \notin {"chat", "over"} => tries = 0

Nothing == late.tools = 0 /\ late.posts = 0

(* A stop is looked for before a chat and before a tool: whatever is under   *)
(* way then began with nothing late, and a chat counts its own tries.        *)
LateKnown ==
    /\ reason = "none" => Nothing
    /\ at = "chat" => late.tools = 0 /\ late.posts <= tries
    /\ at = "tool" => Nothing

LateInv == LateTypes /\ LateKnown /\ StopsSoon

lateOnly == <<late, tries, reason>>

(* Steps that begin neither a POST nor a tool, and lead to neither.          *)
Quiet ==
    /\ UNCHANGED lateOnly
    /\ \/ at' = at \/ at' = "over"
       \/ at \in {"turn", "calls", "tool"} /\ at' \in {"turn", "calls"}

(* What a step does to what the invariant speaks of.                         *)
LateMoves ==
    \/ Quiet
    \/ /\ at \in {"turn", "calls"} /\ at' \in {"chat", "tool"}
       /\ reason = "none" /\ UNCHANGED lateOnly
    \/ /\ at = "chat" /\ Count("posts") /\ UNCHANGED reason
       /\ \/ at' = "chat" /\ tries # MaxRetries - 1 /\ tries' = tries + 1
          \/ at' = "over" /\ tries' = tries
          \/ at' \in {"turn", "calls", "over"} /\ tries' = 0
    \/ /\ at = "chat" /\ at' \in {"turn", "calls", "over"}
       /\ tries' = 0 /\ UNCHANGED <<late, reason>>
    \/ /\ at = "tool" /\ at' \in {"calls", "over"}
       /\ Count("tools") /\ UNCHANGED <<tries, reason>>
    \/ reason = "none" /\ reason' # "none" /\ UNCHANGED <<at, late, tries>>
    \/ at' = "turn" /\ tries' = 0 /\ reason' = "none" /\ late' = [posts |-> 0, tools |-> 0]

-----------------------------------------------------------------------------
LEMMA TakeMoves ==
    ASSUME NEW r \in Reply, Take(r)
    PROVE  at' \in {"turn", "calls", "over"} /\ tries' = 0
<1>1. CASE r.calls # <<>>
  BY <1>1 DEF Take
<1>2. CASE r.calls = <<>> /\ r.text
  BY <1>2 DEF Take, End
<1>3. CASE r.calls = <<>> /\ ~r.text
  BY <1>3 DEF Take
<1> QED
  BY <1>1, <1>2, <1>3

LEMMA StepMoves ==
    ASSUME steps \in Seq(Reply), cursor \in 0 .. Len(steps), [Next]_vars
    PROVE  LateMoves
<1> USE DEF LateMoves, lateOnly, End, Stay
<1>1. CASE BeginTurn
  BY <1>1 DEF BeginTurn, Quiet, chatVars, stopVars
<1>2. CASE OutOfSteps
  BY <1>2 DEF OutOfSteps, Quiet, chatVars, stopVars
<1>3. CASE PostFails
  BY <1>3 DEF PostFails, Post
<1>4. CASE BodyUnreadable
  BY <1>4 DEF BodyUnreadable, Post
<1>5. ASSUME NEW r \in Reply, Answer(r)
      PROVE  LateMoves
  <2>1. at = "chat" /\ Count("posts") /\ UNCHANGED reason
    BY <1>5 DEF Answer, Post
  <2>2. CASE mode = "record" /\ "malformed" \in ToSet(r.calls)
    BY <1>5, <2>1, <2>2 DEF Answer
  <2>3. CASE ~(mode = "record" /\ "malformed" \in ToSet(r.calls))
    BY <1>5, <2>1, <2>3, TakeMoves DEF Answer
  <2> QED
    BY <2>2, <2>3
<1>6. CASE Replay
  <2>1. at = "chat" /\ UNCHANGED <<late, reason>>
    BY <1>6 DEF Replay, stopVars
  <2>2. CASE cursor = Len(steps)
    BY <1>6, <2>1, <2>2 DEF Replay, Quiet
  <2>3. CASE cursor # Len(steps)
    <3>1. steps[cursor + 1] \in Reply /\ Take(steps[cursor + 1])
      BY <1>6, <2>3 DEF Replay
    <3> QED
      BY <2>1, <3>1, TakeMoves
  <2> QED
    BY <2>2, <2>3
<1>7. CASE BeginCall
  BY <1>7 DEF BeginCall, Quiet, chatVars, stopVars
<1>8. CASE RunCall
  BY <1>8 DEF RunCall, AnswerCall, Dies, Quiet, chatVars
<1>9. CASE EndTurn
  BY <1>9 DEF EndTurn, Quiet, chatVars, stopVars
<1>10. CASE BoxDies
  BY <1>10 DEF BoxDies, Quiet, loopVars, chatVars, stopVars
<1>11. CASE StartReplay
  BY <1>11 DEF StartReplay
<1>12. ASSUME NEW why \in {"cancelled", "timeout"}, Stop(why)
       PROVE  LateMoves
  BY <1>12 DEF Stop, loopVars, chatVars
<1>13. CASE Finished \/ UNCHANGED vars
  BY <1>13 DEF Finished, vars, Quiet, loopVars, chatVars, stopVars
<1> QED
  BY <1>1, <1>2, <1>3, <1>4, <1>5, <1>6, <1>7, <1>8, <1>9, <1>10, <1>11, <1>12, <1>13
  DEF Next, Loop

(* The recording and its cursor, which the replay reads.                     *)
Recording == steps \in Seq(Reply) /\ cursor \in 0 .. Len(steps)

LEMMA RecordingInit == Init => Recording
  BY DEF Init, Recording

LEMMA RecordingStep == Recording /\ [Next]_vars => Recording'
<1> SUFFICES ASSUME Recording, [Next]_vars
             PROVE  Recording'
  OBVIOUS
<1> USE DEF Recording, replayVars
<1>1. ASSUME NEW r \in Reply, Answer(r)
      PROVE  Recording'
  BY <1>1 DEF Answer, Recorded
<1>2. CASE Replay
  BY <1>2 DEF Replay
<1>3. CASE ~(\E r \in Reply : Answer(r)) /\ ~Replay
  BY <1>3
  DEF Next, Loop, BeginTurn, OutOfSteps, PostFails, BodyUnreadable, BeginCall, RunCall,
      EndTurn, BoxDies, StartReplay, Stop, Finished, vars
<1> QED
  BY <1>1, <1>2, <1>3

LEMMA LateInvInit == Init => LateInv
  BY AgentAssumption
  DEF Init, Start, LateInv, LateTypes, LateKnown, Nothing, StopsSoon

LEMMA LateInvStep == LateInv /\ LateMoves => LateInv'
<1> SUFFICES ASSUME LateInv, LateMoves
             PROVE  LateInv'
  OBVIOUS
<1>1. MaxRetries \in Nat
  BY AgentAssumption
<1>2. ASSUME NEW f \in {"posts", "tools"}, Count(f)
      PROVE  /\ late' \in [posts : Nat, tools : Nat]
             /\ late'.posts <= late.posts + (IF f = "posts" THEN 1 ELSE 0)
             /\ late'.tools <= late.tools + (IF f = "tools" THEN 1 ELSE 0)
             /\ reason = "none" => late' = late
  BY <1>2 DEF Count, LateInv, LateTypes
<1> USE DEF LateInv, LateTypes, LateKnown, Nothing, StopsSoon, lateOnly
<1>3. CASE Quiet
  BY <1>1, <1>3 DEF Quiet
<1>4. CASE /\ at = "chat" /\ Count("posts") /\ UNCHANGED reason
           /\ \/ at' = "chat" /\ tries # MaxRetries - 1 /\ tries' = tries + 1
              \/ at' = "over" /\ tries' = tries
              \/ at' \in {"turn", "calls", "over"} /\ tries' = 0
  <2>1. /\ late' \in [posts : Nat, tools : Nat] /\ late'.tools = 0
        /\ late'.posts <= tries + 1 /\ (reason = "none" => late' = late)
    BY <1>2, <1>4
  <2>2. StopsSoon'
    BY <1>1, <2>1
  <2>3. CASE at' = "chat" /\ tries # MaxRetries - 1 /\ tries' = tries + 1
    BY <1>1, <1>4, <2>1, <2>2, <2>3
  <2>4. CASE at' = "over" /\ tries' = tries
    BY <1>1, <1>4, <2>1, <2>2, <2>4
  <2>5. CASE at' \in {"turn", "calls", "over"} /\ tries' = 0
    BY <1>1, <1>4, <2>1, <2>2, <2>5
  <2> QED
    BY <1>4, <2>3, <2>4, <2>5
<1>5. CASE /\ at = "tool" /\ at' \in {"calls", "over"}
           /\ Count("tools") /\ UNCHANGED <<tries, reason>>
  <2>1. /\ late' \in [posts : Nat, tools : Nat] /\ late'.tools <= 1 /\ late'.posts = 0
        /\ reason = "none" => late' = late
    BY <1>2, <1>5
  <2> QED
    BY <1>1, <1>5, <2>1
<1>6. CASE /\ at \in {"turn", "calls"} /\ at' \in {"chat", "tool"}
           /\ reason = "none" /\ UNCHANGED lateOnly
  BY <1>1, <1>6
<1>7. CASE /\ at = "chat" /\ at' \in {"turn", "calls", "over"}
           /\ tries' = 0 /\ UNCHANGED <<late, reason>>
  BY <1>1, <1>7
<1>8. CASE reason = "none" /\ reason' # "none" /\ UNCHANGED <<at, late, tries>>
  BY <1>1, <1>8
<1>9. CASE at' = "turn" /\ tries' = 0 /\ reason' = "none" /\ late' = [posts |-> 0, tools |-> 0]
  BY <1>1, <1>9
<1> QED
  BY <1>3, <1>4, <1>5, <1>6, <1>7, <1>8, <1>9 DEF LateMoves

(* agent/loop.py:72, 101: after a stop, at most the chat with its tries or   *)
(* the one tool under way goes on, and not one after the other.              *)
THEOREM StopIsSoon == Spec => []StopsSoon
<1>1. LateInv /\ Recording /\ [Next]_vars => LateInv'
  BY StepMoves, LateInvStep DEF Recording
<1>2. LateInv => StopsSoon
  BY DEF LateInv
<1> QED
  BY <1>1, <1>2, LateInvInit, RecordingInit, RecordingStep, PTL DEF Spec

-----------------------------------------------------------------------------
(* Arithmetic *)

(* The powers of two, from the sizes of power sets.                          *)
LEMMA PowersOfTwo ==
    ASSUME NEW n \in Nat
    PROVE  2 ^ n \in Nat /\ 2 ^ n >= 1 /\ 2 ^ (n + 1) = 2 * 2 ^ n
<1> DEFINE x == n + 1
           S == 1 .. n
           P == SUBSET S
           Q == {X \in SUBSET (1 .. x) : x \in X}
           f == [X \in P |-> X \cup {x}]
<1>1. /\ IsFiniteSet(S) /\ Cardinality(S) = n
      /\ IsFiniteSet(1 .. x) /\ Cardinality(1 .. x) = x
  BY FS_Interval
<1>2. IsFiniteSet(P) /\ Cardinality(P) = 2 ^ n /\ Cardinality(SUBSET (1 .. x)) = 2 ^ x
  BY <1>1, FS_SUBSET
<1>3. 1 .. x = S \cup {x} /\ x \notin S
  OBVIOUS
<1>4. SUBSET (1 .. x) = P \cup Q /\ P \cap Q = {}
  BY <1>3
<1>5. IsFiniteSet(Q) /\ Cardinality(Q) = Cardinality(P)
  <2> HIDE DEF x, S
  <2>1. f \in [P -> Q]
    BY <1>3
  <2>2. \A X, Y \in P : f[X] = f[Y] => X = Y
    <3> SUFFICES ASSUME NEW X \in P, NEW Y \in P, X \cup {x} = Y \cup {x}
                 PROVE  X = Y
      OBVIOUS
    <3> QED
      BY <1>3
  <2>3. \A Z \in Q : \E X \in P : f[X] = Z
    <3> SUFFICES ASSUME NEW Z \in Q
                 PROVE  \E X \in P : f[X] = Z
      OBVIOUS
    <3>1. Z \ {x} \in P /\ (Z \ {x}) \cup {x} = Z
      BY <1>3
    <3> QED
      BY <3>1
  <2> HIDE DEF P, Q, f
  <2>4. f \in Bijection(P, Q)
    BY <2>1, <2>2, <2>3, Fun_IsBij
  <2> QED
    BY <1>2, <2>4, FS_Bijection DEF ExistsBijection
<1> HIDE DEF P, Q, f
<1>6. Cardinality(P \cup Q) = Cardinality(P) + Cardinality(Q)
  <2>1. Cardinality(P \cap Q) = 0
    BY <1>4, FS_EmptySet, Zenon
  <2>2. Cardinality(P) \in Nat /\ Cardinality(Q) \in Nat
    BY <1>2, <1>5, FS_CardinalityType
  <2>3. Cardinality(P \cup Q) = Cardinality(P) + Cardinality(Q) - Cardinality(P \cap Q)
    BY <1>2, <1>5, FS_Union
  <2> QED
    BY <1>4, <2>1, <2>2, <2>3
<1>7. Cardinality(P) \in Nat /\ Cardinality(P) # 0
  <2>1. {} \in P
    BY DEF P
  <2> QED
    BY <1>2, <2>1, FS_CardinalityType, FS_EmptySet
<1>8. 2 ^ x = Cardinality(P) + Cardinality(P)
  BY <1>2, <1>4, <1>5, <1>6
<1> QED
  BY <1>2, <1>7, <1>8

LEMMA PowersGrow ==
    ASSUME NEW m \in Nat, NEW n \in Nat, m <= n
    PROVE  2 ^ m <= 2 ^ n
<1>1. /\ IsFiniteSet(1 .. m) /\ Cardinality(1 .. m) = m
      /\ IsFiniteSet(1 .. n) /\ Cardinality(1 .. n) = n
  BY FS_Interval
<1>2. /\ Cardinality(SUBSET (1 .. m)) = 2 ^ m
      /\ IsFiniteSet(SUBSET (1 .. n)) /\ Cardinality(SUBSET (1 .. n)) = 2 ^ n
  BY <1>1, FS_SUBSET
<1>3. SUBSET (1 .. m) \subseteq SUBSET (1 .. n)
  OBVIOUS
<1>4. Cardinality(SUBSET (1 .. m)) <= Cardinality(SUBSET (1 .. n))
  BY <1>2, <1>3, FS_Subset
<1> QED
  BY <1>2, <1>4

LEMMA Multiples ==
    ASSUME NEW k \in Nat, NEW n \in Nat
    PROVE  /\ n * k \in Nat /\ (n + 1) * k = n * k + k
           /\ \A m \in Nat : m <= n => m * k <= n * k
<1>1. n * k \in Nat /\ (n + 1) * k = n * k + k
  BY SMT
<1>2. \A m \in Nat : m <= n => m * k <= n * k
  BY SMT
<1> QED
  BY <1>1, <1>2

-----------------------------------------------------------------------------
(* Types *)

LoopTypes ==
    /\ mode \in {"real", "record", "mock"}
    /\ at \in {"turn", "chat", "calls", "tool", "over"}
    /\ turn \in 0 .. MaxSteps
    /\ at \in {"chat", "calls", "tool"} => turn >= 1
    /\ calls \in Seq(Call) /\ Len(calls) <= MaxCalls /\ next \in 1 .. Len(calls) + 1
    /\ at = "tool" => next <= Len(calls)
    /\ at \in {"turn", "chat"} => calls = <<>> /\ next = 1
    /\ alive \in BOOLEAN
    /\ reason \in {"none", "cancelled", "timeout"}
    /\ outcome \in Verdict \cup Escape \cup {"none"}
    /\ outcome = "none" <=> at # "over"

LEMMA ReplyFacts ==
    ASSUME NEW r \in Reply
    PROVE  /\ r.text \in BOOLEAN /\ r.calls \in Seq(Call)
           /\ Len(r.calls) \in 0 .. MaxCalls /\ DOMAIN r.calls = 1 .. Len(r.calls)
<1>1. PICK n \in 0 .. MaxCalls : r.calls \in [1 .. n -> Call]
  BY DEF Reply
<1>2. r.calls \in Seq(Call) /\ Len(r.calls) = n
  BY <1>1, AgentAssumption
<1> QED
  BY <1>1, <1>2 DEF Reply

LEMMA LoopTypesInit == Init => LoopTypes
  BY AgentAssumption DEF Init, Start, LoopTypes, Verdict, Escape

LEMMA TakeTyped ==
    ASSUME LoopTypes, at = "chat", NEW r \in Reply, Take(r),
           UNCHANGED <<turn, alive, reason, mode>>
    PROVE  LoopTypes'
<1>1. /\ calls' = r.calls /\ next' = 1 /\ calls' \in Seq(Call)
      /\ Len(calls') \in 0 .. MaxCalls /\ r.text \in BOOLEAN
  BY ReplyFacts DEF Take
<1>2. CASE r.calls # <<>>
  BY <1>1, <1>2 DEF Take, LoopTypes
<1>3. CASE r.calls = <<>> /\ r.text
  BY <1>1, <1>3 DEF Take, LoopTypes, End, Verdict
<1>4. CASE r.calls = <<>> /\ ~r.text
  BY <1>1, <1>4 DEF Take, LoopTypes
<1> QED
  BY <1>1, <1>2, <1>3, <1>4

LEMMA LoopTyped ==
    ASSUME LoopTypes, Recording, [Next]_vars
    PROVE  LoopTypes'
<1> USE AgentAssumption DEF End, Stay, loopVars, chatVars, toolVars, stopVars, replayVars
<1>1. CASE BeginTurn
  BY <1>1 DEF BeginTurn, StepLeft, LoopTypes, Verdict, Escape
<1>2. CASE OutOfSteps
  BY <1>2 DEF OutOfSteps, LoopTypes, Verdict
<1>3. CASE PostFails \/ BodyUnreadable
  BY <1>3 DEF PostFails, BodyUnreadable, Post, LoopTypes, Verdict, Escape
<1>4. ASSUME NEW r \in Reply, Answer(r)
      PROVE  LoopTypes'
  <2>1. CASE mode = "record" /\ "malformed" \in ToSet(r.calls)
    BY <1>4, <2>1 DEF Answer, Post, LoopTypes, Escape
  <2>2. CASE ~(mode = "record" /\ "malformed" \in ToSet(r.calls))
    BY <1>4, <2>2, TakeTyped DEF Answer, Post
  <2> QED
    BY <2>1, <2>2
<1>5. CASE Replay
  <2>1. CASE cursor = Len(steps)
    BY <1>5, <2>1 DEF Replay, LoopTypes, Escape
  <2>2. CASE cursor # Len(steps)
    <3>1. steps[cursor + 1] \in Reply /\ Take(steps[cursor + 1])
      BY <1>5, <2>2 DEF Replay, Recording
    <3> QED
      BY <1>5, <2>2, <3>1, TakeTyped DEF Replay
  <2> QED
    BY <2>1, <2>2
<1>6. CASE BeginCall
  BY <1>6 DEF BeginCall, LoopTypes, Escape
<1>7. CASE RunCall
  BY <1>7 DEF RunCall, AnswerCall, Dies, LoopTypes, Escape
<1>8. CASE EndTurn
  BY <1>8 DEF EndTurn, LoopTypes
<1>9. CASE BoxDies
  BY <1>9 DEF BoxDies, LoopTypes
<1>10. CASE StartReplay
  BY <1>10 DEF StartReplay, LoopTypes
<1>11. ASSUME NEW why \in {"cancelled", "timeout"}, Stop(why)
       PROVE  LoopTypes'
  BY <1>11 DEF Stop, LoopTypes
<1>12. CASE Finished \/ UNCHANGED vars
  BY <1>12 DEF Finished, vars, LoopTypes
<1> QED
  BY <1>1, <1>2, <1>3, <1>4, <1>5, <1>6, <1>7, <1>8, <1>9, <1>10, <1>11, <1>12
  DEF Next, Loop

Message == [role : {"user", "assistant", "tool"}, ids : Seq(Id)]
Note == [type : {"message", "final", "call", "result"}, ids : Seq(Id)]

TalkTypes == messages \in Seq(Message) /\ emitted \in Seq(Note)

LEMMA AppendTwo ==
    ASSUME NEW S, NEW s \in Seq(S), NEW a \in S, NEW b \in S
    PROVE  /\ s \o <<a, b>> = Append(Append(s, a), b)
           /\ s \o <<a, b>> \in Seq(S)
<1>1. /\ s \o <<a, b>> \in Seq(S) /\ Append(Append(s, a), b) \in Seq(S)
      /\ Len(s \o <<a, b>>) = Len(s) + 2 /\ Len(Append(Append(s, a), b)) = Len(s) + 2
  OBVIOUS
<1>2. ASSUME NEW i \in 1 .. Len(s) + 2
      PROVE  (s \o <<a, b>>)[i] = Append(Append(s, a), b)[i]
  OBVIOUS
<1> QED
  BY <1>1, <1>2, SMT

LEMMA SayTyped ==
    ASSUME messages \in Seq(Message), NEW role \in {"user", "assistant", "tool"},
           NEW ids \in Seq(Id), Say(role, ids)
    PROVE  messages' \in Seq(Message)
<1> DEFINE m == [role |-> role, ids |-> ids]
<1>1. m \in Message
  BY DEF Message
<1>2. messages' = Append(messages, m)
  BY DEF Say
<1> HIDE DEF m
<1> QED
  BY <1>1, <1>2

LEMMA EmitTyped ==
    ASSUME emitted \in Seq(Note), NEW type \in {"message", "final", "call", "result"},
           NEW ids \in Seq(Id), Emit(type, ids)
    PROVE  emitted' \in Seq(Note)
<1> DEFINE e == [type |-> type, ids |-> ids]
<1>1. e \in Note
  BY DEF Note
<1>2. emitted' = Append(emitted, e)
  BY DEF Emit
<1> HIDE DEF e
<1> QED
  BY <1>1, <1>2

LEMMA IdFacts ==
    ASSUME LoopTypes, at \in {"chat", "calls", "tool"}
    PROVE  /\ <<>> \in Seq(Id)
           /\ at = "tool" => <<turn, next>> \in Id /\ <<<<turn, next>>>> \in Seq(Id)
           /\ at = "calls" /\ next <= Len(calls) =>
                 <<turn, next>> \in Id /\ <<<<turn, next>>>> \in Seq(Id)
           /\ \A r \in Reply : /\ Ids(r.calls) \in Seq(Id) /\ Len(Ids(r.calls)) = Len(r.calls)
                               /\ \A j \in 1 .. Len(r.calls) : Ids(r.calls)[j] = <<turn, j>>
<1>1. turn \in 1 .. MaxSteps
  BY AgentAssumption DEF LoopTypes
<1>2. /\ at = "tool" => <<turn, next>> \in Id
      /\ at = "calls" /\ next <= Len(calls) => <<turn, next>> \in Id
  BY <1>1, AgentAssumption DEF LoopTypes, Id
<1>3. ASSUME NEW r \in Reply
      PROVE  /\ Ids(r.calls) \in Seq(Id) /\ Len(Ids(r.calls)) = Len(r.calls)
             /\ \A j \in 1 .. Len(r.calls) : Ids(r.calls)[j] = <<turn, j>>
  <2>1. Len(r.calls) \in 0 .. MaxCalls /\ DOMAIN r.calls = 1 .. Len(r.calls)
    BY <1>3, ReplyFacts
  <2>2. \A j \in 1 .. Len(r.calls) : <<turn, j>> \in Id
    BY <1>1, <2>1, AgentAssumption DEF Id
  <2>3. Ids(r.calls) \in [1 .. Len(r.calls) -> Id]
    BY <2>1, <2>2 DEF Ids
  <2> QED
    BY <2>1, <2>3, AgentAssumption DEF Ids
<1>4. <<>> \in Seq(Id)
  OBVIOUS
<1>5. \A x \in Id : <<x>> \in Seq(Id)
  OBVIOUS
<1>6. /\ at = "tool" => <<<<turn, next>>>> \in Seq(Id)
      /\ at = "calls" /\ next <= Len(calls) => <<<<turn, next>>>> \in Seq(Id)
  BY <1>2, <1>5
<1> QED
  BY <1>2, <1>3, <1>4, <1>6

LEMMA TakeTalkTyped ==
    ASSUME TalkTypes, LoopTypes, at = "chat", NEW r \in Reply, Take(r)
    PROVE  TalkTypes'
<1>1. <<>> \in Seq(Id) /\ Ids(r.calls) \in Seq(Id)
  BY IdFacts
<1>2. CASE r.calls # <<>>
  <2>1. Say("assistant", Ids(r.calls)) /\ (Emit("message", <<>>) \/ UNCHANGED emitted)
    BY <1>2 DEF Take
  <2> QED
    BY <1>1, <2>1, SayTyped, EmitTyped DEF TalkTypes
<1>3. CASE r.calls = <<>> /\ r.text
  <2>1. Say("assistant", <<>>) /\ Emit("final", <<>>)
    BY <1>3 DEF Take
  <2> QED
    BY <1>1, <2>1, SayTyped, EmitTyped DEF TalkTypes
<1>4. CASE r.calls = <<>> /\ ~r.text
  <2>1. [role |-> "assistant", ids |-> <<>>] \in Message /\ [role |-> "user", ids |-> <<>>] \in Message
    BY <1>1 DEF Message
  <2>2. /\ messages' = messages \o <<[role |-> "assistant", ids |-> <<>>],
                                        [role |-> "user", ids |-> <<>>]>>
        /\ emitted' = emitted
    BY <1>4 DEF Take
  <2>3. messages' \in Seq(Message)
    BY <2>1, <2>2, AppendTwo DEF TalkTypes
  <2> QED
    BY <2>2, <2>3 DEF TalkTypes
<1> QED
  BY <1>2, <1>3, <1>4

LEMMA TalkTyped ==
    ASSUME TalkTypes, LoopTypes, Recording, [Next]_vars
    PROVE  TalkTypes'
<1>1. CASE UNCHANGED <<messages, emitted>>
  BY <1>1 DEF TalkTypes
<1>2. ASSUME NEW r \in Reply, Answer(r)
      PROVE  TalkTypes'
  BY <1>1, <1>2, TakeTalkTyped DEF Answer, Post
<1>3. CASE Replay
  <2>1. CASE cursor = Len(steps)
    BY <1>1, <1>3, <2>1 DEF Replay
  <2>2. CASE cursor # Len(steps)
    <3>1. steps[cursor + 1] \in Reply /\ Take(steps[cursor + 1])
      BY <1>3, <2>2 DEF Replay, Recording
    <3> QED
      BY <1>3, <3>1, TakeTalkTyped DEF Replay
  <2> QED
    BY <2>1, <2>2
<1>4. CASE BeginCall
  <2>1. UNCHANGED messages /\ (Emit("call", <<<<turn, next>>>>) \/ UNCHANGED emitted)
    BY <1>4 DEF BeginCall
  <2> QED
    BY <1>4, <2>1, IdFacts, EmitTyped DEF BeginCall, TalkTypes
<1>5. CASE RunCall
  <2>1. CASE AnswerCall
    BY <1>5, <2>1, IdFacts, SayTyped, EmitTyped DEF RunCall, AnswerCall, TalkTypes
  <2>2. CASE ~AnswerCall
    BY <1>1, <1>5, <2>2 DEF RunCall, Dies
  <2> QED
    BY <2>1, <2>2
<1>6. CASE StartReplay
  <2>1. [role |-> "user", ids |-> <<>>] \in Message
    BY DEF Message
  <2> QED
    BY <1>6, <2>1 DEF StartReplay, TalkTypes
<1>7. CASE \/ BeginTurn \/ OutOfSteps \/ PostFails \/ BodyUnreadable \/ EndTurn \/ BoxDies
           \/ Finished \/ UNCHANGED vars
           \/ \E why \in {"cancelled", "timeout"} : Stop(why)
  BY <1>1, <1>7
  DEF BeginTurn, OutOfSteps, PostFails, BodyUnreadable, EndTurn, BoxDies, Finished, Stop, vars,
      loopVars
<1> QED
  BY <1>2, <1>3, <1>4, <1>5, <1>6, <1>7 DEF Next, Loop

-----------------------------------------------------------------------------
(* What a run asks for and waits.  The pauses of one chat are the powers of  *)
(* two below the last try: before the tries-th they sum up to 2^tries - 1.   *)
Pauses == 2 ^ (MaxRetries - 1) - 1

ToolsCounted ==
    /\ tools \in Nat
    /\ at = "turn" => tools <= turn * MaxCalls
    /\ at = "chat" => tools <= (turn - 1) * MaxCalls
    /\ at \in {"calls", "tool"} => tools <= (turn - 1) * MaxCalls + (next - 1)
    /\ at = "over" => tools <= turn * MaxCalls

PostsCounted ==
    /\ posts \in Nat /\ waited \in Nat
    /\ at = "chat" => /\ posts <= (turn - 1) * MaxRetries + tries
                      /\ waited <= (turn - 1) * Pauses + (2 ^ tries - 1)
    /\ at # "chat" => posts <= turn * MaxRetries /\ waited <= turn * Pauses

(* The products of the counts of a turn, the next and the last.              *)
LEMMA Products ==
    ASSUME LoopTypes, NEW k \in Nat
    PROVE  /\ turn * k \in Nat /\ (turn + 1) * k = turn * k + k
           /\ at \in {"chat", "calls", "tool"} =>
                 (turn - 1) * k \in Nat /\ turn * k = (turn - 1) * k + k
           /\ turn * k <= MaxSteps * k
<1>1. turn \in Nat /\ turn <= MaxSteps /\ MaxSteps \in Nat
  BY AgentAssumption DEF LoopTypes
<1>2. ASSUME at \in {"chat", "calls", "tool"}
      PROVE  (turn - 1) * k \in Nat /\ turn * k = (turn - 1) * k + k
  <2>1. turn - 1 \in Nat /\ turn = (turn - 1) + 1
    BY <1>1, <1>2 DEF LoopTypes
  <2>2. (turn - 1) * k \in Nat /\ ((turn - 1) + 1) * k = (turn - 1) * k + k
    BY <2>1, Multiples
  <2> QED
    BY <2>1, <2>2
<1> QED
  BY <1>1, <1>2, Multiples

LEMMA ToolsCount ==
    ASSUME ToolsCounted, LoopTypes, LoopTypes', Recording, [Next]_vars
    PROVE  ToolsCounted'
<1> DEFINE now == turn * MaxCalls
           before == (turn - 1) * MaxCalls
<1>1. /\ now \in Nat /\ MaxCalls \in Nat
      /\ at \in {"chat", "calls", "tool"} => before \in Nat /\ now = before + MaxCalls
  BY Products, AgentAssumption
<1>2. /\ Len(calls) \in Nat /\ Len(calls) <= MaxCalls /\ next \in 1 .. Len(calls) + 1
      /\ at = "tool" => next <= Len(calls)
      /\ at' \in {"turn", "chat", "calls", "tool", "over"}
  BY DEF LoopTypes
<1>3. /\ tools \in Nat
      /\ at = "turn" => tools <= now
      /\ at = "chat" => tools <= before
      /\ at \in {"calls", "tool"} => tools <= before + (next - 1)
      /\ at = "over" => tools <= now
  BY DEF ToolsCounted
<1>4. ASSUME tools' \in Nat, turn' = turn,
             at' = "turn" => tools' <= now, at' = "chat" => tools' <= before,
             at' \in {"calls", "tool"} => tools' <= before + (next' - 1),
             at' = "over" => tools' <= now
      PROVE  ToolsCounted'
  BY <1>4 DEF ToolsCounted
<1>5. ASSUME at = "chat", UNCHANGED <<turn, tools>>,
             at' = "calls" => next' = 1, at' # "tool"
      PROVE  ToolsCounted'
  <2> HIDE DEF now, before
  <2> QED
    BY <1>1, <1>2, <1>3, <1>4, <1>5
<1> USE DEF End, Stay, loopVars, chatVars, toolVars
<1>6. CASE BeginTurn
  <2>1. CASE reason # "none"
    BY <1>1, <1>2, <1>3, <1>4, <1>6, <2>1 DEF BeginTurn
  <2>2. CASE reason = "none"
    <3>1. at' = "chat" /\ turn' = turn + 1 /\ tools' = tools /\ tools <= now
      BY <1>3, <1>6, <2>2 DEF BeginTurn
    <3>2. turn' - 1 = turn
      BY <3>1 DEF LoopTypes
    <3> QED
      BY <1>3, <3>1, <3>2 DEF ToolsCounted
  <2> QED
    BY <2>1, <2>2
<1>7. CASE OutOfSteps
  BY <1>3, <1>4, <1>7 DEF OutOfSteps
<1>8. CASE PostFails \/ BodyUnreadable
  BY <1>5, <1>8 DEF PostFails, BodyUnreadable, Post
<1>9. ASSUME NEW r \in Reply, Answer(r)
      PROVE  ToolsCounted'
  BY <1>5, <1>9 DEF Answer, Post, Take
<1>10. CASE Replay
  BY <1>5, <1>10 DEF Replay, Take
<1>11. CASE BeginCall \/ EndTurn
  <2>1. /\ at = "calls" /\ UNCHANGED <<turn, tools>>
        /\ at' \in {"turn", "tool", "over"} /\ (at' = "tool" => next' = next)
    BY <1>11 DEF BeginCall, EndTurn
  <2> HIDE DEF now, before
  <2> QED
    BY <1>1, <1>2, <1>3, <1>4, <2>1
<1>12. CASE RunCall
  <2>1. /\ at = "tool" /\ turn' = turn
        /\ tools' = tools \/ tools' = tools + 1
        /\ \/ at' = "calls" /\ next' = next + 1
           \/ at' = "over"
    BY <1>12 DEF RunCall, AnswerCall, Dies
  <2> HIDE DEF now, before
  <2> QED
    BY <1>1, <1>2, <1>3, <1>4, <2>1
<1>13. CASE StartReplay
  <2>1. at' = "turn" /\ turn' = 0 /\ tools' = 0 /\ 0 * MaxCalls = 0
    BY <1>1, <1>13 DEF StartReplay
  <2> QED
    BY <2>1 DEF ToolsCounted
<1>14. CASE BoxDies \/ Finished \/ UNCHANGED vars \/ \E why \in {"cancelled", "timeout"} : Stop(why)
  <2>1. UNCHANGED <<at, turn, next, tools>>
    BY <1>14 DEF BoxDies, Finished, Stop, vars
  <2> QED
    BY <2>1 DEF ToolsCounted
<1> QED
  BY <1>6, <1>7, <1>8, <1>9, <1>10, <1>11, <1>12, <1>13, <1>14 DEF Next, Loop

LEMMA PauseFacts ==
    /\ Pauses \in Nat /\ 2 ^ 0 = 1
    /\ \A n \in Nat : 2 ^ n \in Nat /\ 2 ^ n >= 1 /\ 2 ^ (n + 1) = 2 * 2 ^ n
    /\ \A n \in Nat : n <= MaxRetries - 1 => 2 ^ n - 1 <= Pauses
<1>1. MaxRetries - 1 \in Nat
  BY AgentAssumption
<1>2. \A n \in Nat : n <= MaxRetries - 1 => 2 ^ n <= 2 ^ (MaxRetries - 1)
  BY <1>1, PowersGrow
<1>3. \A n \in Nat : 2 ^ n \in Nat /\ 2 ^ n >= 1 /\ 2 ^ (n + 1) = 2 * 2 ^ n
  BY PowersOfTwo
<1>4. 2 ^ 0 = 1
  OBVIOUS
<1> QED
  BY <1>1, <1>2, <1>3, <1>4 DEF Pauses

LEMMA PostsCount ==
    ASSUME PostsCounted, LoopTypes, LoopTypes', LateTypes, Recording, [Next]_vars
    PROVE  PostsCounted'
<1> DEFINE asked == turn * MaxRetries
           askedBefore == (turn - 1) * MaxRetries
           paused == turn * Pauses
           pausedBefore == (turn - 1) * Pauses
           power == 2 ^ tries
<1>1. /\ asked \in Nat /\ paused \in Nat /\ MaxRetries \in Nat /\ Pauses \in Nat
      /\ at \in {"chat", "calls", "tool"} =>
            /\ askedBefore \in Nat /\ asked = askedBefore + MaxRetries
            /\ pausedBefore \in Nat /\ paused = pausedBefore + Pauses
  BY Products, PauseFacts, AgentAssumption
<1>2. /\ posts \in Nat /\ waited \in Nat
      /\ at = "chat" => posts <= askedBefore + tries /\ waited <= pausedBefore + (power - 1)
      /\ at # "chat" => posts <= asked /\ waited <= paused
  BY DEF PostsCounted
<1>3. /\ tries \in Nat /\ tries <= MaxRetries - 1 /\ power \in Nat /\ power - 1 <= Pauses
      /\ 2 ^ (tries + 1) = 2 * power
  BY PauseFacts DEF LateTypes
<1>4. at = "chat" => posts <= asked /\ waited <= paused
  <2> HIDE DEF asked, askedBefore, paused, pausedBefore, power
  <2> QED
    BY <1>1, <1>2, <1>3
<1>5. ASSUME UNCHANGED turn, at' # "chat", posts' \in Nat, waited' \in Nat,
             posts' <= asked, waited' <= paused
      PROVE  PostsCounted'
  BY <1>5 DEF PostsCounted
<1>6. ASSUME UNCHANGED <<turn, posts, waited>>, at' # "chat"
      PROVE  PostsCounted'
  BY <1>2, <1>4, <1>5, <1>6
<1>7. ASSUME at = "chat", UNCHANGED <<turn, waited>>, posts' = posts + 1, at' # "chat"
      PROVE  PostsCounted'
  <2>1. posts' \in Nat /\ posts' <= asked
    <3> HIDE DEF asked, askedBefore, paused, pausedBefore, power
    <3> QED
      BY <1>1, <1>2, <1>3, <1>7
  <2> QED
    BY <1>2, <1>4, <1>5, <1>7, <2>1
<1> USE DEF End, Stay, loopVars, chatVars, toolVars
<1>8. CASE BeginTurn
  <2>1. CASE reason # "none"
    BY <1>6, <1>8, <2>1 DEF BeginTurn
  <2>2. CASE reason = "none"
    <3>1. /\ at = "turn" /\ at' = "chat" /\ turn' = turn + 1 /\ UNCHANGED <<posts, waited, tries>>
          /\ turn' - 1 = turn /\ tries = 0
      BY <1>8, <2>2 DEF BeginTurn, LoopTypes, LateTypes
    <3>2. posts <= asked + 0 /\ waited <= paused + (1 - 1)
      <4> HIDE DEF asked, paused
      <4> QED
        BY <1>1, <1>2, <3>1
    <3>3. posts' <= (turn' - 1) * MaxRetries + tries'
      BY <3>1, <3>2
    <3>4. waited' <= (turn' - 1) * Pauses + (2 ^ tries' - 1)
      BY <3>1, <3>2, PauseFacts
    <3> QED
      BY <1>2, <3>1, <3>3, <3>4 DEF PostsCounted
  <2> QED
    BY <2>1, <2>2
<1>9. CASE PostFails
  <2>1. at = "chat" /\ posts' = posts + 1 /\ waited' = waited + Pause /\ turn' = turn
    BY <1>9 DEF PostFails, Post
  <2>2. CASE tries = MaxRetries - 1
    <3>1. at' # "chat" /\ Pause = 0
      BY <1>9, <2>2 DEF PostFails, Pause
    <3> QED
      BY <1>2, <1>7, <2>1, <3>1
  <2>3. CASE tries # MaxRetries - 1
    <3>1. at' = "chat" /\ tries' = tries + 1 /\ Pause = power
      BY <1>3, <1>9, <2>1, <2>3, AgentAssumption DEF PostFails, Pause
    <3>2. posts' <= askedBefore + (tries + 1) /\ waited' <= pausedBefore + (2 * power - 1)
      <4> HIDE DEF asked, askedBefore, paused, pausedBefore, power
      <4> QED
        BY <1>1, <1>2, <1>3, <2>1, <3>1
    <3>3. 2 ^ tries' = 2 * power
      BY <1>3, <3>1
    <3>4. posts' \in Nat /\ waited' \in Nat
      BY <1>2, <1>3, <2>1, <3>1
    <3> QED
      BY <2>1, <3>1, <3>2, <3>3, <3>4 DEF PostsCounted
  <2> QED
    BY <2>2, <2>3
<1>10. CASE BodyUnreadable
  BY <1>7, <1>10 DEF BodyUnreadable, Post
<1>11. ASSUME NEW r \in Reply, Answer(r)
       PROVE  PostsCounted'
  BY <1>7, <1>11 DEF Answer, Post, Take
<1>12. CASE Replay
  BY <1>6, <1>12 DEF Replay, Take
<1>13. CASE OutOfSteps \/ BeginCall \/ RunCall \/ EndTurn
  BY <1>6, <1>13 DEF OutOfSteps, BeginCall, RunCall, AnswerCall, Dies, EndTurn
<1>14. CASE StartReplay
  <2>1. at' = "turn" /\ turn' = 0 /\ posts' = 0 /\ waited' = 0
    BY <1>14 DEF StartReplay
  <2>2. 0 * MaxRetries = 0 /\ 0 * Pauses = 0
    BY <1>1
  <2> QED
    BY <2>1, <2>2 DEF PostsCounted
<1>15. CASE BoxDies \/ Finished \/ UNCHANGED vars \/ \E why \in {"cancelled", "timeout"} : Stop(why)
  <2>1. UNCHANGED <<at, turn, tries, posts, waited>>
    BY <1>15 DEF BoxDies, Finished, Stop, vars
  <2> QED
    BY <2>1 DEF PostsCounted
<1> QED
  BY <1>8, <1>9, <1>10, <1>11, <1>12, <1>13, <1>14, <1>15 DEF Next, Loop

-----------------------------------------------------------------------------
AgentInv ==
    /\ LateInv /\ Recording /\ LoopTypes /\ TalkTypes
    /\ ToolsCounted /\ PostsCounted

LEMMA AgentInvInit == Init => AgentInv
<1> SUFFICES ASSUME Init
             PROVE  AgentInv
  OBVIOUS
<1>1. LateInv /\ Recording /\ LoopTypes
  BY LateInvInit, RecordingInit, LoopTypesInit
<1>2. TalkTypes
  <2>1. [role |-> "user", ids |-> <<>>] \in Message
    BY DEF Message
  <2> QED
    BY <2>1 DEF Init, Start, TalkTypes
<1>3. 0 * MaxCalls = 0 /\ 0 * MaxRetries = 0 /\ 0 * Pauses = 0
  BY AgentAssumption, PauseFacts
<1>4. ToolsCounted /\ PostsCounted
  BY <1>3 DEF Init, Start, ToolsCounted, PostsCounted
<1> QED
  BY <1>1, <1>2, <1>4 DEF AgentInv

LEMMA AgentInvStep == AgentInv /\ [Next]_vars => AgentInv'
<1> SUFFICES ASSUME AgentInv, [Next]_vars
             PROVE  AgentInv'
  OBVIOUS
<1> USE DEF AgentInv
<1>1. LateInv' /\ Recording'
  BY StepMoves, LateInvStep, RecordingStep DEF Recording
<1>2. LoopTypes' /\ TalkTypes'
  BY LoopTyped, TalkTyped
<1>3. ToolsCounted' /\ PostsCounted'
  BY <1>2, ToolsCount, PostsCount DEF LateInv
<1> QED
  BY <1>1, <1>2, <1>3

LEMMA AgentInvariant == Spec => []AgentInv
  BY AgentInvInit, AgentInvStep, PTL DEF Spec

(* Every turn that has begun adds at most its own calls.                     *)
LEMMA ToolsOfTurns == AgentInv => tools <= turn * MaxCalls
<1> SUFFICES ASSUME AgentInv
             PROVE  tools <= turn * MaxCalls
  OBVIOUS
<1> DEFINE now == turn * MaxCalls
           before == (turn - 1) * MaxCalls
<1>1. now \in Nat /\ MaxCalls \in Nat
  BY Products, AgentAssumption DEF AgentInv
<1>2. at \in {"chat", "calls", "tool"} => before \in Nat /\ now = before + MaxCalls
  BY Products, AgentAssumption DEF AgentInv
<1>3. /\ tools \in Nat
      /\ at \in {"turn", "over"} => tools <= now
      /\ at = "chat" => tools <= before
      /\ at \in {"calls", "tool"} => tools <= before + (next - 1)
  BY DEF AgentInv, ToolsCounted
<1>4. /\ at \in {"turn", "chat", "calls", "tool", "over"}
      /\ Len(calls) \in Nat /\ Len(calls) <= MaxCalls /\ next \in 1 .. Len(calls) + 1
  BY DEF AgentInv, LoopTypes
<1> HIDE DEF now, before
<1>5. tools <= now
  BY <1>1, <1>2, <1>3, <1>4
<1> QED
  BY <1>5 DEF now

(* The types of run_agent and of chat; among them that no run calls tools    *)
(* more often than max_steps replies have room for.                          *)
THEOREM AgentTypesHold == Spec => []AgentTypeOK
<1>1. AgentInv => AgentTypeOK
  <2> SUFFICES ASSUME AgentInv
               PROVE  AgentTypeOK
    OBVIOUS
  <2>1. tools \in 0 .. MaxSteps * MaxCalls
    <3>1. /\ turn * MaxCalls \in Nat /\ turn * MaxCalls <= MaxSteps * MaxCalls
          /\ MaxSteps * MaxCalls \in Nat /\ tools \in Nat
      BY Products, Multiples, AgentAssumption DEF AgentInv, ToolsCounted
    <3> DEFINE now == turn * MaxCalls
               all == MaxSteps * MaxCalls
    <3> HIDE DEF now, all
    <3>2. tools <= now /\ now <= all /\ now \in Nat /\ all \in Nat
      BY <3>1, ToolsOfTurns DEF now, all
    <3>3. tools \in 0 .. all
      BY <3>1, <3>2
    <3> QED
      BY <3>3 DEF all
  <2>2. (outcome = "none") = (at # "over")
    BY DEF AgentInv, LoopTypes
  <2>3. messages \in Seq([role : {"user", "assistant", "tool"}, ids : Seq(Id)])
    BY DEF AgentInv, TalkTypes, Message
  <2>4. emitted \in Seq([type : {"message", "final", "call", "result"}, ids : Seq(Id)])
    BY DEF AgentInv, TalkTypes, Note
  <2>5. tries \in 0 .. MaxRetries - 1 /\ late \in [posts : Nat, tools : Nat]
    BY AgentAssumption DEF AgentInv, LateInv, LateTypes
  <2> QED
    BY <2>1, <2>2, <2>3, <2>4, <2>5
    DEF AgentInv, LoopTypes, Recording, PostsCounted, AgentTypeOK
<1> QED
  BY <1>1, AgentInvariant, PTL

(* agent/llm.py:61-75: a turn posts at most max_retries times, and pauses    *)
(* 1, 2, 4, ... times backoff_base before every further try; and it starts   *)
(* each call of the reply it got at most once, and none of a lost reply.     *)
THEOREM RunsWithinBudget == Spec => []BudgetKept
<1>1. AgentInv => BudgetKept
  <2> SUFFICES ASSUME AgentInv
               PROVE  posts <= turn * MaxRetries /\ waited <= turn * Pauses
    BY ToolsOfTurns DEF BudgetKept, Pauses
  <2> DEFINE asked == turn * MaxRetries
             askedBefore == (turn - 1) * MaxRetries
             paused == turn * Pauses
             pausedBefore == (turn - 1) * Pauses
             power == 2 ^ tries
  <2>1. CASE at = "chat"
    <3>1. /\ askedBefore \in Nat /\ asked = askedBefore + MaxRetries /\ MaxRetries \in Nat
          /\ pausedBefore \in Nat /\ paused = pausedBefore + Pauses /\ Pauses \in Nat
      BY <2>1, Products, PauseFacts, AgentAssumption DEF AgentInv
    <3>2. /\ posts \in Nat /\ posts <= askedBefore + tries
          /\ waited \in Nat /\ waited <= pausedBefore + (power - 1)
      BY <2>1 DEF AgentInv, PostsCounted
    <3>3. tries \in Nat /\ tries <= MaxRetries - 1 /\ power \in Nat /\ power - 1 <= Pauses
      BY PauseFacts DEF AgentInv, LateInv, LateTypes
    <3> HIDE DEF asked, askedBefore, paused, pausedBefore, power
    <3>4. posts <= asked /\ waited <= paused
      BY <3>1, <3>2, <3>3
    <3> QED
      BY <3>4 DEF asked, paused
  <2>2. CASE at # "chat"
    BY <2>2 DEF AgentInv, PostsCounted
  <2> QED
    BY <2>1, <2>2
<1> QED
  BY <1>1, AgentInvariant, PTL

-----------------------------------------------------------------------------
(* The transcript *)

(* The assistant message at i is followed by the answers to its calls.       *)
AnsweredAt(i) ==
    \A j \in DOMAIN messages[i].ids :
        /\ i + j \in DOMAIN messages
        /\ messages[i + j] = [role |-> "tool", ids |-> <<messages[i].ids[j]>>]

AnsweredUpTo(n) == \A i \in 1 .. n : messages[i].role = "assistant" => AnsweredAt(i)

(* The message whose calls are being run, and what was answered so far.      *)
Asking == Len(messages) - (next - 1)

Open ==
    /\ Asking >= 1
    /\ messages[Asking] = [role |-> "assistant", ids |-> Ids(calls)]
    /\ \A j \in 1 .. next - 1 : messages[Asking + j] = [role |-> "tool", ids |-> <<<<turn, j>>>>]
    /\ AnsweredUpTo(Asking - 1)

(* Every answer belongs to a call before it.                                 *)
Owned ==
    \A k \in DOMAIN messages : messages[k].role = "tool" =>
        \E i \in 1 .. k - 1 : messages[i].role = "assistant" /\ k - i \in DOMAIN messages[i].ids

TalkInv ==
    /\ Owned
    /\ at \in {"calls", "tool"} => Open
    /\ at \in {"turn", "chat"} \/ outcome \in Verdict => AnsweredUpTo(Len(messages))

(* Where the run stands among its calls; the call under way is not answered. *)
Here == IF at = "turn" THEN <<turn + 1, 1>> ELSE <<turn, next>>
UnderWay == IF at = "tool" THEN {<<turn, next>>} ELSE {}

BookInv ==
    at # "over" \/ outcome \in Verdict =>
        /\ InOrder(messages, Answers)
        /\ InOrder(emitted, Told("call")) /\ InOrder(emitted, Told("result"))
        /\ IdsAt(messages, Answers) \subseteq Id
        /\ IdsAt(emitted, Told("result")) = IdsAt(messages, Answers)
        /\ IdsAt(emitted, Told("call")) = IdsAt(messages, Answers) \cup UnderWay
        /\ at # "over" => \A x \in IdsAt(messages, Answers) : Earlier(x, Here)

(* The transcript goes on.                                                   *)
Extended ==
    /\ messages \in Seq(Message) /\ messages' \in Seq(Message)
    /\ Len(messages) <= Len(messages')
    /\ \A i \in 1 .. Len(messages) : messages'[i] = messages[i]

LEMMA SayExtends ==
    ASSUME messages \in Seq(Message), NEW role \in {"user", "assistant", "tool"},
           NEW ids \in Seq(Id), Say(role, ids)
    PROVE  /\ Extended /\ Len(messages') = Len(messages) + 1 /\ Len(messages) \in Nat
           /\ messages'[Len(messages) + 1] = [role |-> role, ids |-> ids]
<1> DEFINE m == [role |-> role, ids |-> ids]
<1>1. m \in Message /\ messages' = Append(messages, m)
  BY DEF Message, Say
<1> HIDE DEF m
<1>2. /\ messages' \in Seq(Message) /\ Len(messages') = Len(messages) + 1 /\ Len(messages) \in Nat
      /\ \A i \in 1 .. Len(messages) : messages'[i] = messages[i]
      /\ messages'[Len(messages) + 1] = m
  BY <1>1
<1> QED
  BY <1>2 DEF Extended, m

LEMMA AnsweredStays ==
    ASSUME Extended
    PROVE  \A n \in 0 .. Len(messages) : AnsweredUpTo(n) =>
              \A i \in 1 .. n : messages'[i].role = "assistant" => AnsweredAt(i)'
<1>1. /\ DOMAIN messages = 1 .. Len(messages) /\ DOMAIN messages' = 1 .. Len(messages')
      /\ Len(messages) \in Nat /\ Len(messages') \in Nat
  BY DEF Extended
<1> SUFFICES ASSUME NEW n \in 0 .. Len(messages), AnsweredUpTo(n), NEW i \in 1 .. n,
                    messages'[i].role = "assistant", NEW j \in DOMAIN messages'[i].ids
             PROVE  /\ i + j \in DOMAIN messages'
                    /\ messages'[i + j] = [role |-> "tool", ids |-> <<messages'[i].ids[j]>>]
  BY DEF AnsweredAt
<1>2. messages'[i] = messages[i]
  BY <1>1 DEF Extended
<1>3. i + j \in 1 .. Len(messages) /\ messages[i + j] = [role |-> "tool", ids |-> <<messages[i].ids[j]>>]
  BY <1>1, <1>2 DEF AnsweredUpTo, AnsweredAt
<1>4. messages'[i + j] = messages[i + j] /\ i + j \in 1 .. Len(messages')
  BY <1>1, <1>3 DEF Extended
<1> QED
  BY <1>1, <1>2, <1>3, <1>4

LEMMA OwnedStays ==
    ASSUME Extended, Owned,
           \A k \in Len(messages) + 1 .. Len(messages') : messages'[k].role = "tool" =>
               \E i \in 1 .. k - 1 : /\ messages'[i].role = "assistant"
                                     /\ k - i \in DOMAIN messages'[i].ids
    PROVE  Owned'
<1>1. /\ DOMAIN messages = 1 .. Len(messages) /\ DOMAIN messages' = 1 .. Len(messages')
      /\ Len(messages) \in Nat /\ Len(messages') \in Nat
  BY DEF Extended
<1> SUFFICES ASSUME NEW k \in 1 .. Len(messages), messages'[k].role = "tool"
             PROVE  \E i \in 1 .. k - 1 : /\ messages'[i].role = "assistant"
                                          /\ k - i \in DOMAIN messages'[i].ids
  BY <1>1 DEF Owned
<1>2. PICK i \in 1 .. k - 1 : messages[i].role = "assistant" /\ k - i \in DOMAIN messages[i].ids
  BY <1>1 DEF Extended, Owned
<1>3. messages'[i] = messages[i]
  BY <1>1 DEF Extended
<1> QED
  BY <1>2, <1>3

(* What a reply leaves in the transcript.                                    *)
LEMMA TakeTalks ==
    ASSUME TalkInv, TalkTypes, LoopTypes, at = "chat", NEW r \in Reply, Take(r), UNCHANGED turn
    PROVE  TalkInv'
<1>1. /\ <<>> \in Seq(Id) /\ Ids(r.calls) \in Seq(Id)
      /\ messages \in Seq(Message) /\ Len(messages) \in Nat
      /\ Owned /\ AnsweredUpTo(Len(messages))
  BY IdFacts DEF TalkTypes, TalkInv
<1>2. CASE r.calls # <<>>
  <2>1. Say("assistant", Ids(r.calls)) /\ at' = "calls" /\ next' = 1 /\ calls' = r.calls
        /\ outcome' = outcome /\ outcome = "none"
    BY <1>2 DEF Take, LoopTypes
  <2>2. /\ Extended /\ Len(messages') = Len(messages) + 1
        /\ messages'[Len(messages) + 1] = [role |-> "assistant", ids |-> Ids(r.calls)]
    BY <1>1, <2>1, SayExtends
  <2>3. Owned'
    BY <1>1, <2>2, OwnedStays
  <2>4. Ids(calls)' = Ids(r.calls)
    BY <2>1 DEF Ids
  <2>5. Asking' = Len(messages) + 1
    BY <1>1, <2>1, <2>2 DEF Asking
  <2>6. \A i \in 1 .. Len(messages) : messages'[i].role = "assistant" => AnsweredAt(i)'
    BY <1>1, <2>2, AnsweredStays
  <2>7. AnsweredUpTo(Asking - 1)'
    BY <1>1, <2>5, <2>6 DEF AnsweredUpTo
  <2>8. Open'
    BY <1>1, <2>1, <2>2, <2>4, <2>5, <2>7 DEF Open
  <2> QED
    BY <2>1, <2>3, <2>8 DEF TalkInv, Verdict
<1>3. CASE r.calls = <<>> /\ r.text
  <2>1. Say("assistant", <<>>) /\ at' = "over"
    BY <1>3 DEF Take, End
  <2>2. /\ Extended /\ Len(messages') = Len(messages) + 1
        /\ messages'[Len(messages) + 1] = [role |-> "assistant", ids |-> <<>>]
    BY <1>1, <2>1, SayExtends
  <2>3. Owned'
    BY <1>1, <2>2, OwnedStays
  <2>4. \A i \in 1 .. Len(messages) : messages'[i].role = "assistant" => AnsweredAt(i)'
    BY <1>1, <2>2, AnsweredStays
  <2>5. \A i : i = Len(messages) + 1 => AnsweredAt(i)'
    <3>1. DOMAIN messages'[Len(messages) + 1].ids = {}
      BY <2>2
    <3> QED
      BY <2>2, <3>1 DEF AnsweredAt
  <2>6. AnsweredUpTo(Len(messages))'
    BY <1>1, <2>2, <2>4, <2>5 DEF AnsweredUpTo
  <2> QED
    BY <2>1, <2>3, <2>6 DEF TalkInv
<1>4. CASE r.calls = <<>> /\ ~r.text
  <2> DEFINE a == [role |-> "assistant", ids |-> <<>>]
             u == [role |-> "user", ids |-> <<>>]
  <2>1. messages' = messages \o <<a, u>> /\ at' = "turn"
    BY <1>4 DEF Take
  <2>2. a \in Message /\ u \in Message /\ a.ids = <<>> /\ a.role = "assistant" /\ u.role = "user"
    BY <1>1 DEF Message
  <2> HIDE DEF a, u
  <2>3. /\ Extended /\ Len(messages') = Len(messages) + 2
        /\ messages'[Len(messages) + 1] = a /\ messages'[Len(messages) + 2] = u
    BY <1>1, <2>1, <2>2, AppendTwo DEF Extended
  <2>4. Owned'
    <3>1. \A k \in Len(messages) + 1 .. Len(messages') :
             k = Len(messages) + 1 \/ k = Len(messages) + 2
      BY <1>1, <2>3
    <3>2. \A k \in Len(messages) + 1 .. Len(messages') : messages'[k].role # "tool"
      BY <2>2, <2>3, <3>1
    <3> QED
      BY <1>1, <2>3, <3>2, OwnedStays
  <2>5. \A i \in 1 .. Len(messages) : messages'[i].role = "assistant" => AnsweredAt(i)'
    BY <1>1, <2>3, AnsweredStays
  <2>6. \A i : i = Len(messages) + 1 => AnsweredAt(i)'
    BY <2>2, <2>3 DEF AnsweredAt
  <2>7. AnsweredUpTo(Len(messages))'
    <3> DEFINE n == Len(messages)
    <3>1. \A i \in 1 .. n + 2 : i \in 1 .. n \/ i = n + 1 \/ i = n + 2
      BY <1>1
    <3>2. messages'[n + 2].role # "assistant"
      BY <2>2, <2>3
    <3> HIDE DEF n
    <3>3. \A i \in 1 .. n + 2 : messages'[i].role = "assistant" => AnsweredAt(i)'
      BY <2>5, <2>6, <3>1, <3>2 DEF n
    <3> QED
      BY <2>3, <3>3 DEF AnsweredUpTo, n
  <2> QED
    BY <2>1, <2>4, <2>7 DEF TalkInv
<1> QED
  BY <1>2, <1>3, <1>4

LEMMA TalkInvStep ==
    ASSUME TalkInv, TalkTypes, LoopTypes, Recording, [Next]_vars
    PROVE  TalkInv'
<1> USE DEF End, Stay, loopVars, chatVars, toolVars, stopVars, replayVars
<1>1. /\ Len(messages) \in Nat /\ Len(calls) \in Nat /\ next \in 1 .. Len(calls) + 1
      /\ DOMAIN messages = 1 .. Len(messages) /\ DOMAIN calls = 1 .. Len(calls)
  BY DEF TalkTypes, LoopTypes
<1>2. ASSUME UNCHANGED <<messages, turn, calls, next>>,
             at' \in {"calls", "tool"} => at \in {"calls", "tool"},
             at' \in {"turn", "chat"} \/ outcome' \in Verdict
                => at \in {"turn", "chat"} \/ outcome \in Verdict
      PROVE  TalkInv'
  BY <1>2
  DEF TalkInv, Owned, Open, Asking, AnsweredUpTo, AnsweredAt, Ids
<1>3. CASE BeginTurn
  BY <1>3 DEF BeginTurn, TalkInv, Owned, AnsweredUpTo, AnsweredAt, Verdict, LoopTypes
<1>4. CASE OutOfSteps \/ PostFails \/ BodyUnreadable
  BY <1>2, <1>4 DEF OutOfSteps, PostFails, BodyUnreadable, Post
<1>5. ASSUME NEW r \in Reply, Answer(r)
      PROVE  TalkInv'
  <2>1. CASE mode = "record" /\ "malformed" \in ToSet(r.calls)
    BY <1>2, <1>5, <2>1 DEF Answer, Post
  <2>2. CASE ~(mode = "record" /\ "malformed" \in ToSet(r.calls))
    BY <1>5, <2>2, TakeTalks DEF Answer, Post
  <2> QED
    BY <2>1, <2>2
<1>6. CASE Replay
  <2>1. CASE cursor = Len(steps)
    BY <1>2, <1>6, <2>1 DEF Replay
  <2>2. CASE cursor # Len(steps)
    <3>1. steps[cursor + 1] \in Reply /\ Take(steps[cursor + 1])
      BY <1>6, <2>2 DEF Replay, Recording
    <3> QED
      BY <1>6, <3>1, TakeTalks DEF Replay
  <2> QED
    BY <2>1, <2>2
<1>7. CASE BeginCall
  BY <1>2, <1>7 DEF BeginCall, Verdict
<1>8. CASE RunCall
  <2>1. CASE AnswerCall
    <3> DEFINE id == <<turn, next>>
               p == Asking
    <3>1. /\ at = "tool" /\ at' = "calls" /\ Say("tool", <<id>>) /\ UNCHANGED <<turn, calls>>
          /\ next' = next + 1 /\ outcome' = "none" /\ next \in 1 .. Len(calls)
      BY <1>1, <1>8, <2>1 DEF RunCall, AnswerCall, LoopTypes
    <3>2. /\ Extended /\ Len(messages') = Len(messages) + 1
          /\ messages'[Len(messages) + 1] = [role |-> "tool", ids |-> <<id>>]
      BY <3>1, IdFacts, SayExtends DEF TalkTypes
    <3>3. /\ p \in 1 .. Len(messages) /\ Asking' = p /\ p + next = Len(messages) + 1
          /\ messages[p] = [role |-> "assistant", ids |-> Ids(calls)]
          /\ \A j \in 1 .. next - 1 : messages[p + j] = [role |-> "tool", ids |-> <<<<turn, j>>>>]
          /\ AnsweredUpTo(p - 1)
      BY <1>1, <3>1, <3>2 DEF TalkInv, Open, Asking
    <3> HIDE DEF p, id
    <3>4. messages'[p] = [role |-> "assistant", ids |-> Ids(calls)] /\ DOMAIN Ids(calls) = DOMAIN calls
      BY <1>1, <3>2, <3>3 DEF Extended, Ids
    <3>5. Owned'
      <4>1. ASSUME NEW k \in Len(messages) + 1 .. Len(messages')
            PROVE  \E i \in 1 .. k - 1 : /\ messages'[i].role = "assistant"
                                         /\ k - i \in DOMAIN messages'[i].ids
        <5>1. k = p + next /\ k - p = next /\ p \in 1 .. k - 1
          BY <1>1, <3>1, <3>2, <3>3, <4>1
        <5>2. /\ messages'[p].role = "assistant" /\ messages'[p].ids = Ids(calls)
              /\ DOMAIN Ids(calls) = 1 .. Len(calls)
          BY <1>1, <3>4
        <5>3. k - p \in DOMAIN messages'[p].ids
          BY <3>1, <5>1, <5>2
        <5> QED
          BY <5>1, <5>2, <5>3
      <4> QED
        BY <3>2, <4>1, OwnedStays DEF TalkInv
    <3>6. \A j \in 1 .. next : messages'[p + j] = [role |-> "tool", ids |-> <<<<turn, j>>>>]
      <4> SUFFICES ASSUME NEW j \in 1 .. next
                   PROVE  messages'[p + j] = [role |-> "tool", ids |-> <<<<turn, j>>>>]
        OBVIOUS
      <4>1. CASE j = next
        BY <3>2, <3>3, <4>1 DEF id
      <4>2. CASE j # next
        <5>1. j \in 1 .. next - 1 /\ p + j \in 1 .. Len(messages)
          BY <1>1, <3>3, <4>2
        <5> QED
          BY <3>2, <3>3, <5>1 DEF Extended
      <4> QED
        BY <4>1, <4>2
    <3>7. AnsweredUpTo(Asking - 1)'
      <4>1. p - 1 \in 0 .. Len(messages)
        BY <1>1, <3>3
      <4>2. \A i \in 1 .. p - 1 : messages'[i].role = "assistant" => AnsweredAt(i)'
        BY <3>2, <3>3, <4>1, AnsweredStays
      <4> QED
        BY <3>3, <4>2 DEF AnsweredUpTo
    <3>8. Ids(calls)' = Ids(calls)
      BY <3>1 DEF Ids
    <3>9. Open'
      <4>1. next' - 1 = next
        BY <1>1, <3>1
      <4> QED
        BY <1>1, <3>1, <3>3, <3>4, <3>6, <3>7, <3>8, <4>1 DEF Open
    <3> QED
      BY <3>1, <3>5, <3>9 DEF TalkInv, Verdict
  <2>2. CASE ~AnswerCall
    BY <1>2, <1>8, <2>2 DEF RunCall, Dies, Verdict
  <2> QED
    BY <2>1, <2>2
<1>9. CASE EndTurn
  <2> DEFINE p == Asking
  <2>1. /\ at = "calls" /\ at' = "turn" /\ next = Len(calls) + 1 /\ UNCHANGED <<messages, outcome>>
    BY <1>1, <1>9 DEF EndTurn
  <2>2. /\ p \in 1 .. Len(messages) /\ p + Len(calls) = Len(messages)
        /\ messages[p] = [role |-> "assistant", ids |-> Ids(calls)]
        /\ \A j \in 1 .. Len(calls) : messages[p + j] = [role |-> "tool", ids |-> <<<<turn, j>>>>]
        /\ AnsweredUpTo(p - 1) /\ Owned
    BY <1>1, <2>1 DEF TalkInv, Open, Asking
  <2> HIDE DEF p
  <2>3. AnsweredAt(p)
    <3>1. \A j \in DOMAIN Ids(calls) : j \in 1 .. Len(calls) /\ Ids(calls)[j] = <<turn, j>>
      BY <1>1 DEF Ids
    <3> QED
      BY <1>1, <2>2, <3>1 DEF AnsweredAt
  <2>4. \A i \in p + 1 .. Len(messages) : messages[i].role = "tool"
    <3> SUFFICES ASSUME NEW i \in p + 1 .. Len(messages)
                 PROVE  messages[i].role = "tool"
      OBVIOUS
    <3> DEFINE j == i - p
    <3>1. j \in 1 .. Len(calls) /\ p + j = i
      BY <1>1, <2>2
    <3> HIDE DEF j
    <3>2. messages[p + j] = [role |-> "tool", ids |-> <<<<turn, j>>>>]
      BY <2>2, <3>1
    <3> QED
      BY <3>1, <3>2
  <2>5. AnsweredUpTo(Len(messages))
    <3> SUFFICES ASSUME NEW i \in 1 .. Len(messages), messages[i].role = "assistant"
                 PROVE  AnsweredAt(i)
      BY DEF AnsweredUpTo
    <3>1. i \in 1 .. p - 1 \/ i = p
      BY <1>1, <2>2, <2>4
    <3> QED
      BY <2>2, <2>3, <3>1 DEF AnsweredUpTo
  <2> QED
    BY <2>1, <2>2, <2>5 DEF TalkInv, Owned, AnsweredUpTo, AnsweredAt
<1>10. CASE StartReplay
  <2>1. messages' = <<[role |-> "user", ids |-> <<>>]>> /\ at' = "turn"
    BY <1>10 DEF StartReplay
  <2> QED
    BY <2>1 DEF TalkInv, Owned, AnsweredUpTo
<1>11. CASE BoxDies \/ Finished \/ UNCHANGED vars \/ \E why \in {"cancelled", "timeout"} : Stop(why)
  <2>1. UNCHANGED <<messages, turn, calls, next, at, outcome>>
    BY <1>11 DEF BoxDies, Finished, Stop, vars
  <2> QED
    BY <1>2, <2>1
<1> QED
  BY <1>3, <1>4, <1>5, <1>6, <1>7, <1>8, <1>9, <1>10, <1>11 DEF Next, Loop

-----------------------------------------------------------------------------
(* The calls that transcript and events tell of.                             *)
LEMMA PlacesStay ==
    ASSUME NEW s, NEW t, NEW I, \A i \in I : t[i] = s[i]
    PROVE  (InOrder(s, I) => InOrder(t, I)) /\ IdsAt(t, I) = IdsAt(s, I)
BY DEF InOrder, IdsAt

(* Only the answer of a tool adds to the answers.                            *)
LEMMA AnswersStay ==
    ASSUME Extended, \A k \in Len(messages) + 1 .. Len(messages') : messages'[k].role # "tool"
    PROVE  /\ InOrder(messages, Answers) => InOrder(messages, Answers)'
           /\ IdsAt(messages, Answers)' = IdsAt(messages, Answers)
<1>1. /\ DOMAIN messages = 1 .. Len(messages) /\ DOMAIN messages' = 1 .. Len(messages')
      /\ Len(messages) \in Nat /\ Len(messages') \in Nat
  BY DEF Extended
<1>2. Answers' = Answers
  BY <1>1 DEF Answers, Extended
<1>3. \A i \in Answers : messages'[i] = messages[i]
  BY <1>1 DEF Answers, Extended
<1>4. /\ InOrder(messages, Answers) => InOrder(messages', Answers)
      /\ IdsAt(messages', Answers) = IdsAt(messages, Answers)
  BY <1>3, PlacesStay
<1> QED
  BY <1>2, <1>4

LEMMA AnswersGrow ==
    ASSUME messages \in Seq(Message), InOrder(messages, Answers), NEW id \in Id,
           Say("tool", <<id>>), \A x \in IdsAt(messages, Answers) : Earlier(x, id)
    PROVE  /\ InOrder(messages, Answers)'
           /\ IdsAt(messages, Answers)' = IdsAt(messages, Answers) \cup {id}
<1> DEFINE n == Len(messages)
           k == n + 1
<1>1. /\ DOMAIN messages = 1 .. n /\ DOMAIN messages' = 1 .. k /\ n \in Nat
      /\ \A i \in 1 .. n : messages'[i] = messages[i]
      /\ messages'[k] = [role |-> "tool", ids |-> <<id>>]
  <2>1. <<id>> \in Seq(Id)
    OBVIOUS
  <2>2. /\ DOMAIN messages = 1 .. Len(messages) /\ DOMAIN messages' = 1 .. Len(messages) + 1
        /\ Len(messages) \in Nat
        /\ \A i \in 1 .. Len(messages) : messages'[i] = messages[i]
        /\ messages'[Len(messages) + 1] = [role |-> "tool", ids |-> <<id>>]
    <3>1. /\ Extended /\ Len(messages') = Len(messages) + 1 /\ Len(messages) \in Nat
          /\ messages'[Len(messages) + 1] = [role |-> "tool", ids |-> <<id>>]
      BY <2>1, SayExtends
    <3> QED
      BY <3>1 DEF Extended
  <2> QED
    BY <2>2
<1> HIDE DEF n
<1>2. /\ Answers' = Answers \cup {k} /\ Answers \in SUBSET Nat /\ k \in Nat
      /\ \A i \in Answers : i < k /\ messages'[i] = messages[i]
  BY <1>1 DEF Answers
<1>3. messages'[k].ids[1] = id
  BY <1>1
<1> HIDE DEF k
<1>4. InOrder(messages', Answers \cup {k})
  <2>1. ASSUME NEW i \in Answers \cup {k}, NEW j \in Answers \cup {k}, i < j
        PROVE  Earlier(messages'[i].ids[1], messages'[j].ids[1])
    <3>1. i \in Answers /\ messages'[i] = messages[i]
      BY <1>2, <2>1
    <3>2. CASE j \in Answers
      BY <1>2, <2>1, <3>1, <3>2 DEF InOrder
    <3>3. CASE j = k
      BY <1>3, <3>1, <3>3 DEF IdsAt
    <3> QED
      BY <2>1, <3>2, <3>3
  <2> QED
    BY <2>1 DEF InOrder
<1>5. IdsAt(messages', Answers \cup {k}) = IdsAt(messages, Answers) \cup {id}
  <2>1. \A i \in Answers : messages'[i].ids[1] = messages[i].ids[1]
    BY <1>2
  <2>2. IdsAt(messages', Answers) = IdsAt(messages, Answers)
    BY <2>1 DEF IdsAt
  <2>3. IdsAt(messages', Answers \cup {k}) = IdsAt(messages', Answers) \cup {messages'[k].ids[1]}
    BY DEF IdsAt
  <2> QED
    BY <1>3, <2>2, <2>3
<1> QED
  BY <1>2, <1>4, <1>5

LEMMA EmitExtends ==
    ASSUME emitted \in Seq(Note), NEW type \in {"message", "final", "call", "result"},
           NEW ids \in Seq(Id), Emit(type, ids)
    PROVE  /\ DOMAIN emitted = 1 .. Len(emitted) /\ DOMAIN emitted' = 1 .. Len(emitted) + 1
           /\ Len(emitted) \in Nat
           /\ \A i \in 1 .. Len(emitted) : emitted'[i] = emitted[i]
           /\ emitted'[Len(emitted) + 1] = [type |-> type, ids |-> ids]
<1> DEFINE e == [type |-> type, ids |-> ids]
<1>1. e \in Note /\ emitted' = Append(emitted, e)
  BY DEF Note, Emit
<1> HIDE DEF e
<1>2. /\ emitted' \in Seq(Note) /\ Len(emitted') = Len(emitted) + 1 /\ Len(emitted) \in Nat
      /\ \A i \in 1 .. Len(emitted) : emitted'[i] = emitted[i]
      /\ emitted'[Len(emitted) + 1] = e
  BY <1>1
<1> QED
  BY <1>2 DEF e

LEMMA ToldStays ==
    ASSUME emitted \in Seq(Note), NEW type \in {"message", "final", "call", "result"},
           NEW ids \in Seq(Id), Emit(type, ids), NEW other, other # type
    PROVE  /\ InOrder(emitted, Told(other)) => InOrder(emitted, Told(other))'
           /\ IdsAt(emitted, Told(other))' = IdsAt(emitted, Told(other))
<1>1. Told(other)' = Told(other) /\ \A i \in Told(other) : emitted'[i] = emitted[i]
  <2> DEFINE n == Len(emitted)
  <2>1. /\ DOMAIN emitted = 1 .. n /\ DOMAIN emitted' = 1 .. n + 1 /\ n \in Nat
        /\ \A i \in 1 .. n : emitted'[i] = emitted[i]
        /\ emitted'[n + 1] = [type |-> type, ids |-> ids]
    BY EmitExtends
  <2> HIDE DEF n
  <2> QED
    BY <2>1 DEF Told
<1>2. /\ InOrder(emitted, Told(other)) => InOrder(emitted', Told(other))
      /\ IdsAt(emitted', Told(other)) = IdsAt(emitted, Told(other))
  BY <1>1, PlacesStay
<1> QED
  BY <1>1, <1>2

LEMMA ToldGrows ==
    ASSUME emitted \in Seq(Note), NEW type \in {"call", "result"}, NEW id \in Id,
           InOrder(emitted, Told(type)), Emit(type, <<id>>),
           \A x \in IdsAt(emitted, Told(type)) : Earlier(x, id)
    PROVE  /\ InOrder(emitted, Told(type))'
           /\ IdsAt(emitted, Told(type))' = IdsAt(emitted, Told(type)) \cup {id}
<1> DEFINE n == Len(emitted)
           k == n + 1
<1>1. /\ DOMAIN emitted = 1 .. n /\ DOMAIN emitted' = 1 .. k /\ n \in Nat
      /\ \A i \in 1 .. n : emitted'[i] = emitted[i]
      /\ emitted'[k] = [type |-> type, ids |-> <<id>>]
  <2>1. <<id>> \in Seq(Id)
    OBVIOUS
  <2>2. /\ DOMAIN emitted = 1 .. Len(emitted) /\ DOMAIN emitted' = 1 .. Len(emitted) + 1
        /\ Len(emitted) \in Nat
        /\ \A i \in 1 .. Len(emitted) : emitted'[i] = emitted[i]
        /\ emitted'[Len(emitted) + 1] = [type |-> type, ids |-> <<id>>]
    BY <2>1, EmitExtends
  <2> QED
    BY <2>2
<1> HIDE DEF n
<1>2. /\ Told(type)' = Told(type) \cup {k} /\ Told(type) \in SUBSET Nat /\ k \in Nat
      /\ \A i \in Told(type) : i < k /\ emitted'[i] = emitted[i]
  BY <1>1 DEF Told
<1>3. emitted'[k].ids[1] = id
  BY <1>1
<1> HIDE DEF k
<1>4. InOrder(emitted', Told(type) \cup {k})
  <2>1. ASSUME NEW i \in Told(type) \cup {k}, NEW j \in Told(type) \cup {k}, i < j
        PROVE  Earlier(emitted'[i].ids[1], emitted'[j].ids[1])
    <3>1. i \in Told(type) /\ emitted'[i] = emitted[i]
      BY <1>2, <2>1
    <3>2. CASE j \in Told(type)
      BY <1>2, <2>1, <3>1, <3>2 DEF InOrder
    <3>3. CASE j = k
      BY <1>3, <3>1, <3>3 DEF IdsAt
    <3> QED
      BY <2>1, <3>2, <3>3
  <2> QED
    BY <2>1 DEF InOrder
<1>5. IdsAt(emitted', Told(type) \cup {k}) = IdsAt(emitted, Told(type)) \cup {id}
  BY <1>2, <1>3 DEF IdsAt
<1> QED
  BY <1>2, <1>4, <1>5

LEMMA EarlierFacts ==
    ASSUME NEW x \in Id, NEW m \in Nat, NEW n \in Nat, Earlier(x, <<m, n>>)
    PROVE  Earlier(x, <<m, n + 1>>) /\ Earlier(x, <<m + 1, 1>>)
BY AgentAssumption DEF Earlier, Id

-----------------------------------------------------------------------------
(* A step that tells of no call, and what it may do to the place of the run. *)
SameBooks ==
    /\ InOrder(messages, Answers) => InOrder(messages, Answers)'
    /\ IdsAt(messages, Answers)' = IdsAt(messages, Answers)
    /\ \A type \in {"call", "result"} :
          /\ InOrder(emitted, Told(type)) => InOrder(emitted, Told(type))'
          /\ IdsAt(emitted, Told(type))' = IdsAt(emitted, Told(type))

LEMMA SilenceKeepsBooks ==
    ASSUME UNCHANGED <<messages, emitted>>
    PROVE  SameBooks
<1>1. Answers' = Answers /\ \A type \in {"call", "result"} : Told(type)' = Told(type)
  BY DEF Answers, Told
<1> QED
  BY <1>1 DEF SameBooks

LEMMA BooksGoOn ==
    ASSUME BookInv, SameBooks,
           at' # "over" \/ outcome' \in Verdict => at # "over" \/ outcome \in Verdict,
           UnderWay' = UnderWay,
           at' # "over" => /\ at # "over"
                           /\ \A x \in Id : Earlier(x, Here) => Earlier(x, Here')
    PROVE  BookInv'
<1> SUFFICES ASSUME at' # "over" \/ outcome' \in Verdict
             PROVE  /\ InOrder(messages, Answers)'
                    /\ InOrder(emitted, Told("call"))' /\ InOrder(emitted, Told("result"))'
                    /\ IdsAt(messages, Answers)' \subseteq Id
                    /\ IdsAt(emitted, Told("result"))' = IdsAt(messages, Answers)'
                    /\ IdsAt(emitted, Told("call"))' = IdsAt(messages, Answers)' \cup UnderWay'
                    /\ at' # "over" => \A x \in IdsAt(messages, Answers)' : Earlier(x, Here')
  BY DEF BookInv
<1>1. /\ InOrder(messages, Answers) /\ InOrder(emitted, Told("call"))
      /\ InOrder(emitted, Told("result"))
      /\ IdsAt(messages, Answers) \subseteq Id
      /\ IdsAt(emitted, Told("result")) = IdsAt(messages, Answers)
      /\ IdsAt(emitted, Told("call")) = IdsAt(messages, Answers) \cup UnderWay
      /\ at # "over" => \A x \in IdsAt(messages, Answers) : Earlier(x, Here)
  BY DEF BookInv
<1> QED
  BY <1>1 DEF SameBooks

LEMMA TakeKeepsBooks ==
    ASSUME TalkTypes, LoopTypes, at = "chat", NEW r \in Reply, Take(r)
    PROVE  SameBooks
<1>1. /\ <<>> \in Seq(Id) /\ Ids(r.calls) \in Seq(Id)
      /\ messages \in Seq(Message) /\ Len(messages) \in Nat /\ emitted \in Seq(Note)
  BY IdFacts DEF TalkTypes
<1>2. CASE UNCHANGED emitted \/ Emit("message", <<>>) \/ Emit("final", <<>>)
  <2>1. \A type \in {"call", "result"} :
            /\ InOrder(emitted, Told(type)) => InOrder(emitted, Told(type))'
            /\ IdsAt(emitted, Told(type))' = IdsAt(emitted, Told(type))
    <3>1. CASE UNCHANGED emitted
      BY <3>1 DEF Told
    <3>2. CASE Emit("message", <<>>) \/ Emit("final", <<>>)
      BY <1>1, <3>2, ToldStays
    <3> QED
      BY <1>2, <3>1, <3>2
  <2>2. Extended /\ \A k \in Len(messages) + 1 .. Len(messages') : messages'[k].role # "tool"
    <3>1. CASE \E ids \in Seq(Id) : Say("assistant", ids)
      <4>1. PICK ids \in Seq(Id) : Say("assistant", ids)
        BY <3>1
      <4>2. /\ Extended /\ Len(messages') = Len(messages) + 1
            /\ messages'[Len(messages) + 1] = [role |-> "assistant", ids |-> ids]
        BY <1>1, <4>1, SayExtends
      <4>3. \A k \in Len(messages) + 1 .. Len(messages') : k = Len(messages) + 1
        BY <1>1, <4>2
      <4> QED
        BY <4>2, <4>3
    <3>2. CASE messages' = messages \o <<[role |-> "assistant", ids |-> <<>>],
                                         [role |-> "user", ids |-> <<>>]>>
      <4> DEFINE a == [role |-> "assistant", ids |-> <<>>]
                 u == [role |-> "user", ids |-> <<>>]
      <4>1. a \in Message /\ u \in Message /\ a.role = "assistant" /\ u.role = "user"
        BY <1>1 DEF Message
      <4>2. messages' = messages \o <<a, u>>
        BY <3>2
      <4> HIDE DEF a, u
      <4>3. /\ Extended /\ Len(messages') = Len(messages) + 2
            /\ messages'[Len(messages) + 1] = a /\ messages'[Len(messages) + 2] = u
        BY <1>1, <4>1, <4>2, AppendTwo DEF Extended
      <4>4. \A k \in Len(messages) + 1 .. Len(messages') :
                k = Len(messages) + 1 \/ k = Len(messages) + 2
        BY <1>1, <4>3
      <4> QED
        BY <4>1, <4>3, <4>4
    <3> QED
      BY <1>1, <3>1, <3>2 DEF Take
  <2> QED
    BY <2>1, <2>2, AnswersStay DEF SameBooks
<1> QED
  BY <1>2 DEF Take

LEMMA BookInvStep ==
    ASSUME BookInv, TalkTypes, LoopTypes, Recording, [Next]_vars
    PROVE  BookInv'
<1> DEFINE h == <<turn, next>>
           told == IdsAt(messages, Answers)
<1> USE DEF End, Stay, loopVars, chatVars, toolVars, stopVars, replayVars
<1>1. /\ turn \in Nat /\ next \in Nat /\ Len(calls) \in Nat
      /\ messages \in Seq(Message) /\ emitted \in Seq(Note)
      /\ at # "over" => outcome = "none"
  BY AgentAssumption DEF LoopTypes, TalkTypes
<1>2. ASSUME at' = "over", outcome' \in Escape
      PROVE  BookInv'
  BY <1>2 DEF BookInv, Escape, Verdict
<1>3. ASSUME UNCHANGED <<messages, emitted, at, turn, next, outcome>>
      PROVE  BookInv'
  <2>1. SameBooks /\ UnderWay' = UnderWay /\ Here' = Here
    BY <1>3, SilenceKeepsBooks DEF UnderWay, Here
  <2> QED
    BY <1>3, <2>1 DEF BookInv, SameBooks
<1>4. \A m, n \in Nat, x \in Id :
          Earlier(x, <<m, n>>) => Earlier(x, <<m, n + 1>>) /\ Earlier(x, <<m + 1, 1>>)
  BY EarlierFacts
<1>5. ASSUME at = "chat", NEW r \in Reply, Take(r), UNCHANGED turn
      PROVE  BookInv'
  <2>1. SameBooks
    BY <1>5, TakeKeepsBooks
  <2>2. Here = <<turn, 1>> /\ UnderWay = {}
    BY <1>5 DEF LoopTypes, Here, UnderWay
  <2>3. /\ next' = 1 /\ at' \in {"calls", "over", "turn"}
    BY <1>5 DEF Take
  <2>4. UnderWay' = {} /\ (at' = "calls" => Here' = <<turn, 1>>) /\ (at' = "turn" => Here' = <<turn + 1, 1>>)
    BY <1>5, <2>3 DEF UnderWay, Here
  <2>5. at' # "over" => \A x \in Id : Earlier(x, Here) => Earlier(x, Here')
    <3>1. CASE at' = "calls"
      BY <2>2, <2>4, <3>1
    <3>2. CASE at' = "turn"
      <4>1. \A x \in Id : Earlier(x, <<turn, 1>>) => Earlier(x, <<turn + 1, 1>>)
        BY <1>1, <1>4
      <4> QED
        BY <2>2, <2>4, <3>2, <4>1
    <3> QED
      BY <2>3, <3>1, <3>2
  <2> QED
    BY <1>5, <2>1, <2>2, <2>4, <2>5, BooksGoOn
<1>6. CASE BeginTurn
  <2>1. CASE reason # "none"
    BY <1>2, <1>6, <2>1 DEF BeginTurn, Escape
  <2>2. CASE reason = "none"
    <3>1. /\ at = "turn" /\ at' = "chat" /\ turn' = turn + 1 /\ next' = 1
          /\ UNCHANGED <<messages, emitted, outcome>>
      BY <1>6, <2>2 DEF BeginTurn, LoopTypes
    <3>2. SameBooks /\ UnderWay' = UnderWay /\ Here' = Here
      BY <3>1, SilenceKeepsBooks DEF UnderWay, Here
    <3> QED
      BY <3>1, <3>2, BooksGoOn
  <2> QED
    BY <2>1, <2>2
<1>7. CASE OutOfSteps
  <2>1. at = "turn" /\ at' = "over" /\ UNCHANGED <<messages, emitted>>
    BY <1>7 DEF OutOfSteps
  <2>2. SameBooks /\ UnderWay' = UnderWay
    BY <2>1, SilenceKeepsBooks DEF UnderWay
  <2> QED
    BY <2>1, <2>2, BooksGoOn
<1>8. CASE PostFails
  <2>1. /\ at = "chat" /\ UNCHANGED <<messages, emitted, turn, next>>
        /\ at' = "over" \/ (at' = "chat" /\ outcome' = outcome)
    BY <1>8 DEF PostFails, Post
  <2>2. SameBooks /\ UnderWay' = UnderWay /\ (at' # "over" => Here' = Here)
    BY <2>1, SilenceKeepsBooks DEF UnderWay, Here
  <2> QED
    BY <2>1, <2>2, BooksGoOn
<1>9. CASE BodyUnreadable
  BY <1>2, <1>9 DEF BodyUnreadable, Escape
<1>10. ASSUME NEW r \in Reply, Answer(r)
       PROVE  BookInv'
  <2>1. CASE mode = "record" /\ "malformed" \in ToSet(r.calls)
    BY <1>2, <1>10, <2>1 DEF Answer, Escape
  <2>2. CASE ~(mode = "record" /\ "malformed" \in ToSet(r.calls))
    BY <1>5, <1>10, <2>2 DEF Answer, Post
  <2> QED
    BY <2>1, <2>2
<1>11. CASE Replay
  <2>1. CASE cursor = Len(steps)
    BY <1>2, <1>11, <2>1 DEF Replay, Escape
  <2>2. CASE cursor # Len(steps)
    <3>1. steps[cursor + 1] \in Reply /\ Take(steps[cursor + 1])
      BY <1>11, <2>2 DEF Replay, Recording
    <3> QED
      BY <1>5, <1>11, <3>1 DEF Replay
  <2> QED
    BY <2>1, <2>2
<1>12. CASE BeginCall
  <2>1. CASE reason # "none"
    BY <1>2, <1>12, <2>1 DEF BeginCall, Escape
  <2>2. CASE reason = "none"
    <3>1. /\ at = "calls" /\ at' = "tool" /\ Emit("call", <<h>>)
          /\ UNCHANGED <<messages, turn, next, outcome>> /\ h \in Id /\ <<h>> \in Seq(Id)
      BY <1>12, <2>2, IdFacts DEF BeginCall
    <3>2. /\ InOrder(messages, Answers) /\ told \subseteq Id
          /\ InOrder(emitted, Told("call")) /\ InOrder(emitted, Told("result"))
          /\ IdsAt(emitted, Told("result")) = told /\ IdsAt(emitted, Told("call")) = told
          /\ \A x \in told : Earlier(x, h)
      BY <3>1 DEF BookInv, Here, UnderWay
    <3>3. UnderWay' = {h} /\ Here' = h
      BY <3>1 DEF UnderWay, Here
    <3>4. /\ InOrder(emitted, Told("call"))'
          /\ IdsAt(emitted, Told("call"))' = IdsAt(emitted, Told("call")) \cup {h}
      BY <1>1, <3>1, <3>2, ToldGrows
    <3>5. /\ InOrder(emitted, Told("result"))'
          /\ IdsAt(emitted, Told("result"))' = IdsAt(emitted, Told("result"))
      BY <1>1, <3>1, <3>2, ToldStays
    <3>6. InOrder(messages, Answers)' /\ IdsAt(messages, Answers)' = told
      <4>1. Answers' = Answers
        BY <3>1 DEF Answers
      <4> QED
        BY <3>1, <3>2, <4>1
    <3> HIDE DEF h, told
    <3> QED
      BY <3>2, <3>3, <3>4, <3>5, <3>6 DEF BookInv
  <2> QED
    BY <2>1, <2>2
<1>13. CASE RunCall
  <2>1. CASE AnswerCall
    <3>1. /\ at = "tool" /\ at' = "calls" /\ Emit("result", <<h>>) /\ Say("tool", <<h>>)
          /\ next' = next + 1 /\ UNCHANGED <<turn, outcome>> /\ h \in Id /\ <<h>> \in Seq(Id)
      BY <1>13, <2>1, IdFacts DEF RunCall, AnswerCall
    <3>2. /\ InOrder(messages, Answers) /\ told \subseteq Id
          /\ InOrder(emitted, Told("call")) /\ InOrder(emitted, Told("result"))
          /\ IdsAt(emitted, Told("result")) = told /\ IdsAt(emitted, Told("call")) = told \cup {h}
          /\ \A x \in told : Earlier(x, h)
      BY <3>1 DEF BookInv, Here, UnderWay
    <3>3. UnderWay' = {} /\ Here' = <<turn, next + 1>>
      BY <3>1 DEF UnderWay, Here
    <3>4. /\ InOrder(emitted, Told("result"))'
          /\ IdsAt(emitted, Told("result"))' = IdsAt(emitted, Told("result")) \cup {h}
      BY <1>1, <3>1, <3>2, ToldGrows
    <3>5. /\ InOrder(emitted, Told("call"))'
          /\ IdsAt(emitted, Told("call"))' = IdsAt(emitted, Told("call"))
      BY <1>1, <3>1, <3>2, ToldStays
    <3>6. InOrder(messages, Answers)' /\ IdsAt(messages, Answers)' = told \cup {h}
      BY <1>1, <3>1, <3>2, AnswersGrow
    <3>7. \A x \in told \cup {h} : Earlier(x, <<turn, next + 1>>)
      <4>1. Earlier(h, <<turn, next + 1>>)
        BY <1>1 DEF Earlier
      <4>2. \A x \in told : Earlier(x, <<turn, next + 1>>)
        BY <1>1, <1>4, <3>2
      <4> QED
        BY <4>1, <4>2
    <3> HIDE DEF h, told
    <3> QED
      BY <3>1, <3>2, <3>3, <3>4, <3>5, <3>6, <3>7 DEF BookInv
  <2>2. CASE ~AnswerCall
    <3>1. at' = "over" /\ outcome' \in Escape
      BY <1>13, <2>2 DEF RunCall, Dies, Escape
    <3> QED
      BY <1>2, <3>1
  <2> QED
    BY <2>1, <2>2
<1>14. CASE EndTurn
  <2>1. /\ at = "calls" /\ at' = "turn" /\ UNCHANGED <<messages, emitted, turn, outcome>>
    BY <1>14 DEF EndTurn
  <2>2. SameBooks /\ UnderWay' = UnderWay /\ Here = h /\ Here' = <<turn + 1, 1>>
    BY <2>1, SilenceKeepsBooks DEF UnderWay, Here
  <2>3. \A x \in Id : Earlier(x, Here) => Earlier(x, Here')
    BY <1>1, <1>4, <2>2
  <2> QED
    BY <2>1, <2>2, <2>3, BooksGoOn
<1>15. CASE StartReplay
  <2>1. /\ messages' = <<[role |-> "user", ids |-> <<>>]>> /\ emitted' = <<>> /\ at' = "turn"
    BY <1>15 DEF StartReplay
  <2>2. Answers' = {} /\ \A type : Told(type)' = {}
    BY <2>1 DEF Answers, Told
  <2>3. IdsAt(messages, Answers)' = {} /\ \A type : IdsAt(emitted, Told(type))' = {}
    BY <2>2 DEF IdsAt
  <2>4. InOrder(messages, Answers)' /\ \A type : InOrder(emitted, Told(type))'
    BY <2>2 DEF InOrder
  <2>5. UnderWay' = {}
    BY <2>1 DEF UnderWay
  <2> QED
    BY <2>3, <2>4, <2>5 DEF BookInv
<1>16. CASE BoxDies \/ Finished \/ UNCHANGED vars \/ \E why \in {"cancelled", "timeout"} : Stop(why)
  <2>1. UNCHANGED <<messages, emitted, at, turn, next, outcome>>
    BY <1>16 DEF BoxDies, Finished, Stop, vars
  <2> QED
    BY <1>3, <2>1
<1> QED
  BY <1>6, <1>7, <1>8, <1>9, <1>10, <1>11, <1>12, <1>13, <1>14, <1>15, <1>16 DEF Next, Loop

-----------------------------------------------------------------------------
LEMMA TalkInit == Init => TalkInv /\ BookInv
<1> SUFFICES ASSUME Init
             PROVE  TalkInv /\ BookInv
  OBVIOUS
<1>1. messages = <<[role |-> "user", ids |-> <<>>]>> /\ emitted = <<>> /\ at = "turn"
  BY DEF Init, Start
<1>2. Answers = {} /\ Told("call") = {} /\ Told("result") = {}
  BY <1>1 DEF Answers, Told
<1>3. BookInv
  BY <1>1, <1>2 DEF BookInv, InOrder, IdsAt, UnderWay
<1>4. TalkInv
  BY <1>1 DEF TalkInv, Owned, AnsweredUpTo
<1> QED
  BY <1>3, <1>4

(* agent/loop.py:75-116: whenever the model is asked, and at every verdict,  *)
(* each call of the transcript is answered, once, right after the message    *)
(* that makes it, and the events tell of the same calls and answers.         *)
THEOREM TranscriptsAreWellFormed == Spec => []TranscriptWellFormed
<1>1. TalkInv /\ BookInv /\ AgentInv => TranscriptWellFormed
  <2> SUFFICES ASSUME TalkInv, BookInv, AgentInv, at = "chat" \/ outcome \in Verdict
               PROVE  /\ WellFormed
                      /\ InOrder(messages, Answers)
                      /\ \A type \in {"call", "result"} :
                            /\ InOrder(emitted, Told(type))
                            /\ IdsAt(emitted, Told(type)) = IdsAt(messages, Answers)
    BY DEF TranscriptWellFormed
  <2>1. WellFormed
    <3>1. Owned /\ AnsweredUpTo(Len(messages)) /\ DOMAIN messages = 1 .. Len(messages)
      BY DEF TalkInv, AgentInv, TalkTypes
    <3> QED
      BY <3>1 DEF WellFormed, Owned, AnsweredUpTo, AnsweredAt
  <2>2. at # "tool" /\ (at # "over" \/ outcome \in Verdict)
    BY DEF AgentInv, LoopTypes, Verdict
  <2>3. UnderWay = {}
    BY <2>2 DEF UnderWay
  <2> QED
    BY <2>1, <2>2, <2>3 DEF BookInv
<1>2. TalkInv /\ BookInv /\ AgentInv /\ [Next]_vars => TalkInv' /\ BookInv'
  BY TalkInvStep, BookInvStep DEF AgentInv
<1> QED
  BY <1>1, <1>2, TalkInit, AgentInvariant, PTL DEF Spec
=============================================================================

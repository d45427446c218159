------------------------------- MODULE Agent -------------------------------
(* agent/loop.py (run_agent), the retries of agent/llm.py (chat), what the   *)
(* tools of agent/tools.py and sandbox/docker_provider.py may end in, and a  *)
(* recording (worker/record.py) with its replay (agent/mock.py).             *)
(*                                                                           *)
(* A message is its role and the calls it makes or answers; a call is named  *)
(* by its turn and its place in it, as the replay does (the endpoint's own   *)
(* names are external and taken to differ).  The content of texts, commands  *)
(* and outputs, truncation, usage and the demo's pauses are left out.        *)
EXTENDS Naturals, Sequences, SequencesExt

CONSTANTS
    MaxSteps,    \* max_steps, 20 by default
    MaxRetries,  \* max_retries, 3
    MaxCalls     \* bound: tool calls in one reply

ASSUME AgentAssumption ==
    MaxSteps \in Nat /\ MaxRetries \in Nat \ {0} /\ MaxCalls \in Nat

(* A tool call by what becomes of it: it runs; its arguments lack one or it  *)
(* names no tool, and is answered with that; they are no JSON object; the    *)
(* tool raises what run_agent does not catch (content that is no string, a   *)
(* path that is a directory without files); or Docker refuses what the tool  *)
(* asks of it, in a container that is alive (a parent that cannot be made, a *)
(* command that is no string).                                               *)
Call == {"runs", "refused", "malformed", "odd", "docker"}

(* The text of a reply, after strip_reasoning: some or none.                 *)
Reply == [text : BOOLEAN, calls : UNION {[1 .. n -> Call] : n \in 0 .. MaxCalls}]

VARIABLES
    mode,        \* "real", "record" or "mock"
    at,          \* where run_agent stands
    turn,        \* _step + 1
    messages,
    emitted,     \* the events, in order
    calls, next, \* the calls of the reply, and the one to run next
    tries,       \* chat: POSTs that failed
    posts, waited,   \* all POSTs, all pauses in units of backoff_base
    tools,       \* tool runs, the refused ones apart
    reason,      \* should_stop
    late,        \* POSTs and tool runs begun after a reason was there
    alive,       \* the container
    outcome,
    steps, cursor,   \* the recording; how much of it was replayed
    played       \* the events of the run that was recorded

loopVars == <<at, turn, messages, emitted, calls, next, outcome>>
chatVars == <<tries, posts, waited>>
toolVars == <<tools, alive>>
stopVars == <<reason, late>>
replayVars == <<mode, steps, cursor, played>>
vars == <<loopVars, chatVars, toolVars, stopVars, replayVars>>

Id == (1 .. MaxSteps) \X (1 .. MaxCalls)
Verdict == {"succeeded", "model_error", "max_steps"}
Escape == {"stopped", "sandboxdied", "raised", "unreadable", "exhausted", "aborted"}

AgentTypeOK ==
    /\ mode \in {"real", "record", "mock"}
    /\ at \in {"turn", "chat", "calls", "tool", "over"}
    /\ turn \in 0 .. MaxSteps
    /\ messages \in Seq([role : {"user", "assistant", "tool"}, ids : Seq(Id)])
    /\ emitted \in Seq([type : {"message", "final", "call", "result"}, ids : Seq(Id)])
    /\ calls \in Seq(Call) /\ next \in 1 .. Len(calls) + 1
    /\ tries \in 0 .. MaxRetries - 1 /\ posts \in Nat /\ waited \in Nat
    /\ tools \in 0 .. MaxSteps * MaxCalls /\ alive \in BOOLEAN
    /\ reason \in {"none", "cancelled", "timeout"}
    /\ late \in [posts : Nat, tools : Nat]
    /\ outcome \in Verdict \cup Escape \cup {"none"}
    /\ (outcome = "none") = (at # "over")
    /\ steps \in Seq(Reply) /\ cursor \in 0 .. Len(steps)

Start ==
    /\ at = "turn" /\ turn = 0 /\ calls = <<>> /\ next = 1 /\ outcome = "none"
    /\ messages = <<[role |-> "user", ids |-> <<>>]>> /\ emitted = <<>>
    /\ tries = 0 /\ posts = 0 /\ waited = 0
    /\ tools = 0 /\ alive = TRUE
    /\ reason = "none" /\ late = [posts |-> 0, tools |-> 0]

Init ==
    /\ Start
    /\ mode \in {"real", "record"} /\ steps = <<>> /\ cursor = 0 /\ played = <<>>

End(o) == at' = "over" /\ outcome' = o
Stay == UNCHANGED <<at, outcome>>
Say(role, ids) == messages' = Append(messages, [role |-> role, ids |-> ids])
Emit(type, ids) == emitted' = Append(emitted, [type |-> type, ids |-> ids])
Count(field) == late' = IF reason = "none" THEN late ELSE [late EXCEPT ![field] = @ + 1]

-----------------------------------------------------------------------------
(* The top of the loop *)

(* Mutant: off by one.                                                       *)
StepLeftOrNot == turn <= MaxSteps

StepLeft == turn < MaxSteps

BeginTurn ==
    /\ at = "turn" /\ StepLeft
    /\ IF reason # "none" THEN End("stopped") /\ UNCHANGED turn
                          ELSE at' = "chat" /\ turn' = turn + 1 /\ UNCHANGED outcome
    /\ UNCHANGED <<messages, emitted, calls, next, chatVars, toolVars, stopVars, replayVars>>

OutOfSteps ==
    /\ at = "turn" /\ ~StepLeft
    /\ End("max_steps")
    /\ UNCHANGED <<turn, messages, emitted, calls, next, chatVars, toolVars, stopVars,
                   replayVars>>

-----------------------------------------------------------------------------
(* chat *)

Post == at = "chat" /\ mode # "mock" /\ posts' = posts + 1 /\ Count("posts")

(* Mutant: a pause after the last try too.                                   *)
PauseAlways == 2 ^ tries

Pause == IF tries < MaxRetries - 1 THEN 2 ^ tries ELSE 0

(* No connection, a timeout, or any status from 400 up.                      *)
PostFails ==
    /\ Post
    /\ waited' = waited + Pause
    /\ IF tries = MaxRetries - 1
       THEN End("model_error") /\ UNCHANGED tries
       ELSE tries' = tries + 1 /\ Stay
    /\ UNCHANGED <<turn, messages, emitted, calls, next, toolVars, reason, replayVars>>

(* Status 200 and a body that is not what _parse takes it for: an exception  *)
(* that is neither retried nor an LLMError.                                  *)
BodyUnreadable ==
    /\ Post /\ End("unreadable")
    /\ UNCHANGED <<turn, messages, emitted, calls, next, tries, waited, toolVars, reason,
                   replayVars>>

Ids(cs) == [j \in DOMAIN cs |-> <<turn, j>>]

(* What run_agent does with a reply, up to its first call.                   *)
Take(r) ==
    /\ next' = 1 /\ calls' = r.calls /\ tries' = 0
    /\ IF r.calls # <<>>
       THEN /\ Say("assistant", Ids(r.calls))
            /\ IF r.text THEN Emit("message", <<>>) ELSE UNCHANGED emitted
            /\ at' = "calls" /\ UNCHANGED outcome
       ELSE IF r.text
       THEN Say("assistant", <<>>) /\ Emit("final", <<>>) /\ End("succeeded")
       ELSE /\ messages' = messages \o <<[role |-> "assistant", ids |-> <<>>],
                                         [role |-> "user", ids |-> <<>>]>>
            /\ at' = "turn" /\ UNCHANGED <<emitted, outcome>>

(* Mutant: a recording is taken for the list of its tool calls.              *)
RecordedCalls(r) == IF mode = "record" /\ r.calls # <<>> THEN Append(steps, r) ELSE steps

Recorded(r) == IF mode = "record" THEN Append(steps, r) ELSE steps

Answer(r) ==
    /\ Post
    /\ IF mode = "record" /\ "malformed" \in ToSet(r.calls)
       THEN End("aborted") /\ UNCHANGED <<messages, emitted, calls, next, tries, steps>>
       ELSE Take(r) /\ steps' = Recorded(r)
    /\ UNCHANGED <<turn, waited, toolVars, reason, mode, cursor, played>>

Replay ==
    /\ at = "chat" /\ mode = "mock"
    /\ IF cursor = Len(steps)
       THEN End("exhausted") /\ UNCHANGED <<messages, emitted, calls, next, tries, cursor>>
       ELSE Take(steps[cursor + 1]) /\ cursor' = cursor + 1
    /\ UNCHANGED <<turn, posts, waited, toolVars, stopVars, mode, steps, played>>

-----------------------------------------------------------------------------
(* The calls of a reply, one after the other *)

(* Mutant: the stop is looked for once per turn.                             *)
BeginCallUnchecked ==
    /\ at = "calls" /\ next <= Len(calls)
    /\ at' = "tool" /\ Emit("call", <<<<turn, next>>>>)
    /\ UNCHANGED <<turn, messages, calls, next, outcome, chatVars, toolVars, stopVars,
                   replayVars>>

BeginCall ==
    /\ at = "calls" /\ next <= Len(calls)
    /\ IF reason # "none" THEN End("stopped") /\ UNCHANGED emitted
                          ELSE at' = "tool" /\ Emit("call", <<<<turn, next>>>>)
                                   /\ UNCHANGED outcome
    /\ UNCHANGED <<turn, messages, calls, next, chatVars, toolVars, stopVars, replayVars>>

(* Mutant: the event is written and the model is not told.                   *)
AnswerCallInEvents ==
    /\ Emit("result", <<<<turn, next>>>>)
    /\ next' = next + 1 /\ at' = "calls" /\ UNCHANGED <<messages, outcome>>

AnswerCall ==
    /\ Emit("result", <<<<turn, next>>>>) /\ Say("tool", <<<<turn, next>>>>)
    /\ next' = next + 1 /\ at' = "calls" /\ UNCHANGED outcome

Dies(o) == End(o) /\ UNCHANGED <<messages, emitted, next>>

Refused(c) == c \in {"refused", "malformed"}

(* A tool that raises may find the container gone first, or not get that far.*)
RunCall ==
    /\ at = "tool"
    /\ IF Refused(calls[next])
       THEN AnswerCall /\ UNCHANGED <<tools, late>>
       ELSE /\ tools' = tools + 1 /\ Count("tools")
            /\ \/ alive /\ calls[next] = "runs" /\ AnswerCall
               \/ (~alive \/ calls[next] = "docker") /\ Dies("sandboxdied")
               \/ calls[next] = "odd" /\ Dies("raised")
    /\ UNCHANGED <<turn, calls, chatVars, alive, reason, replayVars>>

EndTurn ==
    /\ at = "calls" /\ next > Len(calls)
    /\ at' = "turn" /\ calls' = <<>> /\ next' = 1
    /\ UNCHANGED <<turn, messages, emitted, outcome, chatVars, toolVars, stopVars, replayVars>>

-----------------------------------------------------------------------------
(* Around the loop *)

(* The reaper; a recording has none.                                         *)
Stop(why) ==
    /\ at # "over" /\ mode # "record" /\ reason = "none"
    /\ reason' = why
    /\ UNCHANGED <<loopVars, chatVars, toolVars, late, replayVars>>

(* The reaper's destroy, an out-of-memory kill, somebody else's removal.     *)
BoxDies ==
    /\ at # "over" /\ alive
    /\ alive' = FALSE
    /\ UNCHANGED <<loopVars, chatVars, tools, stopVars, replayVars>>

(* The recording of a run that succeeded is written, and replayed later.     *)
StartReplay ==
    /\ mode = "record" /\ outcome = "succeeded"
    /\ mode' = "mock" /\ played' = emitted /\ UNCHANGED <<steps, cursor>>
    /\ at' = "turn" /\ turn' = 0 /\ calls' = <<>> /\ next' = 1 /\ outcome' = "none"
    /\ messages' = <<[role |-> "user", ids |-> <<>>]>> /\ emitted' = <<>>
    /\ tries' = 0 /\ posts' = 0 /\ waited' = 0 /\ tools' = 0 /\ alive' = TRUE
    /\ reason' = "none" /\ late' = [posts |-> 0, tools |-> 0]

-----------------------------------------------------------------------------
Finished == at = "over" /\ UNCHANGED vars

Loop ==
    \/ BeginTurn \/ OutOfSteps \/ PostFails \/ BodyUnreadable
    \/ (\E r \in Reply : Answer(r))
    \/ Replay \/ BeginCall \/ RunCall \/ EndTurn

Next ==
    \/ Loop \/ BoxDies \/ StartReplay
    \/ \E why \in {"cancelled", "timeout"} : Stop(why)
    \/ Finished

Spec == Init /\ [][Next]_vars

-----------------------------------------------------------------------------
(* Properties *)

(* What an OpenAI endpoint asks of a conversation: right after an assistant  *)
(* message come the answers to its calls, all of them, in order, once.       *)
WellFormed ==
    /\ \A i \in DOMAIN messages : messages[i].role = "assistant" =>
          \A j \in DOMAIN messages[i].ids :
              /\ i + j \in DOMAIN messages
              /\ messages[i + j] = [role |-> "tool", ids |-> <<messages[i].ids[j]>>]
    /\ \A k \in DOMAIN messages : messages[k].role = "tool" =>
          \E i \in 1 .. k - 1 :
              messages[i].role = "assistant" /\ k - i \in DOMAIN messages[i].ids

Answers == {i \in DOMAIN messages : messages[i].role = "tool"}
Told(type) == {i \in DOMAIN emitted : emitted[i].type = type}

(* The calls that s tells of at the places I, each once, in the order in     *)
(* which they were made.                                                     *)
Earlier(x, y) == x[1] < y[1] \/ (x[1] = y[1] /\ x[2] < y[2])
InOrder(s, I) == \A i, j \in I : i < j => Earlier(s[i].ids[1], s[j].ids[1])
IdsAt(s, I) == {s[i].ids[1] : i \in I}

(* So it is whenever the model is asked, and in the transcript of every run  *)
(* that reaches a verdict of its own; and the events a client sees tell of   *)
(* the same calls and the same answers as the transcript.                    *)
TranscriptWellFormed ==
    at = "chat" \/ outcome \in Verdict =>
        /\ WellFormed
        /\ InOrder(messages, Answers)
        /\ \A type \in {"call", "result"} :
              /\ InOrder(emitted, Told(type))
              /\ IdsAt(emitted, Told(type)) = IdsAt(messages, Answers)

(* A stop is cooperative, yet soon: from the moment the reason is there, at  *)
(* most the chat or the one tool under way goes on, and not one after the    *)
(* other (agent/loop.py:72 and 101).                                         *)
StopsSoon ==
    /\ late.tools <= 1 /\ late.posts <= MaxRetries
    /\ late.tools = 0 \/ late.posts = 0

(* Whatever the endpoint answers, empty turns and failures included, a run   *)
(* asks, waits and calls tools within bounds known beforehand: a turn sends  *)
(* at most max_retries requests, pauses between them only, and runs no call  *)
(* twice, however often its request was sent (agent/llm.py:61-75, loop.py).  *)
BudgetKept ==
    /\ tools <= turn * MaxCalls
    /\ posts <= turn * MaxRetries
    /\ waited <= turn * (2 ^ (MaxRetries - 1) - 1)

(* A recording replays: the mock never runs out, and what the clients see is *)
(* what was recorded, step for step, unless the replay is stopped or loses   *)
(* its sandbox.                                                              *)
ReplayMatches ==
    mode = "mock" =>
        /\ outcome \in {"none", "succeeded", "stopped", "sandboxdied"}
        /\ IsPrefix(emitted, played)
        /\ outcome = "succeeded" => emitted = played

(* docs/specs/2026-07-25-cloud-agent-platform-design.md: a tool that fails is*)
(* answered with its error, and does not end the task.                       *)
ToolFailureIsAnswered == outcome \in {"raised", "sandboxdied"} => ~alive
=============================================================================

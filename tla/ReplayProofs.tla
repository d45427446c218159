---------------------------- MODULE ReplayProofs ----------------------------
(* Proof that a recording (worker/record.py) replays: agent/mock.py never    *)
(* runs out of steps, and a replay shows the events that were recorded, for  *)
(* any number of steps and any number of calls in a reply.                   *)
EXTENDS AgentProofs

(* The events of a reply: its text first, then each call and its result.     *)
Lead(r) == IF r.text THEN 1 ELSE 0
Size(r) == Lead(r) + 2 * Len(r.calls)
Final(r) == r.calls = <<>> /\ r.text

Opening(r) == [type |-> IF r.calls = <<>> THEN "final" ELSE "message", ids |-> <<>>]
Called(type, k, j) == [type |-> type, ids |-> <<<<k, j>>>>]

(* Behind its place o, s tells of the text of r, the reply of turn k, of the *)
(* first begun calls and of the results of the first answered ones.          *)
Tells(s, o, r, k, begun, answered) ==
    /\ r.text => o + 1 \in DOMAIN s /\ s[o + 1] = Opening(r)
    /\ \A j \in 1 .. begun :
          /\ o + Lead(r) + (2 * j - 1) \in DOMAIN s
          /\ s[o + Lead(r) + (2 * j - 1)] = Called("call", k, j)
    /\ \A j \in 1 .. answered :
          /\ o + Lead(r) + 2 * j \in DOMAIN s
          /\ s[o + Lead(r) + 2 * j] = Called("result", k, j)

TellsAll(s, o, r, k) == Tells(s, o, r, k, Len(r.calls), Len(r.calls))

(* A call that can be answered, given a container.                           *)
Harmless(c) == c \notin {"odd", "docker"}
Plain(r) == \A j \in 1 .. Len(r.calls) : Harmless(r.calls[j])

(* Where the events of each step begin, and where the last one's end.        *)
Offsets(off) ==
    /\ off \in [1 .. Len(steps) + 1 -> Nat] /\ off[1] = 0
    /\ \A k \in 1 .. Len(steps) : off[k + 1] = off[k] + Size(steps[k])

Begun == IF at = "tool" THEN next ELSE next - 1

(* The step whose calls are being run is the k-th, r, its events begin at o. *)
MidStep(o, r, k) ==
    /\ turn = k /\ calls = r.calls /\ calls # <<>>
    /\ Len(emitted) = o + Lead(r) + (next - 1) + Begun

-----------------------------------------------------------------------------
(* The first n steps are told of, and none of their calls ends a run.        *)
ToldUpTo(off, n) ==
    \A k \in 1 .. n : Plain(steps[k]) /\ TellsAll(emitted, off[k], steps[k], k)

LastIsFinal ==
    /\ \A k \in 1 .. Len(steps) : Final(steps[k]) <=> k = Len(steps) /\ outcome = "succeeded"
    /\ outcome = "succeeded" => steps # <<>>

(* A run being recorded has told of all its steps, the last one so far.      *)
Whole(off) == Len(emitted) = off[Len(steps) + 1] /\ ToldUpTo(off, Len(steps))

Partly(off) ==
    /\ steps # <<>> /\ MidStep(off[turn], steps[turn], turn)
    /\ \A j \in 1 .. next - 1 : Harmless(calls[j])
    /\ Tells(emitted, off[turn], steps[turn], turn, Begun, next - 1)
    /\ ToldUpTo(off, turn - 1)

Recorder(off) ==
    /\ Offsets(off) /\ LastIsFinal
    /\ turn = Len(steps) + (IF at = "chat" THEN 1 ELSE 0)
    /\ IF at \in {"calls", "tool"} THEN Partly(off) ELSE Whole(off)

RecordInv ==
    mode = "record" /\ (at # "over" \/ outcome = "succeeded") => \E off : Recorder(off)

(* What is replayed: the run told of all its steps, of which only the last   *)
(* one was final, and none of its calls ended it.                            *)
Script(off) ==
    /\ Offsets(off) /\ played \in Seq(Note)
    /\ Len(steps) \in 1 .. MaxSteps /\ Len(played) = off[Len(steps) + 1]
    /\ \A k \in 1 .. Len(steps) :
          /\ Plain(steps[k]) /\ TellsAll(played, off[k], steps[k], k)
          /\ Final(steps[k]) <=> k = Len(steps)

Matching ==
    /\ Len(emitted) <= Len(played)
    /\ \A p \in 1 .. Len(emitted) : emitted[p] = played[p]

Player(off) ==
    /\ Script(off) /\ Matching
    /\ outcome \in {"none", "succeeded", "stopped", "sandboxdied"}
    /\ outcome = "succeeded" => Len(emitted) = Len(played)
    /\ at \in {"turn", "chat"} =>
          /\ cursor < Len(steps) /\ turn = cursor + (IF at = "chat" THEN 1 ELSE 0)
          /\ Len(emitted) = off[cursor + 1]
    /\ at \in {"calls", "tool"} =>
          /\ cursor \in 1 .. Len(steps) - 1
          /\ MidStep(off[cursor], steps[cursor], cursor)

ReplayInv ==
    /\ mode = "record" => cursor = 0
    /\ RecordInv
    /\ mode = "mock" => \E off : Player(off)

-----------------------------------------------------------------------------
LEMMA Sizes ==
    ASSUME NEW r \in Reply
    PROVE  /\ Lead(r) \in {0, 1} /\ (r.text => Lead(r) = 1) /\ (~r.text => Lead(r) = 0)
           /\ Len(r.calls) \in Nat /\ Size(r) \in Nat /\ Size(r) = Lead(r) + 2 * Len(r.calls)
           /\ r.calls = <<>> => Len(r.calls) = 0
           /\ r.text \in BOOLEAN /\ r.calls \in Seq(Call) /\ DOMAIN r.calls = 1 .. Len(r.calls)
<1>1. r.text \in BOOLEAN /\ r.calls \in Seq(Call) /\ Len(r.calls) \in Nat /\ DOMAIN r.calls = 1 .. Len(r.calls)
  BY ReplyFacts, AgentAssumption
<1>2. Lead(r) \in {0, 1} /\ (r.text => Lead(r) = 1) /\ (~r.text => Lead(r) = 0)
  BY <1>1 DEF Lead
<1>3. Size(r) \in Nat
  BY <1>1, <1>2 DEF Size
<1> QED
  BY <1>1, <1>2, <1>3 DEF Size

LEMMA TellsStay ==
    ASSUME NEW s, NEW t, DOMAIN s \subseteq DOMAIN t, \A i \in DOMAIN s : t[i] = s[i]
    PROVE  \A o, r, k, b, a : Tells(s, o, r, k, b, a) => Tells(t, o, r, k, b, a)
BY DEF Tells

(* The events go on.                                                         *)
EventsGoOn ==
    /\ DOMAIN emitted \subseteq DOMAIN emitted'
    /\ \A i \in DOMAIN emitted : emitted'[i] = emitted[i]

LEMMA EmitGoesOn ==
    ASSUME emitted \in Seq(Note), NEW type \in {"message", "final", "call", "result"},
           NEW ids \in Seq(Id), Emit(type, ids)
    PROVE  /\ EventsGoOn /\ Len(emitted) \in Nat /\ Len(emitted') = Len(emitted) + 1
           /\ Len(emitted) + 1 \in DOMAIN emitted'
           /\ emitted'[Len(emitted) + 1] = [type |-> type, ids |-> ids]
<1>1. /\ DOMAIN emitted = 1 .. Len(emitted) /\ DOMAIN emitted' = 1 .. Len(emitted) + 1
      /\ Len(emitted) \in Nat
      /\ \A i \in 1 .. Len(emitted) : emitted'[i] = emitted[i]
      /\ emitted'[Len(emitted) + 1] = [type |-> type, ids |-> ids]
  BY EmitExtends
<1>2. Len(emitted') = Len(emitted) + 1
  <2> DEFINE e == [type |-> type, ids |-> ids]
  <2>1. e \in Note /\ emitted' = Append(emitted, e)
    BY DEF Note, Emit
  <2> HIDE DEF e
  <2> QED
    BY <2>1
<1> QED
  BY <1>1, <1>2 DEF EventsGoOn

(* The j-th call of a reply is begun, and answered.                          *)
LEMMA CallIsTold ==
    ASSUME emitted \in Seq(Note), NEW o \in Nat, NEW r \in Reply, NEW k, NEW j \in Nat \ {0},
           <<<<k, j>>>> \in Seq(Id), Emit("call", <<<<k, j>>>>),
           Tells(emitted, o, r, k, j - 1, j - 1),
           Len(emitted) = o + Lead(r) + (j - 1) + (j - 1)
    PROVE  Tells(emitted', o, r, k, j, j - 1)
<1>1. /\ EventsGoOn /\ Len(emitted) + 1 \in DOMAIN emitted'
      /\ emitted'[Len(emitted) + 1] = Called("call", k, j)
  BY EmitGoesOn DEF Called
<1>2. Tells(emitted', o, r, k, j - 1, j - 1)
  BY <1>1, TellsStay DEF EventsGoOn
<1>3. Len(emitted) + 1 = o + Lead(r) + (2 * j - 1)
  BY Sizes
<1>4. \A i \in 1 .. j : i = j \/ i \in 1 .. j - 1
  OBVIOUS
<1> QED
  BY <1>1, <1>2, <1>3, <1>4 DEF Tells

LEMMA ResultIsTold ==
    ASSUME emitted \in Seq(Note), NEW o \in Nat, NEW r \in Reply, NEW k, NEW j \in Nat \ {0},
           <<<<k, j>>>> \in Seq(Id), Emit("result", <<<<k, j>>>>),
           Tells(emitted, o, r, k, j, j - 1),
           Len(emitted) = o + Lead(r) + (j - 1) + j
    PROVE  Tells(emitted', o, r, k, j, j)
<1>1. /\ EventsGoOn /\ Len(emitted) + 1 \in DOMAIN emitted'
      /\ emitted'[Len(emitted) + 1] = Called("result", k, j)
  BY EmitGoesOn DEF Called
<1>2. Tells(emitted', o, r, k, j, j - 1)
  BY <1>1, TellsStay DEF EventsGoOn
<1>3. Len(emitted) + 1 = o + Lead(r) + 2 * j
  <2>1. Lead(r) \in Nat
    BY Sizes
  <2> QED
    BY <2>1
<1>4. \A i \in 1 .. j : i = j \/ i \in 1 .. j - 1
  OBVIOUS
<1> QED
  BY <1>1, <1>2, <1>3, <1>4 DEF Tells

(* A reply is told of by its text alone, as yet.                             *)
LEMMA TakeTells ==
    ASSUME TalkTypes, LoopTypes, at = "chat", NEW r \in Reply, Take(r)
    PROVE  /\ EventsGoOn /\ Len(emitted) \in Nat /\ Len(emitted') = Len(emitted) + Lead(r)
           /\ \A k : Tells(emitted', Len(emitted), r, k, 0, 0)
<1>1. /\ emitted \in Seq(Note) /\ Len(emitted) \in Nat /\ <<>> \in Seq(Id)
      /\ r.text \in BOOLEAN
  BY Sizes DEF TalkTypes
<1>2. CASE r.text
  <2>1. Emit(IF r.calls = <<>> THEN "final" ELSE "message", <<>>) /\ Lead(r) = 1
    BY <1>2, Sizes DEF Take
  <2>2. /\ EventsGoOn /\ Len(emitted') = Len(emitted) + 1 /\ Len(emitted) + 1 \in DOMAIN emitted'
        /\ emitted'[Len(emitted) + 1] = Opening(r)
    <3>1. CASE r.calls = <<>>
      BY <1>1, <2>1, <3>1, EmitGoesOn DEF Opening
    <3>2. CASE r.calls # <<>>
      BY <1>1, <2>1, <3>2, EmitGoesOn DEF Opening
    <3> QED
      BY <3>1, <3>2
  <2> QED
    BY <1>1, <2>1, <2>2 DEF Tells
<1>3. CASE ~r.text
  <2>1. emitted' = emitted /\ Lead(r) = 0
    BY <1>3, Sizes DEF Take
  <2> QED
    BY <1>1, <1>3, <2>1 DEF Tells, EventsGoOn
<1> QED
  BY <1>1, <1>2, <1>3

LEMMA RecordStepTakes ==
    ASSUME mode = "record", TalkTypes, LoopTypes, Recording, NEW off, Recorder(off),
           at = "chat", NEW r \in Reply, Take(r), steps' = Append(steps, r), UNCHANGED turn
    PROVE  \E o : Recorder(o)'
<1>0. PICK n \in Nat : n = Len(steps)
  BY DEF Recording
<1>1. /\ n \in Nat /\ n = Len(steps) /\ steps \in Seq(Reply) /\ Len(steps') = n + 1 /\ steps'[n + 1] = r
      /\ \A k \in 1 .. n : steps'[k] = steps[k] /\ steps[k] \in Reply
  BY <1>0 DEF Recording
<1>2. /\ outcome = "none" /\ turn = n + 1 /\ next = 1
      /\ off \in [1 .. n + 1 -> Nat] /\ off[1] = 0 /\ Len(emitted) = off[n + 1]
      /\ \A k \in 1 .. n : /\ off[k + 1] = off[k] + Size(steps[k]) /\ ~Final(steps[k])
                           /\ Plain(steps[k]) /\ TellsAll(emitted, off[k], steps[k], k)
  BY <1>1 DEF Recorder, Offsets, LastIsFinal, Whole, ToldUpTo, LoopTypes
<1>3. /\ Lead(r) \in {0, 1} /\ (r.text => Lead(r) = 1) /\ (~r.text => Lead(r) = 0)
      /\ Len(r.calls) \in Nat /\ Size(r) \in Nat /\ Size(r) = Lead(r) + 2 * Len(r.calls)
      /\ r.calls = <<>> => Len(r.calls) = 0
  BY Sizes
<1>4. /\ EventsGoOn /\ Len(emitted') = off[n + 1] + Lead(r)
      /\ Tells(emitted', off[n + 1], r, n + 1, 0, 0)
  BY <1>2, TakeTells
<1>5. PICK o \in [1 .. n + 2 -> Nat] : /\ o[n + 2] = off[n + 1] + Size(r)
                                       /\ \A k \in 1 .. n + 1 : o[k] = off[k]
  <2> DEFINE longer == [k \in 1 .. n + 2 |-> IF k = n + 2 THEN off[n + 1] + Size(r) ELSE off[k]]
  <2>1. longer \in [1 .. n + 2 -> Nat]
    <3>1. off[n + 1] \in Nat
      BY <1>1, <1>2
    <3>2. \A k \in 1 .. n + 2 : k # n + 2 => k \in 1 .. n + 1
      BY <1>1
    <3>3. \A k \in 1 .. n + 2 : (IF k = n + 2 THEN off[n + 1] + Size(r) ELSE off[k]) \in Nat
      <4>1. off[n + 1] + Size(r) \in Nat
        BY <1>3, <3>1
      <4>2. \A k \in 1 .. n + 1 : off[k] \in Nat
        BY <1>2
      <4> QED
        BY <3>2, <4>1, <4>2
    <3> QED
      BY <3>3
  <2>2. longer[n + 2] = off[n + 1] + Size(r) /\ \A k \in 1 .. n + 1 : longer[k] = off[k]
    BY <1>1
  <2> QED
    BY <2>1, <2>2
<1>6. Offsets(o)'
  <2>1. \A k \in 1 .. n + 1 : o[k + 1] = o[k] + Size(steps'[k])
    <3> SUFFICES ASSUME NEW k \in 1 .. n + 1
                 PROVE  o[k + 1] = o[k] + Size(steps'[k])
      OBVIOUS
    <3>1. CASE k = n + 1
      BY <1>1, <1>5, <3>1
    <3>2. CASE k # n + 1
      <4>1. k \in 1 .. n /\ k + 1 \in 1 .. n + 1
        BY <1>1, <3>2
      <4> QED
        BY <1>1, <1>2, <1>5, <4>1
    <3> QED
      BY <3>1, <3>2
  <2>2. o \in [1 .. (n + 1) + 1 -> Nat] /\ o[1] = 0
    BY <1>1, <1>2, <1>5
  <2> QED
    BY <1>1, <2>1, <2>2 DEF Offsets
<1>7. \A k \in 1 .. n : /\ Plain(steps'[k]) /\ TellsAll(emitted', o[k], steps'[k], k)
                        /\ ~Final(steps'[k])
  <2> SUFFICES ASSUME NEW k \in 1 .. n
               PROVE  /\ Plain(steps'[k]) /\ TellsAll(emitted', o[k], steps'[k], k)
                      /\ ~Final(steps'[k])
    OBVIOUS
  <2>1. steps'[k] = steps[k] /\ o[k] = off[k]
    BY <1>1, <1>5
  <2>2. TellsAll(emitted', off[k], steps[k], k)
    BY <1>2, <1>4, TellsStay DEF TellsAll, EventsGoOn
  <2> QED
    BY <1>2, <2>1, <2>2
<1>8. CASE r.calls # <<>>
  <2>1. at' = "calls" /\ next' = 1 /\ calls' = r.calls /\ outcome' = "none" /\ turn' = n + 1
    BY <1>2, <1>8 DEF Take
  <2>2. ~Final(r) /\ Begun' = 0 /\ steps' # <<>>
    BY <1>1, <1>8, <2>1 DEF Final, Begun
  <2>3. MidStep(o[n + 1], r, n + 1)'
    <3>1. o[n + 1] = off[n + 1] /\ off[n + 1] \in Nat
      BY <1>1, <1>2, <1>5
    <3>2. Len(emitted') = off[n + 1] + Lead(r) + (next' - 1) + Begun'
      BY <1>3, <1>4, <2>1, <2>2, <3>1
    <3>3. calls' # <<>> /\ turn' = n + 1 /\ calls' = r.calls
      BY <1>8, <2>1
    <3> QED
      BY <3>1, <3>2, <3>3 DEF MidStep
  <2>4. Tells(emitted', o[n + 1], r, n + 1, 0, 0) /\ n + 1 \in 1 .. n + 1
    <3>1. o[n + 1] = off[n + 1] /\ n + 1 \in 1 .. n + 1
      BY <1>1, <1>5
    <3> QED
      BY <1>4, <3>1
  <2>5. \A k \in 1 .. n + 1 : k = n + 1 \/ k \in 1 .. n
    BY <1>1
  <2>6. (n + 1) - 1 = n /\ 1 - 1 = 0
    BY <1>1
  <2>7. Recorder(o)'
    BY <1>1, <1>6, <1>7, <2>1, <2>2, <2>3, <2>4, <2>5, <2>6
    DEF Recorder, LastIsFinal, Partly, ToldUpTo
  <2> QED
    BY <2>7
<1>9. CASE r.calls = <<>>
  <2>1. /\ turn' = n + 1 /\ (r.text => at' = "over" /\ outcome' = "succeeded")
        /\ (~r.text => at' = "turn" /\ outcome' = "none") /\ r.text \in BOOLEAN
    BY <1>2, <1>9, Sizes DEF Take, End
  <2>2. at' \in {"turn", "over"} /\ (Final(r) <=> outcome' = "succeeded") /\ steps' # <<>>
    BY <1>1, <1>9, <2>1 DEF Final
  <2>3. Plain(r) /\ TellsAll(emitted', o[n + 1], r, n + 1)
    BY <1>1, <1>3, <1>4, <1>5, <1>9 DEF Plain, TellsAll
  <2>4. Len(emitted') = o[n + 2]
    BY <1>2, <1>3, <1>4, <1>5, <1>9
  <2>5. \A k \in 1 .. n + 1 : (k = n + 1 \/ k \in 1 .. n) /\ (k \in 1 .. n => k # n + 1)
    BY <1>1
  <2>6. (n + 1) + 1 = n + 2 /\ turn' = Len(steps') + 0
    BY <1>1, <2>1
  <2>7. \A k \in 1 .. n + 1 :
            /\ Plain(steps'[k]) /\ TellsAll(emitted', o[k], steps'[k], k)
            /\ Final(steps'[k]) <=> k = n + 1 /\ outcome' = "succeeded"
    BY <1>1, <1>7, <2>2, <2>3, <2>5
  <2>8. Recorder(o)'
    <3>1. at' \notin {"calls", "tool"} /\ turn' = Len(steps') + (IF at' = "chat" THEN 1 ELSE 0)
      BY <1>1, <2>1, <2>2
    <3>2. Len(emitted') = o[Len(steps') + 1]
      BY <1>1, <2>4, <2>6
    <3>3. Len(steps') = n + 1
      BY <1>1
    <3>4. LastIsFinal'
      BY <2>2, <2>7, <3>3 DEF LastIsFinal
    <3>5. Whole(o)'
      BY <2>7, <3>2, <3>3 DEF Whole, ToldUpTo
    <3> QED
      BY <1>6, <3>1, <3>4, <3>5 DEF Recorder
  <2> QED
    BY <2>8
<1> QED
  BY <1>8, <1>9

LEMMA RecordStepCalls ==
    ASSUME mode = "record", TalkTypes, LoopTypes, Recording, NEW off, Recorder(off),
           UNCHANGED <<turn, calls, steps, outcome>>,
           \/ /\ at = "calls" /\ next <= Len(calls) /\ at' = "tool" /\ next' = next
              /\ Emit("call", <<<<turn, next>>>>)
           \/ /\ at = "tool" /\ at' = "calls" /\ next' = next + 1 /\ Harmless(calls[next])
              /\ Emit("result", <<<<turn, next>>>>)
    PROVE  Recorder(off)'
<1>1. PICK r \in Reply, o \in Nat, k \in Nat, n \in Nat \ {0} :
          /\ r = steps[turn] /\ o = off[turn] /\ k = turn /\ n = next /\ k = Len(steps)
  <2>1. /\ turn = Len(steps) /\ steps # <<>> /\ steps \in Seq(Reply) /\ next \in Nat \ {0}
        /\ off \in [1 .. Len(steps) + 1 -> Nat]
    BY DEF Recorder, Partly, Offsets, Recording, LoopTypes
  <2>2. turn \in 1 .. Len(steps) /\ turn \in 1 .. Len(steps) + 1 /\ turn \in Nat
    BY <2>1
  <2> QED
    BY <2>1, <2>2
<1>2. /\ emitted \in Seq(Note) /\ <<<<k, n>>>> \in Seq(Id)
  BY <1>1, IdFacts DEF TalkTypes
<1>3. /\ Offsets(off) /\ LastIsFinal /\ steps # <<>> /\ calls = r.calls /\ calls # <<>>
      /\ Len(emitted) = o + Lead(r) + (n - 1) + Begun
      /\ \A j \in 1 .. n - 1 : Harmless(calls[j])
      /\ Tells(emitted, o, r, k, Begun, n - 1) /\ ToldUpTo(off, k - 1)
  BY <1>1 DEF Recorder, Partly, MidStep
<1>4. Lead(r) \in Nat
  BY Sizes
<1>5. Offsets(off)' /\ LastIsFinal' /\ steps' # <<>> /\ turn' = Len(steps')
  BY <1>1, <1>3 DEF Offsets, LastIsFinal
<1>6. EventsGoOn /\ Len(emitted') = Len(emitted) + 1
  BY <1>1, <1>2, EmitGoesOn
<1>7. ToldUpTo(off, k - 1)'
  <2>1. \A i \in 1 .. k - 1 : Plain(steps'[i]) /\ TellsAll(emitted', off[i], steps'[i], i)
    BY <1>3, <1>6, TellsStay DEF ToldUpTo, TellsAll, EventsGoOn
  <2> QED
    BY <2>1 DEF ToldUpTo
<1>8. CASE at = "calls"
  <2>1. at' = "tool" /\ next' = n /\ Emit("call", <<<<k, n>>>>) /\ Begun = n - 1 /\ Begun' = n
    BY <1>1, <1>8 DEF Begun
  <2>2. Tells(emitted', o, r, k, n, n - 1)
    BY <1>2, <1>3, <2>1, CallIsTold
  <2>3. Len(emitted') = o + Lead(r) + (n - 1) + n
    BY <1>3, <1>4, <1>6, <2>1
  <2>4. MidStep(off[turn], steps[turn], turn)'
    BY <1>1, <1>3, <2>1, <2>3 DEF MidStep
  <2>5. Tells(emitted', off[turn'], steps'[turn'], turn', Begun', next' - 1)
    BY <1>1, <2>1, <2>2
  <2>6. Partly(off)'
    BY <1>1, <1>3, <1>7, <2>1, <2>4, <2>5 DEF Partly
  <2> QED
    BY <1>5, <2>1, <2>6 DEF Recorder
<1>9. CASE at = "tool"
  <2>1. /\ at' = "calls" /\ next' = n + 1 /\ Emit("result", <<<<k, n>>>>) /\ Begun = n /\ Begun' = n
        /\ next' - 1 = n /\ Harmless(calls[n])
    BY <1>1, <1>9 DEF Begun
  <2>2. Tells(emitted', o, r, k, n, n)
    BY <1>2, <1>3, <2>1, ResultIsTold
  <2>3. Len(emitted') = o + Lead(r) + n + n
    BY <1>3, <1>4, <1>6, <2>1
  <2>4. MidStep(off[turn], steps[turn], turn)'
    BY <1>1, <1>3, <2>1, <2>3 DEF MidStep
  <2>5. Tells(emitted', off[turn'], steps'[turn'], turn', Begun', next' - 1)
    BY <1>1, <2>1, <2>2
  <2>6. \A j \in 1 .. next' - 1 : Harmless(calls'[j])
    <3>1. \A j \in 1 .. n : j = n \/ j \in 1 .. n - 1
      OBVIOUS
    <3> QED
      BY <1>3, <2>1, <3>1
  <2>7. Partly(off)'
    BY <1>1, <1>3, <1>7, <2>1, <2>4, <2>5, <2>6 DEF Partly
  <2> QED
    BY <1>5, <2>1, <2>7 DEF Recorder
<1> QED
  BY <1>8, <1>9

LEMMA RecordStepTurn ==
    ASSUME LoopTypes, Recording, NEW off, Recorder(off),
           at = "calls", next > Len(calls), at' = "turn",
           UNCHANGED <<turn, emitted, steps, outcome>>
    PROVE  Recorder(off)'
<1>1. PICK k \in Nat, r \in Reply : k = turn /\ k = Len(steps) /\ r = steps[k] /\ k # 0
  <2>1. turn = Len(steps) /\ steps # <<>> /\ steps \in Seq(Reply)
    BY DEF Recorder, Partly, Recording
  <2>2. Len(steps) \in 1 .. Len(steps) /\ Len(steps) \in Nat
    BY <2>1
  <2> QED
    BY <2>1, <2>2
<1>2. /\ Offsets(off) /\ LastIsFinal /\ calls = r.calls
      /\ Len(emitted) = off[k] + Lead(r) + (next - 1) + (next - 1)
      /\ \A j \in 1 .. next - 1 : Harmless(calls[j])
      /\ Tells(emitted, off[k], r, k, next - 1, next - 1) /\ ToldUpTo(off, k - 1)
  BY <1>1 DEF Recorder, Partly, MidStep, Begun
<1>3. next - 1 = Len(r.calls) /\ Len(r.calls) \in Nat /\ next \in Nat
  BY <1>2 DEF LoopTypes
<1>4. Plain(r) /\ TellsAll(emitted, off[k], r, k)
  BY <1>2, <1>3 DEF Plain, TellsAll
<1>5. Len(emitted) = off[k + 1]
  <2>1. off[k] \in Nat /\ off[k + 1] = off[k] + Size(r)
    BY <1>1, <1>2 DEF Offsets
  <2>2. Lead(r) \in Nat /\ Size(r) = Lead(r) + 2 * Len(r.calls)
    BY Sizes
  <2>3. Len(emitted) = off[k] + Lead(r) + Len(r.calls) + Len(r.calls)
    BY <1>2, <1>3
  <2>4. \A a, b, c \in Nat : a + b + c + c = a + (b + 2 * c)
    OBVIOUS
  <2>5. off[k] + Lead(r) + Len(r.calls) + Len(r.calls) = off[k] + (Lead(r) + 2 * Len(r.calls))
    BY <1>3, <2>1, <2>2, <2>4
  <2> QED
    BY <2>1, <2>2, <2>3, <2>5
<1>6. \A i \in 1 .. k : i = k \/ i \in 1 .. k - 1
  OBVIOUS
<1>7. \A i \in 1 .. k : Plain(steps[i]) /\ TellsAll(emitted, off[i], steps[i], i)
  BY <1>1, <1>2, <1>4, <1>6 DEF ToldUpTo
<1>8. Whole(off)'
  BY <1>1, <1>5, <1>7 DEF Whole, ToldUpTo
<1>9. Offsets(off)' /\ LastIsFinal' /\ turn' = Len(steps') + 0
  BY <1>1, <1>2 DEF Offsets, LastIsFinal
<1> QED
  BY <1>8, <1>9 DEF Recorder

LEMMA RecordStep ==
    ASSUME RecordInv, TalkTypes, LoopTypes, Recording, [Next]_vars
    PROVE  RecordInv'
<1> USE DEF End, Stay, loopVars, chatVars, toolVars, stopVars, replayVars
<1> SUFFICES ASSUME mode' = "record", at' # "over" \/ outcome' = "succeeded"
             PROVE  \E o : Recorder(o)'
  BY DEF RecordInv
<1>1. /\ next \in Nat /\ Len(calls) \in Nat
      /\ (at = "tool" => next \in 1 .. Len(calls))
      /\ (at = "turn" => outcome = "none")
  BY DEF LoopTypes
<1>2. ASSUME UNCHANGED <<mode, at, turn, calls, next, emitted, outcome, steps>>
      PROVE  \E o : Recorder(o)'
  <2>1. PICK off : Recorder(off)
    BY <1>2 DEF RecordInv
  <2>2. /\ Offsets(off)' /\ LastIsFinal' /\ (Partly(off) => Partly(off)') /\ (Whole(off) => Whole(off)')
    BY <1>2, <2>1 DEF Recorder, Offsets, LastIsFinal, Partly, Whole, MidStep, Begun, ToldUpTo
  <2>3. Recorder(off)'
    BY <1>2, <2>1, <2>2 DEF Recorder
  <2> QED
    BY <2>3
<1>3. CASE BeginTurn
  <2>1. /\ at = "turn" /\ at' = "chat" /\ turn' = turn + 1
        /\ UNCHANGED <<mode, emitted, outcome, steps>>
    BY <1>1, <1>3 DEF BeginTurn
  <2>2. PICK off : Recorder(off)
    BY <2>1 DEF RecordInv
  <2>3. Offsets(off)' /\ LastIsFinal' /\ Whole(off)' /\ turn' = Len(steps') + 1
    BY <2>1, <2>2 DEF Recorder, Offsets, LastIsFinal, Whole, ToldUpTo, Recording
  <2>4. Recorder(off)'
    BY <2>1, <2>3 DEF Recorder
  <2> QED
    BY <2>4
<1>4. CASE OutOfSteps \/ BodyUnreadable
  BY <1>4 DEF OutOfSteps, BodyUnreadable
<1>5. CASE PostFails
  BY <1>2, <1>5 DEF PostFails, Post
<1>6. ASSUME NEW r \in Reply, Answer(r)
      PROVE  \E o : Recorder(o)'
  <2>1. /\ at = "chat" /\ mode = "record" /\ Take(r) /\ steps' = Append(steps, r)
        /\ UNCHANGED turn
    BY <1>6 DEF Answer, Post, Recorded
  <2>2. PICK off : Recorder(off)
    BY <2>1 DEF RecordInv
  <2> QED
    BY <2>1, <2>2, RecordStepTakes
<1>7. CASE Replay \/ StartReplay
  BY <1>7 DEF Replay, StartReplay
<1>8. CASE BeginCall
  <2>1. /\ at = "calls" /\ next <= Len(calls) /\ at' = "tool" /\ next' = next
        /\ Emit("call", <<<<turn, next>>>>) /\ UNCHANGED <<turn, calls, steps, outcome, mode>>
    BY <1>8 DEF BeginCall
  <2>2. PICK off : Recorder(off)
    BY <2>1 DEF RecordInv
  <2>3. Recorder(off)'
    BY <2>1, <2>2, RecordStepCalls
  <2> QED
    BY <2>3
<1>9. CASE RunCall
  <2>1. CASE AnswerCall
    <3>1. /\ at = "tool" /\ at' = "calls" /\ next' = next + 1 /\ Emit("result", <<<<turn, next>>>>)
          /\ UNCHANGED <<turn, calls, steps, outcome, mode>>
      BY <1>9, <2>1 DEF RunCall, AnswerCall
    <3>2. Harmless(calls[next])
      BY <1>1, <1>9, <3>1 DEF RunCall, Refused, Harmless, Dies
    <3>3. PICK off : Recorder(off)
      BY <3>1 DEF RecordInv
    <3>4. Recorder(off)'
      BY <3>1, <3>2, <3>3, RecordStepCalls
    <3> QED
      BY <3>4
  <2>2. CASE ~AnswerCall
    BY <1>9, <2>2 DEF RunCall, Dies
  <2> QED
    BY <2>1, <2>2
<1>10. CASE EndTurn
  <2>1. /\ at = "calls" /\ next > Len(calls) /\ at' = "turn"
        /\ UNCHANGED <<turn, emitted, steps, outcome, mode>>
    BY <1>10 DEF EndTurn
  <2>2. PICK off : Recorder(off)
    BY <2>1 DEF RecordInv
  <2>3. Recorder(off)'
    BY <2>1, <2>2, RecordStepTurn
  <2> QED
    BY <2>3
<1>11. CASE BoxDies \/ Finished \/ UNCHANGED vars \/ \E why \in {"cancelled", "timeout"} : Stop(why)
  <2>1. UNCHANGED <<mode, at, turn, calls, next, emitted, outcome, steps>>
    BY <1>11 DEF BoxDies, Finished, Stop, vars
  <2> QED
    BY <1>2, <2>1
<1> QED
  BY <1>3, <1>4, <1>5, <1>6, <1>7, <1>8, <1>9, <1>10, <1>11 DEF Next, Loop

-----------------------------------------------------------------------------
LEMMA PlayBegins ==
    ASSUME RecordInv, TalkTypes, LoopTypes, Recording, cursor = 0, StartReplay
    PROVE  \E o : Player(o)'
<1>1. PICK off : Recorder(off)
  BY DEF StartReplay, RecordInv
<1>2. PICK n \in Nat : n = Len(steps) /\ n = turn /\ n \in 1 .. MaxSteps /\ at = "over"
  <2>1. at = "over" /\ outcome = "succeeded" /\ turn \in 0 .. MaxSteps
    BY DEF StartReplay, LoopTypes
  <2>2. turn = Len(steps) /\ steps # <<>> /\ steps \in Seq(Reply)
    BY <1>1, <2>1 DEF Recorder, LastIsFinal, Recording
  <2> QED
    BY <2>1, <2>2, AgentAssumption
<1>3. /\ Offsets(off) /\ off \in [1 .. n + 1 -> Nat] /\ off[1] = 0
      /\ Len(emitted) = off[n + 1] /\ emitted \in Seq(Note)
      /\ \A k \in 1 .. n : Plain(steps[k]) /\ TellsAll(emitted, off[k], steps[k], k)
      /\ \A k \in 1 .. n : Final(steps[k]) <=> k = n
  BY <1>1, <1>2 DEF StartReplay, Recorder, Offsets, LastIsFinal, Whole, ToldUpTo, TalkTypes
<1>4. /\ played' = emitted /\ steps' = steps /\ cursor' = 0 /\ at' = "turn" /\ turn' = 0
      /\ outcome' = "none" /\ emitted' = <<>>
  BY DEF StartReplay
<1>5. Offsets(off)'
  BY <1>3, <1>4 DEF Offsets
<1>6. Script(off)'
  BY <1>2, <1>3, <1>4, <1>5 DEF Script
<1>7. Len(emitted') = 0 /\ Len(played') \in Nat
  BY <1>3, <1>4
<1>8. Matching'
  BY <1>7 DEF Matching
<1>9. /\ cursor' < Len(steps') /\ turn' = cursor' + (IF at' = "chat" THEN 1 ELSE 0)
      /\ Len(emitted') = off[cursor' + 1]
  <2>1. 0 < Len(steps')
    <3>1. Len(steps') = n
      BY <1>2, <1>4
    <3>2. 0 < n
      BY <1>2, AgentAssumption
    <3> QED
      BY <3>1, <3>2
  <2>2. Len(emitted') = off[0 + 1]
    BY <1>3, <1>7
  <2>3. cursor' = 0 /\ turn' = 0 /\ at' # "chat" /\ 0 + 0 = 0
    BY <1>4
  <2> QED
    BY <2>1, <2>2, <2>3
<1>10. Player(off)'
  BY <1>4, <1>6, <1>8, <1>9 DEF Player
<1> QED
  BY <1>10

(* The next event of a replay is the next one that was recorded.             *)
LEMMA MatchingGrows ==
    ASSUME emitted \in Seq(Note), emitted' \in Seq(Note), played \in Seq(Note), UNCHANGED played,
           Matching, EventsGoOn, Len(emitted') \in {Len(emitted), Len(emitted) + 1},
           Len(emitted') = Len(emitted) + 1 =>
               /\ Len(emitted) + 1 \in DOMAIN played
               /\ emitted'[Len(emitted) + 1] = played[Len(emitted) + 1]
    PROVE  Matching'
<1>1. PICK n \in Nat, m \in Nat : n = Len(emitted) /\ m = Len(played)
  OBVIOUS
<1>2. /\ DOMAIN emitted = 1 .. n /\ DOMAIN played = 1 .. m /\ n <= m
      /\ \A p \in 1 .. n : emitted[p] = played[p] /\ emitted'[p] = emitted[p]
  BY <1>1 DEF Matching, EventsGoOn
<1>3. CASE Len(emitted') = n
  BY <1>1, <1>2, <1>3 DEF Matching
<1>4. CASE Len(emitted') = n + 1
  <2>1. n + 1 \in 1 .. m /\ emitted'[n + 1] = played[n + 1]
    BY <1>1, <1>2, <1>4
  <2>2. \A p \in 1 .. n + 1 : p = n + 1 \/ p \in 1 .. n
    OBVIOUS
  <2> QED
    BY <1>1, <1>2, <1>4, <2>1, <2>2 DEF Matching
<1> QED
  BY <1>1, <1>3, <1>4

LEMMA ScriptStays ==
    ASSUME NEW off, Script(off), UNCHANGED <<steps, played>>
    PROVE  Script(off)'
BY DEF Script, Offsets

LEMMA PlayStepTakes ==
    ASSUME TalkTypes, TalkTypes', LoopTypes, Recording, NEW off, Player(off),
           at = "chat", cursor # Len(steps), Take(steps[cursor + 1]), cursor' = cursor + 1,
           UNCHANGED <<turn, steps, played>>
    PROVE  Player(off)'
<1>1. PICK n \in Nat, k \in Nat \ {0}, r \in Reply :
          /\ n = Len(steps) /\ k = cursor + 1 /\ r = steps[k] /\ k \in 1 .. n
  <2>1. cursor < Len(steps) /\ cursor \in Nat /\ Len(steps) \in Nat /\ steps \in Seq(Reply)
    BY DEF Player, Recording
  <2>2. cursor + 1 \in 1 .. Len(steps)
    BY <2>1
  <2> QED
    BY <2>1, <2>2
<1>2. /\ turn = k /\ Len(emitted) = off[k] /\ outcome = "none" /\ next = 1
      /\ Script(off) /\ Matching
  BY <1>1 DEF Player, LoopTypes
<1>3. /\ off \in [1 .. n + 1 -> Nat] /\ off[k + 1] = off[k] + Size(r) /\ played \in Seq(Note)
      /\ Len(played) = off[n + 1] /\ TellsAll(played, off[k], r, k) /\ (Final(r) <=> k = n)
  BY <1>1, <1>2 DEF Script, Offsets
<1>4. /\ Lead(r) \in {0, 1} /\ (r.text => Lead(r) = 1) /\ (~r.text => Lead(r) = 0)
      /\ Len(r.calls) \in Nat /\ Size(r) \in Nat /\ Size(r) = Lead(r) + 2 * Len(r.calls)
      /\ (r.calls = <<>> => Len(r.calls) = 0) /\ r.text \in BOOLEAN
  BY Sizes
<1>5. /\ EventsGoOn /\ Len(emitted) \in Nat /\ Len(emitted') = off[k] + Lead(r)
      /\ Tells(emitted', off[k], r, k, 0, 0)
  BY <1>1, <1>2, TakeTells
<1>6. Script(off)'
  BY <1>2, ScriptStays
<1>7. Matching'
  <2>1. CASE r.text
    <3>1. /\ off[k] + 1 \in DOMAIN played /\ played[off[k] + 1] = Opening(r)
          /\ emitted'[off[k] + 1] = Opening(r)
      BY <1>3, <1>5, <2>1 DEF TellsAll, Tells
    <3> QED
      BY <1>2, <1>3, <1>4, <1>5, <2>1, <3>1, MatchingGrows DEF TalkTypes
  <2>2. CASE ~r.text
    <3>1. Len(emitted') = Len(emitted) /\ Len(emitted) # Len(emitted) + 1
      BY <1>2, <1>4, <1>5, <2>2
    <3> QED
      BY <1>2, <1>3, <1>5, <3>1, MatchingGrows DEF TalkTypes
  <2> QED
    BY <1>4, <2>1, <2>2
<1>8. CASE r.calls # <<>>
  <2>1. /\ at' = "calls" /\ next' = 1 /\ calls' = r.calls /\ outcome' = "none"
        /\ turn' = k /\ cursor' = k /\ Begun' = 0
    BY <1>1, <1>2, <1>8 DEF Take, Begun
  <2>2. k \in 1 .. Len(steps') - 1
    BY <1>1, <1>3, <1>8 DEF Final
  <2>3. Len(emitted') = off[k] + Lead(r) + (1 - 1) + 0
    BY <1>1, <1>3, <1>4, <1>5
  <2>4. MidStep(off[cursor], steps[cursor], cursor)'
    BY <1>1, <1>8, <2>1, <2>3 DEF MidStep
  <2> QED
    BY <1>6, <1>7, <2>1, <2>2, <2>4 DEF Player
<1>9. CASE r.calls = <<>> /\ r.text
  <2>1. at' = "over" /\ outcome' = "succeeded"
    BY <1>1, <1>9 DEF Take, End
  <2>2. Len(emitted') = Len(played')
    BY <1>3, <1>4, <1>5, <1>9 DEF Final
  <2> QED
    BY <1>6, <1>7, <2>1, <2>2 DEF Player
<1>10. CASE r.calls = <<>> /\ ~r.text
  <2>1. at' = "turn" /\ outcome' = "none" /\ cursor' = k /\ turn' = k + 0
    BY <1>1, <1>2, <1>10 DEF Take
  <2>2. k < Len(steps') /\ Len(emitted') = off[k + 1]
    BY <1>1, <1>3, <1>4, <1>5, <1>10 DEF Final
  <2> QED
    BY <1>6, <1>7, <2>1, <2>2 DEF Player
<1> QED
  BY <1>4, <1>8, <1>9, <1>10

(* The next call of the reply is begun, or answered.                         *)
LEMMA PlayStepCalls ==
    ASSUME TalkTypes, TalkTypes', LoopTypes, Recording, NEW off, Player(off),
           UNCHANGED <<turn, calls, steps, outcome, cursor, played>>,
           \/ /\ at = "calls" /\ next <= Len(calls) /\ at' = "tool" /\ next' = next
              /\ Emit("call", <<<<turn, next>>>>)
           \/ /\ at = "tool" /\ at' = "calls" /\ next' = next + 1
              /\ Emit("result", <<<<turn, next>>>>)
    PROVE  Player(off)'
<1>1. PICK k \in Nat \ {0}, r \in Reply, o \in Nat, j \in Nat \ {0} :
          /\ k = cursor /\ k = turn /\ r = steps[k] /\ o = off[k] /\ j = next
          /\ k \in 1 .. Len(steps) - 1 /\ k \in 1 .. Len(steps) /\ j <= Len(r.calls)
  <2>1. /\ cursor \in 1 .. Len(steps) - 1 /\ cursor = turn /\ calls = steps[cursor].calls
        /\ Len(steps) \in Nat /\ steps \in Seq(Reply) /\ off \in [1 .. Len(steps) + 1 -> Nat]
        /\ next \in Nat \ {0} /\ next <= Len(calls)
    <3>1. Script(off) /\ cursor \in 1 .. Len(steps) - 1 /\ MidStep(off[cursor], steps[cursor], cursor)
      BY DEF Player
    <3>2. Len(steps) \in Nat /\ steps \in Seq(Reply) /\ off \in [1 .. Len(steps) + 1 -> Nat]
      BY <3>1 DEF Script, Offsets, Recording
    <3>3. next \in Nat \ {0} /\ next <= Len(calls)
      BY DEF LoopTypes
    <3> QED
      BY <3>1, <3>2, <3>3 DEF MidStep
  <2>2. cursor \in Nat \ {0} /\ cursor \in 1 .. Len(steps) /\ cursor \in 1 .. Len(steps) + 1
    BY <2>1
  <2>3. steps[cursor] \in Reply /\ off[cursor] \in Nat /\ next <= Len(steps[cursor].calls)
    BY <2>1, <2>2
  <2> QED
    BY <2>1, <2>2, <2>3
<1>2. /\ Script(off) /\ Matching /\ calls = r.calls /\ calls # <<>> /\ outcome = "none"
      /\ emitted \in Seq(Note) /\ emitted' \in Seq(Note) /\ <<<<k, j>>>> \in Seq(Id)
      /\ played \in Seq(Note)
  BY <1>1, IdFacts DEF Player, MidStep, TalkTypes, LoopTypes, Script
<1>3. TellsAll(played, o, r, k) /\ Len(r.calls) \in Nat /\ Lead(r) \in Nat
  <2>1. TellsAll(played, off[k], steps[k], k)
    BY <1>1, <1>2 DEF Script
  <2>2. Len(r.calls) \in Nat /\ Lead(r) \in Nat
    BY Sizes
  <2> QED
    BY <1>1, <2>1, <2>2
<1>4. j \in 1 .. Len(r.calls)
  BY <1>1, <1>3
<1>5. /\ o + Lead(r) + (2 * j - 1) \in DOMAIN played
      /\ played[o + Lead(r) + (2 * j - 1)] = Called("call", k, j)
      /\ o + Lead(r) + 2 * j \in DOMAIN played
      /\ played[o + Lead(r) + 2 * j] = Called("result", k, j)
  BY <1>3, <1>4 DEF TellsAll, Tells
<1>6. PICK n \in Nat, l \in Nat : n = Len(emitted) /\ l = Lead(r)
  <2>1. Len(emitted) \in Nat
    BY <1>2
  <2> QED
    BY <1>3, <2>1
<1>7. n = o + l + (j - 1) + Begun
  <2>1. at \in {"calls", "tool"}
    OBVIOUS
  <2>2. MidStep(off[cursor], steps[cursor], cursor)
    BY <2>1 DEF Player
  <2>3. MidStep(o, r, k)
    BY <1>1, <2>2
  <2> QED
    BY <1>1, <1>6, <2>3 DEF MidStep
<1>8. Script(off)'
  BY <1>2, ScriptStays
<1>9. CASE at = "calls"
  <2>1. /\ at' = "tool" /\ next' = j /\ Emit("call", <<<<k, j>>>>)
        /\ Begun = j - 1 /\ Begun' = j
    BY <1>1, <1>9 DEF Begun
  <2>2. /\ EventsGoOn /\ Len(emitted') = n + 1 /\ emitted'[n + 1] = Called("call", k, j)
    BY <1>2, <1>6, <2>1, EmitGoesOn DEF Called
  <2>3. n + 1 = o + l + (2 * j - 1) /\ n + 1 = o + l + (j - 1) + j
    BY <1>7, <2>1
  <2>4. n + 1 \in DOMAIN played /\ played[n + 1] = Called("call", k, j)
    BY <1>5, <1>6, <2>3
  <2>5. Matching'
    BY <1>2, <1>6, <2>2, <2>4, MatchingGrows
  <2>6. MidStep(off[cursor], steps[cursor], cursor)'
    BY <1>1, <1>2, <1>6, <2>1, <2>2, <2>3 DEF MidStep
  <2> QED
    BY <1>1, <1>2, <1>8, <2>1, <2>5, <2>6 DEF Player
<1>10. CASE at = "tool"
  <2>1. /\ at' = "calls" /\ next' = j + 1 /\ Emit("result", <<<<k, j>>>>)
        /\ Begun = j /\ Begun' = j /\ next' - 1 = j
    BY <1>1, <1>10 DEF Begun
  <2>2. /\ EventsGoOn /\ Len(emitted') = n + 1 /\ emitted'[n + 1] = Called("result", k, j)
    BY <1>2, <1>6, <2>1, EmitGoesOn DEF Called
  <2>3. n + 1 = o + l + 2 * j /\ n + 1 = o + l + j + j
    BY <1>7, <2>1
  <2>4. n + 1 \in DOMAIN played /\ played[n + 1] = Called("result", k, j)
    BY <1>5, <1>6, <2>3
  <2>5. Matching'
    BY <1>2, <1>6, <2>2, <2>4, MatchingGrows
  <2>6. MidStep(off[cursor], steps[cursor], cursor)'
    BY <1>1, <1>2, <1>6, <2>1, <2>2, <2>3 DEF MidStep
  <2> QED
    BY <1>1, <1>2, <1>8, <2>1, <2>5, <2>6 DEF Player
<1> QED
  BY <1>9, <1>10

LEMMA PlayStepTurn ==
    ASSUME LoopTypes, Recording, NEW off, Player(off),
           at = "calls", next > Len(calls), at' = "turn",
           UNCHANGED <<turn, emitted, steps, outcome, cursor, played>>
    PROVE  Player(off)'
<1>1. PICK k \in Nat \ {0}, r \in Reply :
          /\ k = cursor /\ k = turn /\ r = steps[k] /\ k \in 1 .. Len(steps) - 1
          /\ k \in 1 .. Len(steps) /\ k < Len(steps)
  <2>1. /\ cursor \in 1 .. Len(steps) - 1 /\ cursor = turn
        /\ Len(steps) \in Nat /\ steps \in Seq(Reply)
    BY DEF Player, MidStep, Recording
  <2>2. cursor \in Nat \ {0} /\ cursor \in 1 .. Len(steps) /\ cursor < Len(steps)
    BY <2>1
  <2> QED
    BY <2>1, <2>2
<1>2. /\ Script(off) /\ Matching /\ calls = r.calls /\ outcome = "none"
      /\ Len(emitted) = off[k] + Lead(r) + (next - 1) + (next - 1)
  <2>1. /\ Script(off) /\ Matching /\ outcome = "none" /\ Begun = next - 1
        /\ MidStep(off[cursor], steps[cursor], cursor)
    BY DEF Player, Begun, LoopTypes
  <2>2. MidStep(off[k], r, k)
    BY <1>1, <2>1
  <2> QED
    BY <2>1, <2>2 DEF MidStep
<1>3. next - 1 = Len(r.calls) /\ Len(r.calls) \in Nat /\ next \in Nat
  <2>1. next - 1 = Len(calls) /\ Len(calls) \in Nat /\ next \in Nat
    BY DEF LoopTypes
  <2> QED
    BY <1>2, <2>1
<1>4. Len(emitted) = off[k + 1]
  <2>1. off[k] \in Nat /\ off[k + 1] = off[k] + Size(r)
    BY <1>1, <1>2 DEF Script, Offsets
  <2>2. Lead(r) \in Nat /\ Size(r) = Lead(r) + 2 * Len(r.calls)
    BY Sizes
  <2>3. Len(emitted) = off[k] + Lead(r) + Len(r.calls) + Len(r.calls)
    BY <1>2, <1>3
  <2>4. \A a, b, c \in Nat : a + b + c + c = a + (b + 2 * c)
    OBVIOUS
  <2>5. off[k] + Lead(r) + Len(r.calls) + Len(r.calls) = off[k] + (Lead(r) + 2 * Len(r.calls))
    BY <1>3, <2>1, <2>2, <2>4
  <2> QED
    BY <2>1, <2>2, <2>3, <2>5
<1>5. Script(off)' /\ Matching'
  BY <1>2, ScriptStays DEF Matching
<1>6. /\ cursor' < Len(steps') /\ Len(emitted') = off[cursor' + 1]
      /\ turn' = cursor' + (IF at' = "chat" THEN 1 ELSE 0)
  BY <1>1, <1>4
<1> QED
  BY <1>2, <1>5, <1>6 DEF Player

LEMMA PlayStep ==
    ASSUME TalkTypes, TalkTypes', LoopTypes, Recording, NEW off, Player(off),
           mode = "mock", [Next]_vars
    PROVE  Player(off)'
<1> USE DEF End, Stay, loopVars, chatVars, toolVars, stopVars, replayVars
<1>1. ASSUME UNCHANGED <<at, turn, calls, next, emitted, outcome, steps, cursor, played>>
      PROVE  Player(off)'
  <2>1. Script(off)' /\ Matching'
    BY <1>1, ScriptStays DEF Player, Matching
  <2> QED
    BY <1>1, <2>1 DEF Player, MidStep, Begun
<1>2. ASSUME UNCHANGED <<emitted, steps, played>>, at' = "over",
             outcome' \in {"stopped", "sandboxdied"}
      PROVE  Player(off)'
  <2>1. Script(off)' /\ Matching'
    BY <1>2, ScriptStays DEF Player, Matching
  <2> QED
    BY <1>2, <2>1 DEF Player
<1>3. CASE BeginTurn
  <2>1. CASE reason # "none"
    BY <1>2, <1>3, <2>1 DEF BeginTurn
  <2>2. CASE reason = "none"
    <3>1. /\ at = "turn" /\ at' = "chat" /\ turn' = turn + 1
          /\ UNCHANGED <<emitted, outcome, steps, cursor, played>>
      BY <1>3, <2>2 DEF BeginTurn
    <3>2. Script(off)' /\ Matching'
      BY <3>1, ScriptStays DEF Player, Matching
    <3>3. cursor < Len(steps) /\ turn = cursor + 0 /\ Len(emitted) = off[cursor + 1]
      BY <3>1 DEF Player
    <3>4. turn' = cursor' + 1
      BY <3>1, <3>3 DEF Recording
    <3> QED
      BY <3>1, <3>2, <3>3, <3>4 DEF Player
  <2> QED
    BY <2>1, <2>2
<1>4. CASE OutOfSteps
  <2>1. at = "turn" /\ turn >= MaxSteps /\ turn \in Nat
    BY <1>4, AgentAssumption DEF OutOfSteps, StepLeft, LoopTypes
  <2>2. turn < Len(steps) /\ Len(steps) \in 1 .. MaxSteps
    BY <2>1 DEF Player, Script, Recording
  <2> QED
    BY <2>1, <2>2, AgentAssumption
<1>5. CASE PostFails \/ BodyUnreadable \/ StartReplay \/ \E r \in Reply : Answer(r)
  BY <1>5 DEF PostFails, BodyUnreadable, Answer, Post, StartReplay
<1>6. CASE Replay
  <2>1. at = "chat" /\ cursor # Len(steps)
    BY <1>6 DEF Replay, Player, Recording
  <2> QED
    BY <1>6, <2>1, PlayStepTakes DEF Replay
<1>7. CASE BeginCall
  <2>1. CASE reason # "none"
    BY <1>2, <1>7, <2>1 DEF BeginCall
  <2>2. CASE reason = "none"
    BY <1>7, <2>2, PlayStepCalls DEF BeginCall
  <2> QED
    BY <2>1, <2>2
<1>8. CASE RunCall
  <2>1. CASE AnswerCall
    BY <1>8, <2>1, PlayStepCalls DEF RunCall, AnswerCall
  <2>2. CASE ~AnswerCall
    <3>1. at = "tool" /\ ~Refused(calls[next]) /\ UNCHANGED <<steps, played>>
      BY <1>8, <2>2 DEF RunCall
    <3>2. Harmless(calls[next])
      <4>1. /\ cursor \in 1 .. Len(steps) - 1 /\ calls = steps[cursor].calls /\ Len(steps) \in Nat
            /\ next \in 1 .. Len(calls)
        BY <3>1 DEF Player, MidStep, LoopTypes, Recording
      <4>2. cursor \in 1 .. Len(steps)
        BY <4>1
      <4>3. Plain(steps[cursor])
        BY <4>2 DEF Player, Script
      <4> QED
        BY <4>1, <4>3 DEF Plain
    <3>3. Dies("sandboxdied")
      BY <1>8, <2>2, <3>1, <3>2 DEF RunCall, Harmless
    <3> QED
      BY <1>2, <3>1, <3>3 DEF Dies
  <2> QED
    BY <2>1, <2>2
<1>9. CASE EndTurn
  BY <1>9, PlayStepTurn DEF EndTurn
<1>10. CASE BoxDies \/ Finished \/ UNCHANGED vars \/ \E why \in {"cancelled", "timeout"} : Stop(why)
  <2>1. UNCHANGED <<at, turn, calls, next, emitted, outcome, steps, cursor, played>>
    BY <1>10 DEF BoxDies, Finished, Stop, vars
  <2> QED
    BY <1>1, <2>1
<1> QED
  BY <1>3, <1>4, <1>5, <1>6, <1>7, <1>8, <1>9, <1>10 DEF Next, Loop

-----------------------------------------------------------------------------
LEMMA ReplayInit == Init => ReplayInv
<1> SUFFICES ASSUME Init
             PROVE  ReplayInv
  OBVIOUS
<1> DEFINE none == [k \in 1 .. 1 |-> 0]
<1>1. /\ steps = <<>> /\ Len(steps) = 0 /\ emitted = <<>> /\ Len(emitted) = 0
      /\ at = "turn" /\ turn = 0 /\ outcome = "none" /\ cursor = 0 /\ mode # "mock"
  BY DEF Init, Start
<1>2. none \in [1 .. 0 + 1 -> Nat] /\ none[1] = 0
  OBVIOUS
<1> HIDE DEF none
<1>3. Offsets(none) /\ Whole(none) /\ LastIsFinal
  BY <1>1, <1>2 DEF Offsets, Whole, ToldUpTo, LastIsFinal
<1>4. Recorder(none)
  BY <1>1, <1>3 DEF Recorder
<1> QED
  BY <1>1, <1>4 DEF ReplayInv, RecordInv

LEMMA ReplayStep ==
    ASSUME AgentInv, AgentInv', ReplayInv, [Next]_vars
    PROVE  ReplayInv'
<1>1. TalkTypes /\ TalkTypes' /\ LoopTypes /\ Recording
  BY DEF AgentInv
<1>2. RecordInv'
  BY <1>1, RecordStep DEF ReplayInv
<1>3. \/ mode' = mode /\ (mode = "record" => cursor' = cursor)
      \/ StartReplay /\ mode = "record" /\ mode' = "mock"
  BY DEF Next, Loop, BeginTurn, OutOfSteps, PostFails, BodyUnreadable, Answer, Replay, BeginCall,
         RunCall, EndTurn, BoxDies, Stop, Finished, StartReplay, replayVars, vars
<1>4. CASE StartReplay /\ mode = "record" /\ mode' = "mock"
  <2>1. \E o : Player(o)'
    BY <1>1, <1>4, PlayBegins DEF ReplayInv
  <2> QED
    BY <1>2, <1>4, <2>1 DEF ReplayInv
<1>5. CASE mode' = mode /\ (mode = "record" => cursor' = cursor)
  <2>1. CASE mode = "mock"
    <3>1. PICK off : Player(off)
      BY <2>1 DEF ReplayInv
    <3>2. Player(off)'
      BY <1>1, <2>1, <3>1, PlayStep
    <3> QED
      BY <1>2, <1>5, <2>1, <3>2 DEF ReplayInv
  <2>2. CASE mode # "mock"
    BY <1>2, <1>5, <2>2 DEF ReplayInv
  <2> QED
    BY <2>1, <2>2
<1> QED
  BY <1>3, <1>4, <1>5

(* worker/record.py:99-110 and agent/mock.py:47-71: a recording that was     *)
(* written replays.  The mock never runs out of steps, nothing that is       *)
(* recorded ends the replay otherwise than it ended the run, and the clients *)
(* see the recorded events, one for one.                                     *)
THEOREM RecordingsReplay == Spec => []ReplayMatches
<1>1. AgentInv /\ ReplayInv => ReplayMatches
  <2> SUFFICES ASSUME AgentInv, ReplayInv, mode = "mock"
               PROVE  /\ outcome \in {"none", "succeeded", "stopped", "sandboxdied"}
                      /\ IsPrefix(emitted, played)
                      /\ outcome = "succeeded" => emitted = played
    BY DEF ReplayMatches
  <2>1. PICK off : Player(off)
    BY DEF ReplayInv
  <2>2. emitted \in Seq(Note) /\ played \in Seq(Note) /\ Matching
    BY <2>1 DEF Player, Script, AgentInv, TalkTypes
  <2>3. PICK n \in Nat : n = Len(emitted) /\ n <= Len(played)
    BY <2>2 DEF Matching
  <2>4. SubSeq(emitted, 1, n) = SubSeq(played, 1, n)
    BY <2>2, <2>3 DEF Matching
  <2>5. outcome = "succeeded" => emitted = played
    BY <2>1, <2>2 DEF Player, Matching
  <2> QED
    BY <2>1, <2>3, <2>4, <2>5 DEF Player, IsPrefix
<1>2. AgentInv /\ AgentInv' /\ ReplayInv /\ [Next]_vars => ReplayInv'
  BY ReplayStep
<1> QED
  BY <1>1, <1>2, ReplayInit, AgentInvariant, PTL DEF Spec
=============================================================================

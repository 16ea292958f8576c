------------------------- MODULE AppServerRunProofs -------------------------
EXTENDS AppServerRun, FiniteSetTheorems, SequenceTheorems, TLAPS

-----------------------------------------------------------------------------
(* The inductive invariant *)

KindState == [resumed : BOOLEAN, open : BOOLEAN, goal : BOOLEAN]
ServerState == [turn : Turns, open : BOOLEAN, final : BOOLEAN, goal : BOOLEAN, up : BOOLEAN]
RunState == [turn : Turns, terminal : BOOLEAN, final : BOOLEAN, timer : BOOLEAN,
             goalTimer : BOOLEAN, goalLater : BOOLEAN, closed : BOOLEAN,
             inHand : {"no", "begun", "goal"}]
Jobs == Inputs \cup {Nobody}
FlushState == [jobs : Seq(Jobs), at : {"idle", "asking", "waiting", "refreshing", "refreshed"},
               hand : Seq(Inputs), try : 0 .. Retries]
StopState == [asked : BOOLEAN, at : {"no", "asking", "waiting", "over"},
              turn : Turns, try : 0 .. Retries]
Requests == [call : Calls, turn : Turns, inputs : Seq(Inputs), live : BOOLEAN]
Lines == Answer \cup Event
Toldness == {"no", "waiting", "buffered", "steered", "failed", "refused"}

Typed ==
    /\ kind \in KindState /\ server \in ServerState
    /\ asked \in Seq(Requests) /\ wire \in Seq(Lines)
    /\ awaited \subseteq Calls /\ answers \subseteq Answer
    /\ phase \in {"boot", "start", "resteer", "goal", "up"}
    /\ run \in RunState /\ chain \in Seq(Event) /\ pending \in Seq(Inputs)
    /\ flush \in FlushState /\ stop \in StopState
    /\ told \in [Steers -> Toldness] /\ tries \in [Steers -> 0 .. Repeats + 1]
    /\ got \in [Inputs -> 0 .. 2] /\ unsure \subseteq Inputs
    /\ result \in {"none", "completed", "failed", "interrupted", "lost", "crashed"}

\* A call has one live request, one reply on the wire or one answer, and its
\* caller waits.
OnWire(k, c) == wire[k] \in Answer /\ wire[k].call = c
Awaits(c) == c \in awaited \/ \E a \in answers : a.call = c

AnswersHold ==
    /\ \A a \in answers : a.call \notin awaited /\ (a.turn = -1 => ~a.ok)
    /\ \A a, b \in answers : a.call = b.call => a = b
AskedHolds ==
    /\ \A k \in DOMAIN asked : asked[k].live /\ ~run.closed => asked[k].call \in awaited
    /\ \A j, k \in DOMAIN asked :
          asked[j].live /\ asked[k].live /\ asked[j].call = asked[k].call => j = k
WireHolds ==
    /\ \A k \in DOMAIN wire : wire[k] \in Answer => wire[k].call \in awaited /\ wire[k].turn # -1
    /\ \A j, k \in DOMAIN wire :
          wire[j] \in Answer /\ wire[k] \in Answer /\ wire[j].call = wire[k].call => j = k
    /\ \A j \in DOMAIN asked, k \in DOMAIN wire :
          asked[j].live /\ wire[k] \in Answer => asked[j].call # wire[k].call
CallsHold ==
    /\ AnswersHold /\ AskedHolds /\ WireHolds
    /\ run.closed => ~server.up /\ awaited = {} /\ wire = <<>>

Waits(c) ==
    \/ c = "thread" /\ phase = "boot"
    \/ c = "start" /\ phase = "start"
    \/ c = "steer" /\ flush.at = "asking"
    \/ c = "refresh" /\ flush.at = "refreshing"
    \/ c = "goal" /\ (phase = "goal" \/ run.inHand = "goal")
    \/ c = "interrupt" /\ stop.at = "asking"

StagesHold ==
    /\ \A c \in Calls : Awaits(c) => Waits(c)
    /\ phase = "start" => Awaits("start")
    /\ run.goalLater \/ run.inHand = "goal" => phase \in {"start", "up"}
    /\ run.inHand # "no" => chain # <<>>
    /\ run.inHand = "goal" => ~run.goalLater
    /\ stop.at # "no" => stop.asked

\* The jobs of the flush chain, each of a steer that waits or of the prompt
JobsHold ==
    /\ \A k \in DOMAIN flush.jobs :
          /\ flush.jobs[k] \in Steers => told[flush.jobs[k]] = "waiting"
          /\ flush.jobs[k] = 0 => phase = "resteer"
    /\ \A j, k \in DOMAIN flush.jobs :
          flush.jobs[j] = flush.jobs[k] /\ flush.jobs[j] # Nobody => j = k
    /\ flush.at # "idle" => flush.jobs # <<>>
    /\ flush.at = "idle" => flush.hand = <<>>
    /\ flush.at = "waiting" => flush.try < Retries

\* An input is where its holder can still send it, or the server has it.
Once(i, list) == \A j, k \in DOMAIN list : list[j] = i /\ list[k] = i => j = k
Sends(r, i) == r.call \in {"start", "steer"} /\ InList(i, r.inputs)
NoAnswer == \E a \in answers : a.call = "steer" /\ Lost(a)
NoStart == \E a \in answers : StartRejected(a)
NoRefusal ==
    /\ \A k \in DOMAIN wire : OnWire(k, "steer") => wire[k].ok
    /\ \A a \in answers : a.call = "steer" => a.ok \/ Lost(a)
Nowhere(i) ==
    /\ ~InList(i, pending) /\ ~InList(i, flush.hand) /\ got[i] = 0
    /\ \A k \in DOMAIN asked : ~Sends(asked[k], i)

InputHolds(i) ==
    /\ got[i] <= 1
    /\ Once(i, pending) /\ Once(i, flush.hand)
    /\ ~(InList(i, pending) /\ InList(i, flush.hand))
    /\ InList(i, pending) => got[i] = 0
    /\ \A k \in DOMAIN asked : Sends(asked[k], i) =>
          got[i] = 0 /\ ~InList(i, pending) /\ Once(i, asked[k].inputs)
    /\ \A k \in DOMAIN asked : Sends(asked[k], i) /\ asked[k].call = "start" => ~InList(i, flush.hand)
    /\ \A k \in DOMAIN asked : Sends(asked[k], i) /\ asked[k].call = "steer" =>
          flush.at = "asking" /\ InList(i, flush.hand) /\ ((asked[k].live /\ ~run.closed) \/ NoAnswer)
    /\ \A j, k \in DOMAIN asked : Sends(asked[j], i) /\ Sends(asked[k], i) => j = k
    /\ InList(i, flush.hand) /\ got[i] > 0 => flush.at = "asking" /\ NoRefusal

InputsHold ==
    /\ \A i \in Inputs \ unsure : InputHolds(i)
    /\ \A s \in Steers : tries[s] = 0 => Nowhere(s) /\ told[s] = "no"
    /\ phase = "boot" => Nowhere(0)
    /\ \A k \in DOMAIN asked : asked[k].call = "start" =>
          phase = "start" /\ ((asked[k].live /\ ~run.closed) \/ NoStart)

\* What a steer that goes on has in hand is what it asked for.
HandHolds ==
    /\ \A k \in DOMAIN asked : asked[k].call = "steer" /\ asked[k].live /\ ~run.closed =>
          asked[k].inputs = flush.hand
    /\ \A k \in DOMAIN wire : OnWire(k, "steer") /\ wire[k].ok =>
          \A j \in DOMAIN flush.hand : got[flush.hand[j]] > 0
    /\ \A a \in answers : a.call = "steer" /\ a.ok =>
          \A j \in DOMAIN flush.hand : got[flush.hand[j]] > 0

SteersHold ==
    ~Failing => \A s \in Steers : told[s] \notin {"no", "refused"} => got[s] > 0 \/ Carried(s)

-----------------------------------------------------------------------------
(* Sequences *)

\* What Append, Tail and \o do, position by position
LEMMA AppendIs ==
    ASSUME NEW S, NEW s \in Seq(S), NEW e \in S
    PROVE  /\ Append(s, e) \in Seq(S) /\ Len(Append(s, e)) = Len(s) + 1
           /\ DOMAIN Append(s, e) = 1 .. Len(s) + 1 /\ DOMAIN s = 1 .. Len(s) /\ Len(s) \in Nat
           /\ \A k \in DOMAIN s : Append(s, e)[k] = s[k]
           /\ Append(s, e)[Len(s) + 1] = e
  OBVIOUS

\* What the tail and the head of a sequence are
LEMMA TailIs ==
    ASSUME NEW S, NEW s \in Seq(S), s # <<>>
    PROVE  /\ Tail(s) \in Seq(S) /\ Len(Tail(s)) = Len(s) - 1
           /\ DOMAIN Tail(s) = 1 .. Len(s) - 1 /\ DOMAIN s = 1 .. Len(s) /\ Len(s) \in Nat
           /\ \A k \in DOMAIN Tail(s) : k + 1 \in DOMAIN s /\ Tail(s)[k] = s[k + 1]
           /\ Head(s) = s[1] /\ 1 \in DOMAIN s /\ Head(s) \in S
  OBVIOUS

\* What two sequences make together
LEMMA ConcatIs ==
    ASSUME NEW S, NEW s \in Seq(S), NEW t \in Seq(S)
    PROVE  /\ s \o t \in Seq(S) /\ Len(s \o t) = Len(s) + Len(t) /\ Len(s) \in Nat /\ Len(t) \in Nat
           /\ DOMAIN (s \o t) = 1 .. Len(s) + Len(t) /\ DOMAIN s = 1 .. Len(s) /\ DOMAIN t = 1 .. Len(t)
           /\ \A k \in DOMAIN s : (s \o t)[k] = s[k]
           /\ \A k \in DOMAIN t : (s \o t)[Len(s) + k] = t[k]
  OBVIOUS

\* An element of a sequence is in its set; the empty one has none.
LEMMA ElementIs ==
    ASSUME NEW S, NEW s \in Seq(S)
    PROVE  /\ \A k \in DOMAIN s : s[k] \in S
           /\ DOMAIN s = 1 .. Len(s) /\ Len(s) \in Nat
           /\ (s = <<>>) = (Len(s) = 0)
           /\ s # <<>> => Head(s) = s[1] /\ 1 \in DOMAIN s
  OBVIOUS

\* RemoveAt takes one element out and moves those behind it up.
LEMMA RemoveAtProperties ==
    ASSUME NEW S, NEW s \in Seq(S), NEW i \in 1 .. Len(s)
    PROVE  /\ RemoveAt(s, i) \in Seq(S)
           /\ Len(RemoveAt(s, i)) = Len(s) - 1
           /\ DOMAIN RemoveAt(s, i) = 1 .. Len(s) - 1
           /\ \A k \in 1 .. Len(s) - 1 : RemoveAt(s, i)[k] = s[IF k < i THEN k ELSE k + 1]
<1> DEFINE a == SubSeq(s, 1, i - 1)
           b == SubSeq(s, i + 1, Len(s))
<1>1. /\ a \in Seq(S) /\ Len(a) = i - 1
      /\ \A k \in 1 .. i - 1 : a[k] = s[k]
  BY SubSeqProperties
<1>2. /\ b \in Seq(S) /\ Len(b) = Len(s) - i
      /\ \A k \in 1 .. Len(s) - i : b[k] = s[i + k]
  BY SubSeqProperties
<1>3. RemoveAt(s, i) = a \o b
  BY DEF RemoveAt
<1> HIDE DEF a, b
<1>4. /\ a \o b \in Seq(S) /\ Len(a \o b) = Len(s) - 1
      /\ \A k \in 1 .. Len(s) - 1 : (a \o b)[k] = IF k < i THEN a[k] ELSE b[k - (i - 1)]
  <2>1. Len(s) \in Nat
    OBVIOUS
  <2>2. /\ a \o b \in Seq(S) /\ Len(a \o b) = Len(a) + Len(b)
        /\ \A k \in 1 .. Len(a) + Len(b) :
             (a \o b)[k] = IF k <= Len(a) THEN a[k] ELSE b[k - Len(a)]
    BY <1>1, <1>2, ConcatProperties
  <2>3. Len(a) + Len(b) = Len(s) - 1
    BY <1>1, <1>2, <2>1
  <2>4. \A k \in 1 .. Len(s) - 1 : (k <= Len(a)) = (k < i)
    BY <1>1, <2>1
  <2> QED BY <1>1, <2>1, <2>2, <2>3, <2>4
<1>5. \A k \in 1 .. Len(s) - 1 : (a \o b)[k] = s[IF k < i THEN k ELSE k + 1]
  BY <1>1, <1>2, <1>4
<1> QED BY <1>3, <1>4, <1>5

-----------------------------------------------------------------------------
(* Types *)

\* The records of requests, replies and notices have their types.
LEMMA RecordTypes ==
    /\ \A c \in Calls, t \in Turns, l \in Seq(Inputs) : Request(c, t, l) \in Requests
    /\ \A c \in Calls, t \in Turns \cup {-1}, ok \in BOOLEAN : Reply(c, t, ok) \in Answer
    /\ \A c \in {"started", "final", "completed", "failed", "interrupted"}, t \in Turns :
          Notice(c, t) \in Event
    /\ NoStop \in StopState /\ 0 \in Turns /\ 0 \in Inputs /\ <<>> \in Seq(Inputs) /\ <<0>> \in Seq(Inputs)
    /\ NoJob \in FlushState /\ Nobody \in Jobs /\ Inputs \subseteq Jobs /\ <<>> \in Seq(Jobs)
<1> USE AppServerAssumption DEF AppServerAssumption
<1>1. 0 \in Turns /\ 0 \in Inputs /\ 0 \in 0 .. Retries /\ Inputs \subseteq Jobs /\ Nobody \in Jobs
  BY DEF Turns, Inputs, Jobs
<1>2. <<>> \in Seq(Inputs) /\ <<0>> \in Seq(Inputs) /\ <<>> \in Seq(Jobs)
  BY <1>1
<1>3. NoStop \in StopState /\ NoJob \in FlushState
  BY <1>1, <1>2 DEF NoStop, StopState, NoJob, FlushState
<1>4. \A c \in Calls, t \in Turns, l \in Seq(Inputs) : Request(c, t, l) \in Requests
  BY DEF Request, Requests
<1>5. \A c \in Calls, t \in Turns \cup {-1}, ok \in BOOLEAN : Reply(c, t, ok) \in Answer
  BY DEF Reply, Answer
<1>6. \A c \in {"started", "final", "completed", "failed", "interrupted"}, t \in Turns :
          Notice(c, t) \in Event
  BY DEF Notice, Event
<1> QED BY <1>1, <1>2, <1>3, <1>4, <1>5, <1>6

\* A reply is no notice.
LEMMA AnswerIsNoEvent ==
    ASSUME NEW a \in Answer
    PROVE  a \notin Event
<1>1. DOMAIN a = {"call", "turn", "ok"}
  BY DEF Answer
<1>2. \A e \in Event : DOMAIN e = {"event", "turn"}
  BY DEF Event
<1> QED BY <1>1, <1>2

\* The types of the fields
LEMMA FieldTypes ==
    ASSUME Typed
    PROVE  /\ run.turn \in Turns /\ run.inHand \in {"no", "begun", "goal"}
           /\ server.turn \in Turns /\ flush.jobs \in Seq(Jobs) /\ flush.hand \in Seq(Inputs)
           /\ flush.try \in 0 .. Retries
           /\ \A k \in DOMAIN asked : asked[k] \in Requests
           /\ \A k \in DOMAIN wire : wire[k] \in Lines
           /\ \A k \in DOMAIN chain : chain[k] \in Event
  BY DEF Typed, RunState, ServerState, FlushState

\* A call keeps the types, with the answers that are left.
LEMMA AskTypes ==
    ASSUME Typed, NEW rest \in SUBSET Answer, NEW r \in Requests, AskWith(rest, r)
    PROVE  asked' \in Seq(Requests) /\ awaited' \subseteq Calls /\ answers' \subseteq Answer
<1>1. r.call \in Calls
  BY DEF Requests
<1>2. Reply(r.call, -1, FALSE) \in Answer
  BY <1>1, RecordTypes
<1>3. CASE run.closed
  BY <1>2, <1>3 DEF AskWith, Typed
<1>4. CASE ~run.closed
  <2>1. asked' = Append(asked, r) /\ awaited' = awaited \cup {r.call} /\ answers' = rest
    BY <1>4 DEF AskWith
  <2>2. asked \in Seq(Requests) /\ awaited \subseteq Calls
    BY DEF Typed
  <2> QED BY <1>1, <2>1, <2>2, AppendIs
<1> QED BY <1>3, <1>4

\* An attempt that ends keeps the types.
LEMMA FinishTypes ==
    ASSUME NEW r, Finish(r)
    PROVE  /\ asked' \in Seq(Requests) /\ wire' \in Seq(Lines) /\ awaited' \subseteq Calls
           /\ answers' \subseteq Answer /\ chain' \in Seq(Event) /\ flush' \in FlushState
           /\ stop' \in StopState
  BY RecordTypes DEF Finish

\* The jobs of the flush chain
LEMMA FlushTypes ==
    ASSUME Typed
    PROVE  /\ \A j \in Jobs : [flush EXCEPT !.jobs = Append(@, j)] \in FlushState
           /\ flush.jobs # <<>> => NextJob \in FlushState /\ Head(flush.jobs) \in Jobs
<1>1. flush \in FlushState /\ flush.jobs \in Seq(Jobs)
  BY DEF Typed, FlushState
<1>2. ASSUME NEW j \in Jobs PROVE [flush EXCEPT !.jobs = Append(@, j)] \in FlushState
  <2> DEFINE l == Append(flush.jobs, j)
  <2>1. l \in Seq(Jobs)
    BY <1>1
  <2>2. [flush EXCEPT !.jobs = Append(@, j)] = [flush EXCEPT !.jobs = l]
    OBVIOUS
  <2> HIDE DEF l
  <2> QED BY <1>1, <2>1, <2>2 DEF FlushState
<1>3. ASSUME flush.jobs # <<>> PROVE NextJob \in FlushState /\ Head(flush.jobs) \in Jobs
  <2>1. Tail(flush.jobs) \in Seq(Jobs) /\ Head(flush.jobs) \in Jobs
    BY <1>1, <1>3
  <2>2. NextJob = [NoJob EXCEPT !.jobs = Tail(flush.jobs)]
    BY DEF NextJob
  <2> QED BY <2>1, <2>2, RecordTypes DEF FlushState
<1> QED BY <1>2, <1>3

\* What the server does keeps the types.
LEMMA ServerTypes ==
    ASSUME Typed, Serve \/ Tell \/ EndTurn \/ Continue \/ Die
    PROVE  Typed'
<1>1. CASE Serve
  <2> DEFINE r == Head(asked)
             now == server.open /\ server.turn = r.turn
             opens == r.call = "start" /\ ~server.open /\ server.turn < MaxTurn
             stops == r.call = "interrupt" /\ now
             reply == CASE r.call \in {"thread", "refresh"} -> Reply(r.call, OpenTurn, TRUE)
                        [] r.call = "start" -> Reply("start", IF opens THEN server.turn + 1 ELSE 0, opens)
                        [] r.call = "goal" -> Reply("goal", 0, TRUE)
                        [] OTHER -> Reply(r.call, r.turn, now)
             sent == IF r.live THEN <<reply>> ELSE <<>>
             begun == IF opens THEN <<Notice("started", server.turn + 1)>> ELSE <<>>
             stopped == IF stops THEN <<Notice("interrupted", r.turn)>> ELSE <<>>
  <2>1. r \in Requests /\ r.call \in Calls /\ r.turn \in Turns /\ Tail(asked) \in Seq(Requests)
    <3>1. asked \in Seq(Requests) /\ asked # <<>>
      BY <1>1 DEF Serve, Typed
    <3>2. r \in Requests /\ Tail(asked) \in Seq(Requests)
      BY <3>1, TailIs
    <3> QED BY <3>2 DEF Requests
  <2>2. now \in BOOLEAN /\ opens \in BOOLEAN /\ stops \in BOOLEAN /\ OpenTurn \in Turns
    BY RecordTypes DEF Typed, ServerState, OpenTurn
  <2>3. opens => server.turn + 1 \in Turns
    BY AppServerAssumption DEF Typed, ServerState, Turns, AppServerAssumption
  <2>4. reply \in Answer
    BY <2>1, <2>2, <2>3, RecordTypes
  <2>5. sent \in Seq(Lines) /\ begun \in Seq(Lines) /\ stopped \in Seq(Lines)
    <3>1. opens => Notice("started", server.turn + 1) \in Event
      BY <2>3, RecordTypes
    <3>2. Notice("interrupted", r.turn) \in Event
      <4>1. \A t \in Turns : Notice("interrupted", t) \in Event
        BY RecordTypes
      <4> QED BY <2>1, <4>1
    <3> HIDE DEF r, opens, stops, reply
    <3>3. \A l \in Lines : <<l>> \in Seq(Lines)
      OBVIOUS
    <3>4. <<>> \in Seq(Lines)
      OBVIOUS
    <3> QED BY <2>4, <3>1, <3>2, <3>3, <3>4 DEF Lines
  <2>6. wire' = ((wire \o sent) \o begun) \o stopped /\ asked' = Tail(asked)
    BY <1>1 DEF Serve
  <2>7. server' = [server EXCEPT !.turn = IF opens THEN @ + 1 ELSE @, !.open = opens \/ (@ /\ ~stops),
                                 !.final = @ /\ ~opens, !.goal = @ \/ r.call = "goal"]
    BY <1>1 DEF Serve
  <2>8. got' \in [Inputs -> 0 .. 2]
    <3>1. CASE UNCHANGED got
      BY <3>1 DEF Typed
    <3>2. CASE Takes(r.inputs)
      <4>1. r.inputs \in Seq(Inputs)
        BY <2>1 DEF Requests
      <4>2. \A i \in Inputs : Cardinality({k \in DOMAIN r.inputs : r.inputs[k] = i}) \in Nat
        <5> SUFFICES ASSUME NEW i \in Inputs
                     PROVE  IsFiniteSet({k \in DOMAIN r.inputs : r.inputs[k] = i})
          BY FS_CardinalityType
        <5>1. IsFiniteSet(1 .. Len(r.inputs)) /\ DOMAIN r.inputs = 1 .. Len(r.inputs)
          BY <4>1, FS_Interval
        <5> QED BY <5>1, FS_Subset
      <4> HIDE DEF r
      <4>3. \A i \in Inputs : got[i] \in 0 .. 2
        BY DEF Typed
      <4>4. \A n \in Nat : (IF n > 2 THEN 2 ELSE n) \in 0 .. 2
        OBVIOUS
      <4>5. ASSUME NEW i \in Inputs
            PROVE  got[i] + Cardinality({k \in DOMAIN r.inputs : r.inputs[k] = i}) \in Nat
        BY <4>2, <4>3
      <4> QED BY <3>2, <4>4, <4>5 DEF Takes
    <3> QED BY <1>1, <3>1, <3>2 DEF Serve
  <2> HIDE DEF r, now, opens, stops, reply, sent, begun, stopped
  <2>9. wire' \in Seq(Lines)
    BY <2>5, <2>6, ConcatIs DEF Typed
  <2>10. server' \in ServerState
    BY <2>2, <2>3, <2>7 DEF Typed, ServerState
  <2> QED BY <1>1, <2>1, <2>6, <2>8, <2>9, <2>10 DEF Serve, client, Typed
<1>2. CASE Tell
  <2>1. Notice("final", server.turn) \in Lines
    BY FieldTypes, RecordTypes DEF Lines
  <2>2. wire' \in Seq(Lines)
    <3>1. wire \in Seq(Lines)
      BY DEF Typed
    <3> QED BY <1>2, <2>1, <3>1, AppendIs DEF Tell
  <2>3. server' \in ServerState
    BY <1>2 DEF Tell, Typed, ServerState
  <2> QED BY <1>2, <2>2, <2>3 DEF Tell, rpc, client, Typed
<1>3. CASE EndTurn
  <2>1. \A e \in {"completed", "failed"} : Notice(e, server.turn) \in Lines
    BY FieldTypes, RecordTypes DEF Lines
  <2>2. wire' \in Seq(Lines)
    <3>1. wire \in Seq(Lines)
      BY DEF Typed
    <3> QED BY <1>3, <2>1, <3>1, AppendIs DEF EndTurn
  <2>3. server' \in ServerState
    BY <1>3 DEF EndTurn, Typed, ServerState
  <2> QED BY <1>3, <2>2, <2>3 DEF EndTurn, rpc, client, Typed
<1>4. CASE Continue
  <2>1. server.turn + 1 \in Turns
    BY <1>4, AppServerAssumption DEF Continue, Typed, ServerState, Turns, AppServerAssumption
  <2>2. Notice("started", server.turn + 1) \in Lines
    BY <2>1, RecordTypes DEF Lines
  <2>3. wire' \in Seq(Lines)
    <3>1. wire \in Seq(Lines)
      BY DEF Typed
    <3> QED BY <1>4, <2>2, <3>1, AppendIs DEF Continue
  <2>4. server' \in ServerState
    BY <1>4, <2>1 DEF Continue, Typed, ServerState
  <2> QED BY <1>4, <2>3, <2>4 DEF Continue, rpc, client, Typed
<1>5. CASE Die
  <2>1. server' \in ServerState
    BY <1>5 DEF Die, Typed, ServerState
  <2> QED BY <1>5, <2>1 DEF Die, client, Typed
<1> QED BY <1>1, <1>2, <1>3, <1>4, <1>5

\* What is read, timed out or closed keeps the types.
LEMMA PipeTypes ==
    ASSUME Typed, Read \/ (\E call \in Calls : Timeout(call)) \/ Close \/ LossEnds
    PROVE  Typed'
<1>1. CASE Read
  <2> DEFINE l == Head(wire)
  <2>1. wire \in Seq(Lines) /\ wire # <<>> /\ chain \in Seq(Event)
    BY <1>1 DEF Read, Typed
  <2>2. l \in Lines /\ wire' \in Seq(Lines)
    BY <1>1, <2>1, TailIs DEF Read
  <2>3. CASE l \in Event
    <3>1. chain' \in Seq(Event)
      <4>1. chain' = Append(chain, l)
        BY <1>1, <2>3 DEF Read
      <4> QED BY <2>1, <2>3, <4>1, AppendIs
    <3>2. run' \in RunState
      BY <1>1, <2>3, RecordTypes DEF Read, Typed, RunState
    <3> QED BY <1>1, <2>2, <2>3, <3>1, <3>2 DEF Read, Typed
  <2>4. CASE l \notin Event
    <3>1. l \in Answer
      BY <2>2, <2>4 DEF Lines
    <3>2. answers' \subseteq Answer /\ awaited' \subseteq Calls /\ UNCHANGED <<chain, run>>
      BY <1>1, <2>4, <3>1 DEF Read, Typed
    <3> QED BY <1>1, <2>2, <3>2 DEF Read, Typed
  <2> QED BY <2>3, <2>4
<1>2. ASSUME NEW call \in Calls, Timeout(call) PROVE Typed'
  <2>1. asked' \in Seq(Requests)
    <3>1. asked \in Seq(Requests)
      BY DEF Typed
    <3>2. DOMAIN asked = 1 .. Len(asked) /\ Len(asked) \in Nat /\ \A k \in DOMAIN asked : asked[k] \in Requests
      BY <3>1
    <3>3. \A r \in Requests, b \in BOOLEAN : [r EXCEPT !.live = @ /\ b] \in Requests
      BY DEF Requests
    <3>4. asked' = [i \in DOMAIN asked |-> [asked[i] EXCEPT !.live = @ /\ asked[i].call # call]]
      BY <1>2 DEF Timeout
    <3>5. ASSUME NEW k \in DOMAIN asked PROVE [asked[k] EXCEPT !.live = @ /\ asked[k].call # call] \in Requests
      BY <3>2, <3>3
    <3> QED BY <3>2, <3>4, <3>5, IsASeq
  <2>2. wire' \in Seq(Lines)
    <3>1. wire \in Seq(Lines) /\ DOMAIN wire = 1 .. Len(wire)
      BY DEF Typed
    <3>2. UNCHANGED wire \/ \E k \in DOMAIN wire : wire' = RemoveAt(wire, k)
      BY <1>2 DEF Timeout
    <3> QED BY <3>1, <3>2, RemoveAtProperties
  <2>3. answers' \subseteq Answer /\ awaited' \subseteq Calls
    BY <1>2, RecordTypes DEF Timeout, Typed
  <2> QED BY <1>2, <2>1, <2>2, <2>3 DEF Timeout, client, Typed
<1>3. CASE Close
  <2>1. answers' \subseteq Answer
    BY <1>3, RecordTypes DEF Close, Typed
  <2>2. run' \in RunState
    BY <1>3 DEF Close, Typed, RunState
  <2> QED BY <1>3, <2>1, <2>2 DEF Close, Typed
<1>4. CASE LossEnds
  BY <1>4, FinishTypes DEF LossEnds, Finish, Typed
<1> QED BY <1>1, <1>2, <1>3, <1>4

\* The start of the attempt and its goal keep the types.
LEMMA StartTypes ==
    ASSUME Typed, CallsHold, StagesHold, NEW a \in answers,
           ThreadReady(a) \/ TurnStarted(a) \/ GoalSet(a) \/ StartFails(a) \/ GoalFails(a)
    PROVE  Typed'
<1>1. a \in Answer /\ a.turn \in Turns \cup {-1} /\ (a.ok => a.turn \in Turns)
  BY DEF Typed, Answer, CallsHold, AnswersHold
<1>2. answers \ {a} \in SUBSET Answer /\ "goal" \in Calls /\ "start" \in Calls /\ flush \in FlushState
      /\ run \in RunState /\ chain \in Seq(Event)
  BY DEF Typed, Calls
<1>3. CASE ThreadReady(a)
  <2>1. CASE kind.goal /\ kind.resumed
    <3>1. Request("goal", 0, <<>>) \in Requests
      BY <1>2, RecordTypes
    <3>2. AskWith(answers \ {a}, Request("goal", 0, <<>>))
      BY <1>3, <2>1 DEF ThreadReady, AskAfter
    <3>3. asked' \in Seq(Requests) /\ awaited' \subseteq Calls /\ answers' \subseteq Answer
      BY <1>2, <3>1, <3>2, AskTypes
    <3>4. run' \in RunState
      BY <1>1, <1>2, <1>3, <2>1 DEF ThreadReady, GoalState, RunState
    <3> QED BY <1>3, <2>1, <3>3, <3>4 DEF ThreadReady, Typed
  <2>2. CASE ~(kind.goal /\ kind.resumed) /\ a.turn # 0
    <3>1. run' \in RunState
      BY <1>1, <1>2, <1>3, <2>2 DEF ThreadReady, RunState
    <3>2. pending' \in Seq(Inputs)
      <4>1. pending \in Seq(Inputs) /\ 0 \in Inputs /\ pending' = Append(pending, 0)
        BY <1>3, <2>2, RecordTypes DEF ThreadReady, Typed
      <4> QED BY <4>1, AppendIs
    <3>3. flush' \in FlushState
      <4>1. 0 \in Jobs /\ flush' = [flush EXCEPT !.jobs = Append(@, 0)]
        BY <1>3, <2>2, RecordTypes DEF ThreadReady
      <4> QED BY <4>1, FlushTypes
    <3> QED BY <1>3, <2>2, <3>1, <3>2, <3>3 DEF ThreadReady, Consume, Typed
  <2>3. CASE ~(kind.goal /\ kind.resumed) /\ a.turn = 0
    <3>1. Request("start", 0, <<0>>) \in Requests
      BY <1>2, RecordTypes
    <3>2. AskWith(answers \ {a}, Request("start", 0, <<0>>))
      BY <1>3, <2>3 DEF ThreadReady, AskAfter
    <3>3. asked' \in Seq(Requests) /\ awaited' \subseteq Calls /\ answers' \subseteq Answer
      BY <1>2, <3>1, <3>2, AskTypes
    <3>4. kind.goal \in BOOLEAN
      BY DEF Typed, KindState
    <3>5. run' \in RunState
      BY <1>2, <1>3, <2>3, <3>4 DEF ThreadReady, RunState
    <3> QED BY <1>3, <2>3, <3>3, <3>5 DEF ThreadReady, Typed
  <2> QED BY <2>1, <2>2, <2>3
<1>4. CASE TurnStarted(a)
  <2>1. run' \in RunState
    BY <1>1, <1>2, <1>4 DEF TurnStarted, RunState
  <2>2. flush' \in FlushState
    BY <1>4, FlushTypes, RecordTypes DEF TurnStarted, Scheduled
  <2> QED BY <1>4, <2>1, <2>2 DEF TurnStarted, Consume, Typed
<1>5. CASE GoalSet(a)
  <2>1. run' \in RunState
    BY <1>2, <1>5 DEF GoalSet, RunState
  <2>2. chain' \in Seq(Event)
    BY <1>2, <1>5, TailIs DEF GoalSet, StagesHold
  <2>3. phase' \in {"boot", "start", "resteer", "goal", "up"}
    BY <1>5 DEF GoalSet, Typed
  <2> QED BY <1>5, <2>1, <2>2, <2>3 DEF GoalSet, Consume, Typed
<1>6. CASE StartFails(a)
  BY <1>6, FinishTypes DEF StartFails, Finish, Typed
<1>7. CASE GoalFails(a)
  <2>1. CASE Finish("crashed") /\ UNCHANGED run
    BY <1>7, <2>1, FinishTypes DEF GoalFails, Finish, Typed
  <2>2. CASE Len(chain) > 1 \/ run.closed
    <3>1. run' \in RunState
      BY <1>2, <1>7, <2>2 DEF GoalFails, RunState
    <3>2. chain' \in Seq(Event)
      BY <1>2, <1>7, <2>2, TailIs DEF GoalFails, StagesHold
    <3> QED BY <1>7, <2>2, <3>1, <3>2 DEF GoalFails, Consume, Typed
  <2> QED BY <1>7, <2>1, <2>2 DEF GoalFails
<1> QED BY <1>3, <1>4, <1>5, <1>6, <1>7

\* The handlers of notifications and the timers keep the types.
LEMMA HandlerTypes ==
    ASSUME Typed, StagesHold, HandleBegin \/ HandleEnd \/ TimerFires \/ GoalTimerFires
    PROVE  Typed'
<1>1. run \in RunState /\ chain \in Seq(Event) /\ 0 \in Turns
  BY RecordTypes DEF Typed
<1>2. CASE HandleBegin
  <2>1. Head(chain) \in Event /\ Head(chain).turn \in Turns
    <3>1. chain # <<>>
      BY <1>2 DEF HandleBegin
    <3>2. Head(chain) \in Event
      BY <1>1, <3>1, TailIs
    <3> QED BY <3>2 DEF Event
  <2>2. run' \in RunState
    BY <1>1, <1>2, <2>1 DEF HandleBegin, StartsTurn, RunState
  <2>3. flush' \in FlushState
    <3>1. flush' = Scheduled \/ flush' = flush
      BY <1>2 DEF HandleBegin
    <3>2. Scheduled \in FlushState /\ flush \in FlushState
      BY FlushTypes, RecordTypes DEF Scheduled, Typed
    <3> QED BY <3>1, <3>2
  <2> QED BY <1>2, <2>2, <2>3 DEF HandleBegin, rpc, Typed
<1>3. CASE HandleEnd
  <2>1. chain # <<>> /\ Tail(chain) \in Seq(Event)
    BY <1>1, <1>3, TailIs DEF HandleEnd, StagesHold
  <2>2. run' \in RunState
    BY <1>1, <1>3 DEF HandleEnd, GoalState, RunState
  <2>3. UNCHANGED <<kind, server, phase, pending, told, tries, unsure, got>>
    BY <1>3 DEF HandleEnd
  <2>4. CASE \E r : r \in {"failed", "interrupted", "completed"} /\ Finish(r)
    <3>1. PICK r : r \in {"failed", "interrupted", "completed"} /\ Finish(r)
      BY <2>4
    <3>2. result' = r
      BY <3>1 DEF Finish
    <3> QED BY <2>2, <2>3, <3>1, <3>2, FinishTypes DEF Typed
  <2>5. CASE chain' = Tail(chain) /\ UNCHANGED <<rpc, wire, flush, stop, result>>
    BY <2>1, <2>2, <2>3, <2>5 DEF rpc, Typed
  <2>6. CASE Ask(Request("goal", 0, <<>>)) /\ UNCHANGED <<wire, chain, flush, stop, result>>
    <3>1. Request("goal", 0, <<>>) \in Requests /\ answers \in SUBSET Answer
      BY RecordTypes DEF Typed, Calls
    <3>2. asked' \in Seq(Requests) /\ awaited' \subseteq Calls /\ answers' \subseteq Answer
      BY <2>6, <3>1, AskTypes DEF Ask
    <3> QED BY <2>2, <2>3, <2>6, <3>2 DEF Typed
  <2>7. \/ \E r : r \in {"failed", "interrupted", "completed"} /\ Finish(r)
        \/ chain' = Tail(chain) /\ UNCHANGED <<rpc, wire, flush, stop, result>>
        \/ Ask(Request("goal", 0, <<>>)) /\ UNCHANGED <<wire, chain, flush, stop, result>>
    BY <1>3 DEF HandleEnd
  <2> QED BY <2>4, <2>5, <2>6, <2>7
<1>4. CASE TimerFires
  BY <1>4, FinishTypes DEF TimerFires, Finish, Typed
<1>5. CASE GoalTimerFires
  <2>1. CASE run.turn = 0
    BY <1>5, <2>1, FinishTypes DEF GoalTimerFires, Finish, Typed
  <2>2. CASE run.turn # 0
    <3>1. run' \in RunState
      BY <1>1, <1>5, <2>2 DEF GoalTimerFires, RunState
    <3> QED BY <1>5, <2>2, <3>1 DEF GoalTimerFires, rpc, Typed
  <2> QED BY <2>1, <2>2
<1> QED BY <1>2, <1>3, <1>4, <1>5

\* The told answer and the phase after a job
LEMMA TellTypes ==
    ASSUME Typed, flush.jobs # <<>>
    PROVE  /\ \A t \in Toldness : Tells(t) => told' \in [Steers -> Toldness]
           /\ Ready => phase' \in {"boot", "start", "resteer", "goal", "up"}
<1>1. ASSUME NEW t \in Toldness, Tells(t) PROVE told' \in [Steers -> Toldness]
  BY <1>1 DEF Tells, Typed
<1> QED BY <1>1 DEF Ready, Typed

\* A flush that gives up keeps the types.
LEMMA GivesUpTypes ==
    ASSUME Typed, NEW rest \in SUBSET Answer, flush.jobs # <<>>, GivesUp(rest),
           UNCHANGED <<kind, server, wire, chain, stop, tries, unsure, got, result>>
    PROVE  Typed'
<1>1. flush' \in FlushState
  BY FlushTypes DEF GivesUp
<1>2. run' \in RunState
  BY RecordTypes DEF GivesUp, Typed, RunState
<1>3. flush.hand \o pending \in Seq(Inputs) /\ <<>> \in Seq(Inputs)
  BY FieldTypes, ConcatIs DEF Typed
<1>4. CASE Head(flush.jobs) = 0
  <2>1. Request("start", 0, flush.hand \o pending) \in Requests
    BY <1>3, RecordTypes DEF Calls
  <2>2. AskWith(rest, Request("start", 0, flush.hand \o pending))
    BY <1>4 DEF GivesUp
  <2>3. asked' \in Seq(Requests) /\ awaited' \subseteq Calls /\ answers' \subseteq Answer
    BY <2>1, <2>2, AskTypes
  <2> QED BY <1>1, <1>2, <1>3, <1>4, <2>3 DEF GivesUp, Typed
<1>5. CASE Head(flush.jobs) # 0
  <2>1. Tells("failed") /\ pending' \in Seq(Inputs)
    BY <1>3, <1>5 DEF GivesUp
  <2>2. told' \in [Steers -> Toldness]
    BY <2>1, TellTypes DEF Toldness
  <2>3. answers' = rest /\ UNCHANGED <<asked, awaited, phase>>
    BY <1>5 DEF GivesUp
  <2> QED BY <1>1, <1>2, <2>1, <2>2, <2>3 DEF Typed
<1> QED BY <1>4, <1>5

\* Steering keeps the types.
LEMMA SteerTypes ==
    ASSUME Typed, CallsHold, StagesHold, JobsHold, \/ \E s \in Steers : Steer(s)
                            \/ FlushNothing \/ FlushBegin \/ Refresh \/ FlushAgain
                            \/ \E a \in answers : Steered(a) \/ SteerStale(a) \/ Refreshed(a) \/ SteerLost(a)
    PROVE  Typed'
<1>1. run \in RunState /\ flush \in FlushState /\ pending \in Seq(Inputs) /\ flush.hand \in Seq(Inputs)
      /\ answers \subseteq Answer /\ flush.try \in 0 .. Retries /\ Retries \in Nat /\ run.turn \in Turns
  BY FieldTypes, AppServerAssumption DEF Typed, AppServerAssumption
<1>2. ASSUME NEW s \in Steers, Steer(s) PROVE Typed'
  <2>1. s \in Inputs /\ s \in Jobs
    BY DEF Inputs, Jobs
  <2>2. pending' \in Seq(Inputs)
    BY <1>1, <1>2, <2>1, AppendIs DEF Steer
  <2>3. flush' \in FlushState
    <3>1. flush' = flush \/ flush' = [flush EXCEPT !.jobs = Append(@, s)]
      BY <1>2 DEF Steer
    <3> QED BY <1>1, <2>1, <3>1, FlushTypes
  <2>4. told' \in [Steers -> Toldness]
    BY <1>2 DEF Steer, Typed, Toldness
  <2>5. tries' \in [Steers -> 0 .. Repeats + 1]
    BY <1>2, AppServerAssumption DEF Steer, Typed, AppServerAssumption
  <2>6. unsure' \subseteq Inputs
    BY <1>2, <2>1 DEF Steer, Typed
  <2> QED BY <1>2, <2>2, <2>3, <2>4, <2>5, <2>6 DEF Steer, rpc, Typed
<1>3. CASE FlushNothing
  <2>1. flush' \in FlushState
    BY <1>3, FlushTypes DEF FlushNothing
  <2>2. told' \in [Steers -> Toldness] /\ phase' \in {"boot", "start", "resteer", "goal", "up"}
    BY <1>3, TellTypes DEF FlushNothing, Toldness
  <2> QED BY <1>3, <2>1, <2>2 DEF FlushNothing, rpc, Typed
<1>4. CASE FlushBegin
  <2>1. Request("steer", run.turn, pending) \in Requests
    BY <1>1, RecordTypes DEF Calls
  <2>2. asked' \in Seq(Requests) /\ awaited' \subseteq Calls /\ answers' \subseteq Answer
    BY <1>1, <1>4, <2>1, AskTypes DEF FlushBegin, Ask
  <2>3. flush' \in FlushState
    <3>1. flush' = [flush EXCEPT !.at = "asking", !.hand = pending, !.try = 0]
      BY <1>4 DEF FlushBegin
    <3>2. 0 \in 0 .. Retries
      BY <1>1
    <3> QED BY <1>1, <3>1, <3>2 DEF FlushState
  <2>4. pending' \in Seq(Inputs)
    BY <1>4, RecordTypes DEF FlushBegin
  <2> QED BY <1>4, <2>2, <2>3, <2>4 DEF FlushBegin, Typed
<1>5. CASE Refresh
  <2>1. Request("refresh", 0, <<>>) \in Requests
    BY RecordTypes DEF Calls
  <2>2. asked' \in Seq(Requests) /\ awaited' \subseteq Calls /\ answers' \subseteq Answer
    BY <1>1, <1>5, <2>1, AskTypes DEF Refresh, Ask
  <2>3. flush.try + 1 \in 0 .. Retries
    BY <1>1, <1>5 DEF Refresh, JobsHold
  <2>4. flush' \in FlushState
    BY <1>1, <1>5, <2>3 DEF Refresh, FlushState
  <2> QED BY <1>5, <2>2, <2>4 DEF Refresh, Typed
<1>6. CASE FlushAgain
  <2>1. CASE run.turn = 0 /\ flush.try = Retries
    <3>1. flush.jobs # <<>> /\ GivesUp(answers)
      BY <1>6, <2>1 DEF FlushAgain, JobsHold
    <3> QED BY <1>1, <1>6, <3>1, GivesUpTypes DEF FlushAgain
  <2>2. CASE ~(run.turn = 0 /\ flush.try = Retries)
    <3>1. flush' \in FlushState
      BY <1>1, <1>6, <2>2 DEF FlushAgain, FlushState
    <3>2. asked' \in Seq(Requests) /\ awaited' \subseteq Calls /\ answers' \subseteq Answer
      <4>1. CASE run.turn = 0
        BY <1>6, <2>2, <4>1 DEF FlushAgain, rpc, Typed
      <4>2. CASE run.turn # 0
        <5>1. Request("steer", run.turn, flush.hand) \in Requests
          BY <1>1, RecordTypes DEF Calls
        <5>2. Ask(Request("steer", run.turn, flush.hand))
          BY <1>6, <2>2, <4>2 DEF FlushAgain
        <5> QED BY <1>1, <5>1, <5>2, AskTypes DEF Ask
      <4> QED BY <4>1, <4>2
    <3> QED BY <1>6, <2>2, <3>1, <3>2 DEF FlushAgain, Typed
  <2> QED BY <2>1, <2>2
<1>7. ASSUME NEW a \in answers, Steered(a) \/ SteerStale(a) \/ Refreshed(a) \/ SteerLost(a) PROVE Typed'
  <2>1. a \in Answer /\ answers \ {a} \in SUBSET Answer /\ a.turn \in Turns \cup {-1} /\ (a.ok => a.turn \in Turns)
    BY <1>1 DEF Answer, CallsHold, AnswersHold
  <2>2. a.call = "steer" => flush.jobs # <<>>
    BY DEF Awaits, StagesHold, Waits, JobsHold, Calls
  <2>3. CASE Steered(a)
    <3>1. a.ok /\ run' = [run EXCEPT !.turn = a.turn] /\ flush' = NextJob /\ flush.jobs # <<>>
      BY <2>2, <2>3 DEF Steered, Resume
    <3>2. run' \in RunState
      BY <1>1, <2>1, <3>1 DEF RunState
    <3>3. flush' \in FlushState
      BY <3>1, FlushTypes
    <3>4. told' \in [Steers -> Toldness] /\ phase' \in {"boot", "start", "resteer", "goal", "up"}
      BY <2>3, <3>1, TellTypes DEF Steered, Toldness
    <3> QED BY <2>1, <2>3, <3>2, <3>3, <3>4 DEF Steered, Consume, Typed
  <2>4. CASE SteerStale(a)
    <3>1. CASE flush.try = Retries
      <4>1. flush.jobs # <<>> /\ GivesUp(answers \ {a})
        BY <2>2, <2>4, <3>1 DEF SteerStale, Resume
      <4> QED BY <2>1, <2>4, <4>1, GivesUpTypes DEF SteerStale
    <3>2. CASE flush.try # Retries
      <4>1. run' \in RunState
        BY <1>1, <2>4, <3>2, RecordTypes DEF SteerStale, RunState
      <4>2. flush' \in FlushState
        BY <1>1, <2>4, <3>2 DEF SteerStale, FlushState
      <4> QED BY <2>1, <2>4, <3>2, <4>1, <4>2 DEF SteerStale, Consume, Typed
    <3> QED BY <3>1, <3>2
  <2>5. CASE Refreshed(a)
    <3>1. (IF a.ok THEN a.turn ELSE run.turn) \in Turns
      BY <1>1, <2>1
    <3>2. run' = [run EXCEPT !.turn = IF a.ok THEN a.turn ELSE run.turn]
      BY <2>5 DEF Refreshed
    <3>3. run' \in RunState
      BY <1>1, <3>1, <3>2 DEF RunState
    <3>4. flush' \in FlushState
      BY <1>1, <2>5 DEF Refreshed, FlushState
    <3> QED BY <2>1, <2>5, <3>3, <3>4 DEF Refreshed, Consume, Typed
  <2>6. CASE SteerLost(a)
    <3>1. \A k \in DOMAIN flush.hand : flush.hand[k] \in Inputs
      BY <1>1, ElementIs
    <3>2. unsure' = unsure \cup {flush.hand[k] : k \in DOMAIN flush.hand} /\ unsure \subseteq Inputs
      BY <2>6 DEF SteerLost, Typed
    <3>3. unsure' \subseteq Inputs
      BY <3>1, <3>2
    <3>4. CASE Head(flush.jobs) = 0
      <4>1. Finish(IF stop.asked THEN "interrupted" ELSE "lost")
        BY <2>6, <3>4 DEF SteerLost
      <4> QED BY <2>6, <3>3, <3>4, <4>1, FinishTypes DEF SteerLost, Finish, Typed
    <3>5. CASE Head(flush.jobs) # 0
      <4>1. flush.jobs # <<>> /\ flush' \in FlushState
        BY <2>2, <2>6, <3>5, FlushTypes DEF SteerLost, Resume
      <4>2. told' \in [Steers -> Toldness]
        BY <2>6, <3>5, <4>1, TellTypes DEF SteerLost, Toldness
      <4>3. pending' \in Seq(Inputs)
        <5>1. pending' = flush.hand \o pending
          BY <2>6, <3>5 DEF SteerLost
        <5> QED BY <1>1, <5>1, ConcatIs
      <4> QED BY <2>1, <2>6, <3>3, <3>5, <4>1, <4>2, <4>3 DEF SteerLost, Consume, Typed
    <3> QED BY <3>4, <3>5
  <2> QED BY <1>7, <2>3, <2>4, <2>5, <2>6
<1> QED BY <1>2, <1>3, <1>4, <1>5, <1>6, <1>7

\* The interruption keeps the types.
LEMMA InterruptTypes ==
    ASSUME Typed, Interrupt \/ InterruptAgain \/ \E a \in answers : InterruptAnswered(a)
    PROVE  Typed'
<1>1. stop \in StopState /\ run.turn \in Turns /\ answers \in SUBSET Answer /\ "interrupt" \in Calls /\ NoStop \in StopState
      /\ stop.turn \in Turns /\ stop.try \in 0 .. Retries /\ Retries \in Nat
  BY FieldTypes, RecordTypes, AppServerAssumption DEF Typed, StopState, Calls, AppServerAssumption
<1>2. ASSUME NEW t \in Turns, Ask(Request("interrupt", t, <<>>))
      PROVE  asked' \in Seq(Requests) /\ awaited' \subseteq Calls /\ answers' \subseteq Answer
  <2>1. Request("interrupt", t, <<>>) \in Requests
    BY <1>1, RecordTypes
  <2> QED BY <1>1, <1>2, <2>1, AskTypes DEF Ask
<1>3. CASE Interrupt
  <2>1. stop' \in StopState
    BY <1>1, <1>3 DEF Interrupt, StopState
  <2>2. asked' \in Seq(Requests) /\ awaited' \subseteq Calls /\ answers' \subseteq Answer
    BY <1>1, <1>2, <1>3 DEF Interrupt, rpc, Typed
  <2> QED BY <1>3, <2>1, <2>2 DEF Interrupt, Typed
<1>4. CASE InterruptAgain
  <2>1. stop' \in StopState
    BY <1>1, <1>4 DEF InterruptAgain, StopState
  <2>2. asked' \in Seq(Requests) /\ awaited' \subseteq Calls /\ answers' \subseteq Answer
    BY <1>1, <1>2, <1>4 DEF InterruptAgain, rpc, Typed
  <2> QED BY <1>4, <2>1, <2>2 DEF InterruptAgain, Typed
<1>5. ASSUME NEW a \in answers, InterruptAnswered(a) PROVE Typed'
  <2>1. CASE a.ok \/ Lost(a) \/ stop.try = Retries
    <3>1. stop' \in StopState
      BY <1>1, <1>5, <2>1 DEF InterruptAnswered, StopState
    <3> QED BY <1>1, <1>5, <3>1 DEF InterruptAnswered, Consume, Typed
  <2>2. CASE ~(a.ok \/ Lost(a) \/ stop.try = Retries)
    <3>1. stop.try + 1 \in 0 .. Retries
      BY <1>1, <2>2
    <3>2. stop' \in StopState
      BY <1>1, <1>5, <2>2, <3>1 DEF InterruptAnswered, StopState
    <3> QED BY <1>1, <1>5, <3>2 DEF InterruptAnswered, Consume, Typed
  <2> QED BY <2>1, <2>2
<1> QED BY <1>3, <1>4, <1>5

-----------------------------------------------------------------------------
(* The dialogue *)

\* In which few ways a step changes what is between the calls and the server
Notices(e) ==
    /\ e \in Event /\ wire' = Append(wire, e) /\ server.up /\ server' = [server' EXCEPT !.up = TRUE]
    /\ UNCHANGED <<kind, rpc, client, got, result>>
Asks(rest, r) ==
    /\ rest \subseteq answers /\ r \in Requests /\ r.live /\ AskWith(rest, r)
    /\ r.call \notin awaited /\ \A b \in rest : b.call # r.call
    /\ UNCHANGED <<kind, server, wire, got>> /\ run'.closed = run.closed
Goes(rest) ==
    /\ rest \subseteq answers /\ answers' = rest
    /\ UNCHANGED <<kind, server, wire, asked, awaited, got>> /\ run'.closed = run.closed

\* A call that waits has its caller where it waits; one that does not can be
\* asked.
LEMMA CallIsFree ==
    ASSUME StagesHold, NEW c \in Calls, ~Waits(c)
    PROVE  c \notin awaited /\ \A b \in answers : b.call # c
  BY DEF StagesHold, Awaits

\* The one whose reply goes on is where it waits.
LEMMA CallerWaits ==
    ASSUME Typed, StagesHold, NEW a \in answers
    PROVE  a.call \in Calls /\ Waits(a.call) /\ a \in Answer
<1>1. a \in Answer
  BY DEF Typed
<1>2. a.call \in Calls
  BY <1>1 DEF Answer
<1> QED BY <1>1, <1>2 DEF StagesHold, Awaits

\* The prompt is in the jobs of a resumed run only.
LEMMA PromptJob ==
    ASSUME Typed, JobsHold, flush.jobs # <<>>
    PROVE  /\ Head(flush.jobs) = 0 => phase = "resteer"
           /\ Head(flush.jobs) \in Steers => told[Head(flush.jobs)] = "waiting"
<1>1. 1 \in DOMAIN flush.jobs /\ Head(flush.jobs) = flush.jobs[1]
  BY FieldTypes, ElementIs
<1> QED BY <1>1 DEF JobsHold

\* What the server does by itself
LEMMA NoticesAre ==
    ASSUME Typed, Tell \/ EndTurn \/ Continue
    PROVE  \E e \in Event : Notices(e)
<1>1. server \in ServerState /\ server.turn \in Turns
  BY DEF Typed, ServerState
<1>2. CASE Tell
  <2>1. Notice("final", server.turn) \in Event
    BY <1>1, RecordTypes
  <2> QED BY <1>1, <1>2, <2>1 DEF Tell, Notices, ServerState
<1>3. CASE EndTurn
  <2>0. Notice("completed", server.turn) \in Event /\ Notice("failed", server.turn) \in Event
    BY <1>1, RecordTypes
  <2>1. PICK e \in {"completed", "failed"} :
             /\ server' = [server EXCEPT !.open = FALSE, !.goal = @ /\ e = "completed"]
             /\ wire' = Append(wire, Notice(e, server.turn))
    BY <1>3 DEF EndTurn
  <2>2. Notice(e, server.turn) \in Event
    BY <2>0
  <2>3. server.up /\ UNCHANGED <<kind, rpc, client, got, result>>
    BY <1>3 DEF EndTurn
  <2>4. server' = [server' EXCEPT !.up = TRUE]
    BY <1>1, <2>1, <2>3 DEF ServerState
  <2>5. Notices(Notice(e, server.turn))
    BY <2>1, <2>2, <2>3, <2>4 DEF Notices
  <2> QED BY <2>2, <2>5
<1>4. CASE Continue
  <2>1. server.turn + 1 \in Turns
    BY <1>4, AppServerAssumption DEF Continue, Typed, ServerState, Turns, AppServerAssumption
  <2>2. Notice("started", server.turn + 1) \in Event
    BY <2>1, RecordTypes
  <2> QED BY <1>1, <1>4, <2>2 DEF Continue, Notices, ServerState
<1> QED BY <1>2, <1>3, <1>4

\* A flush that gives up asks for a turn for the prompt, or only goes on.
LEMMA GivesUpShape ==
    ASSUME Typed, StagesHold, JobsHold, NEW rest \in SUBSET answers, flush.jobs # <<>>, GivesUp(rest),
           UNCHANGED <<kind, server, wire, got>>
    PROVE  \/ Asks(rest, Request("start", 0, flush.hand \o pending)) /\ phase = "resteer"
           \/ Goes(rest)
<1>1. run'.closed = run.closed
  BY DEF GivesUp, Typed, RunState
<1>2. CASE Head(flush.jobs) = 0
  <2>1. phase = "resteer"
    BY <1>2, PromptJob
  <2>2. Request("start", 0, flush.hand \o pending) \in Requests
    BY FieldTypes, RecordTypes, ConcatIs DEF Typed, Calls
  <2>3. "start" \notin awaited /\ \A b \in rest : b.call # "start"
    BY <2>1, CallIsFree DEF Waits, Calls
  <2> QED BY <1>1, <1>2, <2>1, <2>2, <2>3 DEF GivesUp, Asks, Request
<1>3. CASE Head(flush.jobs) # 0
  BY <1>1, <1>3 DEF GivesUp, Goes
<1> QED BY <1>2, <1>3

Ways ==
    \/ Serve \/ Die \/ Read \/ (\E call \in Calls : Timeout(call)) \/ Close
    \/ \E e \in Event : Notices(e)
    \/ \E rest, r : Asks(rest, r)
    \/ \E rest : Goes(rest)

\* The steps of the start and of the goal
LEMMA StartWays ==
    ASSUME Typed, StagesHold, Going', NEW a \in answers,
           ThreadReady(a) \/ TurnStarted(a) \/ GoalSet(a) \/ StartFails(a) \/ GoalFails(a)
    PROVE  Ways
<1>1. Waits(a.call) /\ run \in RunState
  BY CallerWaits DEF Typed
<1>2. CASE ThreadReady(a)
  <2>1. phase = "boot" /\ run.inHand # "goal" /\ answers \ {a} \subseteq answers
    BY <1>1, <1>2 DEF ThreadReady, Resume, Waits, StagesHold
  <2>2. ~Waits("goal") /\ ~Waits("start")
    BY <2>1 DEF Waits
  <2>3. run'.closed = run.closed /\ UNCHANGED <<kind, server, wire, got>>
    BY <1>1, <1>2 DEF ThreadReady, GoalState, RunState
  <2>4. Request("goal", 0, <<>>) \in Requests /\ Request("start", 0, <<0>>) \in Requests
    BY RecordTypes DEF Calls
  <2>5. \/ AskAfter(a, Request("goal", 0, <<>>)) \/ AskAfter(a, Request("start", 0, <<0>>))
        \/ Consume(a)
    BY <1>2 DEF ThreadReady
  <2>6. \A c \in {"goal", "start"} : c \in Calls /\ c \notin awaited /\ \A b \in answers : b.call # c
    BY <2>2, CallIsFree DEF Calls
  <2>7. CASE AskAfter(a, Request("goal", 0, <<>>))
    <3>1. Asks(answers \ {a}, Request("goal", 0, <<>>))
      BY <2>3, <2>4, <2>6, <2>7 DEF AskAfter, Asks, Request
    <3> QED BY <3>1 DEF Ways
  <2>8. CASE AskAfter(a, Request("start", 0, <<0>>))
    <3>1. Asks(answers \ {a}, Request("start", 0, <<0>>))
      BY <2>3, <2>4, <2>6, <2>8 DEF AskAfter, Asks, Request
    <3> QED BY <3>1 DEF Ways
  <2>9. CASE Consume(a)
    <3>1. Goes(answers \ {a})
      BY <2>1, <2>3, <2>9 DEF Consume, Goes
    <3> QED BY <3>1 DEF Ways
  <2> QED BY <2>5, <2>7, <2>8, <2>9
<1>3. CASE TurnStarted(a)
  <2>1. Goes(answers \ {a})
    BY <1>1, <1>3 DEF TurnStarted, Consume, Goes, RunState
  <2> QED BY <2>1 DEF Ways
<1>4. CASE GoalSet(a)
  <2>1. Goes(answers \ {a})
    BY <1>1, <1>4 DEF GoalSet, Consume, Goes, RunState
  <2> QED BY <2>1 DEF Ways
<1>5. CASE StartFails(a)
  BY <1>5 DEF StartFails, Finish, Going
<1>6. CASE GoalFails(a)
  <2>1. Goes(answers \ {a})
    BY <1>1, <1>6 DEF GoalFails, Finish, Going, Consume, Goes, RunState
  <2> QED BY <2>1 DEF Ways
<1> QED BY <1>2, <1>3, <1>4, <1>5, <1>6

\* The handlers and the timers
LEMMA HandlerWays ==
    ASSUME Typed, StagesHold, Going',
           LossEnds \/ HandleBegin \/ HandleEnd \/ TimerFires \/ GoalTimerFires
    PROVE  Ways
<1>1. run \in RunState
  BY DEF Typed
<1>2. CASE HandleBegin
  <2>1. Goes(answers)
    BY <1>1, <1>2 DEF HandleBegin, rpc, StartsTurn, Goes, RunState
  <2> QED BY <2>1 DEF Ways
<1>3. CASE HandleEnd
  <2>1. run'.closed = run.closed /\ UNCHANGED <<kind, server, got>>
    BY <1>1, <1>3 DEF HandleEnd, GoalState, RunState
  <2>2. \/ UNCHANGED <<rpc, wire>>
        \/ run.goalLater /\ Ask(Request("goal", 0, <<>>)) /\ UNCHANGED wire
    BY <1>3 DEF HandleEnd, Finish, Going
  <2>3. CASE UNCHANGED <<rpc, wire>>
    <3>1. Goes(answers)
      BY <2>1, <2>3 DEF Goes, rpc
    <3> QED BY <3>1 DEF Ways
  <2>4. CASE run.goalLater /\ Ask(Request("goal", 0, <<>>)) /\ UNCHANGED wire
    <3>1. ~Waits("goal")
      BY <1>3, <2>4 DEF HandleEnd, Waits, StagesHold
    <3>2. Request("goal", 0, <<>>) \in Requests /\ "goal" \in Calls
      BY RecordTypes DEF Calls
    <3>3. Asks(answers, Request("goal", 0, <<>>))
      BY <2>1, <2>4, <3>1, <3>2, CallIsFree DEF Ask, Asks, Request
    <3> QED BY <3>3 DEF Ways
  <2> QED BY <2>2, <2>3, <2>4
<1>4. CASE GoalTimerFires
  <2>1. Goes(answers)
    BY <1>1, <1>4 DEF GoalTimerFires, Finish, Going, rpc, Goes, RunState
  <2> QED BY <2>1 DEF Ways
<1>5. CASE LossEnds \/ TimerFires
  BY <1>5 DEF LossEnds, TimerFires, Finish, Going
<1> QED BY <1>2, <1>3, <1>4, <1>5

\* The steps of the flush chain
LEMMA SteerWays ==
    ASSUME Typed, StagesHold, JobsHold, Going',
           \/ \E s \in Steers : Steer(s)
           \/ FlushNothing \/ FlushBegin \/ Refresh \/ FlushAgain
           \/ \E a \in answers : Steered(a) \/ SteerStale(a) \/ Refreshed(a) \/ SteerLost(a)
    PROVE  Ways
<1>1. run \in RunState /\ run.turn \in Turns /\ flush.hand \in Seq(Inputs) /\ pending \in Seq(Inputs)
  BY FieldTypes DEF Typed
<1>2. CASE FlushNothing \/ \E s \in Steers : Steer(s)
  <2>1. Goes(answers)
    BY <1>2 DEF FlushNothing, Steer, rpc, Goes
  <2> QED BY <2>1 DEF Ways
<1>3. CASE FlushBegin
  <2>1. Request("steer", run.turn, pending) \in Requests /\ "steer" \in Calls
    BY <1>1, RecordTypes DEF Calls
  <2>2. ~Waits("steer")
    BY <1>3 DEF FlushBegin, Waits
  <2>3. Asks(answers, Request("steer", run.turn, pending))
    BY <1>3, <2>1, <2>2, CallIsFree DEF FlushBegin, Ask, Asks, Request
  <2> QED BY <2>3 DEF Ways
<1>4. CASE Refresh
  <2>1. Request("refresh", 0, <<>>) \in Requests /\ "refresh" \in Calls
    BY RecordTypes DEF Calls
  <2>2. ~Waits("refresh")
    BY <1>4 DEF Refresh, Waits
  <2>3. Asks(answers, Request("refresh", 0, <<>>))
    BY <1>4, <2>1, <2>2, CallIsFree DEF Refresh, Ask, Asks, Request
  <2> QED BY <2>3 DEF Ways
<1>5. ASSUME NEW rest \in SUBSET answers, flush.jobs # <<>>, GivesUp(rest), UNCHANGED <<kind, server, wire, got>>
      PROVE  Ways
  <2>1. \/ Asks(rest, Request("start", 0, flush.hand \o pending)) \/ Goes(rest)
    BY <1>5, GivesUpShape
  <2> QED BY <2>1 DEF Ways
<1>6. CASE FlushAgain
  <2>1. CASE run.turn = 0 /\ flush.try = Retries
    <3>1. flush.jobs # <<>> /\ GivesUp(answers) /\ UNCHANGED <<kind, server, wire, got>>
      BY <1>6, <2>1 DEF FlushAgain, JobsHold
    <3> QED BY <1>5, <3>1
  <2>2. CASE run.turn = 0 /\ flush.try # Retries
    <3>1. Goes(answers)
      BY <1>6, <2>2 DEF FlushAgain, rpc, Goes
    <3> QED BY <3>1 DEF Ways
  <2>3. CASE run.turn # 0
    <3>1. Request("steer", run.turn, flush.hand) \in Requests /\ "steer" \in Calls
      BY <1>1, RecordTypes DEF Calls
    <3>2. ~Waits("steer")
      BY <1>6 DEF FlushAgain, Waits
    <3>3. Asks(answers, Request("steer", run.turn, flush.hand))
      BY <1>6, <2>3, <3>1, <3>2, CallIsFree DEF FlushAgain, Ask, Asks, Request
    <3> QED BY <3>3 DEF Ways
  <2> QED BY <2>1, <2>2, <2>3
<1>7. ASSUME NEW a \in answers, Steered(a) \/ SteerStale(a) \/ Refreshed(a) \/ SteerLost(a) PROVE Ways
  <2>1. Waits(a.call)
    BY CallerWaits
  <2>2. CASE SteerStale(a) /\ flush.try = Retries
    <3>1. answers \ {a} \in SUBSET answers
      OBVIOUS
    <3>2. flush.jobs # <<>> /\ GivesUp(answers \ {a}) /\ UNCHANGED <<kind, server, wire, got>>
      BY <2>1, <2>2 DEF SteerStale, Resume, Waits, JobsHold
    <3> QED BY <1>5, <3>1, <3>2
  <2>3. CASE ~(SteerStale(a) /\ flush.try = Retries)
    <3>1. Goes(answers \ {a})
      BY <1>1, <1>7, <2>3 DEF Steered, SteerStale, Refreshed, SteerLost, Finish, Going, Consume, Goes, RunState
    <3> QED BY <3>1 DEF Ways
  <2> QED BY <2>2, <2>3
<1> QED BY <1>2, <1>3, <1>4, <1>6, <1>7

\* The steps of the interruption
LEMMA InterruptWays ==
    ASSUME Typed, StagesHold, Interrupt \/ InterruptAgain \/ \E a \in answers : InterruptAnswered(a)
    PROVE  Ways
<1>1. run.turn \in Turns /\ stop.turn \in Turns
  BY FieldTypes DEF Typed, StopState
<1>2. ASSUME NEW t \in Turns, Ask(Request("interrupt", t, <<>>)), stop.at # "asking",
             UNCHANGED <<kind, server, wire, got, run>>
      PROVE  Ways
  <2>1. Request("interrupt", t, <<>>) \in Requests /\ "interrupt" \in Calls
    BY RecordTypes DEF Calls
  <2>2. Asks(answers, Request("interrupt", t, <<>>))
    BY <1>2, <2>1, CallIsFree DEF Waits, Ask, Asks, Request
  <2> QED BY <2>2 DEF Ways
<1>3. ASSUME UNCHANGED <<kind, server, wire, got, run>>, UNCHANGED rpc PROVE Ways
  <2>1. Goes(answers)
    BY <1>3 DEF rpc, Goes
  <2> QED BY <2>1 DEF Ways
<1>4. CASE Interrupt
  <2>1. stop.at # "asking"
    BY <1>4 DEF Interrupt, StagesHold
  <2> QED BY <1>1, <1>2, <1>3, <1>4, <2>1 DEF Interrupt
<1>5. CASE InterruptAgain
  BY <1>1, <1>2, <1>3, <1>5 DEF InterruptAgain
<1>6. ASSUME NEW a \in answers, InterruptAnswered(a) PROVE Ways
  <2>1. Goes(answers \ {a})
    BY <1>6 DEF InterruptAnswered, Consume, Goes
  <2> QED BY <2>1 DEF Ways
<1> QED BY <1>4, <1>5, <1>6

\* Every step of an attempt that goes on changes the dialogue in one of these
\* ways.
LEMMA StepIsAWay ==
    ASSUME Typed, StagesHold, JobsHold, Going, Going', Next
    PROVE  Ways
<1>1. CASE Serve \/ Die \/ Read \/ (\E call \in Calls : Timeout(call)) \/ Close
  BY <1>1 DEF Ways
<1>2. CASE Tell \/ EndTurn \/ Continue
  BY <1>2, NoticesAre DEF Ways
<1>3. CASE \E a \in answers :
              ThreadReady(a) \/ TurnStarted(a) \/ GoalSet(a) \/ StartFails(a) \/ GoalFails(a)
  BY <1>3, StartWays
<1>4. CASE LossEnds \/ HandleBegin \/ HandleEnd \/ TimerFires \/ GoalTimerFires
  BY <1>4, HandlerWays
<1>5. CASE \/ \E s \in Steers : Steer(s)
           \/ FlushNothing \/ FlushBegin \/ Refresh \/ FlushAgain
           \/ \E a \in answers : Steered(a) \/ SteerStale(a) \/ Refreshed(a) \/ SteerLost(a)
  BY <1>5, SteerWays
<1>6. CASE Interrupt \/ InterruptAgain \/ \E a \in answers : InterruptAnswered(a)
  BY <1>6, InterruptWays
<1> QED BY <1>1, <1>2, <1>3, <1>4, <1>5, <1>6 DEF Next, LoopStep, Done

-----------------------------------------------------------------------------
(* The calls *)

\* The fields of a reply; a reply that is sent has a turn.
LEMMA ReplyIs ==
    ASSUME NEW c \in Calls, NEW t \in Turns, NEW ok \in BOOLEAN
    PROVE  /\ Reply(c, t, ok) \in Answer /\ Reply(c, t, ok).call = c
           /\ Reply(c, t, ok).turn = t /\ Reply(c, t, ok).turn # -1
           /\ Reply(c, t, ok).ok = ok
<1>1. t # -1
  BY AppServerAssumption DEF AppServerAssumption, Turns
<1>2. Reply(c, t, ok) \in Answer
  BY RecordTypes
<1> QED BY <1>1, <1>2 DEF Reply

\* What Serve puts on the wire: the reply to a request that is awaited, first,
\* and at most one notice
ReplyTo(r) ==
    CASE r.call \in {"thread", "refresh"} -> Reply(r.call, OpenTurn, TRUE)
      [] r.call = "start" ->
            LET opens == ~server.open /\ server.turn < MaxTurn
            IN Reply("start", IF opens THEN server.turn + 1 ELSE 0, opens)
      [] r.call = "goal" -> Reply("goal", 0, TRUE)
      [] OTHER -> Reply(r.call, r.turn, server.open /\ server.turn = r.turn)

Opens(r) == r.call = "start" /\ ~server.open /\ server.turn < MaxTurn
Stops(r) == r.call = "interrupt" /\ server.open /\ server.turn = r.turn

\* A served request: its reply joins the wire if it still has a caller, and the
\* event of a turn it opens or stops follows.
LEMMA ServeIs ==
    ASSUME Typed, Serve
    PROVE  LET r == Head(asked)
               sent == IF r.live THEN <<ReplyTo(r)>> ELSE <<>>
               note == IF Opens(r) THEN <<Notice("started", server.turn + 1)>>
                       ELSE IF Stops(r) THEN <<Notice("interrupted", r.turn)>> ELSE <<>>
           IN /\ asked # <<>> /\ asked' = Tail(asked) /\ r \in Requests /\ r.call \in Calls
              /\ ReplyTo(r) \in Answer /\ ReplyTo(r).call = r.call /\ ReplyTo(r).turn # -1
              /\ sent \in Seq(Lines) /\ note \in Seq(Lines)
              /\ wire' = (wire \o sent) \o note
              /\ UNCHANGED <<kind, awaited, answers, client, result>>
              /\ server.up /\ server'.up
<1> DEFINE r == Head(asked)
           sent == IF r.live THEN <<ReplyTo(r)>> ELSE <<>>
           begun == IF Opens(r) THEN <<Notice("started", server.turn + 1)>> ELSE <<>>
           stopped == IF Stops(r) THEN <<Notice("interrupted", r.turn)>> ELSE <<>>
           note == IF Opens(r) THEN <<Notice("started", server.turn + 1)>>
                   ELSE IF Stops(r) THEN <<Notice("interrupted", r.turn)>> ELSE <<>>
<1>1. asked \in Seq(Requests) /\ asked # <<>> /\ asked' = Tail(asked) /\ wire \in Seq(Lines)
  BY DEF Serve, Typed
<1>2. r \in Requests
  BY <1>1, TailIs
<1>3. r.call \in Calls /\ r.turn \in Turns
  BY <1>2 DEF Requests
<1>4. server \in ServerState /\ server.turn \in Turns /\ server.open \in BOOLEAN /\ MaxTurn \in Nat
  BY AppServerAssumption DEF Typed, ServerState, AppServerAssumption
<1>5. OpenTurn \in Turns /\ (Opens(r) => server.turn + 1 \in Turns)
  BY <1>4, RecordTypes DEF OpenTurn, Opens, Turns
<1>6. ReplyTo(r) \in Answer /\ ReplyTo(r).call = r.call /\ ReplyTo(r).turn # -1
  <2> HIDE DEF r
  <2>2. CASE r.call \in {"thread", "refresh"}
    <3>1. ReplyTo(r) = Reply(r.call, OpenTurn, TRUE)
      BY <2>2 DEF ReplyTo
    <3>2. TRUE \in BOOLEAN
      OBVIOUS
    <3>3. Reply(r.call, OpenTurn, TRUE) \in Answer /\ Reply(r.call, OpenTurn, TRUE).call = r.call
          /\ Reply(r.call, OpenTurn, TRUE).turn # -1
      BY <1>3, <1>5, <3>2, ReplyIs
    <3> QED BY <3>1, <3>3
  <2>3. CASE r.call = "start"
    <3> DEFINE opens == ~server.open /\ server.turn < MaxTurn
               t == IF opens THEN server.turn + 1 ELSE 0
    <3>1. ReplyTo(r) = Reply("start", t, opens)
      BY <2>3 DEF ReplyTo
    <3>2. t \in Turns /\ opens \in BOOLEAN
      <4>1. opens => server.turn + 1 \in Turns
        BY <1>5, <2>3 DEF Opens
      <4>2. 0 \in Turns
        BY RecordTypes
      <4> QED BY <4>1, <4>2
    <3> HIDE DEF opens, t
    <3> QED BY <1>3, <2>3, <3>1, <3>2, ReplyIs
  <2>4. CASE r.call = "goal"
    <3>1. ReplyTo(r) = Reply(r.call, 0, TRUE)
      BY <2>4 DEF ReplyTo
    <3>2. 0 \in Turns /\ TRUE \in BOOLEAN
      BY RecordTypes
    <3>3. Reply(r.call, 0, TRUE) \in Answer /\ Reply(r.call, 0, TRUE).call = r.call
          /\ Reply(r.call, 0, TRUE).turn # -1
      BY <1>3, <3>2, ReplyIs
    <3> QED BY <3>1, <3>3
  <2>5. CASE r.call \notin {"thread", "refresh", "start", "goal"}
    <3> DEFINE now == server.open /\ server.turn = r.turn
    <3>1. ReplyTo(r) = Reply(r.call, r.turn, now)
      BY <2>5 DEF ReplyTo
    <3>2. now \in BOOLEAN
      OBVIOUS
    <3> HIDE DEF now
    <3> QED BY <1>3, <3>1, <3>2, ReplyIs
  <2> QED BY <2>2, <2>3, <2>4, <2>5
<1>7. sent \in Seq(Lines) /\ begun \in Seq(Lines) /\ stopped \in Seq(Lines) /\ note \in Seq(Lines)
  <2>1. Opens(r) => Notice("started", server.turn + 1) \in Lines
    BY <1>5, RecordTypes DEF Lines
  <2>2. Notice("interrupted", r.turn) \in Lines
    <3>1. \A t \in Turns : Notice("interrupted", t) \in Event
      BY RecordTypes
    <3> QED BY <1>3, <3>1 DEF Lines
  <2>3. ReplyTo(r) \in Lines
    BY <1>6 DEF Lines
  <2> HIDE DEF r
  <2>4. <<>> \in Seq(Lines) /\ \A l \in Lines : <<l>> \in Seq(Lines)
    OBVIOUS
  <2> QED BY <2>1, <2>2, <2>3, <2>4
<1>8. wire' = ((wire \o sent) \o begun) \o stopped
  BY DEF Serve, ReplyTo, Opens, Stops
<1>9. (wire \o sent) \in Seq(Lines)
  BY <1>1, <1>7, ConcatIs
<1>10. wire' = (wire \o sent) \o note
  <2>1. ~(Opens(r) /\ Stops(r))
    BY DEF Opens, Stops
  <2> HIDE DEF r, sent
  <2>2. CASE Opens(r)
    <3>1. stopped = <<>> /\ begun = note
      BY <2>1, <2>2
    <3>2. (wire \o sent) \o begun \in Seq(Lines)
      BY <1>7, <1>9, ConcatIs
    <3> HIDE DEF begun, note, stopped
    <3> QED BY <1>8, <3>1, <3>2
  <2>3. CASE ~Opens(r)
    <3>1. begun = <<>> /\ stopped = note
      BY <2>3
    <3> HIDE DEF begun, note, stopped
    <3> QED BY <1>8, <1>9, <3>1
  <2> QED BY <2>2, <2>3
<1>11. UNCHANGED <<kind, awaited, answers, client, result>> /\ server.up
  BY DEF Serve
<1>12. server'.up
  BY <1>4, <1>11 DEF Serve, ServerState
<1> QED BY <1>1, <1>2, <1>3, <1>6, <1>7, <1>10, <1>11, <1>12

\* Position by position: what was on the wire stays, then comes the reply to a
\* request that is awaited, and a notice
LEMMA ServeWire ==
    ASSUME Typed, Serve
    PROVE  /\ DOMAIN wire \subseteq DOMAIN wire' /\ \A k \in DOMAIN wire : wire'[k] = wire[k]
           /\ \A k \in DOMAIN wire' \ DOMAIN wire :
                 \/ wire'[k] \in Event
                 \/ k = Len(wire) + 1 /\ wire'[k] = ReplyTo(Head(asked)) /\ Head(asked).live
           /\ \A k \in DOMAIN wire' \ DOMAIN wire :
                 wire'[k] \in Event =>
                    \/ Opens(Head(asked)) /\ wire'[k] = Notice("started", server.turn + 1)
                    \/ Stops(Head(asked)) /\ wire'[k] = Notice("interrupted", Head(asked).turn)
           /\ Head(asked).live => Len(wire) + 1 \in DOMAIN wire' /\ wire'[Len(wire) + 1] = ReplyTo(Head(asked))
           /\ \A k \in DOMAIN wire' \ DOMAIN wire : wire'[k] \in Event => k = Len(wire')
           /\ Opens(Head(asked)) => /\ Len(wire') \in DOMAIN wire' \ DOMAIN wire
                                    /\ wire'[Len(wire')] = Notice("started", server.turn + 1)
<1> DEFINE r == Head(asked)
           sent == IF r.live THEN <<ReplyTo(r)>> ELSE <<>>
           note == IF Opens(r) THEN <<Notice("started", server.turn + 1)>>
                   ELSE IF Stops(r) THEN <<Notice("interrupted", r.turn)>> ELSE <<>>
<1>1. /\ sent \in Seq(Lines) /\ note \in Seq(Lines) /\ wire' = (wire \o sent) \o note
      /\ ReplyTo(r) \in Answer /\ wire \in Seq(Lines) /\ r \in Requests
  BY ServeIs DEF Typed
<1>2. ReplyTo(r) \notin Event
  BY <1>1, AnswerIsNoEvent
<1>3. Opens(r) => Notice("started", server.turn + 1) \in Event
  BY AppServerAssumption, RecordTypes DEF AppServerAssumption, Opens, Typed, ServerState, Turns
<1>4. Notice("interrupted", r.turn) \in Event
  <2>1. r.turn \in Turns /\ \A t \in Turns : Notice("interrupted", t) \in Event
    BY <1>1, RecordTypes DEF Requests
  <2> QED BY <2>1
<1>5. /\ Len(sent) = (IF r.live THEN 1 ELSE 0) /\ (r.live => sent[1] = ReplyTo(r))
      /\ Len(note) \in {0, 1}
      /\ Len(note) = 1 => \/ Opens(r) /\ note[1] = Notice("started", server.turn + 1)
                          \/ Stops(r) /\ note[1] = Notice("interrupted", r.turn)
      /\ Opens(r) => Len(note) = 1 /\ note[1] = Notice("started", server.turn + 1)
  OBVIOUS
<1> HIDE DEF r, sent, note
<1>6. /\ (wire \o sent) \in Seq(Lines) /\ Len(wire \o sent) = Len(wire) + Len(sent) /\ Len(wire) \in Nat
      /\ DOMAIN wire = 1 .. Len(wire)
      /\ \A k \in DOMAIN wire : (wire \o sent)[k] = wire[k]
      /\ r.live => (wire \o sent)[Len(wire) + 1] = ReplyTo(r)
  <2>1. /\ (wire \o sent) \in Seq(Lines) /\ Len(wire \o sent) = Len(wire) + Len(sent) /\ Len(wire) \in Nat
        /\ DOMAIN wire = 1 .. Len(wire) /\ DOMAIN sent = 1 .. Len(sent)
        /\ \A k \in DOMAIN wire : (wire \o sent)[k] = wire[k]
        /\ \A k \in DOMAIN sent : (wire \o sent)[Len(wire) + k] = sent[k]
    BY <1>1, ConcatIs
  <2> QED BY <1>5, <2>1
<1>7. /\ DOMAIN wire' = 1 .. Len(wire) + Len(sent) + Len(note) /\ Len(wire') = Len(wire) + Len(sent) + Len(note)
      /\ \A k \in 1 .. Len(wire) + Len(sent) : wire'[k] = (wire \o sent)[k]
      /\ Len(note) = 1 => wire'[Len(wire) + Len(sent) + 1] = note[1]
  <2>1. /\ Len((wire \o sent) \o note) = Len(wire \o sent) + Len(note)
        /\ DOMAIN ((wire \o sent) \o note) = 1 .. Len(wire \o sent) + Len(note)
        /\ DOMAIN (wire \o sent) = 1 .. Len(wire \o sent) /\ DOMAIN note = 1 .. Len(note)
        /\ \A k \in DOMAIN (wire \o sent) : ((wire \o sent) \o note)[k] = (wire \o sent)[k]
        /\ \A k \in DOMAIN note : ((wire \o sent) \o note)[Len(wire \o sent) + k] = note[k]
    BY <1>1, <1>6, ConcatIs
  <2> QED BY <1>1, <1>6, <2>1
<1>8. ASSUME NEW k \in DOMAIN wire', k \notin DOMAIN wire
      PROVE  \/ k = Len(wire) + 1 /\ r.live /\ wire'[k] = ReplyTo(r)
             \/ Len(note) = 1 /\ wire'[k] = note[1] /\ k = Len(wire')
  <2>1. k \in Nat /\ k > Len(wire) /\ k <= Len(wire) + Len(sent) + Len(note) /\ Len(wire) \in Nat
    BY <1>5, <1>6, <1>7, <1>8
  <2>2. CASE r.live
    <3>0. Len(sent) = 1 /\ Len(note) \in {0, 1}
      BY <1>5, <2>2
    <3>1. k = Len(wire) + 1 \/ (Len(note) = 1 /\ k = Len(wire) + Len(sent) + 1)
      <4>1. \A m, w \in Nat, n \in {0, 1} : m > w /\ m <= w + 1 + n => m = w + 1 \/ (n = 1 /\ m = w + 1 + 1)
        OBVIOUS
      <4> QED BY <2>1, <3>0, <4>1
    <3> QED BY <1>5, <1>6, <1>7, <2>2, <3>1
  <2>3. CASE ~r.live
    <3>0. Len(sent) = 0 /\ Len(note) \in {0, 1}
      BY <1>5, <2>3
    <3>1. Len(note) = 1 /\ k = Len(wire) + Len(sent) + 1
      <4>1. \A m, w \in Nat, n \in {0, 1} : m > w /\ m <= w + 0 + n => n = 1 /\ m = w + 0 + 1
        OBVIOUS
      <4> QED BY <2>1, <3>0, <4>1
    <3> QED BY <1>7, <3>1
  <2> QED BY <2>2, <2>3
<1>9. DOMAIN wire \subseteq DOMAIN wire' /\ \A k \in DOMAIN wire : wire'[k] = wire[k]
  BY <1>5, <1>6, <1>7
<1>10. r.live => Len(wire) + 1 \in DOMAIN wire' /\ wire'[Len(wire) + 1] = ReplyTo(r)
  BY <1>5, <1>6, <1>7
<1>11. \A k \in DOMAIN wire' \ DOMAIN wire : wire'[k] \in Event => k = Len(wire')
  BY <1>2, <1>8
<1>12. Opens(r) => Len(wire') \in DOMAIN wire' \ DOMAIN wire /\ wire'[Len(wire')] = Notice("started", server.turn + 1)
  <2> SUFFICES ASSUME Opens(r)
               PROVE  Len(wire') \in DOMAIN wire' \ DOMAIN wire /\ wire'[Len(wire')] = Notice("started", server.turn + 1)
    OBVIOUS
  <2>1. Len(note) = 1 /\ note[1] = Notice("started", server.turn + 1) /\ Len(sent) \in {0, 1}
    BY <1>5
  <2>2. Len(wire') = Len(wire) + Len(sent) + 1
    BY <1>7, <2>1
  <2>3. Len(wire') \in DOMAIN wire' \ DOMAIN wire
    BY <1>6, <1>7, <2>1, <2>2
  <2> QED BY <1>7, <2>1, <2>2, <2>3
<1>13. \A k \in DOMAIN wire' \ DOMAIN wire :
          \/ wire'[k] \in Event
          \/ k = Len(wire) + 1 /\ wire'[k] = ReplyTo(r) /\ r.live
  BY <1>3, <1>4, <1>5, <1>8
<1>14. \A k \in DOMAIN wire' \ DOMAIN wire :
          wire'[k] \in Event =>
             \/ Opens(r) /\ wire'[k] = Notice("started", server.turn + 1)
             \/ Stops(r) /\ wire'[k] = Notice("interrupted", r.turn)
  BY <1>2, <1>5, <1>8
<1> QED BY <1>9, <1>10, <1>11, <1>12, <1>13, <1>14 DEF r

\* A request that is asked, or the rejection on a closed transport
LEMMA CallsAsk ==
    ASSUME Typed, CallsHold, NEW rest, NEW r, Asks(rest, r)
    PROVE  CallsHold'
<1>1. r \in Requests /\ r.live /\ r.call \in Calls /\ rest \subseteq answers /\ asked \in Seq(Requests)
  BY DEF Asks, Requests, Typed
<1>2. r.call \notin awaited /\ (\A b \in rest : b.call # r.call) /\ run'.closed = run.closed
      /\ UNCHANGED <<server, wire>>
  BY DEF Asks
<1>3. CASE run.closed
  <2>1. answers' = rest \cup {Reply(r.call, -1, FALSE)} /\ UNCHANGED <<asked, awaited>>
    BY <1>3 DEF Asks, AskWith
  <2>2. Reply(r.call, -1, FALSE).call = r.call /\ ~Reply(r.call, -1, FALSE).ok
    BY DEF Reply
  <2>3. AnswersHold'
    BY <1>1, <1>2, <2>1, <2>2 DEF CallsHold, AnswersHold
  <2> QED BY <1>2, <2>1, <2>3 DEF CallsHold, AskedHolds, WireHolds
<1>4. CASE ~run.closed
  <2>1. asked' = Append(asked, r) /\ awaited' = awaited \cup {r.call} /\ answers' = rest
    BY <1>4 DEF Asks, AskWith
  <2>2. AnswersHold'
    BY <1>1, <1>2, <2>1 DEF CallsHold, AnswersHold
  <2>3. /\ DOMAIN asked' = 1 .. Len(asked) + 1 /\ DOMAIN asked = 1 .. Len(asked) /\ Len(asked) \in Nat
        /\ \A k \in DOMAIN asked : asked'[k] = asked[k]
        /\ asked'[Len(asked) + 1] = r
    BY <1>1, <2>1, AppendIs
  <2>4. \A k \in DOMAIN asked' :
           (k \in DOMAIN asked /\ asked'[k] = asked[k]) \/ (k = Len(asked) + 1 /\ asked'[k] = r)
    <3>1. \A n \in Nat : \A k \in 1 .. n + 1 : k \in 1 .. n \/ k = n + 1
      OBVIOUS
    <3> QED BY <2>3, <3>1
  <2>5. \A k \in DOMAIN asked : asked[k].live => asked[k].call # r.call
    BY <1>2, <1>4 DEF CallsHold, AskedHolds
  <2>6. AskedHolds'
    <3>1. \A k \in DOMAIN asked' : asked'[k].live /\ ~run'.closed => asked'[k].call \in awaited'
      BY <1>2, <2>1, <2>4 DEF CallsHold, AskedHolds
    <3>2. ASSUME NEW j \in DOMAIN asked', NEW k \in DOMAIN asked', asked'[j].live, asked'[k].live,
                 asked'[j].call = asked'[k].call
          PROVE  j = k
      BY <2>4, <2>5, <3>2 DEF CallsHold, AskedHolds
    <3> QED BY <3>1, <3>2 DEF AskedHolds
  <2>7. WireHolds'
    <3>1. \A k \in DOMAIN wire : wire[k] \in Answer => wire[k].call \in awaited /\ wire[k].call # r.call
      BY <1>2 DEF CallsHold, WireHolds
    <3> QED BY <1>2, <2>1, <2>4, <3>1 DEF CallsHold, WireHolds
  <2> QED BY <1>2, <1>4, <2>2, <2>6, <2>7 DEF CallsHold
<1> QED BY <1>3, <1>4

\* An answer that is consumed, or nothing
LEMMA CallsGo ==
    ASSUME CallsHold, NEW rest, Goes(rest)
    PROVE  CallsHold'
<1>1. AnswersHold'
  BY DEF Goes, CallsHold, AnswersHold
<1> QED BY <1>1 DEF Goes, CallsHold, AskedHolds, WireHolds

\* A notice on the wire, or the death of the server
LEMMA CallsNotice ==
    ASSUME Typed, CallsHold, NEW e, (e \in Event /\ Notices(e)) \/ Die
    PROVE  CallsHold'
<1>1. CASE e \in Event /\ Notices(e)
  <2>1. wire \in Seq(Lines) /\ e \in Lines /\ wire' = Append(wire, e) /\ ~run.closed
    BY <1>1 DEF Notices, Lines, Typed, CallsHold
  <2>2. e \notin Answer
    BY <1>1, AnswerIsNoEvent
  <2>3. /\ DOMAIN wire' = 1 .. Len(wire) + 1 /\ DOMAIN wire = 1 .. Len(wire) /\ Len(wire) \in Nat
        /\ \A k \in DOMAIN wire : wire'[k] = wire[k]
        /\ wire'[Len(wire) + 1] = e
    BY <2>1, AppendIs
  <2>4. \A k \in DOMAIN wire' : wire'[k] \in Answer => k \in DOMAIN wire /\ wire'[k] = wire[k]
    BY <2>2, <2>3
  <2>5. UNCHANGED <<asked, awaited, answers, run>>
    BY <1>1 DEF Notices, rpc, client
  <2>6. AnswersHold' /\ AskedHolds'
    BY <2>5 DEF CallsHold, AnswersHold, AskedHolds
  <2>7. WireHolds'
    BY <2>4, <2>5 DEF CallsHold, WireHolds
  <2> QED BY <2>1, <2>5, <2>6, <2>7 DEF CallsHold
<1>2. CASE Die
  <2>1. asked' = <<>> /\ UNCHANGED <<wire, awaited, answers, run>> /\ ~server'.up
    BY <1>2 DEF Die, client, Typed, ServerState
  <2>2. DOMAIN asked' = {}
    BY <2>1
  <2>3. AnswersHold' /\ AskedHolds' /\ WireHolds'
    BY <2>1, <2>2 DEF CallsHold, AnswersHold, AskedHolds, WireHolds
  <2> QED BY <2>1, <2>3 DEF CallsHold
<1> QED BY <1>1, <1>2

\* A request that the server takes
LEMMA CallsServe ==
    ASSUME Typed, CallsHold, Serve
    PROVE  CallsHold'
<1> DEFINE r == Head(asked)
<1>1. /\ asked # <<>> /\ asked' = Tail(asked) /\ r \in Requests /\ r.call \in Calls /\ asked \in Seq(Requests)
      /\ ReplyTo(r) \in Answer /\ ReplyTo(r).call = r.call /\ ReplyTo(r).turn # -1
      /\ UNCHANGED <<awaited, answers, run>> /\ server.up
  BY ServeIs DEF client, Typed
<1>2. ~run.closed
  BY <1>1 DEF CallsHold
<1>3. /\ 1 \in DOMAIN asked /\ r = asked[1]
      /\ \A k \in DOMAIN asked' : k + 1 \in DOMAIN asked /\ asked'[k] = asked[k + 1] /\ k + 1 # 1 /\ k \in Nat
  BY <1>1, TailIs
<1>4. \A k \in DOMAIN wire' : wire'[k] \in Answer =>
         \/ k \in DOMAIN wire /\ wire'[k] = wire[k]
         \/ k = Len(wire) + 1 /\ wire'[k] = ReplyTo(r) /\ r.live
  <2>1. \A k \in DOMAIN wire' : wire'[k] \in Answer => wire'[k] \notin Event
    BY AnswerIsNoEvent
  <2> HIDE DEF r
  <2> QED BY <2>1, ServeWire DEF r
<1> HIDE DEF r
<1>5. r.live => r.call \in awaited /\ \A k \in DOMAIN wire : wire[k] \in Answer => wire[k].call # r.call
  BY <1>2, <1>3 DEF CallsHold, AskedHolds, WireHolds
<1>6. AnswersHold'
  BY <1>1 DEF CallsHold, AnswersHold
<1>7. AskedHolds'
  <2>1. \A k \in DOMAIN asked' : asked'[k].live /\ ~run'.closed => asked'[k].call \in awaited'
    BY <1>1, <1>3 DEF CallsHold, AskedHolds
  <2>2. ASSUME NEW j \in DOMAIN asked', NEW k \in DOMAIN asked', asked'[j].live, asked'[k].live,
               asked'[j].call = asked'[k].call
        PROVE  j = k
    <3>1. j + 1 = k + 1 /\ j \in Nat /\ k \in Nat
      BY <1>3, <2>2 DEF CallsHold, AskedHolds
    <3> QED BY <3>1
  <2> QED BY <2>1, <2>2 DEF AskedHolds
<1>8. WireHolds'
  <2>1. \A k \in DOMAIN wire' : wire'[k] \in Answer => wire'[k].call \in awaited' /\ wire'[k].turn # -1
    BY <1>1, <1>4, <1>5 DEF CallsHold, WireHolds
  <2>2. \A j, k \in DOMAIN wire' :
          wire'[j] \in Answer /\ wire'[k] \in Answer /\ wire'[j].call = wire'[k].call => j = k
    BY <1>1, <1>4, <1>5 DEF CallsHold, WireHolds
  <2>3. ASSUME NEW j \in DOMAIN asked', NEW k \in DOMAIN wire', asked'[j].live, wire'[k] \in Answer
        PROVE  asked'[j].call # wire'[k].call
    <3>1. CASE k \in DOMAIN wire /\ wire'[k] = wire[k]
      BY <1>3, <2>3, <3>1 DEF CallsHold, WireHolds
    <3>2. CASE wire'[k] = ReplyTo(r) /\ r.live
      <4>1. asked[j + 1].live /\ j + 1 # 1 /\ asked'[j] = asked[j + 1]
        BY <1>3, <2>3
      <4> QED BY <1>1, <1>3, <3>2, <4>1 DEF CallsHold, AskedHolds
    <3> QED BY <1>4, <2>3, <3>1, <3>2
  <2> QED BY <2>1, <2>2, <2>3 DEF WireHolds
<1> QED BY <1>1, <1>2, <1>6, <1>7, <1>8 DEF CallsHold

\* A line that is read
LEMMA CallsRead ==
    ASSUME Typed, CallsHold, Read
    PROVE  CallsHold'
<1> DEFINE l == Head(wire)
<1>1. /\ wire # <<>> /\ wire' = Tail(wire) /\ wire \in Seq(Lines) /\ UNCHANGED <<server, asked>> /\ ~run.closed
      /\ run'.closed = run.closed
  BY DEF Read, Typed, RunState
<1>2. /\ 1 \in DOMAIN wire /\ l = wire[1] /\ l \in Lines
      /\ \A k \in DOMAIN wire' : k + 1 \in DOMAIN wire /\ wire'[k] = wire[k + 1] /\ k + 1 # 1 /\ k \in Nat
  BY <1>1, TailIs
<1>3. CASE l \in Event
  <2>1. UNCHANGED <<awaited, answers>>
    BY <1>3 DEF Read
  <2>2. AnswersHold' /\ AskedHolds'
    BY <1>1, <2>1 DEF CallsHold, AnswersHold, AskedHolds
  <2>3. WireHolds'
    <3>1. ASSUME NEW j \in DOMAIN wire', NEW k \in DOMAIN wire', wire'[j] \in Answer, wire'[k] \in Answer,
                 wire'[j].call = wire'[k].call
          PROVE  j = k
      <4>1. j + 1 = k + 1 /\ j \in Nat /\ k \in Nat
        BY <1>2, <3>1 DEF CallsHold, WireHolds
      <4> QED BY <4>1
    <3> QED BY <1>1, <1>2, <2>1, <3>1 DEF CallsHold, WireHolds
  <2> QED BY <1>1, <2>1, <2>2, <2>3 DEF CallsHold
<1>4. CASE l \notin Event
  <2>1. l \in Answer /\ l.call \in awaited /\ l.turn # -1
    BY <1>2, <1>4 DEF Lines, CallsHold, WireHolds
  <2>2. awaited' = awaited \ {l.call} /\ answers' = answers \cup {l}
    BY <1>4, <2>1 DEF Read
  <2> HIDE DEF l
  <2>3. AnswersHold'
    BY <2>1, <2>2 DEF CallsHold, AnswersHold
  <2>4. AskedHolds'
    <3>1. \A k \in DOMAIN asked : asked[k].live => asked[k].call # l.call
      BY <1>2, <2>1 DEF CallsHold, WireHolds
    <3> QED BY <1>1, <2>2, <3>1 DEF CallsHold, AskedHolds
  <2>5. WireHolds'
    <3>1. ASSUME NEW j \in DOMAIN wire', NEW k \in DOMAIN wire', wire'[j] \in Answer, wire'[k] \in Answer,
                 wire'[j].call = wire'[k].call
          PROVE  j = k
      <4>1. j + 1 = k + 1 /\ j \in Nat /\ k \in Nat
        BY <1>2, <3>1 DEF CallsHold, WireHolds
      <4> QED BY <4>1
    <3>2. ASSUME NEW k \in DOMAIN wire', wire'[k] \in Answer
          PROVE  wire'[k].call \in awaited' /\ wire'[k].turn # -1
      <4>1. wire[k + 1] \in Answer /\ k + 1 # 1 /\ wire'[k] = wire[k + 1] /\ k + 1 \in DOMAIN wire
        BY <1>2, <3>2
      <4>2. wire[k + 1].call # l.call
        BY <1>2, <2>1, <4>1 DEF CallsHold, WireHolds
      <4> QED BY <2>2, <4>1, <4>2 DEF CallsHold, WireHolds
    <3>3. \A j \in DOMAIN asked', k \in DOMAIN wire' :
             asked'[j].live /\ wire'[k] \in Answer => asked'[j].call # wire'[k].call
      BY <1>1, <1>2 DEF CallsHold, WireHolds
    <3> QED BY <3>1, <3>2, <3>3 DEF WireHolds
  <2> QED BY <1>1, <2>3, <2>4, <2>5 DEF CallsHold
<1> QED BY <1>3, <1>4

\* f says where on the wire each line was before the reply to call was taken out.
From(f, call) ==
    /\ \A k \in DOMAIN wire' : f[k] \in DOMAIN wire /\ wire'[k] = wire[f[k]] /\ ~OnWire(f[k], call)
    /\ \A j, k \in DOMAIN wire' : f[j] = f[k] => j = k
    /\ \A j, k \in DOMAIN wire' : j < k => f[j] < f[k]
    /\ \A k \in DOMAIN wire : OnWire(k, call) \/ \E j \in DOMAIN wire' : f[j] = k
    /\ \A k \in DOMAIN wire' : f[k] \in Nat
Without(call) == \E f : From(f, call)

\* A call that is not answered in time
LEMMA TimeoutIs ==
    ASSUME Typed, CallsHold, NEW call \in Calls, Timeout(call)
    PROVE  /\ call \in awaited /\ awaited' = awaited \ {call}
           /\ answers' = answers \cup {Reply(call, -1, FALSE)}
           /\ Reply(call, -1, FALSE).call = call /\ ~Reply(call, -1, FALSE).ok /\ Lost(Reply(call, -1, FALSE))
           /\ DOMAIN asked' = DOMAIN asked
           /\ \A k \in DOMAIN asked : /\ asked'[k].call = asked[k].call /\ asked'[k].inputs = asked[k].inputs
                                      /\ asked'[k].live = (asked[k].live /\ asked[k].call # call)
           /\ Without(call)
           /\ ~run.closed /\ UNCHANGED <<kind, server, client, got, result>>
<1>1. call \in awaited /\ awaited' = awaited \ {call} /\ answers' = answers \cup {Reply(call, -1, FALSE)}
      /\ UNCHANGED <<kind, server, client, got, result>> /\ ~run.closed
  BY DEF Timeout, CallsHold
<1>2. Reply(call, -1, FALSE).call = call /\ ~Reply(call, -1, FALSE).ok /\ Lost(Reply(call, -1, FALSE))
  BY DEF Reply, Lost
<1>3. asked' = [i \in DOMAIN asked |-> [asked[i] EXCEPT !.live = @ /\ asked[i].call # call]]
  BY DEF Timeout
<1>4. ASSUME NEW k \in DOMAIN asked
      PROVE  /\ asked'[k].call = asked[k].call /\ asked'[k].inputs = asked[k].inputs
             /\ asked'[k].live = (asked[k].live /\ asked[k].call # call)
  <2>1. asked[k] \in Requests
    BY FieldTypes
  <2>2. asked'[k] = [asked[k] EXCEPT !.live = @ /\ asked[k].call # call]
    BY <1>3
  <2> QED BY <2>1, <2>2 DEF Requests
<1> DEFINE late == {k \in DOMAIN wire : wire[k] \notin Event /\ wire[k].call = call}
<1>5. late = {k \in DOMAIN wire : OnWire(k, call)}
  <2>1. \A k \in DOMAIN wire : wire[k] \in Lines
    BY FieldTypes
  <2>2. \A k \in DOMAIN wire : (wire[k] \notin Event) = (wire[k] \in Answer)
    BY <2>1, AnswerIsNoEvent DEF Lines
  <2> QED BY <2>2 DEF OnWire
<1>6. (late = {} /\ UNCHANGED wire) \/ \E k \in late : wire' = RemoveAt(wire, k)
  BY DEF Timeout
<1>7. wire \in Seq(Lines) /\ DOMAIN wire = 1 .. Len(wire) /\ Len(wire) \in Nat
  BY ElementIs DEF Typed
<1> HIDE DEF late
<1>8. ASSUME late = {}, UNCHANGED wire PROVE Without(call)
  <2> DEFINE f == [k \in DOMAIN wire |-> k]
  <2>1. \A k \in DOMAIN wire : ~OnWire(k, call)
    BY <1>5, <1>8
  <2>2. From(f, call)
    BY <1>7, <1>8, <2>1 DEF From
  <2> QED BY <2>2 DEF Without
<1>9. ASSUME NEW i \in late, wire' = RemoveAt(wire, i) 
      PROVE  Without(call)
  <2>1. i \in 1 .. Len(wire) /\ OnWire(i, call)
    BY <1>5, <1>7, <1>9
  <2>2. /\ DOMAIN wire' = 1 .. Len(wire) - 1
        /\ \A k \in 1 .. Len(wire) - 1 : wire'[k] = wire[IF k < i THEN k ELSE k + 1]
    BY <1>7, <1>9, <2>1, RemoveAtProperties
  <2> DEFINE f == [k \in 1 .. Len(wire) - 1 |-> IF k < i THEN k ELSE k + 1]
  <2>3. \A k \in 1 .. Len(wire) - 1 : f[k] \in 1 .. Len(wire) /\ f[k] # i /\ wire'[k] = wire[f[k]]
    BY <1>7, <2>1, <2>2
  <2>4. \A j, k \in 1 .. Len(wire) - 1 : (f[j] = f[k] => j = k) /\ (j < k => f[j] < f[k])
    BY <1>7, <2>1
  <2>5. \A k \in 1 .. Len(wire) : k = i \/ \E j \in 1 .. Len(wire) - 1 : f[j] = k
    <3> SUFFICES ASSUME NEW k \in 1 .. Len(wire), k # i PROVE \E j \in 1 .. Len(wire) - 1 : f[j] = k
      OBVIOUS
    <3> DEFINE m == IF k < i THEN k ELSE k - 1
    <3>1. m \in 1 .. Len(wire) - 1 /\ f[m] = k
      BY <1>7, <2>1
    <3> QED BY <3>1
  <2>6. \A k \in 1 .. Len(wire) : OnWire(k, call) => k = i
    BY <1>7, <2>1 DEF CallsHold, WireHolds, OnWire
  <2>7. \A k \in 1 .. Len(wire) - 1 : f[k] \in Nat
    BY <1>7, <2>3
  <2> HIDE DEF f
  <2>8. From(f, call)
    BY <1>7, <2>1, <2>2, <2>3, <2>4, <2>5, <2>6, <2>7 DEF From
  <2> QED BY <2>8 DEF Without
<1> QED BY <1>1, <1>2, <1>3, <1>4, <1>6, <1>8, <1>9

\* A call that times out has one answer, that it is lost, and no reply.
LEMMA CallsTimeout ==
    ASSUME Typed, CallsHold, NEW call \in Calls, Timeout(call)
    PROVE  CallsHold'
<1> DEFINE lost == Reply(call, -1, FALSE)
<1>1. /\ call \in awaited /\ awaited' = awaited \ {call} /\ answers' = answers \cup {lost}
      /\ lost.call = call /\ ~lost.ok
      /\ UNCHANGED <<server, run>> /\ ~run.closed
  BY TimeoutIs DEF client
<1>2. /\ DOMAIN asked' = DOMAIN asked
      /\ \A k \in DOMAIN asked : /\ asked'[k].call = asked[k].call
                                 /\ asked'[k].live = (asked[k].live /\ asked[k].call # call)
  BY TimeoutIs
<1>3. PICK f : From(f, call)
  BY TimeoutIs DEF Without
<1> HIDE DEF lost
<1>4. AnswersHold'
  BY <1>1 DEF CallsHold, AnswersHold
<1>5. AskedHolds'
  BY <1>1, <1>2 DEF CallsHold, AskedHolds
<1>6. WireHolds'
  <2>1. \A k \in DOMAIN wire' : wire'[k] \in Answer => wire'[k].call \in awaited' /\ wire'[k].turn # -1
    BY <1>1, <1>3 DEF From, CallsHold, WireHolds, OnWire
  <2>2. \A j, k \in DOMAIN wire' :
          wire'[j] \in Answer /\ wire'[k] \in Answer /\ wire'[j].call = wire'[k].call => j = k
    BY <1>3 DEF From, CallsHold, WireHolds
  <2>3. ASSUME NEW j \in DOMAIN asked', NEW k \in DOMAIN wire', asked'[j].live, wire'[k] \in Answer
        PROVE  asked'[j].call # wire'[k].call
    <3>1. j \in DOMAIN asked /\ asked[j].live /\ asked[j].call = asked'[j].call
      BY <1>2, <2>3
    <3>2. f[k] \in DOMAIN wire /\ wire'[k] = wire[f[k]]
      BY <1>3 DEF From
    <3> QED BY <2>3, <3>1, <3>2 DEF CallsHold, WireHolds
  <2> QED BY <2>1, <2>2, <2>3 DEF WireHolds
<1> QED BY <1>1, <1>4, <1>5, <1>6 DEF CallsHold

\* The end of the pipe
LEMMA CallsClose ==
    ASSUME Typed, CallsHold, Close
    PROVE  CallsHold'
<1>1. /\ awaited' = {} /\ answers' = answers \cup {Reply(call, -1, FALSE) : call \in awaited}
      /\ UNCHANGED <<server, asked, wire>> /\ ~server.up /\ wire = <<>> /\ run'.closed
  BY DEF Close, Typed, RunState
<1>2. \A c \in awaited : Reply(c, -1, FALSE).call = c /\ ~Reply(c, -1, FALSE).ok
  BY DEF Reply
<1>3. AnswersHold'
  <2>1. \A a \in answers' : a \in answers \/ (a.call \in awaited /\ a = Reply(a.call, -1, FALSE) /\ ~a.ok)
    BY <1>1, <1>2
  <2> QED BY <1>1, <2>1 DEF CallsHold, AnswersHold
<1>4. AskedHolds'
  BY <1>1 DEF CallsHold, AskedHolds
<1>5. WireHolds'
  <2>1. DOMAIN wire' = {}
    BY <1>1
  <2> QED BY <2>1 DEF WireHolds
<1> QED BY <1>1, <1>3, <1>4, <1>5 DEF CallsHold

\* Every step keeps the calls in order.
LEMMA CallsKept ==
    ASSUME Typed, CallsHold, Ways
    PROVE  CallsHold'
  BY CallsAsk, CallsGo, CallsNotice, CallsServe, CallsRead, CallsTimeout, CallsClose DEF Ways

-----------------------------------------------------------------------------
(* Who waits *)

\* A call that is asked is awaited, or its rejection is there.
LEMMA AskAwaits ==
    ASSUME NEW rest, NEW r, AskWith(rest, r)
    PROVE  \A c : Awaits(c)' = (c = r.call \/ c \in awaited \/ \E b \in rest : b.call = c)
<1>1. Reply(r.call, -1, FALSE).call = r.call
  BY DEF Reply
<1>2. CASE run.closed
  <2>1. answers' = rest \cup {Reply(r.call, -1, FALSE)} /\ UNCHANGED awaited
    BY <1>2 DEF AskWith
  <2>2. ASSUME NEW c PROVE (\E b \in answers' : b.call = c) = (c = r.call \/ \E b \in rest : b.call = c)
    BY <1>1, <2>1
  <2> QED BY <2>1, <2>2 DEF Awaits
<1>3. CASE ~run.closed
  BY <1>3 DEF AskWith, Awaits
<1> QED BY <1>2, <1>3

\* An answer is consumed by the call it is for, and only that one is not
\* awaited any more.
LEMMA ConsumeAwaits ==
    ASSUME CallsHold, NEW a \in answers
    PROVE  /\ Consume(a) => \A c : Awaits(c)' = (Awaits(c) /\ c # a.call)
           /\ UNCHANGED rpc => \A c : Awaits(c)' = Awaits(c)
           /\ \A r : AskWith(answers \ {a}, r) =>
                        \A c : Awaits(c)' = (c = r.call \/ (Awaits(c) /\ c # a.call))
<1>1. \A c : (Awaits(c) /\ c # a.call) = (c \in awaited \/ \E b \in answers \ {a} : b.call = c)
  BY DEF CallsHold, AnswersHold, Awaits
<1>2. Consume(a) => \A c : Awaits(c)' = (c \in awaited \/ \E b \in answers \ {a} : b.call = c)
  BY DEF Consume, Awaits
<1>3. UNCHANGED rpc => \A c : Awaits(c)' = Awaits(c)
  BY DEF rpc, Awaits
<1>4. ASSUME NEW r, AskWith(answers \ {a}, r)
      PROVE  \A c : Awaits(c)' = (c = r.call \/ (Awaits(c) /\ c # a.call))
  BY <1>1, <1>4, AskAwaits
<1> QED BY <1>1, <1>2, <1>3, <1>4

\* A call that is asked joins the others; with the rpc unchanged they stay.
LEMMA MoreAwaits ==
    /\ \A r : Ask(r) => \A c : Awaits(c)' = (c = r.call \/ Awaits(c))
    /\ UNCHANGED rpc => \A c : Awaits(c)' = Awaits(c)
<1>1. ASSUME NEW r, Ask(r) PROVE \A c : Awaits(c)' = (c = r.call \/ Awaits(c))
  <2>1. \A c : Awaits(c)' = (c = r.call \/ c \in awaited \/ \E b \in answers : b.call = c)
    BY <1>1, AskAwaits DEF Ask
  <2> QED BY <2>1 DEF Awaits
<1>2. UNCHANGED rpc => \A c : Awaits(c)' = Awaits(c)
  BY DEF rpc, Awaits
<1> QED BY <1>1, <1>2

\* What the server and the pipes do changes no one who waits.
PipeStep ==
    \/ Serve \/ Tell \/ EndTurn \/ Continue \/ Die \/ Read \/ Close
    \/ \E call \in Calls : Timeout(call)

\* The server, the pipe and the timeouts leave every caller with what it waits for.
LEMMA PipeAwaits ==
    ASSUME Typed, CallsHold, PipeStep
    PROVE  /\ \A c : Awaits(c)' = Awaits(c)
           /\ UNCHANGED <<phase, flush, stop, told>>
           /\ run'.goalLater = run.goalLater /\ run'.inHand = run.inHand
           /\ chain # <<>> => chain' # <<>>
<1>1. run \in RunState /\ chain \in Seq(Event) /\ wire \in Seq(Lines)
  BY DEF Typed
<1>2. CASE Serve \/ Tell \/ EndTurn \/ Continue \/ Die
  BY <1>2 DEF Serve, Tell, EndTurn, Continue, Die, rpc, client, Awaits
<1>3. CASE Read
  <2>1. UNCHANGED <<phase, flush, stop, told>>
    BY <1>3 DEF Read
  <2>2. CASE Head(wire) \in Event
    <3>1. UNCHANGED <<awaited, answers>> /\ chain' = Append(chain, Head(wire))
          /\ run'.goalLater = run.goalLater /\ run'.inHand = run.inHand
      BY <1>1, <1>3, <2>2 DEF Read, RunState
    <3>2. chain' # <<>>
      BY <1>1, <2>2, <3>1
    <3> QED BY <2>1, <3>1, <3>2 DEF Awaits
  <2>3. CASE Head(wire) \notin Event
    <3>1. wire # <<>>
      BY <1>3 DEF Read
    <3>2. Head(wire) \in Lines /\ Head(wire) = wire[1] /\ 1 \in DOMAIN wire
      BY <1>1, <3>1, TailIs
    <3>3. Head(wire).call \in awaited
      BY <2>3, <3>2 DEF Lines, CallsHold, WireHolds
    <3>4. awaited' = awaited \ {Head(wire).call} /\ answers' = answers \cup {Head(wire)} /\ UNCHANGED <<run, chain>>
      BY <1>3, <2>3, <3>3 DEF Read
    <3>5. \A c : Awaits(c)' = Awaits(c)
      BY <3>3, <3>4 DEF Awaits
    <3> QED BY <2>1, <3>4, <3>5
  <2> QED BY <2>2, <2>3
<1>4. CASE Close
  <2>1. awaited' = {} /\ answers' = answers \cup {Reply(call, -1, FALSE) : call \in awaited}
    BY <1>4 DEF Close
  <2>2. \A c : Reply(c, -1, FALSE).call = c
    BY DEF Reply
  <2>3. \A c : Awaits(c)' = Awaits(c)
    BY <2>1, <2>2 DEF Awaits
  <2> QED BY <1>1, <1>4, <2>3 DEF Close, RunState
<1>5. ASSUME NEW call \in Calls, Timeout(call)
      PROVE  (\A c : Awaits(c)' = Awaits(c)) /\ UNCHANGED client
  <2>1. call \in awaited /\ awaited' = awaited \ {call} /\ answers' = answers \cup {Reply(call, -1, FALSE)}
        /\ Reply(call, -1, FALSE).call = call /\ UNCHANGED client
    BY <1>5, TimeoutIs
  <2> HIDE DEF Reply
  <2>2. \A c : Awaits(c)' = Awaits(c)
    BY <2>1 DEF Awaits
  <2> QED BY <2>1, <2>2
<1> QED BY <1>2, <1>3, <1>4, <1>5 DEF PipeStep, client

\* The stages of the attempt and its jobs are left alone with them.
LEMMA StagesPipe ==
    ASSUME Typed, CallsHold, StagesHold, JobsHold, PipeStep
    PROVE  StagesHold' /\ JobsHold'
<1>1. /\ \A c : Awaits(c)' = Awaits(c)
      /\ UNCHANGED <<phase, flush, stop, told>>
      /\ run'.goalLater = run.goalLater /\ run'.inHand = run.inHand
      /\ chain # <<>> => chain' # <<>>
  BY PipeAwaits
<1> QED BY <1>1 DEF StagesHold, Waits, JobsHold

\* A job more: of a steer that is told to wait, of the prompt, or of nobody
LEMMA JobsMore ==
    ASSUME Typed, JobsHold, NEW j \in Jobs, flush' = [flush EXCEPT !.jobs = Append(@, j)],
           phase' = phase \/ phase # "resteer",
           j = 0 => phase' = "resteer" /\ phase # "resteer",
           j \in Steers => told[j] # "waiting" /\ told' = [told EXCEPT ![j] = "waiting"],
           j \notin Steers => UNCHANGED told
    PROVE  JobsHold'
<1>1. flush \in FlushState /\ flush.jobs \in Seq(Jobs) /\ told \in [Steers -> Toldness]
  BY DEF Typed, FlushState
<1>2. flush'.jobs = Append(flush.jobs, j) /\ flush'.at = flush.at /\ flush'.hand = flush.hand /\ flush'.try = flush.try
  BY <1>1 DEF FlushState
<1>3. /\ DOMAIN flush'.jobs = 1 .. Len(flush.jobs) + 1 /\ DOMAIN flush.jobs = 1 .. Len(flush.jobs)
      /\ Len(flush.jobs) \in Nat
      /\ \A k \in DOMAIN flush.jobs : flush'.jobs[k] = flush.jobs[k]
      /\ flush'.jobs[Len(flush.jobs) + 1] = j
  BY <1>1, <1>2, AppendIs
<1>4. \A k \in DOMAIN flush'.jobs : \/ k \in DOMAIN flush.jobs /\ flush'.jobs[k] = flush.jobs[k]
                                    \/ k = Len(flush.jobs) + 1 /\ flush'.jobs[k] = j
  <2>1. \A n \in Nat : \A k \in 1 .. n + 1 : k \in 1 .. n \/ k = n + 1
    OBVIOUS
  <2> QED BY <1>3, <2>1
<1>5. \A k \in DOMAIN flush.jobs : flush.jobs[k] # j \/ j = Nobody
  <2>1. j \in Steers \/ j = 0 \/ j = Nobody
    BY DEF Jobs, Inputs
  <2> QED BY <2>1 DEF JobsHold
<1>6. \A k \in DOMAIN flush.jobs : flush.jobs[k] \in Steers => told'[flush.jobs[k]] = "waiting"
  BY <1>1, <1>5 DEF JobsHold
<1>7. \A k \in DOMAIN flush.jobs : flush.jobs[k] = 0 => phase' = "resteer"
  BY DEF JobsHold
<1>8. j \in Steers => told'[j] = "waiting"
  BY <1>1
<1>9. \A k \in DOMAIN flush'.jobs :
          /\ flush'.jobs[k] \in Steers => told'[flush'.jobs[k]] = "waiting"
          /\ flush'.jobs[k] = 0 => phase' = "resteer"
  BY <1>4, <1>6, <1>7, <1>8
<1>10. \A i, k \in DOMAIN flush'.jobs :
          flush'.jobs[i] = flush'.jobs[k] /\ flush'.jobs[i] # Nobody => i = k
  BY <1>4, <1>5 DEF JobsHold
<1>11. flush'.jobs # <<>>
  BY <1>1, <1>2
<1> QED BY <1>2, <1>9, <1>10, <1>11 DEF JobsHold

\* The first job ends, and its steer is told.
LEMMA JobsLess ==
    ASSUME Typed, JobsHold, flush.jobs # <<>>, flush' = NextJob,
           phase' = phase \/ phase # "resteer" \/ Head(flush.jobs) = 0,
           \A s \in Steers : told'[s] = told[s] \/ s = Head(flush.jobs)
    PROVE  JobsHold'
<1>1. flush.jobs \in Seq(Jobs)
  BY DEF Typed, FlushState
<1>2. flush'.jobs = Tail(flush.jobs) /\ flush'.at = "idle" /\ flush'.hand = <<>>
  BY DEF NextJob, NoJob
<1>3. /\ 1 \in DOMAIN flush.jobs /\ Head(flush.jobs) = flush.jobs[1]
      /\ \A k \in DOMAIN flush'.jobs : /\ k + 1 \in DOMAIN flush.jobs /\ k \in Nat /\ k + 1 # 1
                                       /\ flush'.jobs[k] = flush.jobs[k + 1]
  BY <1>1, <1>2, TailIs
<1>4. 0 # Nobody /\ \A s \in Steers : s # Nobody
  BY AppServerAssumption DEF AppServerAssumption, Nobody
<1>5. ASSUME NEW k \in DOMAIN flush'.jobs
      PROVE  flush'.jobs[k] = Nobody \/ flush'.jobs[k] # Head(flush.jobs)
  BY <1>3 DEF JobsHold
<1>6. \A k \in DOMAIN flush'.jobs :
          /\ flush'.jobs[k] \in Steers => told'[flush'.jobs[k]] = "waiting"
          /\ flush'.jobs[k] = 0 => phase' = "resteer"
  BY <1>3, <1>4, <1>5 DEF JobsHold
<1>7. \A i, k \in DOMAIN flush'.jobs :
          flush'.jobs[i] = flush'.jobs[k] /\ flush'.jobs[i] # Nobody => i = k
  <2> SUFFICES ASSUME NEW i \in DOMAIN flush'.jobs, NEW k \in DOMAIN flush'.jobs,
                      flush'.jobs[i] = flush'.jobs[k], flush'.jobs[i] # Nobody
               PROVE  i = k
    OBVIOUS
  <2>1. i + 1 = k + 1 /\ i \in Nat /\ k \in Nat
    BY <1>3 DEF JobsHold
  <2> QED BY <2>1
<1> QED BY <1>2, <1>6, <1>7 DEF JobsHold

\* Telling an answer changes that of the steer of the first job.
LEMMA TellIs ==
    ASSUME Typed, NEW t, Tells(t)
    PROVE  \A s \in Steers : IF s = Head(flush.jobs) THEN told'[s] = t ELSE told'[s] = told[s]
  BY DEF Tells, Typed

\* The start and the goal
LEMMA StartStages ==
    ASSUME Typed, CallsHold, StagesHold, JobsHold, Going', NEW a \in answers,
           ThreadReady(a) \/ TurnStarted(a) \/ GoalSet(a) \/ StartFails(a) \/ GoalFails(a)
    PROVE  StagesHold' /\ JobsHold'
<1>1. Waits(a.call) /\ run \in RunState /\ flush \in FlushState
  BY CallerWaits DEF Typed
<1>2. CASE ThreadReady(a)
  <2>1. a.call = "thread" /\ phase = "boot" /\ ~run.goalLater /\ run.inHand # "goal"
    BY <1>1, <1>2 DEF ThreadReady, Resume, Waits, StagesHold
  <2>2. CASE kind.goal /\ kind.resumed
    <3>1. AskWith(answers \ {a}, Request("goal", 0, <<>>)) /\ phase' = "goal" /\ UNCHANGED <<flush, stop, chain, told>>
      BY <1>2, <2>2 DEF ThreadReady, AskAfter
    <3>2. \A c : Awaits(c)' = (c = "goal" \/ (Awaits(c) /\ c # "thread"))
      <4>1. Request("goal", 0, <<>>).call = "goal"
        BY DEF Request
      <4> QED BY <2>1, <3>1, <4>1, ConsumeAwaits
    <3>3. run'.goalLater = run.goalLater /\ run'.inHand = run.inHand
      BY <1>1, <1>2, <2>2 DEF ThreadReady, GoalState, RunState
    <3>4. StagesHold'
      BY <2>1, <3>1, <3>2, <3>3 DEF StagesHold, Waits
    <3>5. JobsHold'
      BY <2>1, <3>1 DEF JobsHold
    <3> QED BY <3>4, <3>5
  <2>3. CASE ~(kind.goal /\ kind.resumed) /\ a.turn # 0
    <3>1. Consume(a) /\ phase' = "resteer" /\ UNCHANGED <<stop, chain, told>>
          /\ flush' = [flush EXCEPT !.jobs = Append(@, 0)]
      BY <1>2, <2>3 DEF ThreadReady
    <3>2. \A c : Awaits(c)' = (Awaits(c) /\ c # "thread")
      BY <2>1, <3>1, ConsumeAwaits
    <3>3. run'.goalLater = run.goalLater /\ run'.inHand = run.inHand
      BY <1>1, <1>2, <2>3 DEF ThreadReady, RunState
    <3>4. flush'.at = flush.at
      BY <1>1, <3>1 DEF FlushState
    <3>5. StagesHold'
      BY <2>1, <3>1, <3>2, <3>3, <3>4 DEF StagesHold, Waits
    <3>6. 0 \in Jobs /\ 0 \notin Steers
      BY RecordTypes, AppServerAssumption DEF AppServerAssumption
    <3>7. JobsHold'
      BY <2>1, <3>1, <3>6, JobsMore
    <3> QED BY <3>5, <3>7
  <2>4. CASE ~(kind.goal /\ kind.resumed) /\ a.turn = 0
    <3>1. AskWith(answers \ {a}, Request("start", 0, <<0>>)) /\ phase' = "start" /\ UNCHANGED <<flush, stop, chain, told>>
      BY <1>2, <2>4 DEF ThreadReady, AskAfter
    <3>2. \A c : Awaits(c)' = (c = "start" \/ (Awaits(c) /\ c # "thread"))
      <4>1. Request("start", 0, <<0>>).call = "start"
        BY DEF Request
      <4> QED BY <2>1, <3>1, <4>1, ConsumeAwaits
    <3>3. run'.inHand = run.inHand
      BY <1>1, <1>2, <2>4 DEF ThreadReady, RunState
    <3>4. StagesHold'
      BY <2>1, <3>1, <3>2, <3>3 DEF StagesHold, Waits
    <3>5. JobsHold'
      BY <2>1, <3>1 DEF JobsHold
    <3> QED BY <3>4, <3>5
  <2> QED BY <2>2, <2>3, <2>4
<1>3. CASE TurnStarted(a)
  <2>1. a.call = "start" /\ phase = "start" /\ Consume(a) /\ phase' = "up" /\ UNCHANGED <<stop, chain, told>>
        /\ flush' = [flush EXCEPT !.jobs = Append(@, Nobody)]
    BY <1>1, <1>3 DEF TurnStarted, Resume, Waits, Scheduled
  <2>2. \A c : Awaits(c)' = (Awaits(c) /\ c # "start")
    BY <2>1, ConsumeAwaits
  <2>3. run'.goalLater = run.goalLater /\ run'.inHand = run.inHand /\ flush'.at = flush.at
    BY <1>1, <1>3, <2>1 DEF TurnStarted, RunState, FlushState
  <2>4. StagesHold'
    BY <2>1, <2>2, <2>3 DEF StagesHold, Waits
  <2>5. Nobody \in Jobs /\ Nobody \notin Steers /\ Nobody # 0
    BY RecordTypes, AppServerAssumption DEF AppServerAssumption, Nobody
  <2>6. JobsHold'
    BY <2>1, <2>5, JobsMore
  <2> QED BY <2>4, <2>6
<1>4. CASE GoalSet(a)
  <2>1. a.call = "goal" /\ Consume(a) /\ UNCHANGED <<flush, stop, told>>
        /\ phase' = (IF phase = "goal" THEN "up" ELSE phase)
    BY <1>4 DEF GoalSet, Resume
  <2>2. \A c : Awaits(c)' = (Awaits(c) /\ c # "goal")
    BY <2>1, ConsumeAwaits
  <2>3. /\ run'.goalLater = run.goalLater
        /\ run'.inHand = (IF run.inHand = "goal" THEN "no" ELSE run.inHand)
        /\ run.inHand # "goal" => UNCHANGED chain
    BY <1>1, <1>4 DEF GoalSet, RunState
  <2>4. StagesHold'
    BY <2>1, <2>2, <2>3 DEF StagesHold, Waits
  <2>5. JobsHold'
    BY <2>1 DEF JobsHold
  <2> QED BY <2>4, <2>5
<1>5. CASE StartFails(a)
  BY <1>5 DEF StartFails, Finish, Going
<1>6. CASE GoalFails(a)
  <2>1. a.call = "goal" /\ Consume(a) /\ UNCHANGED <<flush, stop, told, phase>> /\ run.inHand = "goal"
    BY <1>6 DEF GoalFails, Resume, Finish, Going
  <2>2. \A c : Awaits(c)' = (Awaits(c) /\ c # "goal")
    BY <2>1, ConsumeAwaits
  <2>3. run'.goalLater = run.goalLater /\ run'.inHand = "no"
    BY <1>1, <1>6 DEF GoalFails, Finish, Going, RunState
  <2>4. StagesHold'
    BY <2>1, <2>2, <2>3 DEF StagesHold, Waits
  <2>5. JobsHold'
    BY <2>1 DEF JobsHold
  <2> QED BY <2>4, <2>5
<1> QED BY <1>2, <1>3, <1>4, <1>5, <1>6

\* The handlers and the timers
LEMMA HandlerStages ==
    ASSUME Typed, CallsHold, StagesHold, JobsHold, Going',
           LossEnds \/ HandleBegin \/ HandleEnd \/ TimerFires \/ GoalTimerFires
    PROVE  StagesHold' /\ JobsHold'
<1>1. run \in RunState /\ flush \in FlushState
  BY DEF Typed
<1>2. CASE HandleBegin
  <2>1. UNCHANGED <<rpc, phase, stop, told, chain>> /\ chain # <<>> /\ run.inHand = "no"
    BY <1>2 DEF HandleBegin
  <2>2. run'.goalLater = run.goalLater /\ run'.inHand = "begun"
    BY <1>1, <1>2 DEF HandleBegin, StartsTurn, RunState
  <2>3. \A c : Awaits(c)' = Awaits(c)
    BY <2>1, MoreAwaits
  <2>4. flush' = flush \/ flush' = [flush EXCEPT !.jobs = Append(@, Nobody)]
    BY <1>2 DEF HandleBegin, Scheduled
  <2>5. flush'.at = flush.at
    BY <1>1, <2>4 DEF FlushState
  <2>6. StagesHold'
    BY <2>1, <2>2, <2>3, <2>5 DEF StagesHold, Waits
  <2>7. Nobody \in Jobs /\ Nobody \notin Steers /\ Nobody # 0
    BY RecordTypes, AppServerAssumption DEF AppServerAssumption, Nobody
  <2>8. JobsHold'
    <3>1. CASE flush' = flush
      BY <2>1, <3>1 DEF JobsHold
    <3>2. CASE flush' = [flush EXCEPT !.jobs = Append(@, Nobody)]
      BY <2>1, <2>7, <3>2, JobsMore
    <3> QED BY <2>4, <3>1, <3>2
  <2> QED BY <2>6, <2>8
<1>3. CASE HandleEnd
  <2>1. UNCHANGED <<phase, stop, told, flush>> /\ run.inHand = "begun"
    BY <1>3 DEF HandleEnd, Finish, Going
  <2>2. \/ UNCHANGED rpc /\ run'.goalLater = run.goalLater /\ run'.inHand = "no"
        \/ run.goalLater /\ Ask(Request("goal", 0, <<>>)) /\ ~run'.goalLater /\ run'.inHand = "goal" /\ UNCHANGED chain
    BY <1>1, <1>3 DEF HandleEnd, Finish, Going, GoalState, RunState
  <2>3. CASE UNCHANGED rpc /\ run'.goalLater = run.goalLater /\ run'.inHand = "no"
    <3>1. \A c : Awaits(c)' = Awaits(c)
      BY <2>3, MoreAwaits
    <3> QED BY <2>1, <2>3, <3>1 DEF StagesHold, Waits, JobsHold
  <2>4. CASE run.goalLater /\ Ask(Request("goal", 0, <<>>)) /\ ~run'.goalLater /\ run'.inHand = "goal" /\ UNCHANGED chain
    <3>1. \A c : Awaits(c)' = (c = "goal" \/ Awaits(c))
      BY <2>4, MoreAwaits DEF Request
    <3>2. StagesHold'
      BY <2>1, <2>4, <3>1 DEF StagesHold, Waits
    <3> QED BY <2>1, <3>2 DEF JobsHold
  <2> QED BY <2>2, <2>3, <2>4
<1>4. CASE GoalTimerFires
  <2>1. UNCHANGED <<rpc, phase, stop, told, flush, chain>> /\ run'.goalLater = run.goalLater /\ run'.inHand = run.inHand
    BY <1>1, <1>4 DEF GoalTimerFires, Finish, Going, RunState
  <2>2. \A c : Awaits(c)' = Awaits(c)
    BY <2>1, MoreAwaits
  <2> QED BY <2>1, <2>2 DEF StagesHold, Waits, JobsHold
<1>5. CASE LossEnds \/ TimerFires
  BY <1>5 DEF LossEnds, TimerFires, Finish, Going
<1> QED BY <1>2, <1>3, <1>4, <1>5

\* A flush that gives up, before an answer or after one
LEMMA GivesUpStages ==
    ASSUME Typed, StagesHold, JobsHold, NEW rest, flush.jobs # <<>>, GivesUp(rest),
           \A c : (c \in awaited \/ \E b \in rest : b.call = c) => Awaits(c) /\ c # "steer" /\ c # "refresh",
           phase = "start" => "start" \in awaited \/ \E b \in rest : b.call = "start",
           UNCHANGED <<chain, stop>>
    PROVE  StagesHold' /\ JobsHold'
<1>1. run \in RunState
  BY DEF Typed
<1>2. run'.goalLater = run.goalLater /\ run'.inHand = run.inHand /\ flush' = NextJob /\ flush'.at = "idle"
  BY <1>1 DEF GivesUp, RunState, NextJob, NoJob
<1>3. CASE Head(flush.jobs) = 0
  <2>1. AskWith(rest, Request("start", 0, flush.hand \o pending)) /\ phase' = "start" /\ UNCHANGED told
    BY <1>3 DEF GivesUp
  <2> DEFINE r == Request("start", 0, flush.hand \o pending)
  <2>0. r.call = "start"
    BY DEF Request
  <2> HIDE DEF r
  <2>2. \A c : Awaits(c)' => (c = "start" \/ (Awaits(c) /\ c # "steer" /\ c # "refresh"))
    <3>1. \A c : Awaits(c)' = (c = r.call \/ c \in awaited \/ \E b \in rest : b.call = c)
      BY <2>1, AskAwaits DEF r
    <3> QED BY <2>0, <3>1
  <2>3. Awaits("start")'
    BY <2>0, <2>1, AskAwaits DEF r
  <2>4. phase = "resteer"
    BY <1>3, PromptJob
  <2>5. StagesHold'
    BY <1>2, <2>1, <2>2, <2>3, <2>4 DEF StagesHold, Waits
  <2>6. JobsHold'
    BY <1>2, <1>3, <2>1, JobsLess
  <2> QED BY <2>5, <2>6
<1>4. CASE Head(flush.jobs) # 0
  <2>1. answers' = rest /\ UNCHANGED <<asked, awaited, phase>> /\ Tells("failed")
    BY <1>4 DEF GivesUp
  <2>2. \A c : Awaits(c)' => Awaits(c) /\ c # "steer" /\ c # "refresh"
    BY <2>1 DEF Awaits
  <2>3. phase = "start" => Awaits("start")'
    BY <2>1 DEF Awaits
  <2>4. StagesHold'
    BY <1>2, <2>1, <2>2, <2>3 DEF StagesHold, Waits
  <2>5. JobsHold'
    BY <1>2, <2>1, TellIs, JobsLess
  <2> QED BY <2>4, <2>5
<1> QED BY <1>3, <1>4

\* The flush chain
LEMMA SteerStages ==
    ASSUME Typed, CallsHold, StagesHold, JobsHold, Going',
           \/ \E s \in Steers : Steer(s)
           \/ FlushNothing \/ FlushBegin \/ Refresh \/ FlushAgain
           \/ \E a \in answers : Steered(a) \/ SteerStale(a) \/ Refreshed(a) \/ SteerLost(a)
    PROVE  StagesHold' /\ JobsHold'
<1>1. run \in RunState /\ flush \in FlushState /\ flush.try \in 0 .. Retries /\ Retries \in Nat
      /\ told \in [Steers -> Toldness] /\ flush.jobs \in Seq(Jobs)
  BY FieldTypes, AppServerAssumption DEF Typed, AppServerAssumption
<1>2. ASSUME NEW s \in Steers, Steer(s) PROVE StagesHold' /\ JobsHold'
  <2>1. UNCHANGED <<rpc, phase, run, chain, stop>> /\ flush'.at = flush.at
    BY <1>1, <1>2 DEF Steer, FlushState
  <2>2. \A c : Awaits(c)' = Awaits(c)
    BY <2>1, MoreAwaits
  <2>3. StagesHold'
    BY <2>1, <2>2 DEF StagesHold, Waits
  <2>4. s \in Jobs /\ s # 0 /\ told[s] # "waiting"
    BY <1>2, AppServerAssumption DEF Jobs, Inputs, AppServerAssumption, Steer
  <2>5. JobsHold'
    <3>1. CASE Finalizing \/ run.turn = 0
      <4>1. flush' = flush /\ \E t : told' = [told EXCEPT ![s] = t]
        BY <1>2, <3>1 DEF Steer
      <4>2. \A k \in DOMAIN flush.jobs : flush.jobs[k] \in Steers => flush.jobs[k] # s
        BY <2>4 DEF JobsHold
      <4> QED BY <1>1, <2>1, <4>1, <4>2 DEF JobsHold
    <3>2. CASE ~Finalizing /\ run.turn # 0
      <4>1. flush' = [flush EXCEPT !.jobs = Append(@, s)] /\ told' = [told EXCEPT ![s] = "waiting"]
        BY <1>2, <3>2 DEF Steer
      <4> QED BY <2>1, <2>4, <4>1, JobsMore
    <3> QED BY <3>1, <3>2
  <2> QED BY <2>3, <2>5
<1>3. CASE FlushNothing
  <2>1. UNCHANGED <<rpc, run, chain, stop>> /\ flush' = NextJob /\ flush.at = "idle" /\ flush.jobs # <<>>
        /\ Tells("buffered") /\ phase' = (IF Head(flush.jobs) = 0 THEN "up" ELSE phase)
    BY <1>3 DEF FlushNothing, Ready
  <2>2. \A c : Awaits(c)' = Awaits(c)
    BY <2>1, MoreAwaits
  <2>3. flush'.at = "idle" /\ (Head(flush.jobs) = 0 => phase = "resteer")
    BY <2>1, PromptJob DEF NextJob, NoJob
  <2>4. StagesHold'
    BY <2>1, <2>2, <2>3 DEF StagesHold, Waits
  <2>5. JobsHold'
    BY <2>1, TellIs, JobsLess
  <2> QED BY <2>4, <2>5
<1>4. CASE FlushBegin
  <2>1. UNCHANGED <<phase, run, chain, stop, told>> /\ Ask(Request("steer", run.turn, pending))
        /\ flush.jobs # <<>> /\ flush' = [flush EXCEPT !.at = "asking", !.hand = pending, !.try = 0]
    BY <1>4 DEF FlushBegin
  <2>2. \A c : Awaits(c)' = (c = "steer" \/ Awaits(c))
    <3>1. Request("steer", run.turn, pending).call = "steer"
      BY DEF Request
    <3> QED BY <2>1, <3>1, MoreAwaits
  <2>3. flush'.at = "asking" /\ flush'.jobs = flush.jobs
    BY <1>1, <2>1 DEF FlushState
  <2>4. StagesHold'
    BY <1>4, <2>1, <2>2, <2>3 DEF FlushBegin, StagesHold, Waits
  <2> QED BY <2>1, <2>3, <2>4 DEF JobsHold
<1>5. CASE Refresh
  <2>1. UNCHANGED <<phase, run, chain, stop, told>> /\ Ask(Request("refresh", 0, <<>>)) /\ flush.at = "waiting"
        /\ flush' = [flush EXCEPT !.at = "refreshing", !.try = @ + 1]
    BY <1>5 DEF Refresh
  <2>2. \A c : Awaits(c)' = (c = "refresh" \/ Awaits(c))
    <3>1. Request("refresh", 0, <<>>).call = "refresh"
      BY DEF Request
    <3> QED BY <2>1, <3>1, MoreAwaits
  <2>3. flush'.at = "refreshing" /\ flush'.jobs = flush.jobs /\ flush'.hand = flush.hand
    BY <1>1, <2>1 DEF FlushState
  <2>4. StagesHold'
    BY <2>1, <2>2, <2>3 DEF StagesHold, Waits
  <2> QED BY <2>1, <2>3, <2>4 DEF JobsHold
<1>6. CASE FlushAgain
  <2>1. UNCHANGED <<chain, stop>> /\ flush.at = "refreshed" /\ flush.jobs # <<>>
    BY <1>6 DEF FlushAgain, JobsHold
  <2>2. CASE run.turn = 0 /\ flush.try = Retries
    <3>1. GivesUp(answers)
      BY <1>6, <2>2 DEF FlushAgain
    <3>2. \A c : (c \in awaited \/ \E b \in answers : b.call = c) => Awaits(c) /\ c # "steer" /\ c # "refresh"
      <4>1. \A c : (c \in awaited \/ \E b \in answers : b.call = c) => Awaits(c)
        BY DEF Awaits
      <4>2. ~Awaits("steer") /\ ~Awaits("refresh")
        BY <2>1 DEF StagesHold, Waits, Calls
      <4> QED BY <4>1, <4>2
    <3>3. phase = "start" => "start" \in awaited \/ \E b \in answers : b.call = "start"
      BY DEF StagesHold, Awaits
    <3> QED BY <2>1, <3>1, <3>2, <3>3, GivesUpStages
  <2>3. CASE run.turn = 0 /\ flush.try # Retries
    <3>1. UNCHANGED <<rpc, phase, run, told>> /\ flush' = [flush EXCEPT !.at = "waiting"]
      BY <1>6, <2>3 DEF FlushAgain
    <3>2. \A c : Awaits(c)' = Awaits(c)
      BY <3>1, MoreAwaits
    <3>3. flush'.at = "waiting" /\ flush'.jobs = flush.jobs /\ flush'.try = flush.try
      BY <1>1, <3>1 DEF FlushState
    <3>4. StagesHold'
      BY <2>1, <3>1, <3>2, <3>3 DEF StagesHold, Waits
    <3>5. JobsHold'
      BY <1>1, <2>1, <2>3, <3>1, <3>3 DEF JobsHold
    <3> QED BY <3>4, <3>5
  <2>4. CASE run.turn # 0
    <3>1. UNCHANGED <<phase, run, told>> /\ flush' = [flush EXCEPT !.at = "asking"]
          /\ Ask(Request("steer", run.turn, flush.hand))
      BY <1>6, <2>4 DEF FlushAgain
    <3>2. \A c : Awaits(c)' = (c = "steer" \/ Awaits(c))
      <4>1. Request("steer", run.turn, flush.hand).call = "steer"
        BY DEF Request
      <4> QED BY <3>1, <4>1, MoreAwaits
    <3>3. flush'.at = "asking" /\ flush'.jobs = flush.jobs
      BY <1>1, <3>1 DEF FlushState
    <3>4. StagesHold'
      BY <2>1, <3>1, <3>2, <3>3 DEF StagesHold, Waits
    <3>5. JobsHold'
      BY <2>1, <3>1, <3>3 DEF JobsHold
    <3> QED BY <3>4, <3>5
  <2> QED BY <2>2, <2>3, <2>4
<1>7. ASSUME NEW a \in answers, Steered(a) \/ SteerStale(a) \/ Refreshed(a) \/ SteerLost(a)
      PROVE  StagesHold' /\ JobsHold'
  <2>1. Waits(a.call) /\ UNCHANGED stop
    BY <1>7, CallerWaits DEF Steered, SteerStale, Refreshed, SteerLost, Finish, Going
  <2>2. CASE SteerStale(a) /\ flush.try = Retries
    <3>1. a.call = "steer" /\ flush.at = "asking" /\ flush.jobs # <<>> /\ GivesUp(answers \ {a}) /\ UNCHANGED chain
      BY <2>1, <2>2 DEF SteerStale, Resume, Waits, JobsHold
    <3>2. \A c : (c \in awaited \/ \E b \in answers \ {a} : b.call = c) => Awaits(c) /\ c # "steer" /\ c # "refresh"
      <4>1. \A c : (c \in awaited \/ \E b \in answers \ {a} : b.call = c) => Awaits(c) /\ c # "steer"
        BY <3>1 DEF Awaits, CallsHold, AnswersHold
      <4>2. ~Awaits("refresh")
        BY <3>1 DEF StagesHold, Waits, Calls
      <4> QED BY <4>1, <4>2
    <3>3. phase = "start" => "start" \in awaited \/ \E b \in answers \ {a} : b.call = "start"
      BY <3>1 DEF StagesHold, Awaits
    <3> QED BY <2>1, <3>1, <3>2, <3>3, GivesUpStages
  <2>3. CASE SteerStale(a) /\ flush.try # Retries
    <3>1. a.call = "steer" /\ flush.at = "asking" /\ flush.jobs # <<>> /\ Consume(a)
          /\ UNCHANGED <<chain, phase, told>> /\ flush' = [flush EXCEPT !.at = "waiting"]
      BY <2>1, <2>3 DEF SteerStale, Resume, Waits, JobsHold
    <3>2. \A c : Awaits(c)' = (Awaits(c) /\ c # "steer")
      BY <3>1, ConsumeAwaits
    <3>3. run'.goalLater = run.goalLater /\ run'.inHand = run.inHand
      BY <1>1, <2>3 DEF SteerStale, RunState
    <3>4. flush'.at = "waiting" /\ flush'.jobs = flush.jobs /\ flush'.try = flush.try
      BY <1>1, <3>1 DEF FlushState
    <3>5. StagesHold'
      BY <2>1, <3>1, <3>2, <3>3, <3>4 DEF StagesHold, Waits
    <3>6. flush'.try < Retries
      BY <1>1, <2>3, <3>4
    <3>7. JobsHold'
      BY <3>1, <3>4, <3>6 DEF JobsHold
    <3> QED BY <3>5, <3>7
  <2>4. CASE Steered(a) \/ SteerLost(a)
    <3>1. a.call = "steer" /\ flush.at = "asking" /\ flush.jobs # <<>> /\ Consume(a)
          /\ UNCHANGED <<chain, stop>> /\ flush' = NextJob
      BY <2>1, <2>4 DEF Steered, SteerLost, Finish, Going, Resume, Waits, JobsHold
    <3>2. phase' = phase \/ (phase' = "up" /\ Head(flush.jobs) = 0)
      BY <2>4 DEF Steered, SteerLost, Ready
    <3>3. \E t : Tells(t)
      BY <2>4 DEF Steered, SteerLost, Finish, Going
    <3>4. \A c : Awaits(c)' = (Awaits(c) /\ c # "steer")
      BY <3>1, ConsumeAwaits
    <3>5. run'.goalLater = run.goalLater /\ run'.inHand = run.inHand
      BY <1>1, <2>4 DEF Steered, SteerLost, RunState
    <3>6. flush'.at = "idle" /\ (Head(flush.jobs) = 0 => phase = "resteer")
      BY <3>1, PromptJob DEF NextJob, NoJob
    <3>7. StagesHold'
      BY <3>1, <3>2, <3>4, <3>5, <3>6 DEF StagesHold, Waits
    <3>8. \A s \in Steers : told'[s] = told[s] \/ s = Head(flush.jobs)
      BY <3>3, TellIs
    <3>9. JobsHold'
      BY <3>1, <3>2, <3>8, JobsLess
    <3> QED BY <3>7, <3>9
  <2>5. CASE Refreshed(a)
    <3>1. a.call = "refresh" /\ flush.at = "refreshing" /\ Consume(a) /\ UNCHANGED <<chain, phase, told>>
          /\ flush' = [flush EXCEPT !.at = "refreshed"]
      BY <2>1, <2>5 DEF Refreshed, Resume, Waits
    <3>2. \A c : Awaits(c)' = (Awaits(c) /\ c # "refresh")
      BY <3>1, ConsumeAwaits
    <3>3. run'.goalLater = run.goalLater /\ run'.inHand = run.inHand
      BY <1>1, <2>5 DEF Refreshed, RunState
    <3>4. flush'.at = "refreshed" /\ flush'.jobs = flush.jobs
      BY <1>1, <3>1 DEF FlushState
    <3>5. StagesHold'
      BY <2>1, <3>1, <3>2, <3>3, <3>4 DEF StagesHold, Waits
    <3>6. JobsHold'
      BY <3>1, <3>4 DEF JobsHold
    <3> QED BY <3>5, <3>6
  <2> QED BY <1>7, <2>2, <2>3, <2>4, <2>5
<1> QED BY <1>2, <1>3, <1>4, <1>5, <1>6, <1>7

\* The interruption
LEMMA InterruptStages ==
    ASSUME Typed, CallsHold, StagesHold, JobsHold,
           Interrupt \/ InterruptAgain \/ \E a \in answers : InterruptAnswered(a)
    PROVE  StagesHold' /\ JobsHold'
<1>1. UNCHANGED <<phase, run, chain, flush, told>> /\ stop \in StopState
  BY DEF Interrupt, InterruptAgain, InterruptAnswered, Typed
<1>2. JobsHold'
  BY <1>1 DEF JobsHold
<1>3. ASSUME UNCHANGED rpc, stop.at # "asking", stop'.at # "asking", stop'.asked PROVE StagesHold'
  <2>1. \A c : Awaits(c)' = Awaits(c)
    BY <1>3, MoreAwaits
  <2> QED BY <1>1, <1>3, <2>1 DEF StagesHold, Waits
<1>4. ASSUME NEW t, Ask(Request("interrupt", t, <<>>)), stop'.at = "asking", stop'.asked PROVE StagesHold'
  <2>1. Request("interrupt", t, <<>>).call = "interrupt"
    BY DEF Request
  <2>2. \A c : Awaits(c)' = (c = "interrupt" \/ Awaits(c))
    BY <1>4, <2>1, MoreAwaits
  <2> QED BY <1>1, <1>4, <2>2 DEF StagesHold, Waits
<1>5. CASE Interrupt
  <2>1. stop.at # "asking"
    BY <1>5 DEF Interrupt, StagesHold
  <2>2. CASE run.turn = 0 \/ Finalizing
    <3>1. stop'.at = "over" /\ stop'.asked /\ UNCHANGED rpc
      BY <1>5, <2>2 DEF Interrupt, NoStop
    <3> QED BY <1>2, <1>3, <2>1, <3>1
  <2>3. CASE ~(run.turn = 0 \/ Finalizing)
    <3>1. stop'.at = "asking" /\ stop'.asked /\ Ask(Request("interrupt", run.turn, <<>>))
      BY <1>5, <2>3 DEF Interrupt, NoStop
    <3> QED BY <1>2, <1>4, <3>1
  <2> QED BY <2>2, <2>3
<1>6. CASE InterruptAgain
  <2>1. stop.at = "waiting" /\ stop.asked /\ stop \in StopState
    BY <1>1, <1>6 DEF InterruptAgain, StagesHold
  <2>2. CASE Finalizing
    <3>1. stop'.at = "over" /\ stop'.asked /\ UNCHANGED rpc
      BY <1>6, <2>1, <2>2 DEF InterruptAgain, StopState
    <3> QED BY <1>2, <1>3, <2>1, <3>1
  <2>3. CASE ~Finalizing
    <3>1. stop'.at = "asking" /\ stop'.asked /\ Ask(Request("interrupt", stop.turn, <<>>))
      BY <1>6, <2>1, <2>3 DEF InterruptAgain, StopState
    <3> QED BY <1>2, <1>4, <3>1
  <2> QED BY <2>2, <2>3
<1>7. ASSUME NEW a \in answers, InterruptAnswered(a) PROVE StagesHold'
  <2>1. a.call = "interrupt" /\ Consume(a)
    BY <1>7 DEF InterruptAnswered, Resume
  <2>2. \A c : Awaits(c)' = (Awaits(c) /\ c # "interrupt")
    BY <2>1, ConsumeAwaits
  <2>3. stop'.at \in {"over", "waiting"} /\ stop'.asked = stop.asked
    BY <1>1, <1>7 DEF InterruptAnswered, StopState
  <2>4. stop.at = "asking"
    BY <2>1, CallerWaits DEF Waits
  <2> QED BY <1>1, <2>2, <2>3, <2>4 DEF StagesHold, Waits
<1> QED BY <1>2, <1>5, <1>6, <1>7

\* An attempt that is over stays so.
LEMMA OverStays ==
    ASSUME Next, ~Going
    PROVE  UNCHANGED vars
  BY DEF Next, LoopStep, Done, Serve, Tell, EndTurn, Continue, Die, Read, Close, LossEnds,
     HandleBegin, HandleEnd, FlushNothing, FlushBegin, Refresh, FlushAgain, InterruptAgain, ThreadReady,
     TurnStarted, GoalSet, StartFails, GoalFails, Steered, SteerStale, Refreshed, SteerLost,
     InterruptAnswered, TimerFires, GoalTimerFires, Interrupt, Timeout, Steer, Quiet, Resume

\* Types, calls, stages and jobs
Base == Typed /\ (Going => CallsHold /\ StagesHold /\ JobsHold)

\* Types are kept by every step.
LEMMA TypesKept ==
    ASSUME Base, [Next]_vars
    PROVE  Typed'
<1>1. CASE UNCHANGED vars
  BY <1>1 DEF Base, vars, Typed
<1>2. CASE ~Going /\ Next
  BY <1>1, <1>2, OverStays
<1>3. CASE Going /\ Next
  <2>1. Typed /\ CallsHold /\ StagesHold /\ JobsHold
    BY <1>3 DEF Base
  <2>2. CASE Serve \/ Tell \/ EndTurn \/ Continue \/ Die
    BY <2>1, <2>2, ServerTypes
  <2>3. CASE Read \/ (\E call \in Calls : Timeout(call)) \/ Close \/ LossEnds
    BY <2>1, <2>3, PipeTypes
  <2>4. CASE \E a \in answers :
                ThreadReady(a) \/ TurnStarted(a) \/ GoalSet(a) \/ StartFails(a) \/ GoalFails(a)
    BY <2>1, <2>4, StartTypes
  <2>5. CASE HandleBegin \/ HandleEnd \/ TimerFires \/ GoalTimerFires
    BY <2>1, <2>5, HandlerTypes
  <2>6. CASE \/ \E s \in Steers : Steer(s)
             \/ FlushNothing \/ FlushBegin \/ Refresh \/ FlushAgain
             \/ \E a \in answers : Steered(a) \/ SteerStale(a) \/ Refreshed(a) \/ SteerLost(a)
    BY <2>1, <2>6, SteerTypes
  <2>7. CASE Interrupt \/ InterruptAgain \/ \E a \in answers : InterruptAnswered(a)
    BY <2>1, <2>7, InterruptTypes
  <2> QED BY <1>3, <2>2, <2>3, <2>4, <2>5, <2>6, <2>7 DEF Next, LoopStep, Done
<1> QED BY <1>1, <1>2, <1>3

\* Stages and jobs are kept by every step.
LEMMA StagesKept ==
    ASSUME Typed, CallsHold, StagesHold, JobsHold, Going, Going', Next
    PROVE  StagesHold' /\ JobsHold'
<1>1. CASE PipeStep
  BY <1>1, StagesPipe
<1>2. CASE \E a \in answers :
              ThreadReady(a) \/ TurnStarted(a) \/ GoalSet(a) \/ StartFails(a) \/ GoalFails(a)
  BY <1>2, StartStages
<1>3. CASE LossEnds \/ HandleBegin \/ HandleEnd \/ TimerFires \/ GoalTimerFires
  BY <1>3, HandlerStages
<1>4. CASE \/ \E s \in Steers : Steer(s)
           \/ FlushNothing \/ FlushBegin \/ Refresh \/ FlushAgain
           \/ \E a \in answers : Steered(a) \/ SteerStale(a) \/ Refreshed(a) \/ SteerLost(a)
  BY <1>4, SteerStages
<1>5. CASE Interrupt \/ InterruptAgain \/ \E a \in answers : InterruptAnswered(a)
  BY <1>5, InterruptStages
<1> QED BY <1>1, <1>2, <1>3, <1>4, <1>5 DEF Next, LoopStep, Done, PipeStep

-----------------------------------------------------------------------------
(* The inputs *)

\* What a list of inputs is after one is added, and after two are joined
LEMMA ListAdd ==
    ASSUME NEW S, NEW l \in Seq(S), NEW e \in S
    PROVE  /\ \A i : InList(i, Append(l, e)) = (InList(i, l) \/ i = e)
           /\ \A i : Once(i, l) /\ (i = e => ~InList(i, l)) => Once(i, Append(l, e))
<1>1. /\ DOMAIN Append(l, e) = 1 .. Len(l) + 1 /\ DOMAIN l = 1 .. Len(l) /\ Len(l) \in Nat
      /\ \A k \in DOMAIN l : Append(l, e)[k] = l[k]
      /\ Append(l, e)[Len(l) + 1] = e
  BY AppendIs
<1>2. \A k \in DOMAIN Append(l, e) : (k \in DOMAIN l /\ Append(l, e)[k] = l[k]) \/ (k = Len(l) + 1 /\ Append(l, e)[k] = e)
  <2>1. \A n \in Nat : \A k \in 1 .. n + 1 : k \in 1 .. n \/ k = n + 1
    OBVIOUS
  <2> QED BY <1>1, <2>1
<1>3. \A i : InList(i, Append(l, e)) = (InList(i, l) \/ i = e)
  <2>1. DOMAIN l \subseteq DOMAIN Append(l, e) /\ Len(l) + 1 \in DOMAIN Append(l, e)
    BY <1>1
  <2> QED BY <1>1, <1>2, <2>1 DEF InList
<1>4. ASSUME NEW i, Once(i, l), i = e => ~InList(i, l) PROVE Once(i, Append(l, e))
  BY <1>2, <1>4 DEF Once, InList
<1> QED BY <1>3, <1>4

\* What is in two lists, and how often, is in one made of them.
LEMMA ListJoin ==
    ASSUME NEW S, NEW l \in Seq(S), NEW m \in Seq(S)
    PROVE  /\ \A i : InList(i, l \o m) = (InList(i, l) \/ InList(i, m))
           /\ \A i : Once(i, l) /\ Once(i, m) /\ ~(InList(i, l) /\ InList(i, m)) => Once(i, l \o m)
<1>1. /\ DOMAIN (l \o m) = 1 .. Len(l) + Len(m) /\ DOMAIN l = 1 .. Len(l) /\ DOMAIN m = 1 .. Len(m)
      /\ Len(l) \in Nat /\ Len(m) \in Nat
      /\ \A k \in DOMAIN l : (l \o m)[k] = l[k]
      /\ \A k \in DOMAIN m : (l \o m)[Len(l) + k] = m[k]
  BY ConcatIs
<1> DEFINE j == l \o m
<1> HIDE DEF j
<1>2. \A k \in DOMAIN j : \/ k \in DOMAIN l /\ j[k] = l[k]
                          \/ k - Len(l) \in DOMAIN m /\ j[k] = m[k - Len(l)]
  <2> SUFFICES ASSUME NEW k \in DOMAIN j, k \notin DOMAIN l
               PROVE  k - Len(l) \in DOMAIN m /\ j[k] = m[k - Len(l)]
    BY <1>1 DEF j
  <2>1. k \in 1 .. Len(l) + Len(m) /\ k \notin 1 .. Len(l)
    BY <1>1 DEF j
  <2>2. k - Len(l) \in 1 .. Len(m) /\ Len(l) + (k - Len(l)) = k
    BY <1>1, <2>1
  <2> QED BY <1>1, <2>2 DEF j
<1>3. \A k \in DOMAIN l : k \in DOMAIN j /\ j[k] = l[k]
  BY <1>1 DEF j
<1>4. \A k \in DOMAIN m : Len(l) + k \in DOMAIN j /\ j[Len(l) + k] = m[k]
  BY <1>1 DEF j
<1>5. \A i : InList(i, j) = (InList(i, l) \/ InList(i, m))
  BY <1>2, <1>3, <1>4 DEF InList
<1>6. ASSUME NEW i, Once(i, l), Once(i, m), ~(InList(i, l) /\ InList(i, m)),
             NEW x \in DOMAIN j, NEW y \in DOMAIN j, j[x] = i, j[y] = i
      PROVE  x = y
  <2>0. x \in Int /\ y \in Int /\ Len(l) \in Int
    BY <1>1 DEF j
  <2>1. CASE InList(i, l)
    BY <1>2, <1>6, <2>1 DEF Once, InList
  <2>2. CASE ~InList(i, l)
    <3>1. x - Len(l) = y - Len(l)
      BY <1>2, <1>6, <2>2 DEF Once, InList
    <3> QED BY <2>0, <3>1
  <2> QED BY <2>1, <2>2
<1> QED BY <1>5, <1>6 DEF Once, j

\* What the server took of a list of inputs
LEMMA TakesIs ==
    ASSUME Typed, NEW l \in Seq(Inputs), Takes(l), NEW i \in Inputs
    PROVE  /\ ~InList(i, l) => got'[i] = got[i]
           /\ InList(i, l) => got'[i] > 0
           /\ InList(i, l) /\ Once(i, l) /\ got[i] = 0 => got'[i] = 1
           /\ got[i] > 0 => got'[i] > 0
<1> DEFINE at == {k \in DOMAIN l : l[k] = i}
           n == got[i] + Cardinality(at)
<1>1. got'[i] = IF n > 2 THEN 2 ELSE n
  BY DEF Takes
<1>2. got[i] \in 0 .. 2
  BY DEF Typed
<1>3. IsFiniteSet(at) /\ Cardinality(at) \in Nat
  <2>1. IsFiniteSet(1 .. Len(l)) /\ DOMAIN l = 1 .. Len(l)
    BY FS_Interval
  <2>2. IsFiniteSet(at)
    BY <2>1, FS_Subset
  <2> QED BY <2>2, FS_CardinalityType
<1>4. ~InList(i, l) => at = {}
  BY DEF InList
<1>5. at = {} <=> Cardinality(at) = 0
  BY <1>3, FS_EmptySet
<1>6. InList(i, l) => at # {}
  BY DEF InList
<1>7. ASSUME InList(i, l), Once(i, l) PROVE Cardinality(at) = 1
  <2>1. PICK k \in DOMAIN l : l[k] = i
    BY <1>7 DEF InList
  <2>2. at = {k}
    BY <1>7, <2>1 DEF Once
  <2> HIDE DEF at
  <2> QED BY <2>2, FS_Singleton
<1> HIDE DEF at
<1> QED BY <1>1, <1>2, <1>3, <1>4, <1>5, <1>6, <1>7

\* Who is not asked to steer: nobody else while the answer is there, and
\* nobody when the flush is not asking
NoneSteers ==
    /\ \A k \in DOMAIN asked : asked[k].call = "steer" => ~(asked[k].live /\ ~run.closed)
    /\ \A k \in DOMAIN wire : ~OnWire(k, "steer")

\* An answered steer has neither request nor reply left.
LEMMA SteerAlone ==
    ASSUME CallsHold, NEW a \in answers, a.call = "steer"
    PROVE  NoneSteers /\ (NoAnswer => Lost(a)) /\ (NoRefusal => a.ok \/ Lost(a))
<1>1. "steer" \notin awaited
  BY DEF CallsHold, AnswersHold
<1>2. NoneSteers
  BY <1>1 DEF CallsHold, AskedHolds, WireHolds, NoneSteers, OnWire
<1>3. ASSUME NoAnswer PROVE Lost(a)
  <2>1. PICK b \in answers : b.call = "steer" /\ Lost(b)
    BY <1>3 DEF NoAnswer
  <2>2. a = b
    BY <2>1 DEF CallsHold, AnswersHold
  <2> QED BY <2>1, <2>2
<1> QED BY <1>2, <1>3 DEF NoRefusal

\* A flush that is not asking has no steer under way.
LEMMA SteerIdle ==
    ASSUME CallsHold, StagesHold, flush.at # "asking"
    PROVE  NoneSteers /\ \A a \in answers : a.call # "steer"
<1>1. ~Awaits("steer")
  BY DEF StagesHold, Waits, Calls
<1> QED BY <1>1 DEF Awaits, CallsHold, AskedHolds, WireHolds, NoneSteers, OnWire


\* Steps that neither take, move nor ask for an input
StillCalls ==
    /\ \A k \in DOMAIN asked' : asked'[k].call \in {"start", "steer"} =>
          /\ k \in DOMAIN asked /\ asked'[k].call = asked[k].call /\ asked'[k].inputs = asked[k].inputs
          /\ asked'[k].live => asked[k].live
          /\ asked[k].live /\ ~run.closed =>
                \/ (asked'[k].live /\ ~run'.closed)
                \/ \E a \in answers' : a.call = asked[k].call /\ Lost(a) /\ ~a.ok
    /\ \/ \A k \in DOMAIN asked : /\ k \in DOMAIN asked' /\ asked'[k].call = asked[k].call
                                  /\ asked'[k].inputs = asked[k].inputs
       \/ ~server'.up
    /\ \A k \in DOMAIN wire' : wire'[k] \in Answer => \E j \in DOMAIN wire : wire[j] = wire'[k]
    /\ \A a \in answers' : \/ a \in answers
                          \/ a.call \notin {"start", "steer"}
                          \/ (Lost(a) /\ ~a.ok)
                          \/ \E j \in DOMAIN wire : wire[j] = a
    /\ \A a \in answers : a \in answers' \/ (a.call # "steer" /\ ~StartRejected(a))
    /\ Failing => Failing'
    /\ run.closed => run'.closed

StillInputs ==
    /\ UNCHANGED <<pending, got, tries, unsure>>
    /\ flush'.hand = flush.hand /\ (flush'.at = flush.at \/ (flush.at # "asking" /\ flush'.at # "asking"))
    /\ \A s \in Steers : \/ told'[s] = told[s]
                         \/ (told[s] \notin {"no", "refused"} /\ told'[s] \notin {"no", "refused"})
    /\ \/ phase' = phase
       \/ phase' # "boot" /\ \A k \in DOMAIN asked' : asked'[k].call # "start"

Still == StillCalls /\ StillInputs

\* A step that touches no input keeps each where it was.
LEMMA StillKeeps ==
    ASSUME Typed, Typed', CallsHold, InputsHold, HandHolds, SteersHold, Still
    PROVE  InputsHold' /\ HandHolds' /\ SteersHold'
<1>1. /\ \A k \in DOMAIN asked' : asked'[k].call \in {"start", "steer"} =>
            /\ k \in DOMAIN asked /\ asked'[k].call = asked[k].call /\ asked'[k].inputs = asked[k].inputs
            /\ asked'[k].live => asked[k].live
            /\ asked[k].live /\ ~run.closed =>
                  \/ asked'[k].live /\ ~run'.closed
                  \/ \E a \in answers' : a.call = asked[k].call /\ Lost(a) /\ ~a.ok
  BY DEF Still, StillCalls, StillInputs
<1>2. \A k \in DOMAIN wire' : wire'[k] \in Answer => \E j \in DOMAIN wire : wire[j] = wire'[k]
  BY DEF Still, StillCalls, StillInputs
<1>3. /\ \A a \in answers' : \/ a \in answers \/ a.call \notin {"start", "steer"}
                            \/ (Lost(a) /\ ~a.ok)
                            \/ \E j \in DOMAIN wire : wire[j] = a
      /\ \A a \in answers : a \in answers' \/ (a.call # "steer" /\ ~StartRejected(a))
      /\ answers' \subseteq Answer /\ (run.closed => run'.closed)
  BY DEF Still, StillCalls, StillInputs, Typed
<1>4. /\ UNCHANGED <<pending, got, tries, unsure>> /\ flush'.hand = flush.hand
      /\ flush'.at = flush.at \/ (flush.at # "asking" /\ flush'.at # "asking")
  BY DEF Still, StillCalls, StillInputs
<1>5. NoAnswer => NoAnswer'
  BY <1>3 DEF NoAnswer, Lost
<1>6. NoStart => NoStart'
  BY <1>3 DEF NoStart, StartRejected
<1>7. NoRefusal => NoRefusal'
  BY <1>2, <1>3 DEF NoRefusal, OnWire, Lost
<1>8. \A i : \A k \in DOMAIN asked' : Sends(asked'[k], i) =>
         k \in DOMAIN asked /\ Sends(asked[k], i) /\ asked'[k].call = asked[k].call /\ asked'[k].inputs = asked[k].inputs
  BY <1>1 DEF Sends, InList
<1>9. \A i : Nowhere(i) => Nowhere(i)'
  BY <1>4, <1>8 DEF Nowhere, InList
<1>10. ASSUME NEW i \in Inputs \ unsure', InputHolds(i) PROVE InputHolds(i)'
  <2>1. \A k \in DOMAIN asked' : Sends(asked'[k], i) /\ asked'[k].call = "steer" =>
           (asked'[k].live /\ ~run'.closed) \/ NoAnswer'
    <3> SUFFICES ASSUME NEW k \in DOMAIN asked', Sends(asked'[k], i), asked'[k].call = "steer"
                 PROVE  (asked'[k].live /\ ~run'.closed) \/ NoAnswer'
      OBVIOUS
    <3>1. k \in DOMAIN asked /\ Sends(asked[k], i) /\ asked[k].call = "steer"
      BY <1>8
    <3>2. (asked[k].live /\ ~run.closed) \/ NoAnswer
      BY <1>10, <3>1 DEF InputHolds
    <3>3. asked[k].live /\ ~run.closed => (asked'[k].live /\ ~run'.closed) \/ NoAnswer'
      BY <1>1, <3>1 DEF NoAnswer, Lost
    <3> QED BY <1>5, <3>2, <3>3
  <2>2. \A k \in DOMAIN asked' : Sends(asked'[k], i) =>
          got'[i] = 0 /\ ~InList(i, pending') /\ Once(i, asked'[k].inputs)
    BY <1>4, <1>8, <1>10 DEF InputHolds, InList, Once
  <2>3. \A k \in DOMAIN asked' : Sends(asked'[k], i) /\ asked'[k].call = "start" => ~InList(i, flush'.hand)
    BY <1>4, <1>8, <1>10 DEF InputHolds, InList
  <2>4. \A k \in DOMAIN asked' : Sends(asked'[k], i) /\ asked'[k].call = "steer" =>
          flush'.at = "asking" /\ InList(i, flush'.hand)
    BY <1>4, <1>8, <1>10 DEF InputHolds, InList
  <2>5. \A j, k \in DOMAIN asked' : Sends(asked'[j], i) /\ Sends(asked'[k], i) => j = k
    BY <1>8, <1>10 DEF InputHolds
  <2>6. InList(i, flush'.hand) /\ got'[i] > 0 => flush'.at = "asking" /\ NoRefusal'
    BY <1>4, <1>7, <1>10 DEF InputHolds, InList
  <2>7. /\ got'[i] <= 1 /\ Once(i, pending') /\ Once(i, flush'.hand)
        /\ ~(InList(i, pending') /\ InList(i, flush'.hand)) /\ (InList(i, pending') => got'[i] = 0)
    BY <1>4, <1>10 DEF InputHolds, InList, Once
  <2> QED BY <2>1, <2>2, <2>3, <2>4, <2>5, <2>6, <2>7 DEF InputHolds
<1>11. InputsHold'
  <2>1. \A i \in Inputs \ unsure' : InputHolds(i)'
    BY <1>4, <1>10 DEF InputsHold
  <2>2. \A s \in Steers : tries'[s] = 0 => Nowhere(s)' /\ told'[s] = "no"
    <3>1. \A s \in Steers : told[s] = "no" => told'[s] = "no"
      BY DEF Still, StillCalls, StillInputs
    <3> QED BY <1>4, <1>9, <3>1 DEF InputsHold
  <2>3. phase' = "boot" => Nowhere(0)'
    BY <1>9 DEF Still, StillInputs, InputsHold
  <2>4. ASSUME NEW k \in DOMAIN asked', asked'[k].call = "start"
        PROVE  phase' = "start" /\ ((asked'[k].live /\ ~run'.closed) \/ NoStart')
    <3>1. k \in DOMAIN asked /\ asked[k].call = "start"
      BY <1>1, <2>4
    <3>2. phase = "start" /\ ((asked[k].live /\ ~run.closed) \/ NoStart)
      BY <3>1 DEF InputsHold
    <3>3. phase' = phase
      BY <2>4 DEF Still, StillCalls, StillInputs
    <3>4. asked[k].live /\ ~run.closed => (asked'[k].live /\ ~run'.closed) \/ NoStart'
      BY <1>1, <2>4, <3>1 DEF NoStart, StartRejected
    <3> QED BY <1>6, <3>2, <3>3, <3>4
  <2> QED BY <2>1, <2>2, <2>3, <2>4 DEF InputsHold
<1>12. HandHolds'
  <2>1. \A k \in DOMAIN asked' : asked'[k].call = "steer" /\ asked'[k].live /\ ~run'.closed =>
          asked'[k].inputs = flush'.hand
    BY <1>1, <1>3, <1>4 DEF HandHolds
  <2>2. \A k \in DOMAIN wire' : OnWire(k, "steer")' /\ wire'[k].ok =>
          \A j \in DOMAIN flush'.hand : got'[flush'.hand[j]] > 0
    BY <1>2, <1>4 DEF HandHolds, OnWire
  <2>3. \A a \in answers' : a.call = "steer" /\ a.ok =>
          \A j \in DOMAIN flush'.hand : got'[flush'.hand[j]] > 0
    BY <1>3, <1>4 DEF HandHolds, OnWire
  <2> QED BY <2>1, <2>2, <2>3 DEF HandHolds
<1>13. SteersHold'
  <2> SUFFICES ASSUME ~Failing', NEW s \in Steers, told'[s] \notin {"no", "refused"}
               PROVE  got'[s] > 0 \/ Carried(s)'
    BY DEF SteersHold
  <2>1. told[s] \notin {"no", "refused"} /\ ~Failing /\ server'.up
    BY DEF Still, StillCalls, StillInputs, Failing
  <2>2. got[s] > 0 \/ Carried(s)
    BY <2>1 DEF SteersHold
  <2>3. \A k \in DOMAIN asked : /\ k \in DOMAIN asked' /\ asked'[k].call = asked[k].call
                               /\ asked'[k].inputs = asked[k].inputs
    BY <2>1 DEF Still, StillCalls, StillInputs
  <2> QED BY <1>4, <2>2, <2>3 DEF Carried, InList
<1> QED BY <1>11, <1>12, <1>13


\* An answer that is consumed, or nothing; unless it steers or refuses a turn
LEMMA StillGoes ==
    ASSUME NEW rest, Goes(rest), \A a \in answers : a \in rest \/ (a.call # "steer" /\ ~StartRejected(a))
    PROVE  StillCalls
<1>1. rest \subseteq answers /\ answers' = rest /\ UNCHANGED <<asked, wire, server>> /\ run'.closed = run.closed
  BY DEF Goes
<1>2. Failing => Failing'
  BY <1>1 DEF Failing
<1> QED BY <1>1, <1>2 DEF StillCalls

\* A call that brings no input
LEMMA StillAsks ==
    ASSUME Typed, NEW rest, NEW r, Asks(rest, r), r.call \notin {"start", "steer"},
           \A a \in answers : a \in rest \/ (a.call # "steer" /\ ~StartRejected(a))
    PROVE  StillCalls
<1>1. /\ rest \subseteq answers /\ UNCHANGED <<wire, server>> /\ run'.closed = run.closed /\ r \in Requests
      /\ asked \in Seq(Requests)
  BY DEF Asks, Typed
<1>2. CASE run.closed
  <2>1. answers' = rest \cup {Reply(r.call, -1, FALSE)} /\ UNCHANGED asked
    BY <1>2 DEF Asks, AskWith
  <2>2. Reply(r.call, -1, FALSE).call = r.call
    BY DEF Reply
  <2>3. Failing => Failing'
    BY <1>1, <2>1 DEF Failing
  <2> HIDE DEF Reply
  <2> QED BY <1>1, <2>1, <2>2, <2>3 DEF StillCalls
<1>3. CASE ~run.closed
  <2>1. asked' = Append(asked, r) /\ answers' = rest
    BY <1>3 DEF Asks, AskWith
  <2>2. /\ DOMAIN asked' = 1 .. Len(asked) + 1 /\ DOMAIN asked = 1 .. Len(asked) /\ Len(asked) \in Nat
        /\ \A k \in DOMAIN asked : asked'[k] = asked[k]
        /\ asked'[Len(asked) + 1] = r
    BY <1>1, <2>1, AppendIs
  <2>3. \A k \in DOMAIN asked : k \in DOMAIN asked' /\ asked'[k] = asked[k]
    BY <2>2
  <2>4. \A k \in DOMAIN asked' : (k \in DOMAIN asked /\ asked'[k] = asked[k]) \/ asked'[k] = r
    <3>1. \A n \in Nat : \A k \in 1 .. n + 1 : k \in 1 .. n \/ k = n + 1
      OBVIOUS
    <3> QED BY <2>2, <3>1
  <2>5. Failing => Failing'
    BY <1>1, <2>1 DEF Failing
  <2> QED BY <1>1, <2>1, <2>3, <2>4, <2>5 DEF StillCalls
<1> QED BY <1>2, <1>3

\* What the server does by itself, and what the pipes bring
LEMMA StillNotices ==
    ASSUME Typed, NEW e \in Event, Notices(e)
    PROVE  StillCalls
<1>1. /\ wire \in Seq(Lines) /\ e \in Lines /\ wire' = Append(wire, e) /\ server.up
      /\ UNCHANGED <<asked, answers, run>>
  BY DEF Notices, Lines, Typed, rpc, client
<1>2. e \notin Answer
  BY AnswerIsNoEvent
<1>3. /\ DOMAIN wire' = 1 .. Len(wire) + 1 /\ DOMAIN wire = 1 .. Len(wire) /\ Len(wire) \in Nat
      /\ \A k \in DOMAIN wire : wire'[k] = wire[k]
      /\ wire'[Len(wire) + 1] = e
  BY <1>1, AppendIs
<1>4. \A k \in DOMAIN wire' : wire'[k] \in Answer => k \in DOMAIN wire /\ wire[k] = wire'[k]
  <2>1. \A n \in Nat : \A k \in 1 .. n + 1 : k \in 1 .. n \/ k = n + 1
    OBVIOUS
  <2> QED BY <1>2, <1>3, <2>1
<1>5. \A k \in DOMAIN wire : k \in DOMAIN wire' /\ wire'[k] = wire[k]
  BY <1>3
<1>6. Failing => Failing'
  BY <1>1, <1>5 DEF Failing
<1> QED BY <1>1, <1>4, <1>6 DEF StillCalls

\* A line that is read is an event or the answer of its caller.
LEMMA StillRead ==
    ASSUME Typed, CallsHold, Read
    PROVE  StillCalls
<1> DEFINE l == Head(wire)
<1>1. /\ wire # <<>> /\ wire' = Tail(wire) /\ wire \in Seq(Lines) /\ UNCHANGED <<server, asked>> /\ ~run.closed
      /\ run'.closed = run.closed
  BY DEF Read, Typed, RunState
<1>2. /\ 1 \in DOMAIN wire /\ l = wire[1] /\ l \in Lines
      /\ \A k \in DOMAIN wire' : k + 1 \in DOMAIN wire /\ wire'[k] = wire[k + 1]
      /\ \A k \in DOMAIN wire : k = 1 \/ (k - 1 \in DOMAIN wire' /\ wire'[k - 1] = wire[k])
  <2>1. /\ DOMAIN Tail(wire) = 1 .. Len(wire) - 1 /\ DOMAIN wire = 1 .. Len(wire) /\ Len(wire) \in Nat
        /\ \A k \in DOMAIN Tail(wire) : k + 1 \in DOMAIN wire /\ Tail(wire)[k] = wire[k + 1]
        /\ Head(wire) = wire[1] /\ 1 \in DOMAIN wire /\ Head(wire) \in Lines
    BY <1>1, TailIs
  <2>2. ASSUME NEW k \in DOMAIN wire, k # 1 PROVE k - 1 \in DOMAIN wire' /\ wire'[k - 1] = wire[k]
    <3>1. k - 1 \in 1 .. Len(wire) - 1 /\ (k - 1) + 1 = k
      BY <2>1, <2>2
    <3> QED BY <1>1, <2>1, <3>1
  <2> QED BY <1>1, <2>1, <2>2
<1>3. answers \subseteq answers' /\ (\A a \in answers' : a \in answers \/ a = l) /\ (l \in Answer => l \in answers')
  <2>1. l \in Answer => l \notin Event /\ l.call \in awaited
    BY <1>2, AnswerIsNoEvent DEF CallsHold, WireHolds
  <2> HIDE DEF l
  <2>2. IF l \in Event THEN UNCHANGED answers
        ELSE answers' = IF l.call \in awaited THEN answers \cup {l} ELSE answers
    BY DEF Read, l
  <2> QED BY <2>1, <2>2
<1>4. Failing => Failing'
  <2>1. ASSUME NEW k \in DOMAIN wire, wire[k] \in Answer, StartRejected(wire[k]) PROVE Failing'
    <3>1. CASE k = 1
      BY <1>2, <1>3, <2>1, <3>1 DEF Failing
    <3>2. CASE k # 1
      BY <1>2, <2>1, <3>2 DEF Failing
    <3> QED BY <3>1, <3>2
  <2> QED BY <1>1, <1>3, <2>1 DEF Failing
<1> HIDE DEF l
<1> QED BY <1>1, <1>2, <1>3, <1>4 DEF StillCalls

\* A caller that gives up has an answer and no request that counts.
LEMMA StillTimeout ==
    ASSUME Typed, CallsHold, NEW call \in Calls, Timeout(call)
    PROVE  StillCalls
<1> DEFINE lost == Reply(call, -1, FALSE)
<1>1. /\ answers' = answers \cup {lost} /\ lost.call = call /\ ~lost.ok /\ Lost(lost)
      /\ UNCHANGED <<server, run>> /\ ~run.closed
      /\ DOMAIN asked' = DOMAIN asked
      /\ \A k \in DOMAIN asked : /\ asked'[k].call = asked[k].call /\ asked'[k].inputs = asked[k].inputs
                                 /\ asked'[k].live = (asked[k].live /\ asked[k].call # call)
  BY TimeoutIs DEF client
<1>2. PICK f : From(f, call)
  BY TimeoutIs DEF Without
<1>3. /\ \A k \in DOMAIN wire' : f[k] \in DOMAIN wire /\ wire[f[k]] = wire'[k]
      /\ \A k \in DOMAIN wire : OnWire(k, call) \/ \E j \in DOMAIN wire' : wire'[j] = wire[k]
  BY <1>2 DEF From
<1> HIDE DEF lost
<1>4. Failing => Failing'
  <2>1. ASSUME NEW k \in DOMAIN wire, wire[k] \in Answer, StartRejected(wire[k]) PROVE Failing'
    <3>1. CASE OnWire(k, call)
      BY <1>1, <2>1, <3>1 DEF OnWire, Failing, StartRejected
    <3>2. CASE ~OnWire(k, call)
      BY <1>3, <2>1, <3>2 DEF Failing
    <3> QED BY <3>1, <3>2
  <2> QED BY <1>1, <2>1 DEF Failing
<1>5. \A k \in DOMAIN asked : asked[k].live => asked'[k].live \/ lost.call = asked[k].call
  BY <1>1
<1> QED BY <1>1, <1>3, <1>4, <1>5 DEF StillCalls

\* A connection that closes answers every caller.
LEMMA StillClose ==
    ASSUME Typed, CallsHold, Close
    PROVE  StillCalls
<1>1. /\ answers' = answers \cup {Reply(call, -1, FALSE) : call \in awaited}
      /\ UNCHANGED <<server, asked, wire>> /\ ~server.up /\ wire = <<>> /\ run'.closed
  BY DEF Close, Typed, RunState
<1>2. \A c \in awaited : Reply(c, -1, FALSE).call = c /\ ~Reply(c, -1, FALSE).ok /\ Lost(Reply(c, -1, FALSE))
  BY DEF Reply, Lost
<1> HIDE DEF Reply
<1>3. \A k \in DOMAIN asked : asked[k].live /\ ~run.closed =>
         \E a \in answers' : a.call = asked[k].call /\ Lost(a) /\ ~a.ok
  BY <1>1, <1>2 DEF CallsHold, AskedHolds
<1>4. Failing'
  BY <1>1 DEF Failing
<1>5. \A a \in answers' : a \in answers \/ (Lost(a) /\ ~a.ok)
  BY <1>1, <1>2
<1> QED BY <1>1, <1>3, <1>4, <1>5 DEF StillCalls

\* Only serving a request moves an input through the pipe.
LEMMA StillPipe ==
    ASSUME Typed, CallsHold, PipeStep, ~Serve
    PROVE  Still
<1>1. StillInputs
  BY DEF PipeStep, StillInputs, Tell, EndTurn, Continue, Die, Read, Close, Timeout, client
<1>2. CASE Tell \/ EndTurn \/ Continue
  <2>1. PICK e \in Event : Notices(e)
    BY <1>2, NoticesAre
  <2>2. StillCalls
    BY <2>1, StillNotices
  <2> QED BY <1>1, <2>2 DEF Still
<1>3. CASE Die
  <2>1. asked' = <<>> /\ UNCHANGED <<wire, answers, run>> /\ ~server'.up
    BY <1>3 DEF Die, client, Typed, ServerState
  <2>2. StillCalls
    BY <2>1 DEF StillCalls, Failing
  <2> QED BY <1>1, <2>2 DEF Still
<1>4. CASE Read \/ Close \/ \E call \in Calls : Timeout(call)
  BY <1>1, <1>4, StillRead, StillClose, StillTimeout DEF Still
<1> QED BY <1>2, <1>3, <1>4 DEF PipeStep

\* The reply to turn/start is the only one: no other is asked for.
LEMMA StartAlone ==
    ASSUME CallsHold, InputsHold, NEW a \in answers, a.call = "start", a.ok
    PROVE  \A k \in DOMAIN asked : asked[k].call # "start"
<1>1. ~NoStart
  BY DEF NoStart, StartRejected, CallsHold, AnswersHold
<1>2. "start" \notin awaited
  BY DEF CallsHold, AnswersHold
<1> QED BY <1>1, <1>2 DEF CallsHold, AskedHolds, InputsHold

\* The steps of the start, of the goal, of the handlers, of the interruption
\* and of a refresh that leave the inputs where they are
StillStep ==
    \/ HandleBegin \/ HandleEnd \/ GoalTimerFires \/ Interrupt \/ InterruptAgain \/ Refresh \/ FlushNothing
    \/ \E a \in answers :
          \/ TurnStarted(a) \/ GoalSet(a) \/ GoalFails(a) \/ Refreshed(a) \/ InterruptAnswered(a)
          \/ (ThreadReady(a) /\ kind.goal /\ kind.resumed)

\* A call of these is of its own kind.
LEMMA AskTells ==
    ASSUME Typed, NEW rest, NEW c \in Calls \ {"start", "steer"}, NEW t,
           Asks(rest, Request(c, t, <<>>)),
           \A a \in answers : a \in rest \/ (a.call # "steer" /\ ~StartRejected(a))
    PROVE  StillCalls
<1>1. Request(c, t, <<>>).call \notin {"start", "steer"}
  BY DEF Request
<1> QED BY <1>1, StillAsks

\* No handler of events touches an input.
LEMMA StillHandlers ==
    ASSUME Typed, StagesHold, Going', HandleBegin \/ HandleEnd \/ GoalTimerFires
    PROVE  Still
<1>1. run \in RunState /\ flush \in FlushState
  BY DEF Typed
<1>2. StillInputs
  BY <1>1 DEF HandleBegin, HandleEnd, GoalTimerFires, Finish, Going, Scheduled, StillInputs, FlushState
<1>3. CASE UNCHANGED <<rpc, wire>> /\ run'.closed = run.closed
  <2>1. Goes(answers)
    BY <1>3 DEF HandleBegin, HandleEnd, GoalTimerFires, Goes, rpc
  <2> QED BY <1>2, <2>1, StillGoes DEF Still
<1>4. run'.closed = run.closed
  BY <1>1 DEF HandleBegin, HandleEnd, GoalTimerFires, Finish, Going, StartsTurn, GoalState, RunState
<1>5. CASE ~UNCHANGED <<rpc, wire>>
  <2>1. HandleEnd /\ run.goalLater /\ Ask(Request("goal", 0, <<>>)) /\ UNCHANGED wire
    BY <1>5 DEF HandleBegin, HandleEnd, GoalTimerFires, Finish, Going, rpc
  <2>2. ~Waits("goal")
    BY <2>1 DEF HandleEnd, Waits, StagesHold
  <2>3. Request("goal", 0, <<>>) \in Requests /\ "goal" \in Calls
    BY RecordTypes DEF Calls
  <2>4. Asks(answers, Request("goal", 0, <<>>))
    BY <1>4, <2>1, <2>2, <2>3, CallIsFree DEF HandleEnd, Ask, Asks, Request
  <2>5. StillCalls
    BY <2>3, <2>4, AskTells
  <2> QED BY <1>2, <2>5 DEF Still
<1> QED BY <1>3, <1>4, <1>5

\* The interrupt of the stop carries no input.
LEMMA StillInterrupts ==
    ASSUME Typed, StagesHold, Interrupt \/ InterruptAgain \/ \E a \in answers : InterruptAnswered(a)
    PROVE  Still
<1>1. StillInputs /\ UNCHANGED <<kind, server, wire, run, got>>
  BY DEF Interrupt, InterruptAgain, InterruptAnswered, StillInputs
<1>2. CASE UNCHANGED rpc
  <2>1. Goes(answers)
    BY <1>1, <1>2 DEF Goes, rpc
  <2> QED BY <1>1, <2>1, StillGoes DEF Still
<1>3. ASSUME NEW t \in Turns, Ask(Request("interrupt", t, <<>>)), stop.at # "asking" PROVE Still
  <2>1. Request("interrupt", t, <<>>) \in Requests /\ "interrupt" \in Calls
    BY RecordTypes DEF Calls
  <2>2. Asks(answers, Request("interrupt", t, <<>>))
    BY <1>1, <1>3, <2>1, CallIsFree DEF Waits, Ask, Asks, Request
  <2>3. StillCalls
    BY <2>1, <2>2, AskTells
  <2> QED BY <1>1, <2>3 DEF Still
<1>4. run.turn \in Turns /\ stop.turn \in Turns
  BY FieldTypes DEF Typed, StopState
<1>5. CASE Interrupt
  <2>1. stop.at # "asking"
    BY <1>5 DEF Interrupt, StagesHold
  <2> QED BY <1>2, <1>3, <1>4, <1>5, <2>1 DEF Interrupt
<1>6. CASE InterruptAgain
  BY <1>2, <1>3, <1>4, <1>6 DEF InterruptAgain
<1>7. ASSUME NEW a \in answers, InterruptAnswered(a) PROVE Still
  <2>1. Goes(answers \ {a})
    BY <1>7 DEF InterruptAnswered, Consume, Goes
  <2>2. a.call = "interrupt"
    BY <1>7 DEF InterruptAnswered, Resume
  <2>3. StillCalls
    BY <2>1, <2>2, StillGoes DEF StartRejected
  <2> QED BY <1>1, <2>3 DEF Still
<1> QED BY <1>5, <1>6, <1>7

\* Nor do the answers that open or refuse the goal, refresh the turn or confirm it.
LEMMA StillStarts ==
    ASSUME Typed, CallsHold, StagesHold, InputsHold, Going', NEW a \in answers,
           \/ TurnStarted(a) \/ GoalSet(a) \/ GoalFails(a) \/ Refreshed(a)
           \/ (ThreadReady(a) /\ kind.goal /\ kind.resumed)
    PROVE  Still
<1>1. run \in RunState /\ flush \in FlushState /\ Waits(a.call)
  BY CallerWaits DEF Typed
<1>2. a.call # "steer" /\ ~StartRejected(a)
  BY DEF TurnStarted, GoalSet, GoalFails, Refreshed, ThreadReady, Resume, StartRejected
<1>3. ASSUME Consume(a), UNCHANGED <<kind, server, wire, got>>, run'.closed = run.closed PROVE StillCalls
  <2>1. Goes(answers \ {a})
    BY <1>3 DEF Consume, Goes
  <2> QED BY <1>2, <2>1, StillGoes
<1>4. CASE TurnStarted(a)
  <2>1. StillCalls
    BY <1>1, <1>3, <1>4 DEF TurnStarted, RunState
  <2>2. \A k \in DOMAIN asked' : asked'[k].call # "start"
    BY <1>4, StartAlone DEF TurnStarted, Resume, Consume
  <2>3. StillInputs
    BY <1>1, <1>4, <2>2 DEF TurnStarted, Scheduled, StillInputs, FlushState
  <2> QED BY <2>1, <2>3 DEF Still
<1>5. CASE GoalSet(a)
  <2>1. StillCalls
    BY <1>1, <1>3, <1>5 DEF GoalSet, RunState
  <2>2. phase = "goal" => \A k \in DOMAIN asked' : asked'[k].call # "start"
    BY <1>5 DEF GoalSet, Consume, InputsHold
  <2>3. StillInputs
    BY <1>1, <1>5, <2>2 DEF GoalSet, StillInputs
  <2> QED BY <2>1, <2>3 DEF Still
<1>6. CASE GoalFails(a)
  <2>1. StillCalls
    BY <1>1, <1>3, <1>6 DEF GoalFails, Finish, Going, RunState
  <2>2. StillInputs
    BY <1>6 DEF GoalFails, Finish, Going, StillInputs
  <2> QED BY <2>1, <2>2 DEF Still
<1>7. CASE Refreshed(a)
  <2>1. StillCalls
    BY <1>1, <1>3, <1>7 DEF Refreshed, RunState
  <2>2. flush.at = "refreshing"
    BY <1>1, <1>7 DEF Refreshed, Resume, Waits
  <2>3. StillInputs
    BY <1>1, <1>7, <2>2 DEF Refreshed, StillInputs, FlushState
  <2> QED BY <2>1, <2>3 DEF Still
<1>8. CASE ThreadReady(a) /\ kind.goal /\ kind.resumed
  <2>1. /\ phase = "boot" /\ AskAfter(a, Request("goal", 0, <<>>)) /\ run'.closed = run.closed
        /\ UNCHANGED <<kind, server, wire, got>>
    BY <1>1, <1>8 DEF ThreadReady, Resume, Waits, GoalState, RunState
  <2>2. ~Waits("goal") /\ "goal" \in Calls /\ Request("goal", 0, <<>>) \in Requests
    BY <2>1, RecordTypes DEF Waits, StagesHold, Calls
  <2>3. Asks(answers \ {a}, Request("goal", 0, <<>>))
    BY <2>1, <2>2, CallIsFree DEF AskAfter, Asks, Request
  <2>4. StillCalls
    BY <1>2, <2>2, <2>3, AskTells
  <2>5. \A k \in DOMAIN asked' : asked'[k].call # "start"
    <3>1. \A k \in DOMAIN asked' : asked'[k].call \in {"start", "steer"} =>
              k \in DOMAIN asked /\ asked'[k].call = asked[k].call
      BY <2>4 DEF StillCalls
    <3> QED BY <2>1, <3>1 DEF InputsHold
  <2>6. StillInputs
    BY <1>8, <2>5 DEF ThreadReady, StillInputs
  <2> QED BY <2>4, <2>6 DEF Still
<1> QED BY <1>4, <1>5, <1>6, <1>7, <1>8

\* Nor a flush with nothing to send, or its refresh
LEMMA StillFlushes ==
    ASSUME Typed, StagesHold, JobsHold, InputsHold, FlushNothing \/ Refresh
    PROVE  Still
<1>1. flush \in FlushState /\ flush.hand \in Seq(Inputs)
  BY FieldTypes DEF Typed
<1>2. CASE FlushNothing
  <2>1. Goes(answers)
    BY <1>2 DEF FlushNothing, rpc, Goes
  <2>2. StillCalls
    BY <2>1, StillGoes
  <2>3. flush'.at = "idle" /\ flush.at = "idle" /\ flush'.hand = flush.hand
    BY <1>2 DEF FlushNothing, NextJob, NoJob, JobsHold
  <2>4. \A s \in Steers : \/ told'[s] = told[s]
                          \/ (told[s] \notin {"no", "refused"} /\ told'[s] \notin {"no", "refused"})
    <3>1. Head(flush.jobs) \in Steers => told[Head(flush.jobs)] = "waiting"
      BY <1>2, PromptJob DEF FlushNothing
    <3> QED BY <1>2, <3>1 DEF FlushNothing, Tells, Typed
  <2>5. phase' = phase \/ (phase' # "boot" /\ \A k \in DOMAIN asked' : asked'[k].call # "start")
    <3>1. Head(flush.jobs) = 0 => phase = "resteer"
      BY <1>2, PromptJob DEF FlushNothing
    <3> QED BY <1>2, <3>1 DEF FlushNothing, Ready, rpc, InputsHold
  <2>6. StillInputs
    BY <1>2, <2>3, <2>4, <2>5 DEF FlushNothing, StillInputs
  <2> QED BY <2>2, <2>6 DEF Still
<1>3. CASE Refresh
  <2>1. Request("refresh", 0, <<>>) \in Requests /\ "refresh" \in Calls
    BY RecordTypes DEF Calls
  <2>2. ~Waits("refresh")
    BY <1>3 DEF Refresh, Waits
  <2>3. Asks(answers, Request("refresh", 0, <<>>))
    BY <1>3, <2>1, <2>2, CallIsFree DEF Refresh, Ask, Asks, Request
  <2>4. StillCalls
    BY <2>1, <2>3, AskTells
  <2>5. StillInputs
    BY <1>1, <1>3 DEF Refresh, StillInputs, FlushState
  <2> QED BY <2>4, <2>5 DEF Still
<1> QED BY <1>2, <1>3

\* The steps of the client that touch no input
LEMMA StillSteps ==
    ASSUME Typed, CallsHold, StagesHold, JobsHold, InputsHold, Going', StillStep
    PROVE  Still
  BY StillHandlers, StillInterrupts, StillStarts, StillFlushes DEF StillStep

\* The server takes the inputs of a request, or refuses them.
LEMMA InputsServed ==
    ASSUME Typed, Typed', CallsHold, InputsHold, HandHolds, SteersHold, Serve
    PROVE  InputsHold' /\ HandHolds' /\ SteersHold'
<1> DEFINE r == Head(asked)
           now == server.open /\ server.turn = r.turn
           takes == Opens(r) \/ (r.call = "steer" /\ now)
<1>1. /\ asked \in Seq(Requests) /\ asked # <<>> /\ asked' = Tail(asked) /\ r \in Requests
      /\ UNCHANGED <<answers, awaited, run, pending, flush, told, tries, unsure, phase>>
      /\ server.up /\ server'.up /\ ~run.closed
  BY ServeIs DEF Typed, client, CallsHold
<1>2. 1 \in DOMAIN asked /\ asked[1] = r /\ r.inputs \in Seq(Inputs)
  BY <1>1, TailIs DEF Requests
<1>3. /\ \A k \in DOMAIN asked' : k + 1 \in DOMAIN asked /\ asked'[k] = asked[k + 1] /\ k + 1 # 1 /\ k \in Nat
      /\ \A k \in DOMAIN asked : k = 1 \/ (k - 1 \in DOMAIN asked' /\ asked'[k - 1] = asked[k])
  <2>1. /\ DOMAIN asked' = 1 .. Len(asked) - 1 /\ DOMAIN asked = 1 .. Len(asked) /\ Len(asked) \in Nat
        /\ \A k \in DOMAIN asked' : k + 1 \in DOMAIN asked /\ asked'[k] = asked[k + 1]
    BY <1>1, TailIs
  <2>2. ASSUME NEW k \in DOMAIN asked, k # 1 PROVE k - 1 \in DOMAIN asked' /\ asked'[k - 1] = asked[k]
    <3>1. k - 1 \in 1 .. Len(asked) - 1 /\ (k - 1) + 1 = k
      BY <2>1, <2>2
    <3> QED BY <2>1, <3>1
  <2>3. \A k \in DOMAIN asked' : k + 1 # 1 /\ k \in Nat
    BY <2>1
  <2> QED BY <2>1, <2>2, <2>3
<1>4. IF takes THEN Takes(r.inputs) ELSE UNCHANGED got
  BY DEF Serve, Opens
<1>5. /\ \A k \in DOMAIN wire' : wire'[k] \in Answer =>
            \/ k \in DOMAIN wire /\ wire'[k] = wire[k]
            \/ wire'[k] = ReplyTo(r) /\ r.live
      /\ \A k \in DOMAIN wire : k \in DOMAIN wire' /\ wire'[k] = wire[k]
      /\ r.live => \E k \in DOMAIN wire' : wire'[k] = ReplyTo(r)
  BY ServeWire, AnswerIsNoEvent
<1>6. /\ ReplyTo(r) \in Answer /\ ReplyTo(r).call = r.call
      /\ r.call = "steer" => ReplyTo(r).ok = now
      /\ r.call = "start" => ReplyTo(r).ok = Opens(r)
  <2>1. ReplyTo(r) \in Answer /\ ReplyTo(r).call = r.call
    BY ServeIs
  <2>2. r.call = "steer" => ReplyTo(r).ok = now
    BY DEF ReplyTo, Reply
  <2>3. r.call = "start" => ReplyTo(r).ok = Opens(r)
    BY DEF ReplyTo, Reply, Opens
  <2> QED BY <2>1, <2>2, <2>3
<1>7. takes => r.call \in {"start", "steer"}
  BY DEF Opens
<1>8. /\ r.call = "steer" /\ r.live => r.inputs = flush.hand /\ "steer" \in awaited
      /\ r.call = "start" => r.live \/ NoStart
      /\ ~r.live => NoAnswer \/ \A i : ~(Sends(r, i) /\ r.call = "steer" /\ i \in Inputs \ unsure)
  BY <1>1, <1>2 DEF HandHolds, CallsHold, AskedHolds, InputsHold, InputHolds
<1> HIDE DEF r, now, takes
<1>9. ASSUME NEW i \in Inputs, ~Sends(r, i) PROVE got'[i] = got[i]
  BY <1>1, <1>2, <1>4, <1>7, <1>9, TakesIs DEF Sends
<1>10. \A i \in Inputs : got[i] > 0 => got'[i] > 0
  BY <1>1, <1>2, <1>4, TakesIs
<1>11. \A i : \A k \in DOMAIN asked' : Sends(asked'[k], i) => k + 1 \in DOMAIN asked /\ Sends(asked[k + 1], i)
  BY <1>3
<1>12. ASSUME NEW i \in Inputs, Nowhere(i) PROVE Nowhere(i)'
  <2>1. got'[i] = 0
    BY <1>2, <1>9, <1>12 DEF Nowhere
  <2> QED BY <1>1, <1>11, <1>12, <2>1 DEF Nowhere
<1>13. ASSUME NEW i \in Inputs \ unsure PROVE InputHolds(i)'
  <2>1. InputHolds(i) /\ i \in Inputs
    BY <1>13 DEF InputsHold
  <2>2. got'[i] <= 1
    <3>1. CASE takes /\ Sends(r, i)
      <4>1. got[i] = 0 /\ Once(i, r.inputs) /\ InList(i, r.inputs)
        BY <1>2, <2>1, <3>1 DEF InputHolds, Sends
      <4>2. got'[i] = 1
        BY <1>2, <1>4, <3>1, <4>1, <2>1, TakesIs
      <4> QED BY <4>2
    <3>2. CASE ~takes
      BY <1>4, <2>1, <3>2 DEF InputHolds
    <3>3. CASE ~Sends(r, i)
      BY <1>9, <2>1, <3>3 DEF InputHolds
    <3> QED BY <3>1, <3>2, <3>3
  <2>3. InList(i, pending) => got'[i] = 0
    BY <1>2, <1>9, <2>1 DEF InputHolds
  <2>4. \A k \in DOMAIN asked' : Sends(asked'[k], i) =>
          got'[i] = 0 /\ ~InList(i, pending') /\ Once(i, asked'[k].inputs)
    <3> SUFFICES ASSUME NEW k \in DOMAIN asked', Sends(asked'[k], i)
                 PROVE  got'[i] = 0 /\ ~InList(i, pending') /\ Once(i, asked'[k].inputs)
      OBVIOUS
    <3>1. k + 1 \in DOMAIN asked /\ Sends(asked[k + 1], i) /\ k + 1 # 1 /\ asked'[k] = asked[k + 1]
      BY <1>3
    <3>2. ~Sends(r, i)
      BY <1>2, <2>1, <3>1 DEF InputHolds
    <3> QED BY <1>1, <1>9, <2>1, <3>1, <3>2 DEF InputHolds
  <2>5. \A k \in DOMAIN asked' : Sends(asked'[k], i) /\ asked'[k].call = "start" => ~InList(i, flush'.hand)
    BY <1>1, <1>3, <2>1 DEF InputHolds
  <2>6. \A k \in DOMAIN asked' : Sends(asked'[k], i) /\ asked'[k].call = "steer" =>
          flush'.at = "asking" /\ InList(i, flush'.hand) /\ ((asked'[k].live /\ ~run'.closed) \/ NoAnswer')
    BY <1>1, <1>3, <2>1 DEF InputHolds, NoAnswer
  <2>7. \A j, k \in DOMAIN asked' : Sends(asked'[j], i) /\ Sends(asked'[k], i) => j = k
    <3> SUFFICES ASSUME NEW j \in DOMAIN asked', NEW k \in DOMAIN asked',
                        Sends(asked'[j], i), Sends(asked'[k], i)
                 PROVE  j = k
      OBVIOUS
    <3>1. j + 1 = k + 1
      BY <1>3, <2>1 DEF InputHolds
    <3>2. j \in Nat /\ k \in Nat
      BY <1>3
    <3> QED BY <3>1, <3>2
  <2>8. ASSUME InList(i, flush.hand), got'[i] > 0 PROVE flush.at = "asking" /\ NoRefusal'
    <3>1. CASE Sends(r, i)
      <4>1. r.call = "steer" /\ flush.at = "asking" /\ (r.live \/ NoAnswer) /\ got[i] = 0
        BY <1>2, <2>1, <2>8, <3>1 DEF InputHolds, Sends
      <4>2. takes
        BY <1>4, <2>8, <4>1
      <4>3. now
        BY <4>1, <4>2 DEF takes, Opens
      <4>4. CASE r.live
        <5>1. \A a \in answers : a.call # "steer"
          BY <1>8, <4>1, <4>4 DEF CallsHold, AnswersHold
        <5>2. \A k \in DOMAIN wire : ~OnWire(k, "steer")
          BY <1>2, <4>1, <4>4 DEF CallsHold, WireHolds, OnWire
        <5>3. \A k \in DOMAIN wire' : OnWire(k, "steer")' => wire'[k].ok
          BY <1>5, <1>6, <4>1, <4>3, <5>2 DEF OnWire
        <5> QED BY <1>1, <4>1, <5>1, <5>3 DEF NoRefusal
      <4>5. CASE ~r.live
        <5>1. PICK a \in answers : a.call = "steer" /\ Lost(a)
          BY <4>1, <4>5 DEF NoAnswer
        <5>2. \A b \in answers : b.call = "steer" => Lost(b)
          BY <5>1 DEF CallsHold, AnswersHold
        <5>3. \A k \in DOMAIN wire : ~OnWire(k, "steer")
          BY <5>1, SteerAlone DEF NoneSteers
        <5>4. \A k \in DOMAIN wire' : ~OnWire(k, "steer")'
          BY <1>5, <4>5, <5>3 DEF OnWire
        <5> QED BY <1>1, <4>1, <5>2, <5>4 DEF NoRefusal
      <4> QED BY <4>4, <4>5
    <3>2. CASE ~Sends(r, i)
      <4>1. flush.at = "asking" /\ NoRefusal
        BY <1>9, <2>1, <2>8, <3>2 DEF InputHolds
      <4>2. ~(r.call = "steer" /\ r.live)
        BY <1>8, <2>8, <3>2 DEF Sends
      <4>3. \A k \in DOMAIN wire' : OnWire(k, "steer")' => wire'[k].ok
        BY <1>5, <1>6, <4>1, <4>2 DEF OnWire, NoRefusal
      <4> QED BY <1>1, <4>1, <4>3 DEF NoRefusal
    <3> QED BY <3>1, <3>2
  <2>9. /\ Once(i, pending) /\ Once(i, flush.hand) /\ ~(InList(i, pending) /\ InList(i, flush.hand))
    BY <2>1 DEF InputHolds
  <2> QED BY <1>1, <2>2, <2>3, <2>4, <2>5, <2>6, <2>7, <2>8, <2>9 DEF InputHolds
<1>14. InputsHold'
  <2>1. \A i \in Inputs \ unsure' : InputHolds(i)'
    BY <1>1, <1>13
  <2>2. \A s \in Steers : tries'[s] = 0 => Nowhere(s)' /\ told'[s] = "no"
    BY <1>1, <1>12 DEF InputsHold, Inputs
  <2>3. phase' = "boot" => Nowhere(0)'
    BY <1>1, <1>12, RecordTypes DEF InputsHold
  <2>4. \A k \in DOMAIN asked' : asked'[k].call = "start" =>
            phase' = "start" /\ ((asked'[k].live /\ ~run'.closed) \/ NoStart')
    BY <1>1, <1>3 DEF InputsHold, NoStart
  <2> QED BY <2>1, <2>2, <2>3, <2>4 DEF InputsHold
<1>15. HandHolds'
  <2>0. \A j \in DOMAIN flush.hand : flush.hand[j] \in Inputs
    BY FieldTypes, ElementIs
  <2>1. \A k \in DOMAIN asked' : asked'[k].call = "steer" /\ asked'[k].live /\ ~run'.closed =>
          asked'[k].inputs = flush'.hand
    BY <1>1, <1>3 DEF HandHolds
  <2>2. ASSUME NEW k \in DOMAIN wire', OnWire(k, "steer")', wire'[k].ok, NEW j \in DOMAIN flush.hand
        PROVE  got'[flush.hand[j]] > 0
    <3>1. CASE k \in DOMAIN wire /\ wire'[k] = wire[k]
      BY <1>10, <2>0, <2>2, <3>1 DEF HandHolds, OnWire
    <3>2. CASE wire'[k] = ReplyTo(r) /\ r.live
      <4>1. r.call = "steer" /\ now /\ r.inputs = flush.hand
        BY <1>6, <1>8, <2>2, <3>2 DEF OnWire
      <4>2. takes /\ Takes(r.inputs)
        BY <1>4, <4>1 DEF takes
      <4>3. InList(flush.hand[j], r.inputs)
        BY <4>1 DEF InList
      <4> QED BY <1>2, <2>0, <4>2, <4>3, TakesIs
    <3> QED BY <1>5, <2>2, <3>1, <3>2 DEF OnWire
  <2>3. \A a \in answers' : a.call = "steer" /\ a.ok =>
          \A j \in DOMAIN flush'.hand : got'[flush'.hand[j]] > 0
    BY <1>1, <1>10, <2>0 DEF HandHolds
  <2> QED BY <1>1, <2>1, <2>2, <2>3 DEF HandHolds
<1>16. SteersHold'
  <2> SUFFICES ASSUME ~Failing', NEW s \in Steers, told'[s] \notin {"no", "refused"}
               PROVE  got'[s] > 0 \/ Carried(s)'
    BY DEF SteersHold
  <2>1. ~Failing
    BY <1>1, <1>5 DEF Failing
  <2>2. got[s] > 0 \/ Carried(s)
    BY <1>1, <2>1 DEF SteersHold
  <2>3. CASE got[s] > 0
    BY <1>10, <2>3 DEF Inputs
  <2>4. CASE InList(s, pending) \/ InList(s, flush.hand)
    BY <1>1, <2>4 DEF Carried
  <2>5. ASSUME NEW k \in DOMAIN asked, asked[k].call = "start", InList(s, asked[k].inputs)
        PROVE  got'[s] > 0 \/ Carried(s)'
    <3>1. CASE k # 1
      BY <1>3, <2>5, <3>1 DEF Carried
    <3>2. CASE k = 1
      <4>1. r.call = "start" /\ InList(s, r.inputs) /\ s \in Inputs
        BY <1>2, <2>5, <3>2 DEF Inputs
      <4>2. r.live
        BY <1>8, <2>1, <4>1 DEF NoStart, Failing
      <4>3. Opens(r)
        BY <1>5, <1>6, <4>1, <4>2 DEF Failing, StartRejected
      <4>4. Takes(r.inputs)
        BY <1>4, <4>3 DEF takes
      <4> QED BY <1>2, <4>1, <4>4, TakesIs
    <3> QED BY <3>1, <3>2
  <2> QED BY <2>2, <2>3, <2>4, <2>5 DEF Carried
<1> QED BY <1>14, <1>15, <1>16

\* The first job ends without a call: what was in hand is done with, kept, or
\* in the list again.
LEMMA FlushStops ==
    ASSUME Typed, Typed', CallsHold, InputsHold, SteersHold, NoneSteers,
           UNCHANGED <<server, asked, wire, tries, got>>, run'.closed = run.closed,
           answers' \subseteq answers, \A b \in answers' : b.call # "steer",
           \A b \in answers : b \in answers' \/ b.call = "steer",
           unsure \subseteq unsure', flush'.at # "asking",
           \A i \in Inputs \ unsure' : \A k \in DOMAIN asked : Sends(asked[k], i) => asked[k].call = "start",
           \A i \in Inputs \ unsure' : InList(i, pending') \/ InList(i, flush'.hand) =>
              got[i] = 0 /\ \A k \in DOMAIN asked : ~Sends(asked[k], i),
           \A i \in Inputs \ unsure' : /\ Once(i, pending') /\ Once(i, flush'.hand)
                                       /\ ~(InList(i, pending') /\ InList(i, flush'.hand)),
           \A i : InList(i, pending') \/ InList(i, flush'.hand) => InList(i, pending) \/ InList(i, flush.hand),
           \A s \in Steers : InList(s, pending) \/ InList(s, flush.hand) =>
              InList(s, pending') \/ InList(s, flush'.hand) \/ got[s] > 0,
           \A s \in Steers : told'[s] = told[s] \/ told[s] \notin {"no", "refused"},
           phase' = phase \/ (phase' # "boot" /\ \A k \in DOMAIN asked : asked[k].call # "start")
    PROVE  InputsHold' /\ HandHolds' /\ SteersHold'
<1>1. ASSUME NEW i \in Inputs \ unsure' PROVE InputHolds(i)'
  <2>1. InputHolds(i)
    BY <1>1 DEF InputsHold
  <2> QED BY <1>1, <2>1 DEF InputHolds
<1>2. NoStart => NoStart'
  BY DEF NoStart, StartRejected
<1>3. InputsHold'
  <2>1. \A s \in Steers : tries'[s] = 0 => Nowhere(s)' /\ told'[s] = "no"
    BY DEF InputsHold, Nowhere
  <2>2. phase' = "boot" => Nowhere(0)'
    BY DEF InputsHold, Nowhere
  <2>3. \A k \in DOMAIN asked' : asked'[k].call = "start" =>
            phase' = "start" /\ ((asked'[k].live /\ ~run'.closed) \/ NoStart')
    BY <1>2 DEF InputsHold
  <2> QED BY <1>1, <2>1, <2>2, <2>3 DEF InputsHold
<1>4. HandHolds'
  BY DEF HandHolds, NoneSteers, OnWire
<1>5. Failing => Failing'
  BY DEF Failing, StartRejected
<1>6. SteersHold'
  BY <1>5 DEF SteersHold, Carried
<1> QED BY <1>3, <1>4, <1>6

\* The inputs of a list are sent: with turn/steer, for the answer of which the
\* flush keeps them in hand, or with turn/start.
LEMMA FlushSends ==
    ASSUME Typed, Typed', CallsHold, InputsHold, SteersHold, NoneSteers,
           NEW c \in {"start", "steer"}, NEW t, NEW l, NEW rest,
           AskWith(rest, Request(c, t, l)),
           UNCHANGED <<server, wire, told, tries, got, unsure>>, run'.closed = run.closed,
           rest \subseteq answers, \A b \in rest : b.call # "steer",
           \A b \in answers : b \in rest \/ b.call = "steer",
           pending' = pending \/ pending' = <<>>,
           IF c = "steer" THEN flush'.at = "asking" /\ flush'.hand = l /\ phase' = phase
           ELSE /\ flush'.at # "asking" /\ flush'.hand = <<>> /\ phase' = "start"
                /\ \A k \in DOMAIN asked : asked[k].call # "start",
           \A i \in Inputs \ unsure : \A k \in DOMAIN asked : Sends(asked[k], i) => asked[k].call = "start",
           \A i \in Inputs \ unsure : InList(i, l) =>
              /\ got[i] = 0 /\ Once(i, l) /\ ~InList(i, pending')
              /\ \A k \in DOMAIN asked : ~Sends(asked[k], i),
           \A i : InList(i, l) => InList(i, pending) \/ InList(i, flush.hand),
           \A i : InList(i, pending) \/ InList(i, flush.hand) => InList(i, pending') \/ InList(i, l)
    PROVE  InputsHold' /\ HandHolds' /\ SteersHold'
<1> DEFINE r == Request(c, t, l)
           lost == Reply(c, -1, FALSE)
<1>1. r.call = c /\ r.inputs = l /\ r.live /\ asked \in Seq(Requests) /\ asked' \in Seq(Requests)
  BY DEF Request, Typed
<1>2. lost.call = c /\ ~lost.ok /\ Lost(lost)
  BY DEF Reply, Lost
<1>3. ~InList(0, <<>>) /\ (\A i : ~InList(i, <<>>)) /\ \A i : Once(i, <<>>)
  BY DEF InList, Once
<1>4. run.closed => answers' = rest \cup {lost} /\ UNCHANGED asked
  BY <1>1 DEF AskWith
<1>5. ~run.closed => asked' = Append(asked, r) /\ answers' = rest
  BY DEF AskWith
<1> HIDE DEF r, lost
<1>6. ASSUME ~run.closed
      PROVE  /\ DOMAIN asked' = 1 .. Len(asked) + 1 /\ DOMAIN asked = 1 .. Len(asked) /\ Len(asked) \in Nat
             /\ \A k \in DOMAIN asked : asked'[k] = asked[k]
             /\ asked'[Len(asked) + 1] = r
  <2>1. asked' = Append(asked, r)
    BY <1>5, <1>6
  <2>2. DOMAIN asked' = 1 .. Len(asked) + 1 /\ DOMAIN asked = 1 .. Len(asked) /\ Len(asked) \in Nat
    BY <1>1, <2>1
  <2> QED BY <1>1, <2>1, <2>2
<1>7. \A k \in DOMAIN asked' : \/ k \in DOMAIN asked /\ asked'[k] = asked[k]
                               \/ k = Len(asked) + 1 /\ asked'[k] = r /\ ~run.closed
  <2>1. \A n \in Nat : \A k \in 1 .. n + 1 : k \in 1 .. n \/ k = n + 1
    OBVIOUS
  <2> QED BY <1>4, <1>6, <2>1
<1>8. \A k \in DOMAIN asked : k \in DOMAIN asked' /\ asked'[k] = asked[k]
  BY <1>4, <1>6
<1>9. ~run.closed => \E k \in DOMAIN asked' : asked'[k] = r
  BY <1>6
<1>10. \A i : Sends(r, i) => InList(i, l)
  BY <1>1 DEF Sends
<1>11. ASSUME NEW i \in Inputs \ unsure PROVE InputHolds(i)'
  <2>1. InputHolds(i)
    BY <1>11 DEF InputsHold
  <2>2. \A k \in DOMAIN asked' : Sends(asked'[k], i) =>
          got'[i] = 0 /\ ~InList(i, pending') /\ Once(i, asked'[k].inputs)
    BY <1>1, <1>3, <1>7, <1>10, <2>1 DEF InputHolds
  <2>3. \A k \in DOMAIN asked' : Sends(asked'[k], i) /\ asked'[k].call = "start" => ~InList(i, flush'.hand)
    BY <1>1, <1>3, <1>7, <2>1 DEF InputHolds
  <2>4. \A k \in DOMAIN asked' : Sends(asked'[k], i) /\ asked'[k].call = "steer" =>
          flush'.at = "asking" /\ InList(i, flush'.hand) /\ ((asked'[k].live /\ ~run'.closed) \/ NoAnswer')
    BY <1>1, <1>7, <1>10, <1>11
  <2>5. \A j, k \in DOMAIN asked' : Sends(asked'[j], i) /\ Sends(asked'[k], i) => j = k
    BY <1>7, <1>10, <2>1 DEF InputHolds
  <2>6. got'[i] <= 1 /\ Once(i, pending') /\ Once(i, flush'.hand)
        /\ ~(InList(i, pending') /\ InList(i, flush'.hand)) /\ (InList(i, pending') => got'[i] = 0)
        /\ (InList(i, flush'.hand) => ~(got'[i] > 0))
    <3>1. InList(i, flush'.hand) => InList(i, l) /\ flush'.hand = l
      BY <1>3
    <3>2. Once(i, flush'.hand)
      <4>1. CASE InList(i, flush'.hand)
        BY <1>11, <3>1, <4>1
      <4>2. CASE ~InList(i, flush'.hand)
        BY <4>2 DEF InList, Once
      <4> QED BY <4>1, <4>2
    <3>3. InList(i, flush'.hand) => got'[i] = 0
      BY <1>11, <3>1
    <3> QED BY <1>3, <1>11, <2>1, <3>1, <3>2, <3>3 DEF InputHolds
  <2> QED BY <2>2, <2>3, <2>4, <2>5, <2>6 DEF InputHolds
<1>12. answers' \subseteq answers \cup {lost} /\ rest \subseteq answers'
  BY <1>4, <1>5
<1>13. NoStart => NoStart'
  BY <1>12 DEF NoStart, StartRejected
<1>14. InputsHold'
  <2>1. ASSUME NEW i \in Inputs, Nowhere(i) PROVE Nowhere(i)'
    <3>1. ~InList(i, l) /\ ~InList(i, pending') /\ ~InList(i, flush'.hand)
      BY <1>3, <2>1 DEF Nowhere
    <3> QED BY <1>7, <1>10, <2>1, <3>1 DEF Nowhere
  <2>2. \A s \in Steers : tries'[s] = 0 => Nowhere(s)' /\ told'[s] = "no"
    BY <2>1 DEF InputsHold, Inputs
  <2>3. phase' = "boot" => Nowhere(0)'
    BY <2>1, RecordTypes DEF InputsHold
  <2>4. \A k \in DOMAIN asked' : asked'[k].call = "start" =>
            phase' = "start" /\ ((asked'[k].live /\ ~run'.closed) \/ NoStart')
    BY <1>1, <1>7, <1>13 DEF InputsHold
  <2> QED BY <1>11, <2>2, <2>3, <2>4 DEF InputsHold
<1>15. HandHolds'
  <2>1. \A k \in DOMAIN asked' : asked'[k].call = "steer" /\ asked'[k].live /\ ~run'.closed =>
          asked'[k].inputs = flush'.hand
    BY <1>1, <1>7 DEF NoneSteers
  <2>2. \A b \in answers' : b.call = "steer" => ~b.ok
    BY <1>2, <1>4, <1>5
  <2> QED BY <2>1, <2>2 DEF HandHolds, NoneSteers, OnWire
<1>16. SteersHold'
  <2>1. Failing => Failing'
    BY <1>12 DEF Failing, StartRejected
  <2>2. ASSUME NEW s \in Steers, Carried(s), ~Failing' PROVE Carried(s)'
    <3>1. CASE InList(s, l) /\ c = "start"
      <4>1. ~run.closed
        BY <1>2, <1>4, <2>2, <3>1 DEF Failing, StartRejected
      <4> QED BY <1>1, <1>9, <3>1, <4>1 DEF Carried
    <3>2. CASE ~(InList(s, l) /\ c = "start")
      BY <1>8, <2>2, <3>2 DEF Carried
    <3> QED BY <3>1, <3>2
  <2> QED BY <2>1, <2>2 DEF SteersHold
<1> QED BY <1>14, <1>15, <1>16

\* An input joins the list.
LEMMA ListGrows ==
    ASSUME Typed, Typed', CallsHold, InputsHold, HandHolds, SteersHold, NEW e \in Inputs,
           pending' = Append(pending, e),
           UNCHANGED <<server, asked, wire, got>>, run'.closed = run.closed,
           flush'.hand = flush.hand, flush'.at = flush.at,
           answers' \subseteq answers,
           \A b \in answers : b \in answers' \/ b.call \notin {"start", "steer"},
           unsure \subseteq unsure', e \in unsure' \/ Nowhere(e),
           e \in Steers => tries'[e] # 0,
           \A s \in Steers \ {e} : tries'[s] = tries[s] /\ told'[s] = told[s],
           phase' = phase \/ (phase' # "boot" /\ \A k \in DOMAIN asked : asked[k].call # "start"),
           e = 0 => phase' # "boot"
    PROVE  InputsHold' /\ HandHolds' /\ SteersHold'
<1>1. /\ \A i : InList(i, pending') = (InList(i, pending) \/ i = e)
      /\ \A i : Once(i, pending) /\ (i = e => ~InList(i, pending)) => Once(i, pending')
  <2>1. pending \in Seq(Inputs)
    BY DEF Typed
  <2> QED BY <2>1, ListAdd
<1>2. (NoStart => NoStart') /\ (NoAnswer => NoAnswer') /\ (NoRefusal => NoRefusal') /\ (Failing => Failing')
  BY DEF NoStart, NoAnswer, NoRefusal, Failing, StartRejected, OnWire
<1>3. ASSUME NEW i \in Inputs \ unsure' PROVE InputHolds(i)'
  <2>1. InputHolds(i) /\ (i = e => Nowhere(i))
    BY <1>3 DEF InputsHold
  <2>2. /\ Once(i, pending') /\ ~(InList(i, pending') /\ InList(i, flush'.hand)) /\ (InList(i, pending') => got'[i] = 0)
        /\ \A k \in DOMAIN asked' : Sends(asked'[k], i) => ~InList(i, pending')
    BY <1>1, <2>1 DEF InputHolds, Nowhere
  <2> QED BY <1>2, <2>1, <2>2 DEF InputHolds
<1>4. InputsHold'
  <2>1. \A i : i # e /\ Nowhere(i) => Nowhere(i)'
    BY <1>1 DEF Nowhere
  <2>2. \A s \in Steers : tries'[s] = 0 => Nowhere(s)' /\ told'[s] = "no"
    BY <2>1 DEF InputsHold
  <2>3. phase' = "boot" => Nowhere(0)'
    BY <2>1 DEF InputsHold
  <2>4. \A k \in DOMAIN asked' : asked'[k].call = "start" =>
            phase' = "start" /\ ((asked'[k].live /\ ~run'.closed) \/ NoStart')
    BY <1>2 DEF InputsHold
  <2> QED BY <1>3, <2>2, <2>3, <2>4 DEF InputsHold
<1>5. HandHolds'
  BY DEF HandHolds, OnWire
<1>6. SteersHold'
  BY <1>1, <1>2 DEF SteersHold, Carried
<1> QED BY <1>4, <1>5, <1>6

\* The prompt of a run whose thread has no turn starts one.
LEMMA PromptSent ==
    ASSUME Typed, Typed', CallsHold, StagesHold, InputsHold, HandHolds, SteersHold, Going',
           NEW a \in answers, ThreadReady(a), ~(kind.goal /\ kind.resumed), a.turn = 0
    PROVE  InputsHold' /\ HandHolds' /\ SteersHold'
<1> DEFINE r == Request("start", 0, <<0>>)
           lost == Reply("start", -1, FALSE)
<1>1. /\ r.call = "start" /\ r.inputs = <<0>> /\ r.live /\ lost.call = "start" /\ ~lost.ok
      /\ asked \in Seq(Requests) /\ asked' \in Seq(Requests) /\ run \in RunState
  BY DEF Request, Reply, Typed
<1>2. /\ AskAfter(a, r) /\ phase' = "start" /\ run'.closed = run.closed
      /\ UNCHANGED <<server, wire, pending, flush, told, tries, unsure, got>> /\ a.call = "thread"
  BY <1>1 DEF ThreadReady, Resume, RunState
<1>3. phase = "boot" /\ Nowhere(0) /\ (\A k \in DOMAIN asked : asked[k].call # "start")
  <2>1. Waits(a.call)
    BY CallerWaits
  <2>2. phase = "boot"
    BY <1>2, <2>1 DEF Waits
  <2> QED BY <2>2 DEF InputsHold
<1>4. run.closed => answers' = (answers \ {a}) \cup {lost} /\ UNCHANGED asked
  BY <1>1, <1>2 DEF AskAfter, AskWith
<1>5. ~run.closed => asked' = Append(asked, r) /\ answers' = answers \ {a}
  BY <1>2 DEF AskAfter, AskWith
<1>6. (\A i : InList(i, r.inputs) = (i = 0)) /\ Once(0, r.inputs)
  <2> DEFINE one == <<0>>
  <2>1. 1 \in DOMAIN one /\ one[1] = 0 /\ \A k \in DOMAIN one : k = 1
    OBVIOUS
  <2> HIDE DEF one
  <2>2. (\A i : InList(i, one) = (i = 0)) /\ Once(0, one)
    BY <2>1 DEF InList, Once
  <2> HIDE DEF r
  <2>3. r.inputs = one
    BY <1>1 DEF one
  <2> QED BY <2>2, <2>3
<1> HIDE DEF r, lost
<1>7. ASSUME ~run.closed
      PROVE  /\ DOMAIN asked' = 1 .. Len(asked) + 1 /\ DOMAIN asked = 1 .. Len(asked) /\ Len(asked) \in Nat
             /\ \A k \in DOMAIN asked : asked'[k] = asked[k]
             /\ asked'[Len(asked) + 1] = r
  <2>1. asked' = Append(asked, r)
    BY <1>5, <1>7
  <2>2. DOMAIN asked' = 1 .. Len(asked) + 1 /\ DOMAIN asked = 1 .. Len(asked) /\ Len(asked) \in Nat
    BY <1>1, <2>1
  <2> QED BY <1>1, <2>1, <2>2
<1>8. \A k \in DOMAIN asked' : \/ k \in DOMAIN asked /\ asked'[k] = asked[k]
                               \/ k = Len(asked) + 1 /\ asked'[k] = r /\ ~run.closed
  <2>1. \A n \in Nat : \A k \in 1 .. n + 1 : k \in 1 .. n \/ k = n + 1
    OBVIOUS
  <2> QED BY <1>4, <1>7, <2>1
<1>9. \A k \in DOMAIN asked : k \in DOMAIN asked' /\ asked'[k] = asked[k]
  BY <1>4, <1>7
<1>10. \A i : Sends(r, i) => i = 0
  BY <1>6 DEF Sends
<1>11. (NoAnswer => NoAnswer') /\ (NoRefusal => NoRefusal') /\ (Failing => Failing')
  <2>1. answers \ {a} \subseteq answers' /\ answers' \subseteq answers \cup {lost}
    BY <1>4, <1>5
  <2> QED BY <1>1, <1>2, <2>1 DEF NoAnswer, NoRefusal, Failing, StartRejected, OnWire
<1>12. ASSUME NEW i \in Inputs \ unsure PROVE InputHolds(i)'
  <2>1. InputHolds(i)
    BY <1>12 DEF InputsHold
  <2>2. \A k \in DOMAIN asked' : Sends(asked'[k], i) =>
          got'[i] = 0 /\ ~InList(i, pending') /\ Once(i, asked'[k].inputs)
    BY <1>2, <1>3, <1>6, <1>8, <1>10, <2>1 DEF InputHolds, Nowhere
  <2>3. \A k \in DOMAIN asked' : Sends(asked'[k], i) /\ asked'[k].call = "start" => ~InList(i, flush'.hand)
    BY <1>2, <1>3, <1>8, <1>10 DEF Nowhere
  <2>4. \A k \in DOMAIN asked' : Sends(asked'[k], i) /\ asked'[k].call = "steer" =>
          flush'.at = "asking" /\ InList(i, flush'.hand) /\ ((asked'[k].live /\ ~run'.closed) \/ NoAnswer')
    BY <1>1, <1>2, <1>8, <1>11, <2>1 DEF InputHolds
  <2>5. \A j, k \in DOMAIN asked' : Sends(asked'[j], i) /\ Sends(asked'[k], i) => j = k
    BY <1>3, <1>8, <1>10, <2>1 DEF InputHolds, Nowhere
  <2> QED BY <1>2, <1>11, <2>1, <2>2, <2>3, <2>4, <2>5 DEF InputHolds
<1>13. InputsHold'
  <2>1. \A i : i # 0 /\ Nowhere(i) => Nowhere(i)'
    BY <1>2, <1>8, <1>10 DEF Nowhere
  <2>2. \A s \in Steers : s # 0
    BY AppServerAssumption DEF AppServerAssumption
  <2>3. \A s \in Steers : tries'[s] = 0 => Nowhere(s)' /\ told'[s] = "no"
    BY <1>2, <2>1, <2>2 DEF InputsHold
  <2>4. \A k \in DOMAIN asked' : asked'[k].call = "start" =>
            phase' = "start" /\ ((asked'[k].live /\ ~run'.closed) \/ NoStart')
    BY <1>1, <1>2, <1>3, <1>8
  <2> QED BY <1>2, <1>12, <2>3, <2>4 DEF InputsHold
<1>14. HandHolds'
  <2>1. \A k \in DOMAIN asked' : asked'[k].call = "steer" /\ asked'[k].live /\ ~run'.closed =>
          asked'[k].inputs = flush'.hand
    BY <1>1, <1>2, <1>8 DEF HandHolds
  <2>2. \A b \in answers' : b.call = "steer" => b \in answers
    BY <1>1, <1>4, <1>5
  <2> QED BY <1>2, <2>1, <2>2 DEF HandHolds, OnWire
<1>15. SteersHold'
  BY <1>2, <1>9, <1>11 DEF SteersHold, Carried
<1> QED BY <1>13, <1>14, <1>15

\* The prompt of a resumed run steers the turn that is open.
LEMMA PromptSteers ==
    ASSUME Typed, Typed', CallsHold, StagesHold, InputsHold, HandHolds, SteersHold, Going',
           NEW a \in answers, ThreadReady(a), ~(kind.goal /\ kind.resumed), a.turn # 0
    PROVE  InputsHold' /\ HandHolds' /\ SteersHold'
<1>1. /\ phase' = "resteer" /\ pending' = Append(pending, 0) /\ run'.closed = run.closed
      /\ answers' = answers \ {a} /\ a.call = "thread" /\ flush'.hand = flush.hand /\ flush'.at = flush.at
      /\ UNCHANGED <<asked, server, wire, told, tries, unsure, got>>
  BY DEF ThreadReady, Resume, Consume, Typed, RunState, FlushState
<1>2. Waits(a.call)
  BY CallerWaits
<1>3. phase = "boot"
  BY <1>1, <1>2 DEF Waits
<1>4. Nowhere(0) /\ (\A k \in DOMAIN asked : asked[k].call # "start") /\ 0 \in Inputs /\ 0 \notin Steers
  BY <1>3, RecordTypes, AppServerAssumption DEF InputsHold, AppServerAssumption
<1> QED BY <1>1, <1>4, ListGrows

\* The pool steers the run.
LEMMA InputSteers ==
    ASSUME Typed, Typed', CallsHold, InputsHold, HandHolds, SteersHold, NEW s \in Steers, Steer(s)
    PROVE  InputsHold' /\ HandHolds' /\ SteersHold'
<1>1. /\ UNCHANGED <<server, asked, answers, wire, got, phase, run>> /\ unsure \subseteq unsure'
      /\ flush'.hand = flush.hand /\ flush'.at = flush.at
      /\ \A u \in Steers \ {s} : tries'[u] = tries[u] /\ told'[u] = told[u]
      /\ s \in Inputs /\ s # 0
  BY AppServerAssumption DEF Steer, rpc, Typed, FlushState, Inputs, AppServerAssumption
<1>2. tries'[s] # 0
  <2>1. tries[s] \in 0 .. Repeats + 1 /\ Repeats \in Nat
    BY AppServerAssumption DEF Typed, AppServerAssumption
  <2>2. tries'[s] = tries[s] + 1
    BY DEF Steer, Typed
  <2> QED BY <2>1, <2>2
<1>3. s \in unsure' \/ Nowhere(s)
  BY DEF Steer, InputsHold
<1>4. CASE ~Finalizing
  <2>1. pending' = Append(pending, s)
    BY <1>4 DEF Steer
  <2> QED BY <1>1, <1>2, <1>3, <2>1, ListGrows
<1>5. CASE Finalizing
  <2>1. UNCHANGED <<pending, flush>> /\ told' = [told EXCEPT ![s] = "refused"]
    BY <1>5 DEF Steer
  <2>2. told'[s] = "refused"
    BY <2>1 DEF Typed
  <2>3. \A i \in Inputs \ unsure' : InputHolds(i)'
    BY <1>1, <2>1 DEF InputsHold, InputHolds, NoAnswer, NoRefusal, OnWire
  <2>4. InputsHold'
    BY <1>1, <1>2, <2>1, <2>3 DEF InputsHold, Nowhere, NoStart
  <2>5. HandHolds' /\ SteersHold'
    BY <1>1, <2>1, <2>2 DEF HandHolds, OnWire, SteersHold, Failing, Carried
  <2> QED BY <2>4, <2>5
<1> QED BY <1>4, <1>5

\* A flush begins, or asks again with the turn it found.
LEMMA FlushAsks ==
    ASSUME Typed, Typed', CallsHold, StagesHold, JobsHold, InputsHold, SteersHold,
           FlushBegin \/ (FlushAgain /\ run.turn # 0)
    PROVE  InputsHold' /\ HandHolds' /\ SteersHold'
<1>1. flush.at # "asking" /\ flush \in FlushState
  BY DEF FlushBegin, FlushAgain, Typed
<1>2. NoneSteers /\ \A b \in answers : b.call # "steer"
  BY <1>1, SteerIdle
<1>3. \A i \in Inputs \ unsure : \A k \in DOMAIN asked : Sends(asked[k], i) => asked[k].call = "start"
  BY <1>1 DEF InputsHold, InputHolds, Sends
<1>4. \A i \in Inputs \ unsure : InList(i, flush.hand) =>
         got[i] = 0 /\ \A k \in DOMAIN asked : ~Sends(asked[k], i)
  <2> SUFFICES ASSUME NEW i \in Inputs \ unsure, InList(i, flush.hand)
               PROVE  got[i] = 0 /\ \A k \in DOMAIN asked : ~Sends(asked[k], i)
    OBVIOUS
  <2>1. InputHolds(i) /\ got[i] \in 0 .. 2
    BY DEF InputsHold, Typed
  <2> QED BY <1>1, <1>3, <2>1 DEF InputHolds
<1>5. /\ UNCHANGED <<server, wire, told, tries, got, unsure, run, phase>> /\ flush'.at = "asking"
  BY <1>1 DEF FlushBegin, FlushAgain, FlushState
<1>6. CASE FlushBegin
  <2>1. /\ Ask(Request("steer", run.turn, pending)) /\ pending' = <<>> /\ flush'.hand = pending
        /\ flush.hand = <<>>
    BY <1>1, <1>6 DEF FlushBegin, FlushState, JobsHold
  <2>2. (\A i : ~InList(i, <<>>))
    BY DEF InList
  <2>3. \A i \in Inputs \ unsure : InList(i, pending) =>
              /\ got[i] = 0 /\ Once(i, pending) /\ ~InList(i, pending')
              /\ \A k \in DOMAIN asked : ~Sends(asked[k], i)
    BY <2>1, <2>2 DEF InputsHold, InputHolds
  <2>4. AskWith(answers, Request("steer", run.turn, pending))
    BY <2>1 DEF Ask
  <2> HIDE DEF Request
  <2> QED BY <1>2, <1>3, <1>5, <2>1, <2>2, <2>3, <2>4, FlushSends
<1>7. CASE FlushAgain /\ run.turn # 0
  <2>1. /\ Ask(Request("steer", run.turn, flush.hand)) /\ pending' = pending /\ flush'.hand = flush.hand
    BY <1>1, <1>7 DEF FlushAgain, FlushState
  <2>3. \A i \in Inputs \ unsure : InList(i, flush.hand) =>
              /\ got[i] = 0 /\ Once(i, flush.hand) /\ ~InList(i, pending')
              /\ \A k \in DOMAIN asked : ~Sends(asked[k], i)
    BY <1>4, <2>1 DEF InputsHold, InputHolds
  <2>4. AskWith(answers, Request("steer", run.turn, flush.hand))
    BY <2>1 DEF Ask
  <2> QED BY <1>2, <1>3, <1>5, <2>1, <2>3, <2>4, FlushSends
<1> QED BY <1>6, <1>7

\* What a step of the flush does to the jobs does not matter to the inputs.
LEMMA JobEnds ==
    ASSUME Typed, JobsHold, InputsHold, flush.jobs # <<>>, NEW t \in Toldness, Tells(t)
    PROVE  /\ \A s \in Steers : told'[s] = told[s] \/ told[s] \notin {"no", "refused"}
           /\ Ready => \/ phase' = phase
                       \/ (phase' # "boot" /\ \A k \in DOMAIN asked : asked[k].call # "start")
<1>1. /\ Head(flush.jobs) = 0 => phase = "resteer"
      /\ Head(flush.jobs) \in Steers => told[Head(flush.jobs)] = "waiting"
  BY PromptJob
<1>2. \A s \in Steers : told'[s] = told[s] \/ told[s] \notin {"no", "refused"}
  BY <1>1 DEF Tells, Typed
<1>3. phase = "resteer" => \A k \in DOMAIN asked : asked[k].call # "start"
  BY DEF InputsHold
<1> QED BY <1>1, <1>2, <1>3 DEF Ready

\* turn/steer is answered: what is in hand was taken.
LEMMA InputsSteered ==
    ASSUME Typed, Typed', CallsHold, StagesHold, JobsHold, InputsHold, HandHolds, SteersHold,
           NEW a \in answers, Steered(a)
    PROVE  InputsHold' /\ HandHolds' /\ SteersHold'
<1>1. /\ a.call = "steer" /\ a.ok /\ flush' = NextJob /\ Tells("steered") /\ Ready
      /\ answers' = answers \ {a} /\ run'.closed = run.closed
      /\ UNCHANGED <<server, asked, wire, pending, tries, unsure, got>>
  BY DEF Steered, Resume, Consume, Typed, RunState
<1>2. ~Lost(a)
  BY <1>1 DEF Lost, CallsHold, AnswersHold
<1>3. NoneSteers /\ ~NoAnswer
  BY <1>1, <1>2, SteerAlone
<1>4. \A b \in answers' : b.call # "steer"
  BY <1>1 DEF CallsHold, AnswersHold
<1>5. \A b \in answers : b \in answers' \/ b.call = "steer"
  BY <1>1
<1>6. flush'.hand = <<>> /\ flush'.at = "idle" /\ (\A i : ~InList(i, <<>>)) /\ (\A i : Once(i, <<>>))
  BY <1>1 DEF NextJob, NoJob, InList, Once
<1>7. flush.jobs # <<>>
  <2>1. Waits(a.call)
    BY CallerWaits
  <2> QED BY <1>1, <2>1 DEF Waits, JobsHold
<1>8. /\ \A s \in Steers : told'[s] = told[s] \/ told[s] \notin {"no", "refused"}
      /\ phase' = phase \/ (phase' # "boot" /\ \A k \in DOMAIN asked : asked[k].call # "start")
  BY <1>1, <1>7, JobEnds DEF Toldness
<1>9. \A i \in Inputs \ unsure' : \A k \in DOMAIN asked : Sends(asked[k], i) => asked[k].call = "start"
  BY <1>1, <1>3 DEF InputsHold, InputHolds, NoneSteers, Sends
<1>10. \A i \in Inputs \ unsure' : InList(i, pending') =>
          got[i] = 0 /\ \A k \in DOMAIN asked : ~Sends(asked[k], i)
  BY <1>1 DEF InputsHold, InputHolds
<1>11. \A s \in Steers : InList(s, flush.hand) => got[s] > 0
  BY <1>1 DEF HandHolds, InList
<1>12. \A i \in Inputs \ unsure' : Once(i, pending')
  BY <1>1 DEF InputsHold, InputHolds
<1>13. flush'.at # "asking" /\ answers' \subseteq answers
  BY <1>1, <1>6
<1>14. \A i \in Inputs \ unsure' : InList(i, pending') \/ InList(i, flush'.hand) =>
          got[i] = 0 /\ \A k \in DOMAIN asked : ~Sends(asked[k], i)
  BY <1>6, <1>10
<1>15. \A i \in Inputs \ unsure' : /\ Once(i, pending') /\ Once(i, flush'.hand)
                                   /\ ~(InList(i, pending') /\ InList(i, flush'.hand))
  BY <1>6, <1>12
<1>16. \A i : InList(i, pending') \/ InList(i, flush'.hand) => InList(i, pending) \/ InList(i, flush.hand)
  BY <1>1, <1>6
<1>17. \A s \in Steers : InList(s, pending) \/ InList(s, flush.hand) =>
          InList(s, pending') \/ InList(s, flush'.hand) \/ got[s] > 0
  BY <1>1, <1>11
<1>18. UNCHANGED <<server, asked, wire, tries, got>> /\ run'.closed = run.closed /\ unsure \subseteq unsure'
  BY <1>1
<1> QED BY <1>3, <1>4, <1>5, <1>8, <1>9, <1>13, <1>14, <1>15, <1>16, <1>17, <1>18, FlushStops

\* What is in hand when the flush finds that there is no such turn
LEMMA HandFree ==
    ASSUME Typed, CallsHold, StagesHold, InputsHold,
           NEW rest \in SUBSET answers,
           \/ (rest = answers /\ flush.at # "asking")
           \/ \E a \in answers : a.call = "steer" /\ ~a.ok /\ ~Lost(a) /\ rest = answers \ {a}
    PROVE  /\ NoneSteers /\ (\A b \in rest : b.call # "steer") /\ (\A b \in answers : b \in rest \/ b.call = "steer")
           /\ \A i \in Inputs \ unsure : \A k \in DOMAIN asked : Sends(asked[k], i) => asked[k].call = "start"
           /\ \A i \in Inputs \ unsure : InList(i, flush.hand) =>
                 got[i] = 0 /\ \A k \in DOMAIN asked : ~Sends(asked[k], i)
<1>1. CASE rest = answers /\ flush.at # "asking"
  <2>1. NoneSteers /\ \A b \in answers : b.call # "steer"
    BY <1>1, SteerIdle
  <2>2. \A i \in Inputs \ unsure : \A k \in DOMAIN asked : Sends(asked[k], i) => asked[k].call = "start"
    BY <1>1 DEF InputsHold, InputHolds, Sends
  <2>3. \A i \in Inputs \ unsure : InList(i, flush.hand) =>
           got[i] = 0 /\ \A k \in DOMAIN asked : ~Sends(asked[k], i)
    <3> SUFFICES ASSUME NEW i \in Inputs \ unsure, InList(i, flush.hand)
                 PROVE  got[i] = 0 /\ \A k \in DOMAIN asked : ~Sends(asked[k], i)
      OBVIOUS
    <3>1. InputHolds(i) /\ got[i] \in 0 .. 2
      BY DEF InputsHold, Typed
    <3> QED BY <1>1, <2>2, <3>1 DEF InputHolds
  <2> QED BY <1>1, <2>1, <2>2, <2>3
<1>2. ASSUME NEW a \in answers, a.call = "steer", ~a.ok, ~Lost(a), rest = answers \ {a}
      PROVE  /\ NoneSteers /\ (\A b \in rest : b.call # "steer") /\ (\A b \in answers : b \in rest \/ b.call = "steer")
             /\ \A i \in Inputs \ unsure : \A k \in DOMAIN asked : Sends(asked[k], i) => asked[k].call = "start"
             /\ \A i \in Inputs \ unsure : InList(i, flush.hand) =>
                   got[i] = 0 /\ \A k \in DOMAIN asked : ~Sends(asked[k], i)
  <2>1. NoneSteers /\ ~NoAnswer /\ ~NoRefusal
    BY <1>2, SteerAlone
  <2>2. \A b \in rest : b.call # "steer"
    BY <1>2 DEF CallsHold, AnswersHold
  <2>3. \A i \in Inputs \ unsure : \A k \in DOMAIN asked : Sends(asked[k], i) => asked[k].call = "start"
    BY <2>1 DEF InputsHold, InputHolds, Sends, NoneSteers
  <2>4. \A i \in Inputs \ unsure : InList(i, flush.hand) =>
           got[i] = 0 /\ \A k \in DOMAIN asked : ~Sends(asked[k], i)
    <3> SUFFICES ASSUME NEW i \in Inputs \ unsure, InList(i, flush.hand)
                 PROVE  got[i] = 0 /\ \A k \in DOMAIN asked : ~Sends(asked[k], i)
      OBVIOUS
    <3>1. InputHolds(i) /\ got[i] \in 0 .. 2
      BY DEF InputsHold, Typed
    <3> QED BY <2>1, <2>3, <3>1 DEF InputHolds
  <2> QED BY <1>2, <2>1, <2>2, <2>3, <2>4
<1> QED BY <1>1, <1>2

\* The inputs wait for the next turn, or start it with the prompt.
LEMMA InputsGivenUp ==
    ASSUME Typed, Typed', CallsHold, StagesHold, JobsHold, InputsHold, SteersHold,
           NEW rest \in SUBSET answers, flush.jobs # <<>>, GivesUp(rest),
           UNCHANGED <<server, wire, tries, unsure, got>>,
           \/ (rest = answers /\ flush.at # "asking")
           \/ \E a \in answers : a.call = "steer" /\ ~a.ok /\ ~Lost(a) /\ rest = answers \ {a}
    PROVE  InputsHold' /\ HandHolds' /\ SteersHold'
<1> DEFINE l == flush.hand \o pending
<1>1. /\ NoneSteers /\ (\A b \in rest : b.call # "steer") /\ (\A b \in answers : b \in rest \/ b.call = "steer")
      /\ \A i \in Inputs \ unsure : \A k \in DOMAIN asked : Sends(asked[k], i) => asked[k].call = "start"
      /\ \A i \in Inputs \ unsure : InList(i, flush.hand) =>
            got[i] = 0 /\ \A k \in DOMAIN asked : ~Sends(asked[k], i)
  BY HandFree
<1>2. flush'.hand = <<>> /\ flush'.at # "asking" /\ run'.closed = run.closed
  BY DEF GivesUp, NextJob, NoJob, Typed, RunState
<1>3. (\A i : ~InList(i, <<>>)) /\ (\A i : Once(i, <<>>))
  BY DEF InList, Once
<1>4. /\ \A i : InList(i, l) = (InList(i, flush.hand) \/ InList(i, pending))
      /\ \A i : Once(i, flush.hand) /\ Once(i, pending) /\ ~(InList(i, flush.hand) /\ InList(i, pending)) => Once(i, l)
  <2>1. flush.hand \in Seq(Inputs) /\ pending \in Seq(Inputs)
    BY FieldTypes DEF Typed
  <2> QED BY <2>1, ListJoin
<1>5. CASE Head(flush.jobs) = 0
  <2>1. AskWith(rest, Request("start", 0, l)) /\ phase' = "start" /\ pending' = <<>> /\ UNCHANGED told
    BY <1>5 DEF GivesUp
  <2>2. \A k \in DOMAIN asked : asked[k].call # "start"
    BY <1>5, PromptJob DEF InputsHold
  <2> HIDE DEF l, Request
  <2>3. \A i \in Inputs \ unsure : InList(i, l) =>
           /\ got[i] = 0 /\ Once(i, l) /\ ~InList(i, pending')
           /\ \A k \in DOMAIN asked : ~Sends(asked[k], i)
    BY <1>1, <1>3, <1>4, <2>1 DEF InputsHold, InputHolds
  <2>4. \A i : InList(i, l) => InList(i, pending) \/ InList(i, flush.hand)
    BY <1>4
  <2>5. \A i : InList(i, pending) \/ InList(i, flush.hand) => InList(i, pending') \/ InList(i, l)
    BY <1>4
  <2> QED BY <1>1, <1>2, <2>1, <2>2, <2>3, <2>4, <2>5, FlushSends
<1>6. CASE Head(flush.jobs) # 0
  <2>1. pending' = l /\ Tells("failed") /\ answers' = rest /\ UNCHANGED <<asked, phase>>
    BY <1>6 DEF GivesUp
  <2>2. \A s \in Steers : told'[s] = told[s] \/ told[s] \notin {"no", "refused"}
    BY <2>1, JobEnds DEF Toldness
  <2> HIDE DEF l
  <2>3. \A i \in Inputs \ unsure' : InList(i, pending') \/ InList(i, flush'.hand) =>
          got[i] = 0 /\ \A k \in DOMAIN asked : ~Sends(asked[k], i)
    BY <1>1, <1>2, <1>3, <1>4, <2>1 DEF InputsHold, InputHolds
  <2>4. \A i \in Inputs \ unsure' : /\ Once(i, pending') /\ Once(i, flush'.hand)
                                    /\ ~(InList(i, pending') /\ InList(i, flush'.hand))
    BY <1>2, <1>3, <1>4, <2>1 DEF InputsHold, InputHolds
  <2>5. \A i : InList(i, pending') \/ InList(i, flush'.hand) => InList(i, pending) \/ InList(i, flush.hand)
    BY <1>2, <1>3, <1>4, <2>1
  <2>6. \A s \in Steers : InList(s, pending) \/ InList(s, flush.hand) =>
          InList(s, pending') \/ InList(s, flush'.hand) \/ got[s] > 0
    BY <1>4, <2>1
  <2> QED BY <1>1, <1>2, <2>1, <2>2, <2>3, <2>4, <2>5, <2>6, FlushStops
<1> QED BY <1>5, <1>6

\* The turn is over: the flush waits before it looks for the next one.
LEMMA InputsWait ==
    ASSUME Typed, Typed', CallsHold, StagesHold, JobsHold, InputsHold, SteersHold,
           NEW a \in answers, SteerStale(a), flush.try # Retries
    PROVE  InputsHold' /\ HandHolds' /\ SteersHold'
<1>1. /\ a.call = "steer" /\ ~a.ok /\ ~Lost(a) /\ flush'.hand = flush.hand /\ flush'.at # "asking"
      /\ answers' = answers \ {a} /\ run'.closed = run.closed
      /\ UNCHANGED <<server, asked, wire, pending, tries, unsure, got, told, phase>>
  BY DEF SteerStale, Resume, Consume, Typed, RunState, FlushState
<1>2. answers \ {a} \in SUBSET answers
  OBVIOUS
<1>3. /\ NoneSteers /\ (\A b \in answers' : b.call # "steer") /\ (\A b \in answers : b \in answers' \/ b.call = "steer")
      /\ \A i \in Inputs \ unsure : \A k \in DOMAIN asked : Sends(asked[k], i) => asked[k].call = "start"
      /\ \A i \in Inputs \ unsure : InList(i, flush.hand) =>
            got[i] = 0 /\ \A k \in DOMAIN asked : ~Sends(asked[k], i)
  <2> DEFINE rest == answers \ {a}
  <2>1. rest \in SUBSET answers /\ answers' = rest
        /\ \E b \in answers : b.call = "steer" /\ ~b.ok /\ ~Lost(b) /\ rest = answers \ {b}
    BY <1>1
  <2> HIDE DEF rest
  <2> QED BY <2>1, HandFree
<1>4. \A i \in Inputs \ unsure' : InList(i, pending') \/ InList(i, flush'.hand) =>
          got[i] = 0 /\ \A k \in DOMAIN asked : ~Sends(asked[k], i)
  BY <1>1, <1>3 DEF InputsHold, InputHolds
<1>5. \A i \in Inputs \ unsure' : /\ Once(i, pending') /\ Once(i, flush'.hand)
                                  /\ ~(InList(i, pending') /\ InList(i, flush'.hand))
  BY <1>1 DEF InputsHold, InputHolds
<1> QED BY <1>1, <1>2, <1>3, <1>4, <1>5, FlushStops

\* No answer: what is in hand is in the list again, and unsure.
LEMMA InputsLost ==
    ASSUME Typed, Typed', CallsHold, StagesHold, JobsHold, InputsHold, SteersHold, Going',
           NEW a \in answers, SteerLost(a)
    PROVE  InputsHold' /\ HandHolds' /\ SteersHold'
<1>1. /\ a.call = "steer" /\ flush' = NextJob /\ pending' = flush.hand \o pending /\ Tells("failed")
      /\ answers' = answers \ {a} /\ unsure' = unsure \cup {flush.hand[k] : k \in DOMAIN flush.hand}
      /\ UNCHANGED <<server, asked, wire, tries, got, run, phase>>
  BY DEF SteerLost, Resume, Finish, Going, Consume
<1>2. NoneSteers
  BY <1>1, SteerAlone
<1>3. flush'.hand = <<>> /\ flush'.at # "asking"
  BY <1>1 DEF NextJob, NoJob
<1>4. (\A i : ~InList(i, <<>>)) /\ (\A i : Once(i, <<>>))
  BY DEF InList, Once
<1>5. /\ \A i : InList(i, pending') = (InList(i, flush.hand) \/ InList(i, pending))
      /\ \A i : Once(i, flush.hand) /\ Once(i, pending) /\ ~(InList(i, flush.hand) /\ InList(i, pending)) => Once(i, pending')
  <2>1. flush.hand \in Seq(Inputs) /\ pending \in Seq(Inputs)
    BY FieldTypes DEF Typed
  <2> QED BY <1>1, <2>1, ListJoin
<1>6. \A i \in Inputs \ unsure' : ~InList(i, flush.hand) /\ InputHolds(i)
  BY <1>1 DEF InputsHold, InList
<1>7. flush.jobs # <<>>
  <2>1. Waits(a.call)
    BY CallerWaits
  <2> QED BY <1>1, <2>1 DEF Waits, JobsHold
<1>8. \A s \in Steers : told'[s] = told[s] \/ told[s] \notin {"no", "refused"}
  BY <1>1, <1>7, JobEnds DEF Toldness
<1>9. \A i \in Inputs \ unsure' : \A k \in DOMAIN asked : Sends(asked[k], i) => asked[k].call = "start"
  BY <1>6 DEF InputHolds, Sends
<1>10. \A i \in Inputs \ unsure' : InList(i, pending') \/ InList(i, flush'.hand) =>
          got[i] = 0 /\ \A k \in DOMAIN asked : ~Sends(asked[k], i)
  BY <1>3, <1>4, <1>5, <1>6 DEF InputHolds
<1>11. \A i \in Inputs \ unsure' : /\ Once(i, pending') /\ Once(i, flush'.hand)
                                   /\ ~(InList(i, pending') /\ InList(i, flush'.hand))
  BY <1>3, <1>4, <1>5, <1>6 DEF InputHolds
<1>12. /\ answers' \subseteq answers /\ (\A b \in answers' : b.call # "steer")
       /\ \A b \in answers : b \in answers' \/ b.call = "steer"
  BY <1>1 DEF CallsHold, AnswersHold
<1>13. \A i : InList(i, pending') \/ InList(i, flush'.hand) => InList(i, pending) \/ InList(i, flush.hand)
  BY <1>3, <1>4, <1>5
<1>14. \A s \in Steers : InList(s, pending) \/ InList(s, flush.hand) =>
          InList(s, pending') \/ InList(s, flush'.hand) \/ got[s] > 0
  BY <1>5
<1>15. UNCHANGED <<server, asked, wire, tries, got>> /\ run'.closed = run.closed /\ unsure \subseteq unsure'
       /\ phase' = phase
  BY <1>1
<1> QED BY <1>2, <1>3, <1>8, <1>9, <1>10, <1>11, <1>12, <1>13, <1>14, <1>15, FlushStops

-----------------------------------------------------------------------------
(* What is proved of the inputs *)

Invariants == CallsHold /\ StagesHold /\ JobsHold /\ InputsHold /\ HandHolds /\ SteersHold
SteerInv == Typed /\ TakenOnce /\ (Going => Invariants)

\* The inputs are kept by every step of an attempt that goes on.
LEMMA InputsKept ==
    ASSUME Typed, Typed', Invariants, Going, Going', Next
    PROVE  InputsHold' /\ HandHolds' /\ SteersHold'
<1>0. CallsHold /\ StagesHold /\ JobsHold /\ InputsHold /\ HandHolds /\ SteersHold
  BY DEF Invariants
<1>1. CASE Serve
  BY <1>0, <1>1, InputsServed
<1>2. CASE PipeStep /\ ~Serve
  BY <1>0, <1>2, StillPipe, StillKeeps
<1>3. CASE StillStep
  BY <1>0, <1>3, StillSteps, StillKeeps
<1>4. ASSUME NEW a \in answers, ThreadReady(a), ~(kind.goal /\ kind.resumed)
      PROVE  InputsHold' /\ HandHolds' /\ SteersHold'
  BY <1>0, <1>4, PromptSent, PromptSteers
<1>5. CASE \E s \in Steers : Steer(s)
  BY <1>0, <1>5, InputSteers
<1>6. CASE FlushBegin
  BY <1>0, <1>6, FlushAsks
<1>7. CASE FlushAgain
  <2>1. CASE run.turn # 0
    BY <1>0, <1>7, <2>1, FlushAsks
  <2>2. CASE run.turn = 0 /\ flush.try = Retries
    <3>1. GivesUp(answers) /\ flush.jobs # <<>> /\ flush.at # "asking" /\ answers \in SUBSET answers
          /\ UNCHANGED <<server, wire, tries, unsure, got>>
      BY <1>0, <1>7, <2>2 DEF FlushAgain, JobsHold
    <3> QED BY <1>0, <3>1, InputsGivenUp
  <2>3. CASE run.turn = 0 /\ flush.try # Retries
    <3>1. Goes(answers)
      BY <1>7, <2>3 DEF FlushAgain, rpc, Goes
    <3>2. StillCalls
      BY <3>1, StillGoes
    <3>3. StillInputs
      BY <1>7, <2>3 DEF FlushAgain, StillInputs, Typed, FlushState
    <3> QED BY <1>0, <3>2, <3>3, StillKeeps DEF Still
  <2> QED BY <2>1, <2>2, <2>3
<1>8. ASSUME NEW a \in answers, SteerStale(a) PROVE InputsHold' /\ HandHolds' /\ SteersHold'
  <2>1. CASE flush.try # Retries
    BY <1>0, <1>8, <2>1, InputsWait
  <2>2. CASE flush.try = Retries
    <3> DEFINE rest == answers \ {a}
    <3>1. a.call = "steer" /\ ~a.ok /\ ~Lost(a) /\ GivesUp(rest)
          /\ UNCHANGED <<server, wire, tries, unsure, got>>
      BY <1>8, <2>2 DEF SteerStale, Resume
    <3>2. Waits(a.call)
      BY <1>0, CallerWaits
    <3>3. flush.jobs # <<>>
      BY <1>0, <3>1, <3>2 DEF Waits, JobsHold
    <3>4. rest \in SUBSET answers /\ \E b \in answers : b.call = "steer" /\ ~b.ok /\ ~Lost(b) /\ rest = answers \ {b}
      BY <3>1
    <3> HIDE DEF rest
    <3> QED BY <1>0, <3>1, <3>3, <3>4, InputsGivenUp
  <2> QED BY <2>1, <2>2
<1>9. CASE \E a \in answers : Steered(a)
  BY <1>0, <1>9, InputsSteered
<1>10. CASE \E a \in answers : SteerLost(a)
  BY <1>0, <1>10, InputsLost
<1>11. ~(LossEnds \/ TimerFires \/ \E a \in answers : StartFails(a))
  BY DEF LossEnds, TimerFires, StartFails, Finish, Going
<1> QED BY <1>1, <1>2, <1>3, <1>4, <1>5, <1>6, <1>7, <1>8, <1>9, <1>10, <1>11
        DEF Next, LoopStep, Done, PipeStep, StillStep

\* The end of the attempt takes no input.
LEMMA EndTakesNothing ==
    ASSUME Going, ~Going', Next
    PROVE  got' = got /\ unsure \subseteq unsure'
  BY DEF Next, LoopStep, Done, Serve, Tell, EndTurn, Continue, Die, Read, Close, LossEnds,
     HandleBegin, HandleEnd, FlushNothing, FlushBegin, Refresh, FlushAgain, InterruptAgain, ThreadReady,
     TurnStarted, GoalSet, StartFails, GoalFails, Steered, SteerStale, Refreshed, SteerLost,
     InterruptAnswered, TimerFires, GoalTimerFires, Interrupt, Timeout, Steer, Going

\* The attempt begins with its thread asked for and nothing sent.
LEMMA SteerInit == Init => SteerInv
<1> SUFFICES ASSUME Init PROVE SteerInv
  OBVIOUS
<1> DEFINE r == Request("thread", 0, <<>>)
<1>1. r \in Requests /\ r.call = "thread" /\ r.live
  BY RecordTypes DEF Calls, Request
<1> HIDE DEF r
<1>2. asked = <<r>> /\ awaited = {"thread"} /\ wire = <<>> /\ answers = {} /\ phase = "boot"
      /\ chain = <<>> /\ pending = <<>> /\ flush = NoJob /\ stop = NoStop /\ unsure = {} /\ result = "none"
  BY DEF Init, r
<1>3. asked \in Seq(Requests) /\ DOMAIN asked = {1} /\ asked[1] = r
  BY <1>1, <1>2
<1>4. Typed
  <2>1. kind \in KindState
    BY DEF Init, KindState
  <2>2. server \in ServerState
    <3>1. 1 \in Turns /\ 0 \in Turns
      BY AppServerAssumption DEF AppServerAssumption, Turns
    <3>2. (IF kind.open THEN 1 ELSE 0) \in Turns /\ kind.open \in BOOLEAN
      BY <2>1, <3>1 DEF KindState
    <3> QED BY <3>2 DEF Init, ServerState
  <2>3. run \in RunState
    BY RecordTypes DEF Init, RunState
  <2>4. told \in [Steers -> Toldness] /\ tries \in [Steers -> 0 .. Repeats + 1] /\ got \in [Inputs -> 0 .. 2]
    <3>1. 0 \in 0 .. Repeats + 1
      BY AppServerAssumption DEF AppServerAssumption
    <3> QED BY <3>1 DEF Init, Toldness
  <2>5. wire \in Seq(Lines) /\ chain \in Seq(Event) /\ pending \in Seq(Inputs)
    BY <1>2
  <2>6. flush \in FlushState /\ stop \in StopState /\ awaited \subseteq Calls
    BY <1>2, RecordTypes DEF Calls
  <2> QED BY <1>2, <1>3, <2>1, <2>2, <2>3, <2>4, <2>5, <2>6 DEF Typed
<1>5. CallsHold
  BY <1>1, <1>2, <1>3 DEF Init, CallsHold, AnswersHold, AskedHolds, WireHolds
<1>6. StagesHold
  BY <1>2 DEF Init, StagesHold, Awaits, Waits, NoStop, Calls
<1>7. JobsHold
  BY <1>2 DEF JobsHold, NoJob
<1>8. \A i : ~InList(i, pending) /\ ~InList(i, flush.hand) /\ Once(i, pending) /\ Once(i, flush.hand)
  BY <1>2 DEF InList, Once, NoJob
<1>9. \A i : \A k \in DOMAIN asked : ~Sends(asked[k], i)
  BY <1>1, <1>3 DEF Sends
<1>10. \A i \in Inputs : got[i] = 0
  BY DEF Init
<1>11. InputsHold
  <2>1. \A i \in Inputs : InputHolds(i) /\ Nowhere(i)
    BY <1>8, <1>9, <1>10 DEF InputHolds, Nowhere
  <2>2. \A s \in Steers : told[s] = "no"
    BY DEF Init
  <2> QED BY <1>1, <1>3, <2>1, <2>2, RecordTypes DEF InputsHold, Inputs
<1>12. HandHolds
  BY <1>1, <1>2, <1>3 DEF HandHolds
<1>13. SteersHold
  BY DEF Init, SteersHold
<1>14. TakenOnce
  BY <1>10 DEF TakenOnce
<1> QED BY <1>4, <1>5, <1>6, <1>7, <1>11, <1>12, <1>13, <1>14 DEF SteerInv, Invariants

\* Every step keeps what the steering invariant says.
LEMMA SteerStep == SteerInv /\ [Next]_vars => SteerInv'
<1> SUFFICES ASSUME SteerInv, [Next]_vars PROVE SteerInv'
  OBVIOUS
<1>1. Typed /\ TakenOnce /\ Base /\ (Going => Invariants)
  BY DEF SteerInv, Invariants, Base
<1>2. Typed'
  BY <1>1, TypesKept
<1>3. CASE UNCHANGED vars
  <2>1. TakenOnce' /\ Going' = Going
    BY <1>1, <1>3 DEF vars, TakenOnce, Going
  <2>2. Invariants => Invariants'
    BY <1>3 DEF vars, Invariants, CallsHold, AnswersHold, AskedHolds, WireHolds, StagesHold, Awaits, Waits,
       JobsHold, InputsHold, InputHolds, Nowhere, NoAnswer, NoRefusal, NoStart, OnWire, HandHolds,
       SteersHold, Failing, Carried
  <2> QED BY <1>1, <1>2, <2>1, <2>2 DEF SteerInv
<1>4. CASE ~Going /\ Next
  BY <1>3, <1>4, OverStays
<1>5. CASE Going /\ Next /\ ~Going'
  <2>1. TakenOnce'
    BY <1>1, <1>5, EndTakesNothing DEF TakenOnce
  <2> QED BY <1>2, <1>5, <2>1 DEF SteerInv
<1>6. CASE Going /\ Next /\ Going'
  <2>1. CallsHold /\ StagesHold /\ JobsHold
    BY <1>1, <1>6 DEF Invariants
  <2>2. CallsHold'
    <3>1. Ways
      BY <1>1, <1>6, <2>1, StepIsAWay
    <3> QED BY <1>1, <2>1, <3>1, CallsKept
  <2>3. StagesHold' /\ JobsHold'
    BY <1>1, <1>6, <2>1, StagesKept
  <2>4. InputsHold' /\ HandHolds' /\ SteersHold'
    BY <1>1, <1>2, <1>6, InputsKept
  <2>5. TakenOnce'
    BY <2>4 DEF InputsHold, InputHolds, TakenOnce
  <2> QED BY <1>2, <2>2, <2>3, <2>4, <2>5 DEF SteerInv, Invariants
<1> QED BY <1>3, <1>4, <1>5, <1>6

\* The inductive invariant of the steering
THEOREM SteeringInvariant == Spec => []SteerInv
BY SteerInit, SteerStep, PTL DEF Spec

\* Every variable of the attempt keeps its type.
THEOREM AttemptTypeOK == Spec => []TypeOK
<1>1. SteerInv => TypeOK
  <2> SUFFICES ASSUME SteerInv PROVE TypeOK
    OBVIOUS
  <2>1. /\ \A k \in DOMAIN asked : asked[k] \in Requests
        /\ \A k \in DOMAIN wire : wire[k] \in Lines
    BY FieldTypes DEF SteerInv
  <2> QED BY <2>1 DEF SteerInv, Typed, TypeOK, Requests, Lines, KindState, ServerState, RunState, FlushState,
          StopState, Toldness
<1> QED BY <1>1, SteeringInvariant, PTL

\* Whatever the server, the pipes and the user do in whatever order, no input
\* that is not unsure reaches the model twice: neither by the flushes of
\* several notices, nor by one that goes from a turn to the next, nor by the
\* turn that a stale one makes start.
THEOREM InputsTakenOnce == Spec => []TakenOnce
<1>1. SteerInv => TakenOnce
  BY DEF SteerInv
<1> QED BY <1>1, SteeringInvariant, PTL

\* A steer that the pool was told is taken has reached the server or is still
\* to be sent, in the list, in the hand of the flush or in a turn/start on its
\* way, until the attempt ends or is about to.
THEOREM SteersNotForgotten == Spec => []NothingForgotten
<1>1. SteerInv => NothingForgotten
  BY DEF SteerInv, Invariants, SteersHold, NothingForgotten
<1> QED BY <1>1, SteeringInvariant, PTL

-----------------------------------------------------------------------------
(* The order of the notices *)

Terminal(l) == l \in Event /\ l.event \in {"completed", "failed", "interrupted"}
Starts(l) == l \in Event /\ l.event = "started"
Names(a) == a.call \in {"steer", "refresh"} /\ a.ok /\ a.turn # 0
NoEvents == chain = <<>> /\ ~run.timer /\ (\A k \in DOMAIN wire : wire[k] \notin Event)

\* Every end of a turn that was read, or is on the wire before n, is followed
\* by the start of another: before the n-th line of the wire, or before the
\* n-th notice that was read.
StartsBefore(n) == \E m \in DOMAIN wire : m < n /\ Starts(wire[m])
Fresh(n) ==
    /\ run.timer => (\E m \in DOMAIN chain : Starts(chain[m])) \/ StartsBefore(n)
    /\ \A j \in DOMAIN chain : Terminal(chain[j]) =>
          (\E m \in DOMAIN chain : j < m /\ Starts(chain[m])) \/ StartsBefore(n)
    /\ \A j \in DOMAIN wire : j < n /\ Terminal(wire[j]) =>
          \E m \in DOMAIN wire : j < m /\ m < n /\ Starts(wire[m])
FreshRead(n) ==
    /\ run.timer => \E m \in DOMAIN chain : m < n /\ Starts(chain[m])
    /\ \A j \in DOMAIN chain : j < n /\ Terminal(chain[j]) =>
          \E m \in DOMAIN chain : j < m /\ m < n /\ Starts(chain[m])

\* The turns of a thread that had none open: the first one is started by the
\* prompt, the others by the goal.
TurnsHold ==
    /\ phase # "resteer"
    /\ server.turn = 0 => ~server.open /\ NoEvents
    /\ phase = "boot" =>
          /\ server.turn = 0 /\ \A k \in DOMAIN wire : OnWire(k, "thread") => wire[k].turn = 0
          /\ \A a \in answers : a.call = "thread" => a.turn \in {0, -1}
    /\ phase \in {"boot", "start"} /\ server.turn = 0 =>
          ~server.goal /\ \A k \in DOMAIN asked : asked[k].call # "goal"
    /\ \A k \in DOMAIN asked : asked[k].call = "start" => server.turn = 0
    /\ \A j, k \in DOMAIN asked : asked[j].call = "start" /\ asked[k].call = "start" => j = k
    /\ phase = "start" => ~run.timer /\ run.inHand = "no"
    /\ (\E k \in DOMAIN asked : asked[k].call = "goal") \/ server.goal => kind.goal
    /\ run.goalLater \/ run.inHand = "goal" \/ phase = "goal" => kind.goal

\* What is read waits behind the reply to turn/start.
ReplyFirst ==
    phase = "start" /\ "start" \in awaited =>
       /\ chain = <<>>
       /\ server.turn # 0 => \E k \in DOMAIN wire : OnWire(k, "start")
       /\ \A j \in DOMAIN wire : wire[j] \in Event => \E k \in DOMAIN wire : k < j /\ OnWire(k, "start")

\* Without a goal a turn that ended was the last.
EndKnown ==
    \/ run.timer
    \/ \E k \in DOMAIN chain : Terminal(chain[k])
    \/ \E k \in DOMAIN wire : Terminal(wire[k])
LastTurn ==
    ~kind.goal /\ EndKnown => server.turn # 0 /\ ~server.open

\* While a turn is open, when one speaks and when a reply names one, the ends
\* of the earlier ones are followed by a start.
FreshHolds ==
    /\ server.open => Fresh(Len(wire) + 1)
    /\ \A k \in DOMAIN wire :
          (wire[k] \in Event /\ ~Starts(wire[k])) \/ (wire[k] \in Answer /\ Names(wire[k])) => Fresh(k)
    /\ \A k \in DOMAIN chain : ~Starts(chain[k]) => FreshRead(k)

\* While the run is about to complete no turn is under way, unless one is about
\* to be handled.
TimerHolds ==
    run.timer => /\ run.inHand = "no"
                 /\ run.turn # 0 \/ (\E a \in answers : Names(a)) => chain # <<>>

OrderHolds == TurnsHold /\ ReplyFirst /\ LastTurn /\ FreshHolds /\ TimerHolds

\* An event says one thing.
LEMMA EventIs ==
    /\ \A l : ~(Starts(l) /\ Terminal(l))
    /\ \A l : Starts(l) \/ Terminal(l) => l \in Event
    /\ \A l \in Answer : ~Starts(l) /\ ~Terminal(l)
<1>1. \A l \in Answer : l \notin Event
  BY AnswerIsNoEvent
<1> QED BY <1>1 DEF Starts, Terminal

\* Steps of the run that bring no notice and name no turn but one that a reply
\* named
LEMMA OrderStays ==
    ASSUME Typed, OrderHolds, UNCHANGED <<kind, wire>>,
           server'.turn = server.turn, server'.open => server.open, server'.goal = server.goal,
           UNCHANGED chain,
           phase' = phase \/ phase' = "up" \/ (phase' = "goal" /\ kind.goal),
           phase' = "start" => ~run'.timer /\ run'.inHand = "no",
           run'.timer => /\ run.timer /\ run'.inHand = "no"
                         /\ run'.turn # 0 => run.turn # 0 \/ \E a \in answers : Names(a),
           run'.goalLater \/ run'.inHand = "goal" => kind.goal,
           phase' = "start" /\ "start" \in awaited' => "start" \in awaited,
           \A k \in DOMAIN asked' : asked'[k].call = "start" => k \in DOMAIN asked /\ asked[k].call = "start",
           \A k \in DOMAIN asked' : asked'[k].call = "goal" =>
              \/ \E j \in DOMAIN asked : asked[j].call = "goal"
              \/ kind.goal /\ (phase' \notin {"boot", "start"} \/ server.turn # 0),
           \A a \in answers' : a \in answers \/ (~a.ok /\ a.turn = -1)
    PROVE  OrderHolds'
<1>1. TurnsHold /\ ReplyFirst /\ LastTurn /\ FreshHolds /\ TimerHolds
  BY DEF OrderHolds
<1>2. run'.timer => run.timer
  OBVIOUS
<1>3. TurnsHold'
  <2>1. phase' # "resteer"
    BY <1>1 DEF TurnsHold
  <2>2. server'.turn = 0 => ~server'.open /\ NoEvents'
    BY <1>1 DEF TurnsHold, NoEvents
  <2>3. phase' = "boot" =>
          /\ server'.turn = 0 /\ \A k \in DOMAIN wire' : OnWire(k, "thread")' => wire'[k].turn = 0
          /\ \A a \in answers' : a.call = "thread" => a.turn \in {0, -1}
    BY <1>1 DEF TurnsHold, OnWire
  <2>4. /\ phase' \in {"boot", "start"} /\ server'.turn = 0 =>
              ~server'.goal /\ \A k \in DOMAIN asked' : asked'[k].call # "goal"
        /\ \A k \in DOMAIN asked' : asked'[k].call = "start" => server'.turn = 0
        /\ \A j, k \in DOMAIN asked' : asked'[j].call = "start" /\ asked'[k].call = "start" => j = k
    BY <1>1 DEF TurnsHold
  <2>5. (\E k \in DOMAIN asked' : asked'[k].call = "goal") \/ server'.goal => kind'.goal
    BY <1>1 DEF TurnsHold
  <2>6. run'.goalLater \/ run'.inHand = "goal" \/ phase' = "goal" => kind'.goal
    BY <1>1 DEF TurnsHold
  <2> QED BY <2>1, <2>2, <2>3, <2>4, <2>5, <2>6 DEF TurnsHold
<1>4. ReplyFirst'
  BY <1>1 DEF ReplyFirst, OnWire
<1>5. LastTurn'
  BY <1>1 DEF LastTurn, EndKnown
<1>6. FreshHolds'
  <2>1. \A n : Fresh(n) => Fresh(n)'
    BY DEF Fresh, StartsBefore
  <2>2. \A n : FreshRead(n) => FreshRead(n)'
    BY DEF FreshRead
  <2> QED BY <1>1, <2>1, <2>2 DEF FreshHolds
<1>7. TimerHolds'
  BY <1>1 DEF TimerHolds, Names
<1> QED BY <1>3, <1>4, <1>5, <1>6, <1>7 DEF OrderHolds

\* The notice in hand is done with.
LEMMA OrderHandled ==
    ASSUME Typed, OrderHolds, UNCHANGED <<kind, wire, server, asked, awaited, phase>>,
           chain # <<>>, chain' = Tail(chain), run.inHand # "no", run'.inHand = "no",
           run'.timer => /\ Terminal(Head(chain)) /\ run'.turn = 0
                         /\ \A a \in answers' : ~Names(a),
           run'.goalLater = run.goalLater, answers' \subseteq answers
    PROVE  OrderHolds'
<1>1. TurnsHold /\ ReplyFirst /\ LastTurn /\ FreshHolds /\ TimerHolds
  BY DEF OrderHolds
<1>2. ~run.timer
  BY <1>1 DEF TimerHolds
<1>3. phase # "start" /\ server.turn # 0
  BY <1>1 DEF TurnsHold, NoEvents
<1>4. /\ DOMAIN chain' = 1 .. Len(chain) - 1 /\ DOMAIN chain = 1 .. Len(chain) /\ Len(chain) \in Nat
      /\ \A k \in DOMAIN chain' : k + 1 \in DOMAIN chain /\ chain'[k] = chain[k + 1]
      /\ Head(chain) = chain[1] /\ 1 \in DOMAIN chain
  BY TailIs DEF Typed
<1>5. /\ \A k \in DOMAIN chain : k = 1 \/ (k - 1 \in DOMAIN chain' /\ chain'[k - 1] = chain[k] /\ k \in Nat /\ 1 < k)
      /\ \A k \in DOMAIN chain' : k \in Nat /\ 0 < k
  <2>1. ASSUME NEW k \in DOMAIN chain, k # 1
        PROVE  k - 1 \in DOMAIN chain' /\ chain'[k - 1] = chain[k] /\ k \in Nat /\ 1 < k
    <3>1. k - 1 \in 1 .. Len(chain) - 1 /\ (k - 1) + 1 = k
      BY <1>4, <2>1
    <3> QED BY <1>4, <3>1
  <2> QED BY <1>4, <2>1
<1>6. TurnsHold'
  BY <1>1, <1>2, <1>3 DEF TurnsHold, OnWire
<1>7. ReplyFirst'
  BY <1>3 DEF ReplyFirst
<1>8. LastTurn'
  BY <1>1, <1>2, <1>4 DEF LastTurn, EndKnown
<1>9. ASSUME NEW n, Fresh(n) PROVE Fresh(n)'
  <2>1. run'.timer => (\E m \in DOMAIN chain' : Starts(chain'[m])) \/ StartsBefore(n)'
    <3> SUFFICES ASSUME run'.timer, ~StartsBefore(n) PROVE \E m \in DOMAIN chain' : Starts(chain'[m])
      BY DEF StartsBefore
    <3>1. Terminal(chain[1])
      BY <1>4
    <3>2. PICK m \in DOMAIN chain : 1 < m /\ Starts(chain[m])
      BY <1>4, <1>9, <3>1 DEF Fresh
    <3> QED BY <1>5, <3>2
  <2>2. ASSUME NEW j \in DOMAIN chain', Terminal(chain'[j]), ~StartsBefore(n)
        PROVE  \E m \in DOMAIN chain' : j < m /\ Starts(chain'[m])
    <3>1. PICK m \in DOMAIN chain : j + 1 < m /\ Starts(chain[m])
      BY <1>4, <1>9, <2>2 DEF Fresh
    <3>2. j \in Nat /\ 0 < j /\ m \in Nat
      BY <1>4, <1>5
    <3>3. m # 1 /\ j < m - 1
      BY <3>1, <3>2
    <3> QED BY <1>5, <3>1, <3>3
  <2> QED BY <1>9, <2>1, <2>2 DEF Fresh, StartsBefore
<1>10. ASSUME NEW k \in DOMAIN chain', FreshRead(k + 1) PROVE FreshRead(k)'
  <2>1. k \in Nat
    BY <1>5
  <2>2. run'.timer => \E m \in DOMAIN chain' : m < k /\ Starts(chain'[m])
    <3> SUFFICES ASSUME run'.timer PROVE \E m \in DOMAIN chain' : m < k /\ Starts(chain'[m])
      OBVIOUS
    <3>1. Terminal(chain[1]) /\ 1 < k + 1
      BY <1>4, <1>5, <2>1
    <3>2. PICK m \in DOMAIN chain : 1 < m /\ m < k + 1 /\ Starts(chain[m])
      BY <1>4, <1>10, <3>1 DEF FreshRead
    <3>3. m - 1 < k
      BY <1>4, <2>1, <3>2
    <3> QED BY <1>5, <3>2, <3>3
  <2>3. ASSUME NEW j \in DOMAIN chain', j < k, Terminal(chain'[j])
        PROVE  \E m \in DOMAIN chain' : j < m /\ m < k /\ Starts(chain'[m])
    <3>0. j \in Nat /\ 0 < j
      BY <1>5
    <3>1. j + 1 < k + 1
      BY <2>1, <2>3, <3>0
    <3>2. PICK m \in DOMAIN chain : j + 1 < m /\ m < k + 1 /\ Starts(chain[m])
      BY <1>4, <1>10, <2>3, <3>1 DEF FreshRead
    <3>3. m # 1 /\ j < m - 1 /\ m - 1 < k
      BY <1>4, <2>1, <3>0, <3>2
    <3> QED BY <1>5, <3>2, <3>3
  <2> QED BY <2>2, <2>3 DEF FreshRead
<1>11. FreshHolds'
  <2>1. server'.open => Fresh(Len(wire) + 1)'
    BY <1>1, <1>9 DEF FreshHolds
  <2>2. \A k \in DOMAIN wire' :
          (wire'[k] \in Event /\ ~Starts(wire'[k])) \/ (wire'[k] \in Answer /\ Names(wire'[k])) => Fresh(k)'
    BY <1>1, <1>9 DEF FreshHolds
  <2>3. ASSUME NEW k \in DOMAIN chain', ~Starts(chain'[k]) PROVE FreshRead(k)'
    <3>1. k + 1 \in DOMAIN chain /\ ~Starts(chain[k + 1])
      BY <1>4, <2>3
    <3>2. FreshRead(k + 1)
      BY <1>1, <3>1 DEF FreshHolds
    <3> QED BY <1>10, <3>2
  <2> QED BY <2>1, <2>2, <2>3 DEF FreshHolds
<1>12. TimerHolds'
  BY DEF TimerHolds
<1> QED BY <1>6, <1>7, <1>8, <1>11, <1>12 DEF OrderHolds

\* Lines join the wire; an event is the last of them.
LEMMA FreshGrows ==
    ASSUME Typed, wire' \in Seq(Lines), FreshHolds, TimerHolds,
           UNCHANGED <<chain, run, answers>>,
           DOMAIN wire \subseteq DOMAIN wire', \A k \in DOMAIN wire : wire'[k] = wire[k],
           \A k \in DOMAIN wire' \ DOMAIN wire : wire'[k] \in Event => k = Len(wire'),
           \A k \in DOMAIN wire' \ DOMAIN wire : Terminal(wire'[k]) => ~server'.open,
           \A k \in DOMAIN wire' \ DOMAIN wire :
              (wire'[k] \in Event /\ ~Starts(wire'[k])) \/ (wire'[k] \in Answer /\ Names(wire'[k])) => server.open,
           server'.open => \/ server.open
                           \/ \E m \in DOMAIN wire' \ DOMAIN wire : Starts(wire'[m])
    PROVE  FreshHolds' /\ TimerHolds'
<1>1. /\ DOMAIN wire = 1 .. Len(wire) /\ DOMAIN wire' = 1 .. Len(wire')
      /\ Len(wire) \in Nat /\ Len(wire') \in Nat
  BY ElementIs DEF Typed
<1>2. /\ \A k \in DOMAIN wire' \ DOMAIN wire : k \in Nat /\ Len(wire) + 1 <= k /\ k <= Len(wire')
      /\ \A k \in DOMAIN wire : k \in Nat /\ k < Len(wire) + 1
      /\ \A k \in DOMAIN wire' : k \in Nat /\ k <= Len(wire')
  BY <1>1
<1>3. ASSUME NEW n \in Nat, n <= Len(wire) + 1, Fresh(n) PROVE Fresh(n)'
  <2>1. StartsBefore(n) => StartsBefore(n)'
    BY DEF StartsBefore
  <2>2. ASSUME NEW j \in DOMAIN wire', j < n, Terminal(wire'[j])
        PROVE  \E m \in DOMAIN wire' : j < m /\ m < n /\ Starts(wire'[m])
    <3>1. j \in DOMAIN wire
      BY <1>1, <1>2, <1>3, <2>2
    <3>2. PICK m \in DOMAIN wire : j < m /\ m < n /\ Starts(wire[m])
      BY <1>3, <2>2, <3>1 DEF Fresh
    <3> QED BY <3>2
  <2> QED BY <1>3, <2>1, <2>2 DEF Fresh
\* From the end of the old wire to a new line before which no event came
<1>4. ASSUME NEW n \in Nat, Len(wire) + 1 <= n, Fresh(Len(wire) + 1),
             \A k \in DOMAIN wire' \ DOMAIN wire : k < n => ~Terminal(wire'[k])
      PROVE  Fresh(n)'
  <2>1. StartsBefore(Len(wire) + 1) => StartsBefore(n)'
    <3> SUFFICES ASSUME NEW m \in DOMAIN wire, m < Len(wire) + 1, Starts(wire[m])
                 PROVE  \E k \in DOMAIN wire' : k < n /\ Starts(wire'[k])
      BY DEF StartsBefore
    <3>1. m < n
      BY <1>1, <1>2, <1>4
    <3> QED BY <3>1
  <2>2. ASSUME NEW j \in DOMAIN wire', j < n, Terminal(wire'[j])
        PROVE  \E m \in DOMAIN wire' : j < m /\ m < n /\ Starts(wire'[m])
    <3>1. j \in DOMAIN wire
      BY <1>4, <2>2
    <3>2. j < Len(wire) + 1
      BY <1>2, <3>1
    <3>3. PICK m \in DOMAIN wire : j < m /\ m < Len(wire) + 1 /\ Starts(wire[m])
      BY <1>4, <2>2, <3>1, <3>2 DEF Fresh
    <3>4. m < n
      BY <1>1, <1>2, <1>4, <3>3
    <3> QED BY <3>3, <3>4
  <2> QED BY <1>4, <2>1, <2>2 DEF Fresh
<1>6. server.open => Fresh(Len(wire) + 1)
  BY DEF FreshHolds
<1>7. Len(wire) + 1 \in Nat /\ Len(wire') + 1 \in Nat /\ Len(wire) + 1 <= Len(wire') + 1
  <2>1. Len(wire) <= Len(wire')
    <3>1. CASE Len(wire) = 0
      BY <1>1, <3>1
    <3>2. CASE Len(wire) # 0
      <4>1. Len(wire) \in DOMAIN wire'
        BY <1>1, <3>2
      <4> QED BY <1>2, <4>1
    <3> QED BY <3>1, <3>2
  <2> QED BY <1>1, <2>1
<1> DEFINE end == Len(wire') + 1
<1>8. ASSUME server'.open, NEW m \in DOMAIN wire' \ DOMAIN wire, Starts(wire'[m])
      PROVE  \A n : n = end => Fresh(n)'
  <2>1. m = Len(wire') /\ m < end
    BY <1>1, <1>8, EventIs
  <2>2. ASSUME NEW j \in DOMAIN wire', Terminal(wire'[j]) PROVE j < m
    <3>1. j # m
      BY <1>8, <2>2, EventIs
    <3> QED BY <1>2, <2>1, <3>1
  <2>3. \A n : n = end => StartsBefore(n)'
    BY <1>8, <2>1 DEF StartsBefore
  <2> HIDE DEF end
  <2> QED BY <1>8, <2>1, <2>2, <2>3 DEF Fresh
<1>9. server'.open => \A n : n = end => Fresh(n)'
  <2> SUFFICES ASSUME server'.open PROVE \A n : n = end => Fresh(n)'
    OBVIOUS
  <2>1. CASE server.open
    <3>1. \A k \in DOMAIN wire' \ DOMAIN wire : k < end => ~Terminal(wire'[k])
      OBVIOUS
    <3> HIDE DEF end
    <3>2. end \in Nat /\ Len(wire) + 1 <= end
      BY <1>7 DEF end
    <3> QED BY <1>4, <1>6, <2>1, <3>1, <3>2
  <2> QED BY <1>8, <2>1
<1>10. ASSUME NEW k \in DOMAIN wire',
             (wire'[k] \in Event /\ ~Starts(wire'[k])) \/ (wire'[k] \in Answer /\ Names(wire'[k]))
       PROVE Fresh(k)'
  <2>1. CASE k \in DOMAIN wire
    <3>1. Fresh(k) /\ k \in Nat /\ k <= Len(wire) + 1
      BY <1>1, <1>2, <1>10, <2>1 DEF FreshHolds
    <3> QED BY <1>3, <3>1
  <2>2. CASE k \notin DOMAIN wire
    <3>1. k \in Nat /\ Len(wire) + 1 <= k /\ server.open
      BY <1>2, <1>10, <2>2
    <3>2. \A i \in DOMAIN wire' \ DOMAIN wire : i < k => ~Terminal(wire'[i])
      <4>1. ASSUME NEW i \in DOMAIN wire' \ DOMAIN wire, i < k PROVE i # Len(wire')
        BY <1>1, <1>2, <4>1
      <4> QED BY <4>1, EventIs
    <3> QED BY <1>4, <1>6, <3>1, <3>2
  <2> QED BY <2>1, <2>2
<1>11. \A k \in DOMAIN chain' : ~Starts(chain'[k]) => FreshRead(k)'
  BY DEF FreshHolds, FreshRead
<1>12. server'.open => Fresh(Len(wire) + 1)'
  BY <1>9
<1>13. FreshHolds'
  BY <1>10, <1>11, <1>12 DEF FreshHolds
<1> QED BY <1>13 DEF TimerHolds

\* What a served request makes of the server
LEMMA ServeTurns ==
    ASSUME Typed, Serve
    PROVE  /\ server'.turn = (IF Opens(Head(asked)) THEN server.turn + 1 ELSE server.turn)
           /\ server'.open = (Opens(Head(asked)) \/ (server.open /\ ~Stops(Head(asked))))
           /\ server'.goal = (server.goal \/ Head(asked).call = "goal")
           /\ server.turn \in Nat /\ server.open \in BOOLEAN /\ server'.open \in BOOLEAN
           /\ server'.turn = 0 => server.turn = 0 /\ ~Opens(Head(asked))
           /\ Head(asked).call = "thread" => ReplyTo(Head(asked)).turn = OpenTurn
           /\ Names(ReplyTo(Head(asked))) => server.open
<1> DEFINE r == Head(asked)
<1>1. server \in ServerState /\ server.turn \in Nat /\ server.open \in BOOLEAN /\ server.goal \in BOOLEAN
  BY DEF Typed, ServerState, Turns
<1>2. server' = [server EXCEPT !.turn = IF Opens(r) THEN @ + 1 ELSE @,
                               !.open = Opens(r) \/ (@ /\ ~Stops(r)),
                               !.final = @ /\ ~Opens(r),
                               !.goal = @ \/ r.call = "goal"]
  BY DEF Serve, Opens, Stops
<1>3. /\ r.call = "thread" => ReplyTo(r).turn = OpenTurn
      /\ r.call = "refresh" => ReplyTo(r).turn = OpenTurn
      /\ r.call = "steer" => ReplyTo(r).ok = (server.open /\ server.turn = r.turn)
  BY DEF ReplyTo, Reply
<1>4. ReplyTo(r).call = r.call
  BY ServeIs
<1> HIDE DEF r
<1>5. /\ server'.turn = (IF Opens(r) THEN server.turn + 1 ELSE server.turn)
      /\ server'.open = (Opens(r) \/ (server.open /\ ~Stops(r)))
      /\ server'.goal = (server.goal \/ r.call = "goal")
  BY <1>1, <1>2 DEF ServerState
<1>6. server'.open \in BOOLEAN
  BY <1>5
<1>7. server'.turn = 0 => server.turn = 0 /\ ~Opens(r)
  BY <1>1, <1>5
<1>8. Names(ReplyTo(r)) => server.open
  BY <1>1, <1>3, <1>4 DEF Names, OpenTurn
<1> QED BY <1>1, <1>3, <1>5, <1>6, <1>7, <1>8 DEF r

\* A served request keeps the order of the notices.
LEMMA ServeOrder ==
    ASSUME Typed, Typed', CallsHold, InputsHold, OrderHolds, Serve
    PROVE  OrderHolds'
<1> DEFINE r == Head(asked)
<1>1. TurnsHold /\ ReplyFirst /\ LastTurn /\ FreshHolds /\ TimerHolds
  BY DEF OrderHolds
<1>2. /\ UNCHANGED <<kind, awaited, answers, phase, run, chain>>
      /\ 1 \in DOMAIN asked /\ asked[1] = r
      /\ \A k \in DOMAIN asked' : k + 1 \in DOMAIN asked /\ asked'[k] = asked[k + 1] /\ k \in Nat /\ 0 < k
      /\ ReplyTo(r) \in Answer /\ ReplyTo(r).call = r.call
  <2>1. asked \in Seq(Requests) /\ asked # <<>> /\ asked' = Tail(asked)
    BY ServeIs DEF Typed
  <2>2. /\ 1 \in DOMAIN asked /\ asked[1] = r
        /\ DOMAIN asked' = 1 .. Len(asked) - 1 /\ Len(asked) \in Nat
        /\ \A k \in DOMAIN asked' : k + 1 \in DOMAIN asked /\ asked'[k] = asked[k + 1]
    BY <2>1, TailIs
  <2> QED BY <2>2, ServeIs DEF client
<1>3. /\ server'.turn = (IF Opens(r) THEN server.turn + 1 ELSE server.turn)
      /\ server'.open = (Opens(r) \/ (server.open /\ ~Stops(r)))
      /\ server'.goal = (server.goal \/ r.call = "goal")
      /\ server.turn \in Nat /\ server.open \in BOOLEAN /\ server'.open \in BOOLEAN
      /\ server'.turn = 0 => server.turn = 0 /\ ~Opens(r)
      /\ r.call = "thread" => ReplyTo(r).turn = OpenTurn
      /\ Names(ReplyTo(r)) => server.open
  BY ServeTurns
<1> DEFINE new == DOMAIN wire' \ DOMAIN wire
<1>4. /\ DOMAIN wire \subseteq DOMAIN wire' /\ \A k \in DOMAIN wire : wire'[k] = wire[k]
      /\ \A k \in new : wire'[k] \in Event \/ (k = Len(wire) + 1 /\ wire'[k] = ReplyTo(r) /\ r.live)
      /\ \A k \in new : wire'[k] \in Event =>
            \/ Opens(r) /\ wire'[k] = Notice("started", server.turn + 1)
            \/ Stops(r) /\ wire'[k] = Notice("interrupted", r.turn)
      /\ r.live => Len(wire) + 1 \in DOMAIN wire' /\ wire'[Len(wire) + 1] = ReplyTo(r)
      /\ \A k \in new : wire'[k] \in Event => k = Len(wire')
      /\ Opens(r) => Len(wire') \in new /\ wire'[Len(wire')] = Notice("started", server.turn + 1)
  BY ServeWire
<1>5. /\ DOMAIN wire = 1 .. Len(wire) /\ DOMAIN wire' = 1 .. Len(wire') /\ Len(wire) \in Nat /\ Len(wire') \in Nat
      /\ \A k \in DOMAIN wire' : wire'[k] \in Lines
      /\ wire' \in Seq(Lines)
  BY ElementIs DEF Typed
<1>6. \A k \in new : k \in Nat /\ Len(wire) + 1 <= k
  BY <1>5
<1>7. /\ Notice("started", server.turn + 1).event = "started"
      /\ Notice("interrupted", r.turn).event = "interrupted"
  BY DEF Notice
<1>8. Opens(r) => r.call = "start" /\ ~Stops(r)
  BY DEF Opens, Stops
<1>9. Stops(r) => server.open /\ server.turn # 0 /\ ~server'.open
  BY <1>1, <1>3, <1>8 DEF Stops, TurnsHold
<1>10. Opens(r) => server.turn = 0
  BY <1>1, <1>2, <1>8 DEF TurnsHold
<1> HIDE DEF r, new
\* Of the new lines, which end and which start a turn
<1>11. ASSUME NEW k \in new
       PROVE  /\ wire'[k] \in Event => k = Len(wire') /\ (Opens(r) \/ Stops(r))
              /\ wire'[k] \in Event /\ ~Starts(wire'[k]) => Stops(r)
              /\ Terminal(wire'[k]) => Stops(r)
              /\ wire'[k] \in Answer => wire'[k] = ReplyTo(r) /\ k = Len(wire) + 1
  <2>1. wire'[k] \in Answer => wire'[k] \notin Event
    BY AnswerIsNoEvent
  <2>2. wire'[k] \in Event /\ Opens(r) => Starts(wire'[k])
    BY <1>4, <1>7, <1>8 DEF Starts
  <2> QED BY <1>4, <2>1, <2>2, EventIs
<1>12. TurnsHold'
  <2>1. server'.turn = 0 => ~server'.open /\ NoEvents'
    <3> SUFFICES ASSUME server'.turn = 0 PROVE ~server'.open /\ NoEvents'
      OBVIOUS
    <3>1. server.turn = 0 /\ ~Opens(r) /\ ~server.open /\ NoEvents /\ ~Stops(r)
      BY <1>1, <1>3, <1>9 DEF TurnsHold
    <3>2. \A k \in DOMAIN wire' : wire'[k] \notin Event
      <4>1. \A k \in new : wire'[k] \notin Event
        BY <1>11, <3>1
      <4> QED BY <1>4, <3>1, <4>1 DEF NoEvents, new
    <3> QED BY <1>2, <1>3, <3>1, <3>2 DEF NoEvents
  <2>2. phase' = "boot" =>
          /\ server'.turn = 0 /\ \A k \in DOMAIN wire' : OnWire(k, "thread")' => wire'[k].turn = 0
          /\ \A a \in answers' : a.call = "thread" => a.turn \in {0, -1}
    <3> SUFFICES ASSUME phase = "boot"
                 PROVE  /\ server'.turn = 0 /\ \A k \in DOMAIN wire' : OnWire(k, "thread")' => wire'[k].turn = 0
                        /\ \A a \in answers : a.call = "thread" => a.turn \in {0, -1}
      BY <1>2
    <3>1. server.turn = 0 /\ ~server.open
      BY <1>1 DEF TurnsHold
    <3>2. ~Opens(r)
      BY <1>2, <1>8 DEF InputsHold
    <3>3. ASSUME NEW k \in new, OnWire(k, "thread")' PROVE wire'[k].turn = 0
      BY <1>2, <1>3, <1>11, <3>1, <3>3 DEF OnWire, OpenTurn
    <3> QED BY <1>1, <1>3, <1>4, <3>1, <3>2, <3>3 DEF TurnsHold, OnWire, new
  <2>3. phase' \in {"boot", "start"} /\ server'.turn = 0 =>
              ~server'.goal /\ \A k \in DOMAIN asked' : asked'[k].call # "goal"
    BY <1>1, <1>2, <1>3 DEF TurnsHold
  <2>4. \A k \in DOMAIN asked' : asked'[k].call = "start" => server'.turn = 0
    <3> SUFFICES ASSUME NEW k \in DOMAIN asked', asked'[k].call = "start" PROVE server'.turn = 0
      OBVIOUS
    <3>1. k + 1 \in DOMAIN asked /\ asked[k + 1].call = "start" /\ k + 1 # 1
      BY <1>2
    <3>2. server.turn = 0 /\ ~Opens(r)
      BY <1>1, <1>2, <1>8, <3>1 DEF TurnsHold
    <3> QED BY <1>3, <3>2
  <2>5. \A j, k \in DOMAIN asked' : asked'[j].call = "start" /\ asked'[k].call = "start" => j = k
    <3> SUFFICES ASSUME NEW j \in DOMAIN asked', NEW k \in DOMAIN asked',
                        asked'[j].call = "start", asked'[k].call = "start" PROVE j = k
      OBVIOUS
    <3>1. j + 1 = k + 1
      BY <1>1, <1>2 DEF TurnsHold
    <3> QED BY <1>2, <3>1
  <2>6. (\E k \in DOMAIN asked' : asked'[k].call = "goal") \/ server'.goal => kind'.goal
    BY <1>1, <1>2, <1>3 DEF TurnsHold
  <2>7. /\ phase' # "resteer" /\ (phase' = "start" => ~run'.timer /\ run'.inHand = "no")
        /\ run'.goalLater \/ run'.inHand = "goal" \/ phase' = "goal" => kind'.goal
    BY <1>1, <1>2 DEF TurnsHold
  <2> QED BY <2>1, <2>2, <2>3, <2>4, <2>5, <2>6, <2>7 DEF TurnsHold
<1>13. ReplyFirst'
  <2> SUFFICES ASSUME phase = "start", "start" \in awaited
               PROVE  /\ chain = <<>>
                      /\ server'.turn # 0 => \E k \in DOMAIN wire' : OnWire(k, "start")'
                      /\ \A j \in DOMAIN wire' : wire'[j] \in Event => \E k \in DOMAIN wire' : k < j /\ OnWire(k, "start")'
    BY <1>2 DEF ReplyFirst
  <2>1. Opens(r) => r.live
    <3>1. ~NoStart
      BY DEF NoStart, StartRejected, CallsHold, AnswersHold
    <3> QED BY <1>2, <1>8, <3>1 DEF InputsHold
  <2>2. Opens(r) => \E k \in DOMAIN wire' : k = Len(wire) + 1 /\ OnWire(k, "start")'
    BY <1>2, <1>4, <1>8, <2>1 DEF OnWire
  <2>3. \A k \in DOMAIN wire : OnWire(k, "start") => k \in DOMAIN wire' /\ OnWire(k, "start")'
    BY <1>4 DEF OnWire
  <2>4. server'.turn # 0 => \E k \in DOMAIN wire' : OnWire(k, "start")'
    BY <1>1, <1>3, <2>2, <2>3 DEF ReplyFirst
  <2>5. ASSUME NEW j \in DOMAIN wire', wire'[j] \in Event
        PROVE  \E k \in DOMAIN wire' : k < j /\ OnWire(k, "start")'
    <3>1. CASE j \in DOMAIN wire
      BY <1>1, <1>4, <2>3, <2>5, <3>1 DEF ReplyFirst
    <3>2. CASE j \notin DOMAIN wire
      <4>1. j \in new /\ (Opens(r) \/ Stops(r)) /\ j \in Nat /\ Len(wire) + 1 <= j
        BY <1>6, <1>11, <2>5, <3>2 DEF new
      <4>2. CASE Opens(r)
        <5>1. PICK k \in DOMAIN wire' : k = Len(wire) + 1 /\ OnWire(k, "start")'
          BY <2>2, <4>2
        <5>2. k # j
          BY <2>5, <5>1, AnswerIsNoEvent DEF OnWire
        <5>3. k < j
          BY <1>5, <4>1, <5>1, <5>2
        <5> QED BY <5>1, <5>3
      <4>3. CASE Stops(r)
        <5>1. PICK k \in DOMAIN wire : OnWire(k, "start")
          BY <1>1, <1>9, <4>3 DEF ReplyFirst
        <5>2. k < j
          BY <1>5, <4>1, <5>1
        <5> QED BY <2>3, <5>1, <5>2
      <4> QED BY <4>1, <4>2, <4>3
    <3> QED BY <3>1, <3>2
  <2> QED BY <1>1, <2>4, <2>5 DEF ReplyFirst
<1>14. LastTurn'
  <2> SUFFICES ASSUME ~kind.goal, EndKnown' PROVE server'.turn # 0 /\ ~server'.open
    BY <1>2 DEF LastTurn
  <2>1. EndKnown \/ Stops(r)
    <3>1. ASSUME NEW k \in DOMAIN wire', Terminal(wire'[k]) PROVE EndKnown \/ Stops(r)
      <4>1. CASE k \in DOMAIN wire
        BY <1>4, <3>1, <4>1 DEF EndKnown
      <4>2. CASE k \notin DOMAIN wire
        BY <1>11, <3>1, <4>2 DEF new
      <4> QED BY <4>1, <4>2
    <3> QED BY <1>2, <3>1 DEF EndKnown
  <2>2. CASE Stops(r)
    BY <1>3, <1>9, <2>2
  <2>3. CASE EndKnown
    <3>1. server.turn # 0 /\ ~server.open
      BY <1>1, <2>3 DEF LastTurn
    <3>2. ~Opens(r)
      BY <1>10, <3>1
    <3> QED BY <1>3, <3>1, <3>2
  <2> QED BY <2>1, <2>2, <2>3
<1>15. FreshHolds' /\ TimerHolds'
  <2>1. \A k \in new : wire'[k] \in Event => k = Len(wire')
    BY <1>11
  <2>2. \A k \in new : Terminal(wire'[k]) => ~server'.open
    BY <1>9, <1>11
  <2>3. \A k \in new :
           (wire'[k] \in Event /\ ~Starts(wire'[k])) \/ (wire'[k] \in Answer /\ Names(wire'[k])) => server.open
    BY <1>3, <1>9, <1>11
  <2>4. server'.open => server.open \/ \E m \in new : Starts(wire'[m])
    <3>1. Opens(r) => \E m \in new : Starts(wire'[m])
      <4> SUFFICES ASSUME Opens(r) PROVE \E m \in new : Starts(wire'[m])
        OBVIOUS
      <4>1. Len(wire') \in new /\ wire'[Len(wire')] = Notice("started", server.turn + 1)
        BY <1>4
      <4>2. wire'[Len(wire')] \in Event
        <5>1. wire'[Len(wire')] \in Lines /\ wire'[Len(wire')] \notin Answer
          <6>1. wire'[Len(wire')] \in Lines
            BY <1>5, <4>1 DEF new
          <6>2. \A a \in Answer : a # Notice("started", server.turn + 1)
            BY DEF Answer, Notice
          <6> QED BY <4>1, <6>1, <6>2
        <5> QED BY <5>1 DEF Lines
      <4> QED BY <1>7, <4>1, <4>2 DEF Starts
    <3> QED BY <1>3, <3>1
  <2>5. UNCHANGED <<chain, run, answers>>
    BY <1>2
  <2> HIDE DEF new
  <2>6. /\ \A k \in DOMAIN wire' \ DOMAIN wire : wire'[k] \in Event => k = Len(wire')
        /\ \A k \in DOMAIN wire' \ DOMAIN wire : Terminal(wire'[k]) => ~server'.open
        /\ \A k \in DOMAIN wire' \ DOMAIN wire :
              (wire'[k] \in Event /\ ~Starts(wire'[k])) \/ (wire'[k] \in Answer /\ Names(wire'[k])) => server.open
        /\ server'.open => server.open \/ \E m \in DOMAIN wire' \ DOMAIN wire : Starts(wire'[m])
    BY <2>1, <2>2, <2>3, <2>4 DEF new
  <2> QED BY <1>1, <1>4, <1>5, <2>5, <2>6, FreshGrows
<1> QED BY <1>12, <1>13, <1>14, <1>15 DEF OrderHolds

\* The server says something, ends its turn or goes on with the goal.
Speaks(e) ==
    /\ e \in Event /\ wire' = Append(wire, e)
    /\ UNCHANGED <<kind, asked, awaited, answers, phase, run, chain>>
    /\ server'.goal => server.goal
    /\ \/ /\ server.open /\ ~Starts(e) /\ server'.turn = server.turn
          /\ Terminal(e) => ~server'.open
       \/ /\ server.goal /\ Starts(e) /\ server'.turn = server.turn + 1

\* Each of the three is one of these.
LEMMA SpeaksIs ==
    ASSUME Typed, Tell \/ EndTurn \/ Continue
    PROVE  \E e : Speaks(e)
<1>1. server \in ServerState /\ server.turn \in Turns
  BY DEF Typed, ServerState
<1>2. CASE Tell
  <2> DEFINE e == Notice("final", server.turn)
  <2>1. e \in Event /\ e.event = "final"
    BY <1>1, RecordTypes DEF Notice
  <2>2. /\ wire' = Append(wire, e) /\ server.open /\ server' = [server EXCEPT !.final = TRUE]
        /\ UNCHANGED <<kind, asked, awaited, answers, phase, run, chain>>
    BY <1>2 DEF Tell, rpc, client
  <2> HIDE DEF e
  <2>3. server'.goal = server.goal /\ server'.turn = server.turn
    BY <1>1, <2>2 DEF ServerState
  <2>4. Speaks(e)
    BY <2>1, <2>2, <2>3 DEF Speaks, Starts, Terminal
  <2> QED BY <2>4
<1>3. CASE EndTurn
  <2>1. PICK x \in {"completed", "failed"} :
             /\ server' = [server EXCEPT !.open = FALSE, !.goal = @ /\ x = "completed"]
             /\ wire' = Append(wire, Notice(x, server.turn))
    BY <1>3 DEF EndTurn
  <2> DEFINE e == Notice(x, server.turn)
  <2>2. e \in Event /\ e.event = x
    BY <1>1, RecordTypes DEF Notice
  <2>3. server.open /\ UNCHANGED <<kind, asked, awaited, answers, phase, run, chain>>
    BY <1>3 DEF EndTurn, rpc, client
  <2>4. wire' = Append(wire, e)
    BY <2>1
  <2> HIDE DEF e
  <2>5. (server'.goal => server.goal) /\ server'.turn = server.turn /\ ~server'.open
    BY <1>1, <2>1 DEF ServerState
  <2>6. ~Starts(e)
    BY <2>2 DEF Starts
  <2>7. Speaks(e)
    BY <2>2, <2>3, <2>4, <2>5, <2>6 DEF Speaks
  <2> QED BY <2>7
<1>4. CASE Continue
  <2> DEFINE e == Notice("started", server.turn + 1)
  <2>1. server.turn + 1 \in Turns
    BY <1>1, <1>4, AppServerAssumption DEF Continue, Turns, AppServerAssumption
  <2>2. e \in Event /\ e.event = "started"
    BY <2>1, RecordTypes DEF Notice
  <2>3. /\ wire' = Append(wire, e) /\ server.goal
        /\ server' = [server EXCEPT !.turn = @ + 1, !.open = TRUE, !.final = FALSE]
        /\ UNCHANGED <<kind, asked, awaited, answers, phase, run, chain>>
    BY <1>4 DEF Continue, rpc, client
  <2> HIDE DEF e
  <2>4. server'.goal = server.goal /\ server'.turn = server.turn + 1
    BY <1>1, <2>3 DEF ServerState
  <2>5. Speaks(e)
    BY <2>2, <2>3, <2>4 DEF Speaks, Starts
  <2> QED BY <2>5
<1> QED BY <1>2, <1>3, <1>4

\* What the server says keeps the order of the notices.
LEMMA NoticeOrder ==
    ASSUME Typed, Typed', InputsHold, OrderHolds, Tell \/ EndTurn \/ Continue
    PROVE  OrderHolds'
<1>1. TurnsHold /\ ReplyFirst /\ LastTurn /\ FreshHolds /\ TimerHolds
  BY DEF OrderHolds
<1>2. PICK e : Speaks(e)
  BY SpeaksIs
<1>3. /\ e \in Event /\ UNCHANGED <<kind, asked, awaited, answers, phase, run, chain>>
      /\ server'.goal => server.goal
      /\ \/ /\ server.open /\ ~Starts(e) /\ server'.turn = server.turn /\ (Terminal(e) => ~server'.open)
         \/ server.goal /\ Starts(e) /\ server'.turn = server.turn + 1
  BY <1>2 DEF Speaks
<1>4. /\ DOMAIN wire' = 1 .. Len(wire) + 1 /\ DOMAIN wire = 1 .. Len(wire) /\ Len(wire) \in Nat
      /\ Len(wire') = Len(wire) + 1
      /\ \A k \in DOMAIN wire : wire'[k] = wire[k]
      /\ wire'[Len(wire) + 1] = e
      /\ wire' \in Seq(Lines)
  <2>1. wire \in Seq(Lines) /\ e \in Lines /\ wire' = Append(wire, e)
    BY <1>2 DEF Typed, Lines, Speaks
  <2> QED BY <2>1, AppendIs
<1>5. /\ DOMAIN wire' \ DOMAIN wire = {Len(wire) + 1} /\ DOMAIN wire \subseteq DOMAIN wire'
      /\ \A k \in DOMAIN wire : k < Len(wire) + 1
  BY <1>4
<1>6. server.turn \in Nat /\ server'.turn # 0 /\ (server.open => server.turn # 0)
      /\ (phase \in {"boot", "start"} => server.turn # 0)
  <2>1. server.turn \in Nat
    BY DEF Typed, ServerState, Turns
  <2>2. server.open => server.turn # 0
    BY <1>1 DEF TurnsHold
  <2>3. server'.turn # 0
    BY <1>3, <2>1, <2>2
  <2>4. phase \in {"boot", "start"} => server.turn # 0
    BY <1>1, <1>3, <2>2 DEF TurnsHold
  <2> QED BY <2>1, <2>2, <2>3, <2>4
<1>7. TurnsHold'
  <2>1. phase # "boot"
    BY <1>1, <1>6 DEF TurnsHold
  <2>2. \A k \in DOMAIN asked : asked[k].call # "start"
    BY <1>1, <1>6 DEF TurnsHold, InputsHold
  <2> QED BY <1>1, <1>3, <1>6, <2>1, <2>2 DEF TurnsHold
<1>8. ReplyFirst'
  <2> SUFFICES ASSUME phase = "start", "start" \in awaited
               PROVE  /\ chain = <<>>
                      /\ \E k \in DOMAIN wire' : OnWire(k, "start")'
                      /\ \A j \in DOMAIN wire' : wire'[j] \in Event => \E k \in DOMAIN wire' : k < j /\ OnWire(k, "start")'
    BY <1>3 DEF ReplyFirst
  <2>1. \A k \in DOMAIN wire : OnWire(k, "start") => k \in DOMAIN wire' /\ OnWire(k, "start")'
    BY <1>4, <1>5 DEF OnWire
  <2>2. PICK k \in DOMAIN wire : OnWire(k, "start")
    BY <1>1, <1>6 DEF ReplyFirst
  <2>3. ASSUME NEW j \in DOMAIN wire', wire'[j] \in Event
        PROVE  \E i \in DOMAIN wire' : i < j /\ OnWire(i, "start")'
    <3>1. CASE j \in DOMAIN wire
      BY <1>1, <1>4, <2>1, <2>3, <3>1 DEF ReplyFirst
    <3>2. CASE j \notin DOMAIN wire
      <4>1. k < j
        BY <1>5, <3>2
      <4> QED BY <2>1, <2>2, <4>1
    <3> QED BY <3>1, <3>2
  <2> QED BY <1>1, <2>1, <2>2, <2>3 DEF ReplyFirst
<1>9. LastTurn'
  <2> SUFFICES ASSUME ~kind.goal, EndKnown' PROVE server'.turn # 0 /\ ~server'.open
    BY <1>3 DEF LastTurn
  <2>1. ~server.goal
    BY <1>1 DEF TurnsHold
  <2>2. server.open /\ (Terminal(e) => ~server'.open)
    BY <1>3, <2>1
  <2>3. ~EndKnown
    BY <1>1, <2>2 DEF LastTurn
  <2>4. PICK k \in DOMAIN wire' : Terminal(wire'[k])
    BY <1>3, <2>3 DEF EndKnown
  <2>5. k \notin DOMAIN wire
    BY <1>4, <2>3, <2>4 DEF EndKnown
  <2>6. Terminal(e)
    BY <1>4, <1>5, <2>4, <2>5
  <2> QED BY <1>6, <2>2, <2>6
<1>10. FreshHolds' /\ TimerHolds'
  <2>1. e \notin Answer
    BY <1>3, AnswerIsNoEvent
  <2>2. /\ \A k \in DOMAIN wire' \ DOMAIN wire : wire'[k] \in Event => k = Len(wire')
        /\ \A k \in DOMAIN wire' \ DOMAIN wire : Terminal(wire'[k]) => ~server'.open
        /\ \A k \in DOMAIN wire' \ DOMAIN wire :
              (wire'[k] \in Event /\ ~Starts(wire'[k])) \/ (wire'[k] \in Answer /\ Names(wire'[k])) => server.open
        /\ server'.open => server.open \/ \E m \in DOMAIN wire' \ DOMAIN wire : Starts(wire'[m])
    BY <1>3, <1>4, <1>5, <2>1, EventIs
  <2>3. UNCHANGED <<chain, run, answers>>
    BY <1>3
  <2> QED BY <1>1, <1>4, <1>5, <2>2, <2>3, FreshGrows
<1> QED BY <1>7, <1>8, <1>9, <1>10 DEF OrderHolds

\* The first line of the wire is read: the others move up.
LEMMA WireShifts ==
    ASSUME Typed, wire # <<>>, wire' = Tail(wire)
    PROVE  /\ Len(wire') + 1 = Len(wire) /\ Len(wire) \in Nat /\ 0 < Len(wire)
           /\ 1 \in DOMAIN wire /\ Head(wire) = wire[1] /\ Head(wire) \in Lines
           /\ \A k \in DOMAIN wire' : k + 1 \in DOMAIN wire /\ wire'[k] = wire[k + 1] /\ k \in Nat /\ 0 < k
           /\ \A k \in DOMAIN wire :
                 k \in Nat /\ 0 < k /\ (k # 1 => k - 1 \in DOMAIN wire' /\ wire'[k - 1] = wire[k] /\ 1 < k)
<1>1. /\ Len(wire') = Len(wire) - 1 /\ Len(wire) \in Nat /\ 1 \in DOMAIN wire
      /\ DOMAIN wire' = 1 .. Len(wire) - 1 /\ DOMAIN wire = 1 .. Len(wire)
      /\ \A k \in DOMAIN wire' : k + 1 \in DOMAIN wire /\ wire'[k] = wire[k + 1]
      /\ Head(wire) = wire[1] /\ Head(wire) \in Lines
  BY TailIs DEF Typed
<1>2. \A k \in DOMAIN wire' : k \in Nat /\ 0 < k
  BY <1>1
<1>3. \A k \in DOMAIN wire : k \in Nat /\ 0 < k /\ (k # 1 => k - 1 \in DOMAIN wire' /\ 1 < k)
  BY <1>1
<1>4. ASSUME NEW k \in DOMAIN wire, k # 1 PROVE wire'[k - 1] = wire[k]
  <2>1. (k - 1) + 1 = k
    BY <1>3
  <2> QED BY <1>1, <1>3, <1>4, <2>1
<1>5. Len(wire') + 1 = Len(wire) /\ 0 < Len(wire)
  BY <1>1
<1> QED BY <1>1, <1>2, <1>3, <1>4, <1>5

\* A notice that is read joins those to be handled.
LEMMA OrderReadsNotice ==
    ASSUME Typed, Typed', OrderHolds, Read, Head(wire) \in Event
    PROVE  OrderHolds'
<1> DEFINE l == Head(wire)
<1>1. TurnsHold /\ ReplyFirst /\ LastTurn /\ FreshHolds /\ TimerHolds
  BY DEF OrderHolds
<1>2. /\ wire # <<>> /\ wire' = Tail(wire) /\ chain' = Append(chain, l)
      /\ UNCHANGED <<kind, server, asked, awaited, answers, phase>>
  BY DEF Read
<1>3. /\ run'.timer = run.timer /\ run'.inHand = run.inHand /\ run'.goalLater = run.goalLater
  BY DEF Read, Typed, RunState
<1>4. /\ Len(wire') + 1 = Len(wire) /\ Len(wire) \in Nat /\ 0 < Len(wire)
      /\ 1 \in DOMAIN wire /\ l = wire[1] /\ l \in Event
      /\ \A k \in DOMAIN wire' : k + 1 \in DOMAIN wire /\ wire'[k] = wire[k + 1] /\ k \in Nat /\ 0 < k
      /\ \A k \in DOMAIN wire :
            k \in Nat /\ 0 < k /\ (k # 1 => k - 1 \in DOMAIN wire' /\ wire'[k - 1] = wire[k] /\ 1 < k)
  BY <1>2, WireShifts
<1>5. /\ DOMAIN chain' = 1 .. Len(chain) + 1 /\ DOMAIN chain = 1 .. Len(chain) /\ Len(chain) \in Nat
      /\ \A k \in DOMAIN chain : chain'[k] = chain[k]
      /\ chain'[Len(chain) + 1] = l
  <2>1. chain \in Seq(Event) /\ l \in Event
    BY DEF Typed
  <2> QED BY <1>2, <2>1, AppendIs
<1>6. /\ \A k \in DOMAIN chain : k \in DOMAIN chain' /\ k < Len(chain) + 1 /\ k \in Nat
      /\ Len(chain) + 1 \in DOMAIN chain'
      /\ \A k \in DOMAIN chain' : k \in DOMAIN chain \/ k = Len(chain) + 1
  BY <1>5
<1> HIDE DEF l
<1>7. server.turn # 0 /\ phase # "boot" /\ ~(phase = "start" /\ "start" \in awaited)
  <2>1. server.turn # 0
    BY <1>1, <1>4 DEF TurnsHold, NoEvents
  <2>2. phase # "boot"
    BY <1>1, <2>1 DEF TurnsHold
  <2>3. ASSUME phase = "start", "start" \in awaited PROVE FALSE
    <3>1. PICK k \in DOMAIN wire : k < 1
      BY <1>1, <1>4, <2>3 DEF ReplyFirst
    <3> QED BY <1>4, <3>1
  <2> QED BY <2>1, <2>2, <2>3
<1>8. TurnsHold'
  BY <1>1, <1>2, <1>3, <1>7 DEF TurnsHold
<1>9. ReplyFirst'
  BY <1>2, <1>7 DEF ReplyFirst
<1>10. LastTurn'
  <2>1. EndKnown' => EndKnown
    BY <1>3, <1>4, <1>5, <1>6 DEF EndKnown
  <2> QED BY <1>1, <1>2, <2>1 DEF LastTurn
<1>11. ASSUME NEW n \in Nat, 0 < n, Fresh(n + 1) PROVE Fresh(n)'
  <2>1. StartsBefore(n + 1) => Starts(l) \/ StartsBefore(n)'
    <3> SUFFICES ASSUME NEW m \in DOMAIN wire, m < n + 1, Starts(wire[m]), m # 1 PROVE StartsBefore(n)'
      BY <1>4 DEF StartsBefore
    <3>1. m - 1 \in DOMAIN wire' /\ wire'[m - 1] = wire[m] /\ m - 1 < n
      BY <1>4, <1>11
    <3> QED BY <3>1 DEF StartsBefore
  <2>2. Starts(l) => Len(chain) + 1 \in DOMAIN chain' /\ Starts(chain'[Len(chain) + 1])
    BY <1>5, <1>6
  <2>3. run'.timer => (\E m \in DOMAIN chain' : Starts(chain'[m])) \/ StartsBefore(n)'
    <3> SUFFICES ASSUME run.timer PROVE (\E m \in DOMAIN chain' : Starts(chain'[m])) \/ StartsBefore(n)'
      BY <1>3
    <3>1. CASE StartsBefore(n + 1)
      BY <2>1, <2>2, <3>1
    <3>2. CASE \E m \in DOMAIN chain : Starts(chain[m])
      BY <1>5, <1>6, <3>2
    <3> QED BY <1>11, <3>1, <3>2 DEF Fresh
  <2>4. ASSUME NEW j \in DOMAIN chain', Terminal(chain'[j])
        PROVE  (\E m \in DOMAIN chain' : j < m /\ Starts(chain'[m])) \/ StartsBefore(n)'
    <3>1. CASE j \in DOMAIN chain
      <4>1. Terminal(chain[j])
        BY <1>5, <2>4, <3>1
      <4>2. CASE StartsBefore(n + 1)
        BY <1>6, <2>1, <2>2, <3>1, <4>2
      <4>3. CASE \E m \in DOMAIN chain : j < m /\ Starts(chain[m])
        BY <1>5, <1>6, <4>3
      <4> QED BY <1>11, <3>1, <4>1, <4>2, <4>3 DEF Fresh
    <3>2. CASE j = Len(chain) + 1
      <4>1. Terminal(wire[1]) /\ 1 < n + 1
        BY <1>4, <1>5, <1>11, <2>4, <3>2
      <4>2. PICK m \in DOMAIN wire : 1 < m /\ m < n + 1 /\ Starts(wire[m])
        BY <1>4, <1>11, <4>1 DEF Fresh
      <4>3. m - 1 \in DOMAIN wire' /\ wire'[m - 1] = wire[m] /\ m - 1 < n
        BY <1>4, <1>11, <4>2
      <4> QED BY <4>2, <4>3 DEF StartsBefore
    <3> QED BY <1>6, <3>1, <3>2
  <2>5. ASSUME NEW j \in DOMAIN wire', j < n, Terminal(wire'[j])
        PROVE  \E m \in DOMAIN wire' : j < m /\ m < n /\ Starts(wire'[m])
    <3>1. j + 1 \in DOMAIN wire /\ j + 1 < n + 1 /\ Terminal(wire[j + 1]) /\ j \in Nat /\ 0 < j
      BY <1>4, <1>11, <2>5
    <3>2. PICK m \in DOMAIN wire : j + 1 < m /\ m < n + 1 /\ Starts(wire[m])
      BY <1>11, <3>1 DEF Fresh
    <3>3. m # 1 /\ j < m - 1 /\ m - 1 < n
      BY <1>4, <1>11, <3>1, <3>2
    <3> QED BY <1>4, <3>2, <3>3
  <2> QED BY <2>3, <2>4, <2>5 DEF Fresh
<1>12. ASSUME NEW k \in DOMAIN chain', ~Starts(chain'[k]) PROVE FreshRead(k)'
  <2>1. CASE k \in DOMAIN chain
    <3>1. FreshRead(k)
      BY <1>1, <1>5, <1>12, <2>1 DEF FreshHolds
    <3>2. \A j \in DOMAIN chain' : j < k => j \in DOMAIN chain /\ chain'[j] = chain[j]
      BY <1>5, <1>6, <2>1
    <3>3. \A j \in DOMAIN chain : j \in DOMAIN chain' /\ chain'[j] = chain[j]
      BY <1>5, <1>6
    <3> QED BY <1>3, <3>1, <3>2, <3>3 DEF FreshRead
  <2>2. CASE k = Len(chain) + 1
    <3>1. Fresh(1)
      BY <1>1, <1>4, <1>5, <1>12, <2>2 DEF FreshHolds
    <3>2. ~StartsBefore(1)
      BY <1>4 DEF StartsBefore
    <3>3. \A j \in DOMAIN chain : j \in DOMAIN chain' /\ chain'[j] = chain[j] /\ j < k
      BY <1>5, <1>6, <2>2
    <3>4. \A j \in DOMAIN chain' : j < k => j \in DOMAIN chain
      BY <1>5, <2>2
    <3>5. run.timer => \E m \in DOMAIN chain : Starts(chain[m])
      BY <3>1, <3>2 DEF Fresh
    <3>6. \A j \in DOMAIN chain : Terminal(chain[j]) => \E m \in DOMAIN chain : j < m /\ Starts(chain[m])
      BY <3>1, <3>2 DEF Fresh
    <3> QED BY <1>3, <3>3, <3>4, <3>5, <3>6 DEF FreshRead
  <2> QED BY <1>6, <2>1, <2>2
<1>13. FreshHolds'
  <2>1. server'.open => Fresh(Len(wire) + 1)
    BY <1>1, <1>2 DEF FreshHolds
  <2>2. ASSUME server'.open PROVE \A n : n = Len(wire) => Fresh(n)'
    BY <1>4, <1>11, <2>1, <2>2
  <2>3. server'.open => Fresh(Len(wire) + 1)'
    BY <1>4, <2>2
  <2>4. ASSUME NEW k \in DOMAIN wire',
               (wire'[k] \in Event /\ ~Starts(wire'[k])) \/ (wire'[k] \in Answer /\ Names(wire'[k]))
        PROVE  Fresh(k)'
    <3>1. Fresh(k + 1)
      BY <1>1, <1>4, <2>4 DEF FreshHolds
    <3> QED BY <1>4, <1>11, <3>1
  <2> QED BY <1>12, <2>3, <2>4 DEF FreshHolds
<1>14. TimerHolds'
  <2>1. chain' # <<>>
    BY <1>6
  <2> QED BY <1>1, <1>3, <2>1 DEF TimerHolds
<1> QED BY <1>8, <1>9, <1>10, <1>13, <1>14 DEF OrderHolds

\* A reply that is read has the ends of the turns before the one it names
\* followed by a start.
LEMMA OrderReadsReply ==
    ASSUME Typed, Typed', OrderHolds, Read, Head(wire) \notin Event
    PROVE  OrderHolds'
<1> DEFINE l == Head(wire)
<1>1. TurnsHold /\ ReplyFirst /\ LastTurn /\ FreshHolds /\ TimerHolds
  BY DEF OrderHolds
<1>2. /\ wire # <<>> /\ wire' = Tail(wire) /\ awaited' = awaited \ {l.call}
      /\ UNCHANGED <<kind, server, asked, phase, run, chain>>
      /\ answers' \subseteq answers \cup {l}
  BY DEF Read
<1>3. /\ Len(wire') + 1 = Len(wire) /\ Len(wire) \in Nat /\ 0 < Len(wire)
      /\ 1 \in DOMAIN wire /\ l = wire[1] /\ l \in Answer
      /\ \A k \in DOMAIN wire' : k + 1 \in DOMAIN wire /\ wire'[k] = wire[k + 1] /\ k \in Nat /\ 0 < k
      /\ \A k \in DOMAIN wire :
            k \in Nat /\ 0 < k /\ (k # 1 => k - 1 \in DOMAIN wire' /\ wire'[k - 1] = wire[k] /\ 1 < k)
  BY <1>2, WireShifts DEF Lines
<1>4. ~Starts(l) /\ ~Terminal(l)
  BY DEF Starts, Terminal
<1> HIDE DEF l
<1>5. TurnsHold'
  <2>1. NoEvents => NoEvents'
    BY <1>2, <1>3 DEF NoEvents
  <2>2. phase = "boot" => /\ \A k \in DOMAIN wire' : OnWire(k, "thread")' => wire'[k].turn = 0
                          /\ \A a \in answers' : a.call = "thread" => a.turn \in {0, -1}
    BY <1>1, <1>2, <1>3 DEF TurnsHold, OnWire
  <2> QED BY <1>1, <1>2, <2>1, <2>2 DEF TurnsHold
<1>6. ReplyFirst'
  <2> SUFFICES ASSUME phase = "start", "start" \in awaited, l.call # "start"
               PROVE  /\ chain = <<>>
                      /\ server.turn # 0 => \E k \in DOMAIN wire' : OnWire(k, "start")'
                      /\ \A j \in DOMAIN wire' : wire'[j] \in Event => \E k \in DOMAIN wire' : k < j /\ OnWire(k, "start")'
    BY <1>2 DEF ReplyFirst
  <2>1. \A k \in DOMAIN wire : OnWire(k, "start") => k # 1 /\ k - 1 \in DOMAIN wire' /\ OnWire(k - 1, "start")'
    <3> SUFFICES ASSUME NEW k \in DOMAIN wire, OnWire(k, "start")
                 PROVE  k # 1 /\ k - 1 \in DOMAIN wire' /\ OnWire(k - 1, "start")'
      OBVIOUS
    <3>1. k # 1
      BY <1>3 DEF OnWire
    <3>2. k - 1 \in DOMAIN wire' /\ wire'[k - 1] = wire[k]
      BY <1>3, <3>1
    <3> QED BY <3>1, <3>2 DEF OnWire
  <2>2. server.turn # 0 => \E k \in DOMAIN wire' : OnWire(k, "start")'
    BY <1>1, <2>1 DEF ReplyFirst
  <2>3. ASSUME NEW j \in DOMAIN wire', wire'[j] \in Event
        PROVE  \E k \in DOMAIN wire' : k < j /\ OnWire(k, "start")'
    <3>1. j + 1 \in DOMAIN wire /\ wire[j + 1] \in Event /\ j \in Nat
      BY <1>3, <2>3
    <3>2. PICK k \in DOMAIN wire : k < j + 1 /\ OnWire(k, "start")
      BY <1>1, <3>1 DEF ReplyFirst
    <3>3. k - 1 < j
      BY <1>3, <3>1, <3>2
    <3> QED BY <2>1, <3>2, <3>3
  <2> QED BY <1>1, <2>2, <2>3 DEF ReplyFirst
<1>7. LastTurn'
  <2>1. EndKnown' => EndKnown
    BY <1>2, <1>3 DEF EndKnown
  <2> QED BY <1>1, <1>2, <2>1 DEF LastTurn
<1>8. ASSUME NEW n \in Nat, Fresh(n + 1) PROVE Fresh(n)'
  <2>1. StartsBefore(n + 1) => StartsBefore(n)'
    <3> SUFFICES ASSUME NEW m \in DOMAIN wire, m < n + 1, Starts(wire[m]) PROVE StartsBefore(n)'
      BY DEF StartsBefore
    <3>1. m # 1
      BY <1>3, <1>4
    <3>2. m - 1 \in DOMAIN wire' /\ wire'[m - 1] = wire[m] /\ m - 1 < n
      BY <1>3, <1>8, <3>1
    <3> QED BY <3>2 DEF StartsBefore
  <2>2. ASSUME NEW j \in DOMAIN wire', j < n, Terminal(wire'[j])
        PROVE  \E m \in DOMAIN wire' : j < m /\ m < n /\ Starts(wire'[m])
    <3>1. j + 1 \in DOMAIN wire /\ j + 1 < n + 1 /\ Terminal(wire[j + 1]) /\ j \in Nat /\ 0 < j
      BY <1>3, <1>8, <2>2
    <3>2. PICK m \in DOMAIN wire : j + 1 < m /\ m < n + 1 /\ Starts(wire[m])
      BY <1>8, <3>1 DEF Fresh
    <3>3. m # 1 /\ j < m - 1 /\ m - 1 < n
      BY <1>3, <1>8, <3>1, <3>2
    <3> QED BY <1>3, <3>2, <3>3
  <2> QED BY <1>2, <1>8, <2>1, <2>2 DEF Fresh
<1>9. FreshHolds'
  <2>1. server'.open => Fresh(Len(wire) + 1)
    BY <1>1, <1>2 DEF FreshHolds
  <2>2. ASSUME server'.open PROVE \A n : n = Len(wire) => Fresh(n)'
    BY <1>3, <1>8, <2>1, <2>2
  <2>3. server'.open => Fresh(Len(wire) + 1)'
    BY <1>3, <2>2
  <2>4. ASSUME NEW k \in DOMAIN wire',
               (wire'[k] \in Event /\ ~Starts(wire'[k])) \/ (wire'[k] \in Answer /\ Names(wire'[k]))
        PROVE  Fresh(k)'
    <3>1. Fresh(k + 1)
      BY <1>1, <1>3, <2>4 DEF FreshHolds
    <3> QED BY <1>3, <1>8, <3>1
  <2>5. \A k \in DOMAIN chain' : ~Starts(chain'[k]) => FreshRead(k)'
    BY <1>1, <1>2 DEF FreshHolds, FreshRead
  <2> QED BY <2>3, <2>4, <2>5 DEF FreshHolds
<1>10. TimerHolds'
  <2>1. ASSUME run.timer, Names(l) PROVE chain # <<>>
    <3>1. Fresh(1)
      BY <1>1, <1>3, <2>1 DEF FreshHolds
    <3>2. ~StartsBefore(1)
      BY <1>3 DEF StartsBefore
    <3> QED BY <2>1, <3>1, <3>2 DEF Fresh
  <2> QED BY <1>1, <1>2, <2>1 DEF TimerHolds
<1> QED BY <1>5, <1>6, <1>7, <1>9, <1>10 DEF OrderHolds

\* A call that times out takes a reply off the wire, and no notice.
LEMMA OrderTimesOut ==
    ASSUME Typed, Typed', CallsHold, OrderHolds, NEW call \in Calls, Timeout(call)
    PROVE  OrderHolds'
<1> DEFINE lost == Reply(call, -1, FALSE)
<1>1. TurnsHold /\ ReplyFirst /\ LastTurn /\ FreshHolds /\ TimerHolds
  BY DEF OrderHolds
<1>2. /\ call \in awaited /\ awaited' = awaited \ {call}
      /\ answers' = answers \cup {lost} /\ ~lost.ok /\ lost.turn = -1
      /\ DOMAIN asked' = DOMAIN asked /\ \A k \in DOMAIN asked : asked'[k].call = asked[k].call
      /\ UNCHANGED <<kind, server, phase, run, chain>>
  BY TimeoutIs DEF client, Lost
<1>3. PICK f : From(f, call)
  BY TimeoutIs DEF Without
<1>4. /\ \A k \in DOMAIN wire' : f[k] \in DOMAIN wire /\ wire'[k] = wire[f[k]] /\ f[k] \in Nat
      /\ \A j, k \in DOMAIN wire' : j < k => f[j] < f[k]
      /\ \A k \in DOMAIN wire : OnWire(k, call) \/ \E j \in DOMAIN wire' : f[j] = k
  BY <1>3 DEF From
<1>5. /\ DOMAIN wire = 1 .. Len(wire) /\ DOMAIN wire' = 1 .. Len(wire') /\ Len(wire) \in Nat /\ Len(wire') \in Nat
  BY ElementIs DEF Typed
<1>6. /\ \A k \in DOMAIN wire' : k \in Nat /\ k < Len(wire') + 1
      /\ \A k \in DOMAIN wire : k \in Nat /\ k < Len(wire) + 1
  BY <1>5
<1>7. ASSUME NEW j \in DOMAIN wire', NEW k \in DOMAIN wire', f[j] < f[k] PROVE j < k
  <2>1. CASE k < j
    BY <1>4, <1>7, <2>1
  <2>2. CASE j = k
    BY <1>4, <1>7, <2>2
  <2> QED BY <1>6, <2>1, <2>2
<1> HIDE DEF lost
\* A line of an event, or of another call, is still there.
<1>8. \A k \in DOMAIN wire : wire[k] \in Event => \E j \in DOMAIN wire' : f[j] = k /\ wire'[j] = wire[k]
  BY <1>4, AnswerIsNoEvent DEF OnWire
<1>9. \A k \in DOMAIN wire : Starts(wire[k]) => \E j \in DOMAIN wire' : f[j] = k /\ Starts(wire'[j])
  BY <1>8, EventIs
<1>10. TurnsHold'
  <2>1. NoEvents => NoEvents'
    BY <1>2, <1>4 DEF NoEvents
  <2>2. phase = "boot" => /\ \A k \in DOMAIN wire' : OnWire(k, "thread")' => wire'[k].turn = 0
                          /\ \A a \in answers' : a.call = "thread" => a.turn \in {0, -1}
    BY <1>1, <1>2, <1>4 DEF TurnsHold, OnWire
  <2>3. /\ \A k \in DOMAIN asked' : asked'[k].call = "start" => server.turn = 0
        /\ \A j, k \in DOMAIN asked' : asked'[j].call = "start" /\ asked'[k].call = "start" => j = k
    BY <1>1, <1>2 DEF TurnsHold
  <2>4. /\ phase \in {"boot", "start"} /\ server.turn = 0 =>
              ~server.goal /\ \A k \in DOMAIN asked' : asked'[k].call # "goal"
        /\ (\E k \in DOMAIN asked' : asked'[k].call = "goal") \/ server.goal => kind.goal
    BY <1>1, <1>2 DEF TurnsHold
  <2> QED BY <1>1, <1>2, <2>1, <2>2, <2>3, <2>4 DEF TurnsHold
<1>11. ReplyFirst'
  <2> SUFFICES ASSUME phase = "start", "start" \in awaited, call # "start"
               PROVE  /\ chain = <<>>
                      /\ server.turn # 0 => \E k \in DOMAIN wire' : OnWire(k, "start")'
                      /\ \A j \in DOMAIN wire' : wire'[j] \in Event => \E k \in DOMAIN wire' : k < j /\ OnWire(k, "start")'
    BY <1>2 DEF ReplyFirst
  <2>1. ASSUME NEW k \in DOMAIN wire, OnWire(k, "start")
        PROVE  \E j \in DOMAIN wire' : f[j] = k /\ OnWire(j, "start")'
    <3>1. ~OnWire(k, call)
      BY <2>1 DEF OnWire
    <3>2. PICK j \in DOMAIN wire' : f[j] = k
      BY <1>4, <3>1
    <3> QED BY <1>4, <2>1, <3>2 DEF OnWire
  <2>2. server.turn # 0 => \E k \in DOMAIN wire' : OnWire(k, "start")'
    BY <1>1, <2>1 DEF ReplyFirst
  <2>3. ASSUME NEW j \in DOMAIN wire', wire'[j] \in Event
        PROVE  \E k \in DOMAIN wire' : k < j /\ OnWire(k, "start")'
    <3>1. PICK k \in DOMAIN wire : k < f[j] /\ OnWire(k, "start")
      BY <1>1, <1>4, <2>3 DEF ReplyFirst
    <3>2. PICK i \in DOMAIN wire' : f[i] = k /\ OnWire(i, "start")'
      BY <2>1, <3>1
    <3>3. i < j
      BY <1>7, <3>1, <3>2
    <3> QED BY <3>2, <3>3
  <2> QED BY <1>1, <2>2, <2>3 DEF ReplyFirst
<1>12. LastTurn'
  <2>1. EndKnown' => EndKnown
    BY <1>2, <1>4 DEF EndKnown
  <2> QED BY <1>1, <1>2, <2>1 DEF LastTurn
\* What n, a place on the wire or its end, was before
<1>13. ASSUME NEW n, NEW b,
              \A k \in DOMAIN wire' : f[k] < b => k < n,
              \A k \in DOMAIN wire' : k < n => f[k] < b,
              Fresh(b)
       PROVE  Fresh(n)'
  <2>1. StartsBefore(b) => StartsBefore(n)'
    <3> SUFFICES ASSUME NEW m \in DOMAIN wire, m < b, Starts(wire[m]) PROVE StartsBefore(n)'
      BY DEF StartsBefore
    <3>1. PICK j \in DOMAIN wire' : f[j] = m /\ Starts(wire'[j])
      BY <1>9
    <3>2. j < n
      BY <1>13, <3>1
    <3> QED BY <3>1, <3>2 DEF StartsBefore
  <2>2. ASSUME NEW j \in DOMAIN wire', j < n, Terminal(wire'[j])
        PROVE  \E m \in DOMAIN wire' : j < m /\ m < n /\ Starts(wire'[m])
    <3>1. f[j] \in DOMAIN wire /\ f[j] < b /\ Terminal(wire[f[j]])
      BY <1>4, <1>13, <2>2
    <3>2. PICK m \in DOMAIN wire : f[j] < m /\ m < b /\ Starts(wire[m])
      BY <1>13, <3>1 DEF Fresh
    <3>3. PICK i \in DOMAIN wire' : f[i] = m /\ Starts(wire'[i])
      BY <1>9, <3>2
    <3>4. j < i /\ i < n
      BY <1>7, <1>13, <3>2, <3>3
    <3> QED BY <3>3, <3>4
  <2> QED BY <1>2, <1>13, <2>1, <2>2 DEF Fresh
<1>14. FreshHolds'
  <2>1. server'.open => Fresh(Len(wire) + 1)'
    <3> SUFFICES ASSUME server.open PROVE \A n : n = Len(wire') + 1 => Fresh(n)'
      BY <1>2
    <3>1. Fresh(Len(wire) + 1)
      BY <1>1 DEF FreshHolds
    <3> DEFINE b == Len(wire) + 1
    <3>2. \A k \in DOMAIN wire' : f[k] < b /\ k < Len(wire') + 1
      BY <1>4, <1>6
    <3>3. Fresh(b)
      BY <3>1
    <3> HIDE DEF b
    <3> QED BY <1>13, <3>2, <3>3
  <2>2. ASSUME NEW k \in DOMAIN wire',
               (wire'[k] \in Event /\ ~Starts(wire'[k])) \/ (wire'[k] \in Answer /\ Names(wire'[k]))
        PROVE  Fresh(k)'
    <3>1. Fresh(f[k])
      BY <1>1, <1>4, <2>2 DEF FreshHolds
    <3>2. /\ \A j \in DOMAIN wire' : f[j] < f[k] => j < k
          /\ \A j \in DOMAIN wire' : j < k => f[j] < f[k]
      BY <1>4, <1>7
    <3> QED BY <1>13, <3>1, <3>2
  <2>3. \A k \in DOMAIN chain' : ~Starts(chain'[k]) => FreshRead(k)'
    BY <1>1, <1>2 DEF FreshHolds, FreshRead
  <2> QED BY <2>1, <2>2, <2>3 DEF FreshHolds
<1>15. TimerHolds'
  BY <1>1, <1>2 DEF TimerHolds, Names
<1> QED BY <1>10, <1>11, <1>12, <1>14, <1>15 DEF OrderHolds

\* A step of the run that asks for no turn and no goal, and leaves the notices
CallsGoOn ==
    /\ UNCHANGED <<kind, server, wire, chain>>
    /\ "start" \in awaited' => "start" \in awaited
    /\ \A k \in DOMAIN asked' : asked'[k].call \in {"start", "goal"} =>
          k \in DOMAIN asked /\ asked[k].call = asked'[k].call
    /\ \A a \in answers' : a \in answers \/ (~a.ok /\ a.turn = -1)
Calm ==
    /\ CallsGoOn
    /\ phase' = phase \/ phase' = "up"
    /\ run'.timer = run.timer /\ run'.inHand = run.inHand /\ run'.goalLater = run.goalLater
    /\ run'.turn # 0 => run.turn # 0 \/ ~run.timer \/ \E a \in answers : Names(a)

\* Such a step keeps the order of the notices.
LEMMA OrderCalm ==
    ASSUME Typed, OrderHolds, Calm
    PROVE  OrderHolds'
<1>1. TurnsHold /\ TimerHolds
  BY DEF OrderHolds
<1>2. phase' = "start" => phase = "start"
  BY DEF Calm
<1>3. phase' = "start" => ~run'.timer /\ run'.inHand = "no"
  BY <1>1, <1>2 DEF Calm, TurnsHold
<1>4. run'.timer => /\ run.timer /\ run'.inHand = "no"
                    /\ run'.turn # 0 => run.turn # 0 \/ \E a \in answers : Names(a)
  BY <1>1 DEF Calm, TimerHolds
<1>5. run'.goalLater \/ run'.inHand = "goal" => kind.goal
  BY <1>1 DEF Calm, TurnsHold
<1>6. /\ UNCHANGED <<kind, wire, server, chain>>
      /\ "start" \in awaited' => "start" \in awaited
      /\ \A k \in DOMAIN asked' : asked'[k].call = "start" => k \in DOMAIN asked /\ asked[k].call = "start"
      /\ \A k \in DOMAIN asked' : asked'[k].call = "goal" => \E j \in DOMAIN asked : asked[j].call = "goal"
      /\ \A a \in answers' : a \in answers \/ (~a.ok /\ a.turn = -1)
      /\ phase' = phase \/ phase' = "up"
  BY DEF Calm, CallsGoOn
<1> QED BY <1>3, <1>4, <1>5, <1>6, OrderStays

\* A call for something else than a turn or a goal; a caller that goes on
LEMMA CallsGoOnIs ==
    ASSUME Typed, UNCHANGED <<kind, server, wire, chain>>
    PROVE  /\ \A rest \in SUBSET answers : \A r :
                 AskWith(rest, r) /\ r.call \notin {"start", "goal"} => CallsGoOn
           /\ answers' \subseteq answers /\ UNCHANGED <<asked, awaited>> => CallsGoOn
<1>1. ASSUME NEW rest \in SUBSET answers, NEW r, AskWith(rest, r), r.call \notin {"start", "goal"}
      PROVE  CallsGoOn
  <2>1. CASE run.closed
    <3>1. /\ UNCHANGED <<asked, awaited>> /\ answers' = rest \cup {Reply(r.call, -1, FALSE)}
          /\ Reply(r.call, -1, FALSE).turn = -1 /\ ~Reply(r.call, -1, FALSE).ok
      BY <1>1, <2>1 DEF AskWith, Reply
    <3> QED BY <3>1 DEF CallsGoOn
  <2>2. CASE ~run.closed
    <3>1. asked' = Append(asked, r) /\ awaited' = awaited \cup {r.call} /\ answers' = rest
      BY <1>1, <2>2 DEF AskWith
    <3>2. asked \in Seq(Requests)
      BY DEF Typed
    <3>3. \A k \in DOMAIN asked' : (k \in DOMAIN asked /\ asked'[k] = asked[k]) \/ asked'[k] = r
      BY <3>1, <3>2
    <3> QED BY <1>1, <3>1, <3>3 DEF CallsGoOn
  <2> QED BY <2>1, <2>2
<1>2. ASSUME answers' \subseteq answers, UNCHANGED <<asked, awaited>> PROVE CallsGoOn
  BY <1>2 DEF CallsGoOn
<1> QED BY <1>1, <1>2

\* A flush that gives up does not start a turn: a run that resumed none that
\* was open has no prompt in the chain of flushes.
LEMMA GivesUpCalm ==
    ASSUME Typed, JobsHold, OrderHolds, NEW rest \in SUBSET answers, flush.jobs # <<>>, GivesUp(rest),
           UNCHANGED <<kind, server, wire, chain>>
    PROVE  Calm
<1>1. Head(flush.jobs) # 0
  BY PromptJob DEF OrderHolds, TurnsHold
<1>2. run' = [run EXCEPT !.turn = 0] /\ answers' = rest /\ UNCHANGED <<asked, awaited, phase>>
  BY <1>1 DEF GivesUp
<1>3. CallsGoOn
  BY <1>2, CallsGoOnIs
<1>4. /\ run'.timer = run.timer /\ run'.inHand = run.inHand /\ run'.goalLater = run.goalLater /\ run'.turn = 0
  BY <1>2 DEF Typed, RunState
<1> QED BY <1>2, <1>3, <1>4 DEF Calm

\* The steps of the flushes
LEMMA CalmFlushes ==
    ASSUME Typed, CallsHold, StagesHold, JobsHold, OrderHolds, Going',
           \/ \E s \in Steers : Steer(s)
           \/ FlushNothing \/ FlushBegin \/ Refresh \/ FlushAgain
           \/ \E a \in answers : Steered(a) \/ SteerStale(a) \/ Refreshed(a) \/ SteerLost(a)
    PROVE  Calm
<1>1. run \in RunState
  BY DEF Typed
<1>2. \A c, t, l : Request(c, t, l).call = c
  BY DEF Request
<1>3. CASE (\E s \in Steers : Steer(s)) \/ FlushNothing
  <2>1. /\ UNCHANGED <<kind, server, wire, chain, asked, awaited, answers, run>>
        /\ phase' = phase \/ phase' = "up"
    BY <1>3 DEF Steer, FlushNothing, Ready, rpc
  <2>2. CallsGoOn
    BY <2>1, CallsGoOnIs
  <2> QED BY <2>1, <2>2 DEF Calm
<1>4. CASE FlushBegin \/ Refresh
  <2>1. UNCHANGED <<kind, server, wire, chain, run, phase>>
    BY <1>4 DEF FlushBegin, Refresh
  <2>2. \E r : Ask(r) /\ r.call \in {"steer", "refresh"}
    <3>1. CASE FlushBegin
      BY <1>2, <3>1 DEF FlushBegin
    <3>2. CASE Refresh
      BY <1>2, <3>2 DEF Refresh
    <3> QED BY <1>4, <3>1, <3>2
  <2>3. CallsGoOn
    BY <2>1, <2>2, CallsGoOnIs DEF Ask
  <2> QED BY <2>1, <2>3 DEF Calm
<1>5. CASE FlushAgain
  <2>1. flush.jobs # <<>> /\ UNCHANGED <<kind, server, wire, chain>>
    BY <1>5 DEF FlushAgain, JobsHold
  <2>2. CASE GivesUp(answers)
    BY <2>1, <2>2, GivesUpCalm
  <2>3. CASE ~GivesUp(answers)
    <3>1. UNCHANGED <<phase, run>> /\ (UNCHANGED rpc \/ Ask(Request("steer", run.turn, flush.hand)))
      BY <1>5, <2>3 DEF FlushAgain
    <3>2. CASE UNCHANGED rpc
      BY <2>1, <3>1, <3>2, CallsGoOnIs DEF rpc, Calm
    <3>3. CASE Ask(Request("steer", run.turn, flush.hand))
      <4>1. CallsGoOn
        BY <1>2, <2>1, <3>3, CallsGoOnIs DEF Ask
      <4> QED BY <3>1, <4>1 DEF Calm
    <3> QED BY <3>1, <3>2, <3>3
  <2> QED BY <2>2, <2>3
<1>6. ASSUME NEW a \in answers, Steered(a) \/ Refreshed(a) PROVE Calm
  <2>1. /\ UNCHANGED <<kind, server, wire, chain>> /\ Consume(a)
        /\ phase' = phase \/ phase' = "up"
    BY <1>6 DEF Steered, Refreshed, Ready
  <2>2. CallsGoOn
    BY <2>1, CallsGoOnIs DEF Consume
  <2>3. /\ run'.timer = run.timer /\ run'.inHand = run.inHand /\ run'.goalLater = run.goalLater
        /\ run'.turn = run.turn \/ (a.call \in {"steer", "refresh"} /\ a.ok /\ run'.turn = a.turn)
    BY <1>1, <1>6 DEF Steered, Refreshed, Resume, RunState
  <2>4. run'.turn # 0 => run.turn # 0 \/ \E b \in answers : Names(b)
    BY <2>3 DEF Names
  <2> QED BY <2>1, <2>2, <2>3, <2>4 DEF Calm
<1>7. ASSUME NEW a \in answers, SteerStale(a) PROVE Calm
  <2>1. UNCHANGED <<kind, server, wire, chain>>
    BY <1>7 DEF SteerStale
  <2>2. CASE GivesUp(answers \ {a})
    <3>1. flush.jobs # <<>>
      <4>1. Waits("steer")
        BY <1>7, CallerWaits DEF SteerStale, Resume
      <4> QED BY <4>1 DEF Waits, JobsHold
    <3> QED BY <2>1, <2>2, <3>1, GivesUpCalm
  <2>3. CASE ~GivesUp(answers \ {a})
    <3>1. run' = [run EXCEPT !.turn = 0] /\ Consume(a) /\ UNCHANGED phase
      BY <1>7, <2>3 DEF SteerStale
    <3>2. CallsGoOn
      BY <2>1, <3>1, CallsGoOnIs DEF Consume
    <3>3. run'.timer = run.timer /\ run'.inHand = run.inHand /\ run'.goalLater = run.goalLater /\ run'.turn = 0
      BY <1>1, <3>1 DEF RunState
    <3> QED BY <3>1, <3>2, <3>3 DEF Calm
  <2> QED BY <2>2, <2>3
<1>8. ASSUME NEW a \in answers, SteerLost(a) PROVE Calm
  <2>1. Consume(a) /\ UNCHANGED <<kind, server, wire, chain, phase, run>>
    BY <1>8 DEF SteerLost, Finish, Going
  <2>2. CallsGoOn
    BY <2>1, CallsGoOnIs DEF Consume
  <2> QED BY <2>1, <2>2 DEF Calm
<1> QED BY <1>3, <1>4, <1>5, <1>6, <1>7, <1>8

\* The steps of the interruption, a turn that was started and a goal that goes on
LEMMA CalmOthers ==
    ASSUME Typed, StagesHold, OrderHolds, Going',
           \/ Interrupt \/ InterruptAgain \/ GoalTimerFires
           \/ \E a \in answers : \/ InterruptAnswered(a) \/ TurnStarted(a)
                                 \/ (GoalSet(a) /\ run.inHand # "goal")
    PROVE  Calm
<1>1. run \in RunState
  BY DEF Typed
<1>2. \A c, t, l : Request(c, t, l).call = c
  BY DEF Request
<1>3. CASE Interrupt \/ InterruptAgain
  <2>1. UNCHANGED <<kind, server, wire, chain, run, phase>>
    BY <1>3 DEF Interrupt, InterruptAgain
  <2>2. UNCHANGED rpc \/ \E t : Ask(Request("interrupt", t, <<>>))
    <3>1. CASE Interrupt
      BY <3>1 DEF Interrupt
    <3>2. CASE InterruptAgain
      BY <3>2 DEF InterruptAgain
    <3> QED BY <1>3, <3>1, <3>2
  <2>3. CallsGoOn
    <3>1. CASE UNCHANGED rpc
      BY <2>1, <3>1, CallsGoOnIs DEF rpc
    <3>2. CASE \E t : Ask(Request("interrupt", t, <<>>))
      <4>1. \E r : AskWith(answers, r) /\ r.call = "interrupt"
        BY <1>2, <3>2 DEF Ask
      <4> QED BY <2>1, <4>1, CallsGoOnIs
    <3> QED BY <2>2, <3>1, <3>2
  <2> QED BY <2>1, <2>3 DEF Calm
<1>4. CASE GoalTimerFires
  <2>1. /\ UNCHANGED <<kind, server, wire, chain, asked, awaited, answers, phase>>
        /\ run' = [run EXCEPT !.goalTimer = FALSE]
    BY <1>4 DEF GoalTimerFires, Finish, Going, rpc
  <2>2. CallsGoOn
    BY <2>1, CallsGoOnIs
  <2>3. /\ run'.timer = run.timer /\ run'.inHand = run.inHand /\ run'.goalLater = run.goalLater
        /\ run'.turn = run.turn
    BY <1>1, <2>1 DEF RunState
  <2> QED BY <2>1, <2>2, <2>3 DEF Calm
<1>5. ASSUME NEW a \in answers, InterruptAnswered(a) PROVE Calm
  <2>1. UNCHANGED <<kind, server, wire, chain, phase, run>> /\ Consume(a)
    BY <1>5 DEF InterruptAnswered
  <2>2. CallsGoOn
    BY <2>1, CallsGoOnIs DEF Consume
  <2> QED BY <2>1, <2>2 DEF Calm
<1>6. ASSUME NEW a \in answers, TurnStarted(a) PROVE Calm
  <2>1. UNCHANGED <<kind, server, wire, chain>> /\ Consume(a) /\ phase' = "up" /\ a.call = "start"
    BY <1>6 DEF TurnStarted, Resume
  <2>2. CallsGoOn
    BY <2>1, CallsGoOnIs DEF Consume
  <2>3. run'.timer = run.timer /\ run'.inHand = run.inHand /\ run'.goalLater = run.goalLater
    BY <1>1, <1>6 DEF TurnStarted, RunState
  <2>4. phase = "start"
    BY <2>1, CallerWaits DEF Waits
  <2>5. ~run.timer
    BY <2>4 DEF OrderHolds, TurnsHold
  <2> QED BY <2>1, <2>2, <2>3, <2>5 DEF Calm
<1>7. ASSUME NEW a \in answers, GoalSet(a), run.inHand # "goal" PROVE Calm
  <2>1. UNCHANGED <<kind, server, wire, chain, run>> /\ Consume(a) /\ (phase' = phase \/ phase' = "up")
    BY <1>7 DEF GoalSet
  <2>2. CallsGoOn
    BY <2>1, CallsGoOnIs DEF Consume
  <2> QED BY <2>1, <2>2 DEF Calm
<1> QED BY <1>3, <1>4, <1>5, <1>6, <1>7

\* The process dies, or its pipe ends.
LEMMA OrderEnds ==
    ASSUME Typed, OrderHolds, Die \/ Close
    PROVE  OrderHolds'
<1>0. run \in RunState /\ server \in ServerState
  BY DEF Typed
<1>1. TurnsHold /\ TimerHolds
  BY DEF OrderHolds
<1>2. /\ phase = "start" => ~run.timer /\ run.inHand = "no"
      /\ run.timer => run.inHand = "no"
      /\ run.goalLater \/ run.inHand = "goal" => kind.goal
  BY <1>1 DEF TurnsHold, TimerHolds
<1>3. CASE Die
  <2>1. /\ UNCHANGED <<kind, wire, chain, phase, run, awaited, answers>> /\ asked' = <<>>
        /\ server' = [server EXCEPT !.up = FALSE, !.open = FALSE]
    BY <1>3 DEF Die, client
  <2>2. server'.turn = server.turn /\ ~server'.open /\ server'.goal = server.goal
    BY <1>0, <2>1 DEF ServerState
  <2>3. \A k \in DOMAIN asked' : FALSE
    BY <2>1
  <2> QED BY <1>2, <2>1, <2>2, <2>3, OrderStays
<1>4. CASE Close
  <2>1. /\ UNCHANGED <<kind, server, asked, wire, phase, chain>> /\ awaited' = {}
        /\ run' = [run EXCEPT !.closed = TRUE]
        /\ answers' = answers \cup {Reply(call, -1, FALSE) : call \in awaited}
    BY <1>4 DEF Close
  <2>2. /\ run'.timer = run.timer /\ run'.inHand = run.inHand /\ run'.turn = run.turn
        /\ run'.goalLater = run.goalLater
    BY <1>0, <2>1 DEF RunState
  <2>3. \A a \in answers' : a \in answers \/ (~a.ok /\ a.turn = -1)
    BY <2>1 DEF Reply
  <2> QED BY <1>2, <2>1, <2>2, <2>3, OrderStays
<1> QED BY <1>3, <1>4

\* A notice is taken up: the start of a turn calls the completion off, and no
\* other can come while one is scheduled.
LEMMA OrderBegins ==
    ASSUME Typed, CallsHold, StagesHold, OrderHolds, HandleBegin
    PROVE  OrderHolds'
<1>1. TurnsHold /\ ReplyFirst /\ FreshHolds
  BY DEF OrderHolds
<1>2. /\ chain # <<>> /\ Settled({"thread", "refresh"})
      /\ UNCHANGED <<kind, server, asked, awaited, answers, wire, phase, chain>>
      /\ run' = CASE Head(chain).event = "started" -> StartsTurn(Head(chain).turn)
                  [] Head(chain).event = "final" -> [run EXCEPT !.final = TRUE, !.inHand = "begun"]
                  [] OTHER -> [run EXCEPT !.inHand = "begun"]
  BY DEF HandleBegin, rpc
<1>3. 1 \in DOMAIN chain /\ Head(chain) = chain[1] /\ chain[1] \in Event /\ \A m \in DOMAIN chain : ~(m < 1)
  <2>1. chain \in Seq(Event)
    BY DEF Typed
  <2>2. 1 \in DOMAIN chain /\ Head(chain) = chain[1] /\ DOMAIN chain = 1 .. Len(chain) /\ Len(chain) \in Nat
    BY <1>2, <2>1, ElementIs
  <2>3. \A m \in DOMAIN chain : ~(m < 1)
    BY <2>2
  <2> QED BY <2>1, <2>2, <2>3, ElementIs
<1>4. run \in RunState
  BY DEF Typed
<1>5. phase # "start"
  <2> SUFFICES ASSUME phase = "start" PROVE FALSE
    OBVIOUS
  <2>1. "start" \notin awaited
    BY <1>1, <1>2 DEF ReplyFirst
  <2>2. Awaits("start")
    BY DEF StagesHold
  <2> QED BY <1>2, <2>1, <2>2 DEF Awaits, Settled
<1>6. Head(chain).event # "started" => ~run.timer
  <2> SUFFICES ASSUME Head(chain).event # "started" PROVE ~run.timer
    OBVIOUS
  <2>1. FreshRead(1)
    BY <1>1, <1>3 DEF FreshHolds, Starts
  <2> QED BY <1>3, <2>1 DEF FreshRead
<1>7. ~run'.timer /\ run'.inHand = "begun" /\ run'.goalLater = run.goalLater
  <2>1. CASE Head(chain).event = "started"
    BY <1>2, <1>4, <2>1 DEF StartsTurn, RunState
  <2>2. CASE Head(chain).event = "final"
    <3>1. run' = [run EXCEPT !.final = TRUE, !.inHand = "begun"]
      BY <1>2, <2>2
    <3> QED BY <1>4, <1>6, <2>2, <3>1 DEF RunState
  <2>3. CASE Head(chain).event # "started" /\ Head(chain).event # "final"
    <3>1. run' = [run EXCEPT !.inHand = "begun"]
      BY <1>2, <2>3
    <3> QED BY <1>4, <1>6, <2>3, <3>1 DEF RunState
  <2> QED BY <2>1, <2>2, <2>3
<1>8. run'.goalLater \/ run'.inHand = "goal" => kind.goal
  BY <1>1, <1>7 DEF TurnsHold
<1> QED BY <1>2, <1>5, <1>7, <1>8, OrderStays

\* A notice is done with: the end of a turn schedules the completion, or sets
\* the goal that waited for it.
LEMMA OrderHandles ==
    ASSUME Typed, StagesHold, OrderHolds, Going', HandleEnd
    PROVE  OrderHolds'
<1>1. TurnsHold /\ TimerHolds
  BY DEF OrderHolds
<1>2. /\ run.inHand = "begun" /\ Settled({"thread"}) /\ UNCHANGED <<kind, server, phase>>
      /\ run \in RunState
  BY DEF HandleEnd, Typed
<1>3. chain # <<>> /\ ~run.timer /\ phase \notin {"boot", "start"}
  <2>1. chain # <<>>
    BY <1>2 DEF StagesHold
  <2>2. server.turn # 0
    BY <1>1, <2>1 DEF TurnsHold, NoEvents
  <2>3. phase \notin {"boot", "start"}
    BY <1>1, <1>2, <2>2 DEF TurnsHold
  <2> QED BY <1>1, <1>2, <2>1, <2>3 DEF TimerHolds
<1>4. CASE /\ Head(chain).event \in {"started", "final"}
           /\ run' = [run EXCEPT !.inHand = "no"] /\ chain' = Tail(chain) /\ UNCHANGED <<rpc, wire>>
  <2>1. run'.inHand = "no" /\ ~run'.timer /\ run'.goalLater = run.goalLater
    BY <1>2, <1>3, <1>4 DEF RunState
  <2> QED BY <1>2, <1>3, <1>4, <2>1, OrderHandled DEF rpc
<1>5. CASE /\ Head(chain).event = "completed" /\ run.goalLater
           /\ run' = [GoalState(0) EXCEPT !.goalLater = FALSE, !.inHand = "goal"]
           /\ Ask(Request("goal", 0, <<>>)) /\ UNCHANGED <<wire, chain>>
  <2>1. run'.timer = run.timer /\ ~run'.goalLater /\ run'.inHand = "goal"
    BY <1>2, <1>5 DEF GoalState, RunState
  <2>2. kind.goal
    BY <1>1, <1>5 DEF TurnsHold
  <2> DEFINE r == Request("goal", 0, <<>>)
  <2>3. r.call = "goal" /\ AskWith(answers, r)
    BY <1>5 DEF Ask, Request
  <2> HIDE DEF r
  <2>4. /\ "start" \in awaited' => "start" \in awaited
        /\ \A k \in DOMAIN asked' : asked'[k].call = "start" => k \in DOMAIN asked /\ asked[k].call = "start"
        /\ \A a \in answers' : a \in answers \/ (~a.ok /\ a.turn = -1)
    <3>1. CASE run.closed
      <4>1. /\ UNCHANGED <<asked, awaited>> /\ answers' = answers \cup {Reply(r.call, -1, FALSE)}
            /\ Reply(r.call, -1, FALSE).turn = -1 /\ ~Reply(r.call, -1, FALSE).ok
        BY <2>3, <3>1 DEF AskWith, Reply
      <4> QED BY <4>1
    <3>2. CASE ~run.closed
      <4>1. asked' = Append(asked, r) /\ awaited' = awaited \cup {"goal"} /\ answers' = answers
        BY <2>3, <3>2 DEF AskWith
      <4>2. asked \in Seq(Requests)
        BY DEF Typed
      <4>3. \A k \in DOMAIN asked' : (k \in DOMAIN asked /\ asked'[k] = asked[k]) \/ asked'[k] = r
        BY <4>1, <4>2
      <4> QED BY <2>3, <4>1, <4>3
    <3> QED BY <3>1, <3>2
  <2>5. ~run'.timer
    BY <1>3, <2>1
  <2> QED BY <1>2, <1>3, <1>5, <2>1, <2>2, <2>4, <2>5, OrderStays
<1>6. CASE /\ Head(chain).event = "completed"
           /\ run' = [run EXCEPT !.terminal = TRUE, !.turn = 0, !.timer = TRUE, !.inHand = "no"]
           /\ chain' = Tail(chain) /\ UNCHANGED <<rpc, wire>>
  <2>1. run'.inHand = "no" /\ run'.turn = 0 /\ run'.goalLater = run.goalLater
    BY <1>2, <1>6 DEF RunState
  <2>2. Terminal(Head(chain))
    <3>1. chain \in Seq(Event)
      BY DEF Typed
    <3>2. Head(chain) \in Event
      BY <1>3, <3>1, TailIs
    <3> QED BY <1>6, <3>2 DEF Terminal
  <2>3. \A a \in answers' : ~Names(a)
    BY <1>2, <1>6 DEF Settled, Names, rpc
  <2> QED BY <1>2, <1>3, <1>6, <2>1, <2>2, <2>3, OrderHandled DEF rpc
<1> QED BY <1>4, <1>5, <1>6 DEF HandleEnd, Finish, Going

\* The goal was set, or not, in the hand of a notice.
LEMMA OrderGoal ==
    ASSUME Typed, StagesHold, OrderHolds, Going', NEW a \in answers,
           (GoalSet(a) /\ run.inHand = "goal") \/ GoalFails(a)
    PROVE  OrderHolds'
<1>1. run \in RunState /\ run.inHand = "goal" /\ chain # <<>> /\ phase # "goal"
  BY DEF Typed, GoalFails, StagesHold
<1>2. ~run.timer
  BY <1>1 DEF OrderHolds, TimerHolds
<1>3. /\ UNCHANGED <<kind, server, wire, phase>> /\ Consume(a) /\ chain' = Tail(chain)
      /\ \/ run' = [run EXCEPT !.inHand = "no"]
         \/ run' = [run EXCEPT !.inHand = "no", !.goalTimer = FALSE]
  BY <1>1 DEF GoalSet, GoalFails, Finish, Going
<1>4. run'.inHand = "no" /\ ~run'.timer /\ run'.goalLater = run.goalLater
  BY <1>1, <1>2, <1>3 DEF RunState
<1> QED BY <1>1, <1>3, <1>4, OrderHandled DEF Consume

\* The thread is ready: it has no open turn, and the run starts one, or sets
\* the goal.
LEMMA OrderThread ==
    ASSUME Typed, CallsHold, StagesHold, InputsHold, OrderHolds, NEW a \in answers, ThreadReady(a)
    PROVE  OrderHolds'
<1>0. run \in RunState /\ asked \in Seq(Requests)
  BY DEF Typed
<1>1. TurnsHold /\ ReplyFirst /\ LastTurn /\ FreshHolds /\ TimerHolds
  BY DEF OrderHolds
<1>2. a.call = "thread" /\ a.ok /\ UNCHANGED <<kind, server, wire, chain>>
  BY DEF ThreadReady, Resume
<1>3. phase = "boot"
  BY <1>2, CallerWaits DEF Waits
<1>4. server.turn = 0 /\ ~server.open /\ NoEvents /\ ~server.goal /\ a.turn \in {0, -1}
  BY <1>1, <1>2, <1>3 DEF TurnsHold
<1>5. a.turn = 0
  BY <1>2, <1>4 DEF CallsHold, AnswersHold
<1>6. chain = <<>> /\ ~run.timer /\ run.inHand = "no"
  BY <1>4 DEF NoEvents, StagesHold
<1>7. \A k \in DOMAIN asked : asked[k].call \notin {"start", "goal"}
  BY <1>1, <1>3, <1>4 DEF TurnsHold, InputsHold
<1>8. ASSUME NEW r, AskAfter(a, r)
      PROVE  /\ "start" \in awaited' => "start" \in awaited \/ r.call = "start"
             /\ \A k \in DOMAIN asked' : asked'[k].call \in {"start", "goal"} =>
                   k = Len(asked) + 1 /\ asked'[k].call = r.call
             /\ \A b \in answers' : b \in answers \/ (~b.ok /\ b.turn = -1)
  <2>1. CASE run.closed
    <3>1. /\ UNCHANGED <<asked, awaited>> /\ answers' = (answers \ {a}) \cup {Reply(r.call, -1, FALSE)}
          /\ Reply(r.call, -1, FALSE).turn = -1 /\ ~Reply(r.call, -1, FALSE).ok
      BY <1>8, <2>1 DEF AskAfter, AskWith, Reply
    <3> QED BY <1>7, <3>1
  <2>2. CASE ~run.closed
    <3>1. asked' = Append(asked, r) /\ awaited' = awaited \cup {r.call} /\ answers' = answers \ {a}
      BY <1>8, <2>2 DEF AskAfter, AskWith
    <3>2. \A k \in DOMAIN asked' : (k \in DOMAIN asked /\ asked'[k] = asked[k])
                                   \/ (k = Len(asked) + 1 /\ asked'[k] = r)
      BY <1>0, <3>1
    <3> QED BY <1>7, <3>1, <3>2
  <2> QED BY <2>1, <2>2
<1>9. CASE kind.goal /\ kind.resumed
  <2>1. phase' = "goal" /\ run' = GoalState(run.turn) /\ AskAfter(a, Request("goal", 0, <<>>))
    BY <1>5, <1>9 DEF ThreadReady
  <2>2. run'.timer = run.timer /\ run'.inHand = run.inHand /\ run'.goalLater = run.goalLater
    BY <1>0, <2>1 DEF GoalState, RunState
  <2>3. /\ "start" \in awaited' => "start" \in awaited
        /\ \A k \in DOMAIN asked' : asked'[k].call # "start"
        /\ \A b \in answers' : b \in answers \/ (~b.ok /\ b.turn = -1)
    <3>1. \E r : AskAfter(a, r) /\ r.call = "goal"
      BY <2>1 DEF Request
    <3> QED BY <1>8, <3>1
  <2> QED BY <1>2, <1>6, <1>9, <2>1, <2>2, <2>3, OrderStays
<1>10. CASE ~(kind.goal /\ kind.resumed)
  <2>1. phase' = "start" /\ run' = [run EXCEPT !.goalLater = kind.goal] /\ AskAfter(a, Request("start", 0, <<0>>))
    BY <1>5, <1>10 DEF ThreadReady
  <2>2. run'.timer = run.timer /\ run'.inHand = run.inHand /\ run'.goalLater = kind.goal
    BY <1>0, <2>1 DEF RunState
  <2>3. \A k \in DOMAIN asked' : asked'[k].call # "goal" /\ (asked'[k].call = "start" => k = Len(asked) + 1)
    <3>1. \E r : AskAfter(a, r) /\ r.call = "start"
      BY <2>1 DEF Request
    <3> QED BY <1>8, <3>1
  <2>4. TurnsHold'
    BY <1>1, <1>2, <1>4, <1>6, <2>1, <2>2, <2>3 DEF TurnsHold, NoEvents
  <2>5. ReplyFirst'
    BY <1>2, <1>4 DEF ReplyFirst, NoEvents
  <2>6. LastTurn'
    BY <1>2, <1>4, <2>2 DEF LastTurn, EndKnown, NoEvents, Terminal
  <2>7. FreshHolds'
    <3>1. \A n : Fresh(n) => Fresh(n)'
      BY <1>2, <2>2 DEF Fresh, StartsBefore
    <3>2. \A n : FreshRead(n) => FreshRead(n)'
      BY <1>2, <2>2 DEF FreshRead
    <3> QED BY <1>1, <1>2, <3>1, <3>2 DEF FreshHolds
  <2>8. TimerHolds'
    BY <1>6, <2>2 DEF TimerHolds
  <2> QED BY <2>4, <2>5, <2>6, <2>7, <2>8 DEF OrderHolds
<1> QED BY <1>9, <1>10

\* The order of the notices is kept by every step of an attempt that goes on.
LEMMA OrderKept ==
    ASSUME Typed, Typed', Invariants, OrderHolds, Going, Going', Next
    PROVE  OrderHolds'
<1>0. CallsHold /\ StagesHold /\ JobsHold /\ InputsHold
  BY DEF Invariants
<1>1. CASE Serve
  BY <1>0, <1>1, ServeOrder
<1>2. CASE Tell \/ EndTurn \/ Continue
  BY <1>0, <1>2, NoticeOrder
<1>3. CASE Read
  BY <1>3, OrderReadsNotice, OrderReadsReply
<1>4. CASE Die \/ Close
  BY <1>4, OrderEnds
<1>5. CASE \E call \in Calls : Timeout(call)
  BY <1>0, <1>5, OrderTimesOut
<1>6. CASE HandleBegin \/ HandleEnd
  BY <1>0, <1>6, OrderBegins, OrderHandles
<1>7. CASE \/ \E s \in Steers : Steer(s)
           \/ FlushNothing \/ FlushBegin \/ Refresh \/ FlushAgain
           \/ \E a \in answers : Steered(a) \/ SteerStale(a) \/ Refreshed(a) \/ SteerLost(a)
  <2>1. Calm
    BY <1>0, <1>7, CalmFlushes
  <2> QED BY <2>1, OrderCalm
<1>8. CASE \/ Interrupt \/ InterruptAgain \/ GoalTimerFires
           \/ \E a \in answers : \/ InterruptAnswered(a) \/ TurnStarted(a)
                                 \/ (GoalSet(a) /\ run.inHand # "goal")
  <2>1. Calm
    BY <1>0, <1>8, CalmOthers
  <2> QED BY <2>1, OrderCalm
<1>9. CASE \E a \in answers : ThreadReady(a)
  BY <1>0, <1>9, OrderThread
<1>10. CASE \E a \in answers : (GoalSet(a) /\ run.inHand = "goal") \/ GoalFails(a)
  BY <1>0, <1>10, OrderGoal
<1>11. ~(LossEnds \/ TimerFires \/ \E a \in answers : StartFails(a))
  BY DEF LossEnds, TimerFires, StartFails, Finish, Going
<1> QED BY <1>1, <1>2, <1>3, <1>4, <1>5, <1>6, <1>7, <1>8, <1>9, <1>10, <1>11 DEF Next, LoopStep, Done

\* The run that resumes no open turn, or is over
OrderInv ==
    /\ SteerInv
    /\ Going /\ ~kind.open => OrderHolds
    /\ CompletedIsOver

\* The attempt begins with no turn and no notice.
LEMMA OrderInit == Init => OrderInv
<1> SUFFICES ASSUME Init PROVE OrderInv
  OBVIOUS
<1>1. SteerInv
  BY SteerInit
<1>2. CompletedIsOver
  BY DEF Init, CompletedIsOver
<1>3. ASSUME ~kind.open PROVE OrderHolds
  <2>1. /\ asked = <<Request("thread", 0, <<>>)>> /\ wire = <<>> /\ answers = {} /\ phase = "boot" /\ chain = <<>>
        /\ ~run.timer /\ run.inHand = "no" /\ ~run.goalLater
        /\ server.turn = 0 /\ ~server.open /\ ~server.goal
    BY <1>3 DEF Init
  <2>2. \A k \in DOMAIN asked : asked[k].call = "thread"
    BY <2>1 DEF Request
  <2>3. TurnsHold
    BY <2>1, <2>2 DEF TurnsHold, NoEvents
  <2>4. ReplyFirst /\ LastTurn /\ FreshHolds /\ TimerHolds
    BY <2>1 DEF ReplyFirst, LastTurn, EndKnown, FreshHolds, TimerHolds
  <2> QED BY <2>3, <2>4 DEF OrderHolds
<1> QED BY <1>1, <1>2, <1>3 DEF OrderInv

\* The kind of the run does not change.
LEMMA KindStays ==
    ASSUME Next, Going
    PROVE  kind' = kind
  BY DEF Next, LoopStep, Done, Serve, Tell, EndTurn, Continue, Die, Read, Close, LossEnds,
     HandleBegin, HandleEnd, FlushNothing, FlushBegin, Refresh, FlushAgain, InterruptAgain, ThreadReady,
     TurnStarted, GoalSet, StartFails, GoalFails, Steered, SteerStale, Refreshed, SteerLost,
     InterruptAnswered, TimerFires, GoalTimerFires, Interrupt, Timeout, Steer

\* A run is completed only by the end of its turn, or by the timer that the
\* end of one set.
LEMMA OverWhenCompleted ==
    ASSUME Typed, StagesHold, ~kind.open => OrderHolds, Going, ~Going', Next
    PROVE  CompletedIsOver'
<1>0. run \in RunState /\ chain \in Seq(Event)
  BY DEF Typed
<1>1. CASE HandleEnd /\ result' = "completed" /\ ~kind.open
  <2>1. /\ run' = [run EXCEPT !.terminal = TRUE, !.turn = 0] /\ ~kind.goal /\ Head(chain).event = "completed"
        /\ UNCHANGED <<kind, server>> /\ run.inHand = "begun"
    BY <1>1 DEF HandleEnd, Finish, Going
  <2>2. Head(chain) = chain[1] /\ 1 \in DOMAIN chain /\ Head(chain) \in Event
    BY <1>0, <2>1, TailIs DEF StagesHold
  <2>3. ~server.open
    BY <1>1, <2>1, <2>2 DEF OrderHolds, LastTurn, EndKnown, Terminal
  <2>4. run'.turn = 0
    BY <1>0, <2>1 DEF RunState
  <2> QED BY <2>1, <2>3, <2>4 DEF CompletedIsOver
<1>2. CASE TimerFires /\ ~kind.open
  <2>1. run.timer /\ run.inHand = "no" /\ chain = <<>> /\ UNCHANGED <<kind, server, run>>
    BY <1>2 DEF TimerFires, Quiet, OrderHolds, TimerHolds
  <2>2. run.turn = 0 /\ (kind.goal \/ ~server.open)
    BY <1>2, <2>1 DEF OrderHolds, TimerHolds, LastTurn, EndKnown
  <2> QED BY <2>1, <2>2 DEF CompletedIsOver
<1>3. result' = "completed" => HandleEnd \/ TimerFires
  BY DEF Next, LoopStep, Done, Serve, Tell, EndTurn, Continue, Die, Read, Close, LossEnds,
     HandleBegin, FlushNothing, FlushBegin, Refresh, FlushAgain, InterruptAgain, ThreadReady,
     TurnStarted, GoalSet, StartFails, GoalFails, Steered, SteerStale, Refreshed, SteerLost,
     InterruptAnswered, GoalTimerFires, Interrupt, Timeout, Steer, Going, Finish
<1>4. kind' = kind
  BY KindStays
<1> QED BY <1>1, <1>2, <1>3, <1>4 DEF CompletedIsOver

\* Every step keeps what the invariant says of the ends of turns.
LEMMA OrderStep == OrderInv /\ [Next]_vars => OrderInv'
<1> SUFFICES ASSUME OrderInv, [Next]_vars PROVE OrderInv'
  OBVIOUS
<1>1. SteerInv /\ (Going => Invariants) /\ (Going /\ ~kind.open => OrderHolds) /\ Typed /\ CompletedIsOver
  BY DEF OrderInv, SteerInv
<1>2. SteerInv' /\ Typed'
  BY <1>1, SteerStep DEF SteerInv
<1>3. CASE UNCHANGED vars
  <2>1. OrderHolds => OrderHolds'
    BY <1>3 DEF vars, OrderHolds, TurnsHold, NoEvents, OnWire, ReplyFirst, LastTurn, EndKnown, FreshHolds, Fresh,
       FreshRead, StartsBefore, TimerHolds
  <2>2. Going' = Going /\ kind' = kind /\ CompletedIsOver'
    BY <1>1, <1>3 DEF vars, CompletedIsOver, Going
  <2> QED BY <1>1, <1>2, <2>1, <2>2 DEF OrderInv
<1>4. CASE ~Going /\ Next
  BY <1>3, <1>4, OverStays
<1>5. CASE Going /\ Next /\ ~Going'
  <2>1. CompletedIsOver'
    BY <1>1, <1>5, OverWhenCompleted DEF Invariants
  <2> QED BY <1>2, <1>5, <2>1 DEF OrderInv
<1>6. CASE Going /\ Next /\ Going'
  <2>1. kind' = kind
    BY <1>6, KindStays
  <2>2. ~kind.open => OrderHolds'
    BY <1>1, <1>2, <1>6, OrderKept
  <2>3. CompletedIsOver'
    BY <1>6 DEF CompletedIsOver, Going
  <2> QED BY <1>2, <2>1, <2>2, <2>3 DEF OrderInv
<1> QED BY <1>3, <1>4, <1>5, <1>6

\* Whatever the order in which replies and notices come, a run that resumed no
\* open turn is completed only when the client knows of no turn under way, and
\* one without a goal only when the server has none.
THEOREM CompletionIsOver == Spec => []CompletedIsOver
<1>1. OrderInv => CompletedIsOver
  BY DEF OrderInv
<1> QED BY <1>1, OrderInit, OrderStep, PTL DEF Spec
=============================================================================

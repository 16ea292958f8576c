------------------------- MODULE PromptQueueProofs -------------------------
(***************************************************************************)
(* The prompt queue of a topic, for any number of processes, drains and    *)
(* prompts: a prompt becomes a run at most once and in its turn, none is   *)
(* lost, and no session is purged under one about to be started.           *)
(*                                                                         *)
(* A drain works on its prompt without any lock; what protects it is the   *)
(* claim in the file.  The invariant says that the two agree: each claim   *)
(* is of a drain that works on that very prompt, and a drain that works on *)
(* a prompt has the claim, as long as the prompt is in the queue and no    *)
(* claim of it has grown stale.                                            *)
(***************************************************************************)
EXTENDS PromptQueue, SequenceTheorems, TLAPS

\* The queue is in the order of the prompts, and no longer than what was
\* enqueued since.
QueueInOrder ==
    /\ \A i, j \in DOMAIN queue : i < j => queue[i].prompt < queue[j].prompt
    /\ \A i \in DOMAIN queue : Len(queue) - i <= enqueued - queue[i].prompt

\* A claim is of a drain that works on the prompt, and one that is not fresh
\* was noted as lapsed.
ClaimsAreHeld ==
    \A i \in DOMAIN queue :
        /\ queue[i].claim \in Drains =>
             Holding(queue[i].claim) /\ task[queue[i].claim].prompt = queue[i].prompt
        /\ queue[i].claim # None /\ ~queue[i].fresh => queue[i].prompt \in lapsed
        /\ queue[i].fresh => queue[i].claim # None

\* A drain that works on a prompt has the claim, unless a claim of the prompt
\* lapsed or the prompt was deleted; no other drain works on it.
HoldersHaveClaims ==
    \A d \in Drains : Holding(d) /\ task[d].prompt \notin lapsed =>
        /\ \A i \in DOMAIN queue :
             queue[i].prompt = task[d].prompt => queue[i].claim = d /\ queue[i].fresh
        /\ task[d].prompt \in Queued \/ fate[task[d].prompt] \in Withdrawn
        /\ \A e \in Drains : Holding(e) /\ task[e].prompt = task[d].prompt => e = d

\* A prompt that left the queue for a run, or without one
Past(x) == starts[x] > 0 \/ fate[x] # "none"

Started == {"patch", "settle"}

\* A drain works on a prompt when all before it are past.
HoldersInTurn ==
    \A d \in Drains : Holding(d) =>
        /\ task[d].prompt <= enqueued
        /\ \A x \in Prompts : x < task[d].prompt => Past(x)
        /\ task[d].pc \in Started => starts[task[d].prompt] > 0

\* A started prompt that is still in the queue is claimed, and who works on it
\* has started it.
StartsAreClaimed ==
    /\ \A x \in Prompts : x > enqueued => starts[x] = 0
    /\ \A x \in Prompts \ lapsed : starts[x] > 0 =>
         /\ \A d \in Drains : Holding(d) /\ task[d].prompt = x => task[d].pc \in Started
         /\ \A i \in DOMAIN queue : queue[i].prompt = x => queue[i].claim # None

ClaimProtocol ==
    /\ QueueInOrder
    /\ ClaimsAreHeld
    /\ HoldersHaveClaims
    /\ HoldersInTurn
    /\ StartsAreClaimed
    /\ NothingLost
    /\ StartedAtMostOnce
    /\ StartedInOrder

QueueInv == TypeOK /\ ClaimProtocol /\ NoStartInPurged

-----------------------------------------------------------------------------
(* Sequences *)

\* RemoveAt takes one element out and moves those behind it up.
LEMMA RemoveAtProperties ==
    ASSUME NEW S, NEW s \in Seq(S), NEW i \in 1 .. Len(s)
    PROVE  /\ RemoveAt(s, i) \in Seq(S)
           /\ Len(RemoveAt(s, i)) = Len(s) - 1
           /\ DOMAIN RemoveAt(s, i) = 1 .. Len(s) - 1
           /\ \A k \in 1 .. Len(s) - 1 : RemoveAt(s, i)[k] = s[IF k < i THEN k ELSE k + 1]
<1> DEFINE a == SubSeq(s, 1, i - 1)
           b == SubSeq(s, i + 1, Len(s))
<1>1. /\ a \in Seq(S) /\ Len(a) = i - 1
      /\ \A k \in 1 .. i - 1 : a[k] = s[k]
  BY SubSeqProperties
<1>2. /\ b \in Seq(S) /\ Len(b) = Len(s) - i
      /\ \A k \in 1 .. Len(s) - i : b[k] = s[i + k]
  BY SubSeqProperties
<1>3. RemoveAt(s, i) = a \o b
  BY DEF RemoveAt
<1> HIDE DEF a, b
<1>4. /\ a \o b \in Seq(S) /\ Len(a \o b) = Len(s) - 1
      /\ \A k \in 1 .. Len(s) - 1 : (a \o b)[k] = IF k < i THEN a[k] ELSE b[k - (i - 1)]
  <2>1. Len(s) \in Nat
    OBVIOUS
  <2>2. /\ a \o b \in Seq(S) /\ Len(a \o b) = Len(a) + Len(b)
        /\ \A k \in 1 .. Len(a) + Len(b) :
             (a \o b)[k] = IF k <= Len(a) THEN a[k] ELSE b[k - Len(a)]
    BY <1>1, <1>2, ConcatProperties
  <2>3. Len(a) + Len(b) = Len(s) - 1
    BY <1>1, <1>2, <2>1
  <2>4. \A k \in 1 .. Len(s) - 1 : (k <= Len(a)) = (k < i)
    BY <1>1, <2>1
  <2> QED BY <1>1, <2>1, <2>2, <2>3, <2>4
<1>5. \A k \in 1 .. Len(s) - 1 : (a \o b)[k] = s[IF k < i THEN k ELSE k + 1]
  BY <1>1, <1>2, <1>4
<1> QED BY <1>3, <1>4, <1>5

\* A function on the positions of a sequence is a sequence of the same length.
LEMMA MapProperties ==
    ASSUME NEW S, NEW s \in Seq(S), NEW f \in [DOMAIN s -> S]
    PROVE  f \in Seq(S) /\ Len(f) = Len(s) /\ DOMAIN f = DOMAIN s
<1>1. DOMAIN s = 1 .. Len(s) /\ Len(s) \in Nat
  OBVIOUS
<1> QED BY <1>1, IsASeq

\* Where the elements of the queue are after one was removed.
LEMMA Removed ==
    ASSUME queue \in Seq(Entry), NEW i \in DOMAIN queue, queue' = RemoveAt(queue, i)
    PROVE  /\ queue' \in Seq(Entry) /\ Len(queue') = Len(queue) - 1
           /\ DOMAIN queue' = 1 .. Len(queue')
           /\ \A k \in DOMAIN queue' :
                \E l \in DOMAIN queue : queue'[k] = queue[l] /\ l # i /\ k = IF l < i THEN l ELSE l - 1
           /\ \A l \in DOMAIN queue \ {i} :
                \E k \in DOMAIN queue' : queue'[k] = queue[l]
<1>1. DOMAIN queue = 1 .. Len(queue) /\ Len(queue) \in Nat
  OBVIOUS
<1>2. /\ queue' \in Seq(Entry) /\ Len(queue') = Len(queue) - 1
      /\ DOMAIN queue' = 1 .. Len(queue) - 1
      /\ \A k \in 1 .. Len(queue) - 1 : queue'[k] = queue[IF k < i THEN k ELSE k + 1]
  BY <1>1, RemoveAtProperties
<1>3. ASSUME NEW k \in DOMAIN queue'
      PROVE  \E l \in DOMAIN queue : queue'[k] = queue[l] /\ l # i /\ k = IF l < i THEN l ELSE l - 1
  <2>1. CASE k < i
    BY <1>1, <1>2, <2>1
  <2>2. CASE ~(k < i)
    <3>1. k + 1 \in DOMAIN queue /\ k + 1 # i /\ ~(k + 1 < i) /\ k = k + 1 - 1
      BY <1>1, <1>2, <2>2
    <3> QED BY <1>1, <1>2, <2>2, <3>1
  <2> QED BY <2>1, <2>2
<1>4. ASSUME NEW l \in DOMAIN queue \ {i}
      PROVE  \E k \in DOMAIN queue' : queue'[k] = queue[l]
  <2>1. CASE l < i
    BY <1>1, <1>2, <2>1
  <2>2. CASE ~(l < i)
    <3>1. l - 1 \in DOMAIN queue' /\ ~(l - 1 < i)
      BY <1>1, <1>2, <2>2
    <3> QED BY <1>1, <1>2, <2>2, <3>1
  <2> QED BY <2>1, <2>2
<1> QED BY <1>2, <1>3, <1>4

-----------------------------------------------------------------------------
(* Types *)

\* An entry keeps its type when its claim changes.
LEMMA EntryTypes ==
    ASSUME NEW e \in Entry
    PROVE  /\ e.prompt \in Prompts /\ e.claim \in Drains \cup {None, Orphan} /\ e.fresh \in BOOLEAN
           /\ [e EXCEPT !.claim = Orphan] \in Entry
           /\ [e EXCEPT !.fresh = FALSE] \in Entry
           /\ Unclaimed(e) \in Entry
           /\ \A d \in Drains : [e EXCEPT !.claim = d, !.fresh = TRUE] \in Entry
BY DEF Entry, Unclaimed

\* A queue is a function from its positions to entries.
LEMMA QueueEntries ==
    ASSUME queue \in Seq(Entry)
    PROVE  /\ DOMAIN queue = 1 .. Len(queue) /\ Len(queue) \in Nat
           /\ \A i \in DOMAIN queue : queue[i] \in Entry
OBVIOUS

Work == [pc : Pc, kind : Kind, proc : Procs, seen : Session, prompt : Prompts \cup {Direct}]

\* The length of the queue needs no type: QueueInOrder bounds it.
Typed ==
    /\ queue \in Seq(Entry)
    /\ session \in Session
    /\ leader \in Procs
    /\ up \in [Procs -> BOOLEAN]
    /\ slot \in [Procs -> Phase]
    /\ task \in [Drains -> Work]
    /\ enqueued \in 0 .. MaxPrompts /\ direct \in 0 .. MaxDirect
    /\ starts \in [Prompts -> 0 .. 2]
    /\ lapsed \subseteq Prompts
    /\ fate \in [Prompts -> Fate]

\* An idle drain has the type of a drain.
LEMMA NoTaskType == NoTask \in Work
BY PromptQueueAssumption
   DEF PromptQueueAssumption, Work, NoTask, NewSession, Pc, Kind, Procs, Session, Life, Direct

\* The steps that are not of a drain
LEMMA OutsideTypes ==
    ASSUME Typed,
           \/ \E p \in Procs : Enqueue(p) \/ Kill(p) \/ Exit(p) \/ FinishPatch(p) \/ FinishRun(p)
           \/ \E i \in DOMAIN queue : DeleteAt(i) \/ Expire(i)
           \/ \E d \in Drains : up[leader] /\ (Scan(d) \/ StartDirect(d))
           \/ Park \/ Reactivate \/ Purge \/ Takeover
    PROVE  Typed'
<1> USE PromptQueueAssumption DEF PromptQueueAssumption, Typed
<1>0. ASSUME NEW d \in Drains, NEW k \in Kind, NEW p \in Procs, Spawn(d, k, p)
      PROVE  task' \in [Drains -> Work]
  BY <1>0, NoTaskType DEF Spawn, Pc, Work
<1>1. ASSUME NEW p \in Procs, Enqueue(p) PROVE Typed'
  <2>1. [prompt |-> enqueued + 1, claim |-> None, fresh |-> FALSE] \in Entry
    BY <1>1 DEF Enqueue, Entry, Prompts
  <2>2. queue' \in Seq(Entry)
    BY <1>1, <2>1, AppendProperties DEF Enqueue
  <2>3. task' \in [Drains -> Work]
    BY <1>0, <1>1 DEF Enqueue, Kind
  <2> QED BY <1>1, <2>2, <2>3 DEF Enqueue
<1>2. ASSUME NEW p \in Procs, Kill(p) PROVE Typed'
  <2>1. \A i \in DOMAIN queue : [queue[i] EXCEPT !.claim = Orphan] \in Entry /\ queue[i] \in Entry
    BY QueueEntries, EntryTypes
  <2>2. queue' \in [DOMAIN queue -> Entry]
    BY <1>2, <2>1 DEF Kill, Orphaned
  <2>3. queue' \in Seq(Entry)
    BY <2>2, MapProperties
  <2> QED BY <1>2, <2>3, NoTaskType DEF Kill, Phase
<1>3. ASSUME NEW p \in Procs, Exit(p) \/ FinishPatch(p) PROVE Typed'
  <2>1. [session EXCEPT !.owner = None, !.running = FALSE] \in Session
    BY DEF Session
  <2>2. CASE Exit(p)
    BY <2>2 DEF Exit
  <2>3. CASE FinishPatch(p)
    BY <2>1, <2>3 DEF FinishPatch, Phase
  <2> QED BY <1>3, <2>2, <2>3
<1>4. ASSUME NEW p \in Procs, FinishRun(p) PROVE Typed'
  <2>1. CASE Retiring(p)
    BY <1>4, <2>1 DEF FinishRun, Phase
  <2>2. CASE ~Retiring(p)
    BY <1>0, <1>4, <2>2 DEF FinishRun, Phase, Kind
  <2> QED BY <2>1, <2>2
<1>5. ASSUME NEW i \in DOMAIN queue, DeleteAt(i) PROVE Typed'
  <2>1. queue[i].prompt \in Prompts
    BY QueueEntries, EntryTypes
  <2> QED BY <1>5, <2>1, Removed DEF DeleteAt, Fate
<1>6. ASSUME NEW i \in DOMAIN queue, Expire(i) PROVE Typed'
  <2>1. /\ queue[i].prompt \in Prompts /\ [queue[i] EXCEPT !.fresh = FALSE] \in Entry
        /\ i \in 1 .. Len(queue)
    BY QueueEntries, EntryTypes
  <2>2. queue' \in Seq(Entry)
    BY <1>6, <2>1, ExceptSeq DEF Expire
  <2> QED BY <1>6, <2>1, <2>2 DEF Expire
<1>7. ASSUME NEW d \in Drains, Scan(d) PROVE Typed'
  BY <1>0, <1>7 DEF Scan, Kind
<1>8. ASSUME NEW d \in Drains, StartDirect(d) PROVE Typed'
  <2>1. [NoTask EXCEPT !.pc = "start", !.kind = "direct", !.proc = leader] \in Work
    BY NoTaskType DEF Work, Kind, Pc
  <2>2. direct' \in 0 .. MaxDirect
    BY <1>8 DEF StartDirect
  <2> QED BY <1>8, <2>1, <2>2 DEF StartDirect
<1>9. CASE Park \/ Reactivate \/ Takeover
  <2>1. NewSession \in Session
    BY DEF NewSession, Session, Life
  <2>2. session' \in Session
    BY <1>9, <2>1 DEF Park, Reactivate, Takeover, Session, Life
  <2>3. leader' \in Procs
    BY <1>9 DEF Park, Reactivate, Takeover, Procs
  <2> QED BY <1>9, <2>2, <2>3 DEF Park, Reactivate, Takeover
<1>10. CASE Purge
  <2>1. fate' \in [Prompts -> Fate]
    BY <1>10 DEF Purge, Wiped, Fate
  <2> QED BY <1>10, <2>1, EmptySeq DEF Purge, Session, Life
<1> QED BY <1>1, <1>2, <1>3, <1>4, <1>5, <1>6, <1>7, <1>8, <1>9, <1>10

\* What the steps change in the work of a drain, field by field
LEMMA WorkTypes ==
    ASSUME NEW w \in Work, NEW pc \in Pc
    PROVE  /\ [w EXCEPT !.pc = pc] \in Work
           /\ \A s \in Session : [w EXCEPT !.pc = pc, !.seen = s] \in Work
           /\ \A x \in Prompts : [w EXCEPT !.pc = pc, !.prompt = x] \in Work
<1> DEFINE v == [w EXCEPT !.pc = pc]
<1>1. v \in Work
  BY DEF Work
<1>2. ASSUME NEW s \in Session PROVE [v EXCEPT !.seen = s] \in Work
  <2> HIDE DEF v
  <2> QED BY <1>1, <1>2 DEF Work
<1>3. ASSUME NEW x \in Prompts PROVE [v EXCEPT !.prompt = x] \in Work
  <2> HIDE DEF v
  <2> QED BY <1>1, <1>3 DEF Work
<1> QED BY <1>1, <1>2, <1>3

\* One drain is given other work.
LEMMA TaskTypes ==
    ASSUME Typed, NEW d \in Drains, NEW w \in Work, task' = [task EXCEPT ![d] = w]
    PROVE  task' \in [Drains -> Work]
BY DEF Typed

\* The steps of a drain keep the types.
LEMMA DrainTypes ==
    ASSUME Typed, NEW d \in Drains, DrainStep(d)
    PROVE  Typed'
<1> USE PromptQueueAssumption DEF PromptQueueAssumption, Typed
<1>0. ASSUME End(d) \/ \E pc \in Pc : Goto(d, pc)
      PROVE  task' \in [Drains -> Work]
  <2>1. CASE End(d)
    BY <2>1, NoTaskType, TaskTypes DEF End
  <2>2. ASSUME NEW pc \in Pc, Goto(d, pc) PROVE task' \in [Drains -> Work]
    <3> DEFINE w == [task[d] EXCEPT !.pc = pc]
    <3>1. w \in Work
      BY WorkTypes
    <3>2. task' = [task EXCEPT ![d] = w]
      BY <2>2 DEF Goto
    <3> QED BY <3>1, <3>2, TaskTypes
  <2> QED BY <1>0, <2>1, <2>2
<1>1. CASE LoadSession(d)
  <2> DEFINE w == [task[d] EXCEPT !.pc = "queue", !.seen = session]
  <2>1. w \in Work
    <3>1. "queue" \in Pc
      BY DEF Pc
    <3> QED BY <3>1, WorkTypes
  <2>2. task' = [task EXCEPT ![d] = w]
    BY <1>1 DEF LoadSession
  <2>3. task' \in [Drains -> Work]
    BY <2>1, <2>2, TaskTypes
  <2> QED BY <1>1, <2>3 DEF LoadSession
<1>2. CASE LoadQueue(d)
  BY <1>0, <1>2 DEF LoadQueue, Pc
<1>3. CASE Clear(d)
  <2>1. fate' \in [Prompts -> Fate]
    BY <1>3 DEF Clear, Wiped, Fate
  <2> QED BY <1>0, <1>3, <2>1, EmptySeq DEF Clear
<1>4. CASE Probe(d) \/ Backoff(d) \/ Reload(d)
  BY <1>0, <1>4 DEF Probe, Backoff, Reload, Pc
<1>5. CASE Disown(d)
  BY <1>0, <1>5 DEF Disown, Pc, Session
<1>6. CASE ClaimHead(d)
  <2>1. CASE queue = <<>> \/ Head(queue).fresh
    BY <1>0, <1>6, <2>1 DEF ClaimHead
  <2>2. CASE ~(queue = <<>> \/ Head(queue).fresh)
    <3>1. 1 \in 1 .. Len(queue) /\ Head(queue) = queue[1] /\ queue[1] \in Entry
      BY <2>2, QueueEntries, EmptySeq
    <3>2. [queue[1] EXCEPT !.claim = d, !.fresh = TRUE] \in Entry /\ queue[1].prompt \in Prompts
      BY <3>1, EntryTypes
    <3>3. queue' = [queue EXCEPT ![1] = [queue[1] EXCEPT !.claim = d, !.fresh = TRUE]]
      BY <1>6, <2>2 DEF ClaimHead
    <3>4. queue' \in Seq(Entry)
      BY <3>1, <3>2, <3>3, ExceptSeq
    <3>5. task' \in [Drains -> Work]
      <4> DEFINE w == [task[d] EXCEPT !.pc = "backoff", !.prompt = queue[1].prompt]
      <4>1. w \in Work
        <5>1. "backoff" \in Pc
          BY DEF Pc
        <5> QED BY <3>2, <5>1, WorkTypes
      <4>2. task' = [task EXCEPT ![d] = w]
        BY <1>6, <2>2, <3>1 DEF ClaimHead
      <4> QED BY <4>1, <4>2, TaskTypes
    <3> QED BY <1>6, <3>4, <3>5 DEF ClaimHead
  <2> QED BY <2>1, <2>2
<1>7. CASE Reserve(d)
  <2>1. task' \in [Drains -> Work]
    BY <1>0, <1>7 DEF Reserve, Pc
  <2>2. slot' \in [Procs -> Phase]
    BY <1>7 DEF Reserve, Phase
  <2> QED BY <1>7, <2>1, <2>2 DEF Reserve
<1>8. CASE Activate(d)
  <2>1. task[d].prompt = Direct \/ task[d].prompt \in Prompts
    BY DEF Work
  <2>2. starts' \in [Prompts -> 0 .. 2]
    BY <1>8, <2>1 DEF Activate
  <2> QED BY <1>0, <1>8, <2>2 DEF Activate, Pc, Phase, Work
<1>9. CASE Patch(d)
  BY <1>0, <1>9 DEF Patch, Pc, Phase, Session, Work
<1>10. CASE RemoveClaimed(d)
  <2>1. queue' \in Seq(Entry)
    BY <1>10, Removed DEF RemoveClaimed, ClaimedBy
  <2> QED BY <1>0, <1>10, <2>1 DEF RemoveClaimed
<1>11. CASE ReleaseClaim(d)
  <2>1. \A i \in DOMAIN queue : Unclaimed(queue[i]) \in Entry /\ queue[i] \in Entry
    BY QueueEntries, EntryTypes
  <2>2. queue' \in [DOMAIN queue -> Entry]
    BY <1>11, <2>1 DEF ReleaseClaim
  <2>3. queue' \in Seq(Entry)
    BY <2>2, MapProperties
  <2> QED BY <1>0, <1>11, <2>3 DEF ReleaseClaim
<1> QED BY <1>1, <1>2, <1>3, <1>4, <1>5, <1>6, <1>7, <1>8, <1>9, <1>10, <1>11 DEF DrainStep

\* Every step keeps the types.
LEMMA TypedStep == Typed /\ [Next]_vars => Typed'
<1>1. Typed /\ UNCHANGED vars => Typed'
  BY DEF Typed, vars
<1> QED BY <1>1, OutsideTypes, DrainTypes DEF Next, Done

-----------------------------------------------------------------------------
(* Steps that touch neither the queue nor a start *)

\* The drain works on the same prompt as before and has, or has not, started it.
SameWork(d) ==
    /\ Holding(d)' <=> Holding(d)
    /\ Holding(d) => /\ task'[d].prompt = task[d].prompt
                     /\ task'[d].pc \in Started <=> task[d].pc \in Started

queueVars == <<queue, enqueued, starts, lapsed, fate>>

\* A step that leaves the queue and what the drains hold alone keeps the protocol.
LEMMA QuietStep ==
    ASSUME ClaimProtocol, UNCHANGED queueVars, \A d \in Drains : SameWork(d)
    PROVE  ClaimProtocol'
<1> USE DEF queueVars, ClaimProtocol
<1>1. QueueInOrder' /\ NothingLost' /\ StartedAtMostOnce' /\ StartedInOrder'
  BY DEF QueueInOrder, NothingLost, Queued, StartedAtMostOnce, StartedInOrder
<1>2. ClaimsAreHeld'
  BY DEF ClaimsAreHeld, SameWork
<1>3. HoldersHaveClaims'
  BY DEF HoldersHaveClaims, SameWork, Queued
<1>4. HoldersInTurn'
  BY DEF HoldersInTurn, SameWork, Past
<1>5. StartsAreClaimed'
  BY DEF StartsAreClaimed, SameWork
<1> QED BY <1>1, <1>2, <1>3, <1>4, <1>5

\* A drain that does not work on a prompt begins or goes on without one.
LEMMA IdleWork ==
    ASSUME Typed, NEW d \in Drains, ~Holding(d), NEW w, w.prompt = Direct \/ w.pc \in {"session", "queue", "clear", "probe", "disown", "claim"},
           task' = [task EXCEPT ![d] = w]
    PROVE  \A e \in Drains : SameWork(e)
BY DEF Typed, SameWork, Holding

\* Goto changes the place of a drain, not what it holds.
LEMMA GotoWork ==
    ASSUME Typed, NEW d \in Drains, NEW pc, Goto(d, pc),
           Holding(d) => pc \in {"backoff", "reload", "start", "starting", "patch", "settle", "release"},
           ~Holding(d) => task[d].prompt = Direct \/ pc \in {"session", "queue", "clear", "probe", "disown", "claim"},
           pc \in Started <=> task[d].pc \in Started
    PROVE  \A e \in Drains : SameWork(e)
<1>1. task[d] \in Work
  BY DEF Typed
<1>2. task'[d].pc = pc /\ task'[d].prompt = task[d].prompt /\ \A e \in Drains \ {d} : task'[e] = task[e]
  BY <1>1 DEF Goto, Typed, Work
<1> QED BY <1>2 DEF SameWork, Holding

\* A new drain holds nothing.
LEMMA SpawnWork ==
    ASSUME Typed, NEW d \in Drains, NEW k, NEW p, Spawn(d, k, p)
    PROVE  \A e \in Drains : SameWork(e)
<1>1. ~Holding(d)
  BY DEF Spawn, Holding
<1>2. [NoTask EXCEPT !.pc = "session", !.kind = k, !.proc = p].pc = "session"
  BY DEF NoTask
<1> QED BY <1>1, <1>2, IdleWork DEF Spawn

\* The steps from the outside that are quiet
LEMMA QuietOutside ==
    ASSUME Typed,
           \/ \E p \in Procs : Exit(p) \/ FinishPatch(p) \/ FinishRun(p)
           \/ \E d \in Drains : up[leader] /\ (Scan(d) \/ StartDirect(d))
           \/ Park \/ Reactivate \/ Takeover
    PROVE  UNCHANGED queueVars /\ \A d \in Drains : SameWork(d)
<1> USE DEF queueVars
<1>1. CASE Park \/ Reactivate \/ Takeover \/ \E p \in Procs : Exit(p) \/ FinishPatch(p)
  BY <1>1 DEF Park, Reactivate, Takeover, Exit, FinishPatch, SameWork, Holding
<1>2. ASSUME NEW p \in Procs, FinishRun(p) PROVE UNCHANGED queueVars /\ \A d \in Drains : SameWork(d)
  <2>1. UNCHANGED task \/ \E d \in Drains : Spawn(d, "finish", p)
    BY <1>2 DEF FinishRun
  <2>2. UNCHANGED task => \A d \in Drains : SameWork(d)
    BY DEF SameWork, Holding
  <2> QED BY <1>2, <2>1, <2>2, SpawnWork DEF FinishRun
<1>3. ASSUME NEW d \in Drains, Scan(d) PROVE UNCHANGED queueVars /\ \A e \in Drains : SameWork(e)
  BY <1>3, SpawnWork DEF Scan
<1>4. ASSUME NEW d \in Drains, StartDirect(d) PROVE UNCHANGED queueVars /\ \A e \in Drains : SameWork(e)
  <2>1. ~Holding(d)
    BY <1>4 DEF StartDirect, Holding
  <2>2. [NoTask EXCEPT !.pc = "start", !.kind = "direct", !.proc = leader].prompt = Direct
    BY DEF NoTask
  <2> QED BY <1>4, <2>1, <2>2, IdleWork DEF StartDirect
<1> QED BY <1>1, <1>2, <1>3, <1>4

\* The steps of a drain that are quiet
LEMMA QuietDrain ==
    ASSUME Typed, NEW d \in Drains,
           \/ LoadSession(d) \/ LoadQueue(d) \/ Probe(d) \/ Disown(d) \/ Backoff(d)
           \/ Reload(d) \/ Reserve(d) \/ Patch(d)
    PROVE  UNCHANGED queueVars /\ \A e \in Drains : SameWork(e)
<1> USE DEF queueVars
<1>0. ASSUME End(d), ~Holding(d) PROVE \A e \in Drains : SameWork(e)
  BY <1>0, IdleWork DEF End, NoTask
<1>1. CASE LoadSession(d)
  <2>1. [task[d] EXCEPT !.pc = "queue", !.seen = session].pc = "queue"
    BY DEF Typed, Work
  <2>2. task' = [task EXCEPT ![d] = [task[d] EXCEPT !.pc = "queue", !.seen = session]]
    BY <1>1 DEF LoadSession
  <2>3. ~Holding(d)
    BY <1>1 DEF LoadSession, At, Holding
  <2> QED BY <1>1, <2>1, <2>2, <2>3, IdleWork DEF LoadSession
<1>2. CASE LoadQueue(d)
  <2>1. ~Holding(d) /\ task[d].pc = "queue"
    BY <1>2 DEF LoadQueue, At, Holding
  <2>2. End(d) \/ \E pc \in {"clear", "claim", "probe"} : Goto(d, pc)
    BY <1>2 DEF LoadQueue
  <2> QED BY <1>0, <1>2, <2>1, <2>2, GotoWork DEF LoadQueue, Started
<1>3. CASE Probe(d) \/ Disown(d)
  <2>1. ~Holding(d) /\ task[d].pc \in {"probe", "disown"}
    BY <1>3 DEF Probe, Disown, At, Holding
  <2>2. End(d) \/ \E pc \in {"disown", "claim"} : Goto(d, pc)
    BY <1>3 DEF Probe, Disown
  <2> QED BY <1>0, <1>3, <2>1, <2>2, GotoWork DEF Probe, Disown, Started
<1>4. CASE Backoff(d) \/ Reload(d) \/ Reserve(d)
  <2>1. task[d].pc \in {"backoff", "reload", "start"} /\ (~Holding(d) => task[d].prompt = Direct)
    BY <1>4 DEF Backoff, Reload, Reserve, At, Holding
  <2>2. \E pc \in {"reload", "start", "release", "starting"} : Goto(d, pc)
    BY <1>4 DEF Backoff, Reload, Reserve
  <2> QED BY <1>4, <2>1, <2>2, GotoWork DEF Backoff, Reload, Reserve, Started
<1>5. CASE Patch(d)
  <2>1. task[d].pc = "patch" /\ (~Holding(d) => task[d].prompt = Direct) /\ Goto(d, "settle")
    BY <1>5 DEF Patch, At, Holding
  <2> QED BY <1>5, <2>1, GotoWork DEF Patch, Started
<1> QED BY <1>1, <1>2, <1>3, <1>4, <1>5

-----------------------------------------------------------------------------
(* Steps from the outside that change the queue *)

\* The prompts in the queue are told apart, and were all enqueued.
LEMMA QueueFacts ==
    ASSUME Typed, QueueInOrder
    PROVE  /\ \A i \in DOMAIN queue : queue[i].prompt \in Prompts /\ queue[i].prompt <= enqueued
           /\ \A i, j \in DOMAIN queue : queue[i].prompt = queue[j].prompt => i = j
           /\ enqueued \in Nat /\ (\A x \in Prompts : x \in Nat /\ x > 0)
<1>1. \A i \in DOMAIN queue : queue[i].prompt \in Prompts
  BY QueueEntries, EntryTypes DEF Typed
<1>2. enqueued \in Nat /\ (\A x \in Prompts : x \in Nat /\ x > 0)
  BY PromptQueueAssumption DEF PromptQueueAssumption, Typed, Prompts
<1>3. DOMAIN queue = 1 .. Len(queue) /\ Len(queue) \in Nat
  BY QueueEntries DEF Typed
<1>4. ASSUME NEW i \in DOMAIN queue PROVE queue[i].prompt <= enqueued
  <2>1. queue[i].prompt \in Nat /\ i \in Nat /\ i <= Len(queue)
    BY <1>1, <1>2, <1>3
  <2>2. Len(queue) - i <= enqueued - queue[i].prompt
    BY DEF QueueInOrder
  <2> QED BY <1>2, <1>3, <2>1, <2>2
<1>5. \A i, j \in DOMAIN queue : queue[i].prompt = queue[j].prompt => i = j
  <2> SUFFICES ASSUME NEW i \in DOMAIN queue, NEW j \in DOMAIN queue, queue[i].prompt = queue[j].prompt, i # j
               PROVE  FALSE
    OBVIOUS
  <2>1. i < j \/ j < i
    BY <1>3
  <2>2. queue[i].prompt < queue[j].prompt \/ queue[j].prompt < queue[i].prompt
    BY <2>1 DEF QueueInOrder
  <2>3. queue[i].prompt \in Nat /\ queue[j].prompt \in Nat
    BY <1>1, <1>2
  <2> QED BY <2>2, <2>3
<1> QED BY <1>1, <1>2, <1>4, <1>5

\* The new entry is the last, and nobody works on it.
LEMMA EnqueueStep ==
    ASSUME Typed, ClaimProtocol, NEW p \in Procs, Enqueue(p)
    PROVE  ClaimProtocol'
<1> DEFINE new == [prompt |-> enqueued + 1, claim |-> None, fresh |-> FALSE]
           n == Len(queue) + 1
<1> USE DEF ClaimProtocol
<1>0. /\ \A i \in DOMAIN queue : queue[i].prompt \in Prompts /\ queue[i].prompt <= enqueued
      /\ enqueued \in Nat /\ (\A x \in Prompts : x \in Nat /\ x > 0)
      /\ DOMAIN queue = 1 .. Len(queue) /\ Len(queue) \in Nat
  BY QueueFacts, QueueEntries DEF Typed
<1>1. UNCHANGED <<starts, lapsed, fate>> /\ enqueued' = enqueued + 1 /\ enqueued + 1 \in Prompts
      /\ None \notin Drains
  BY PromptQueueAssumption, <1>0 DEF PromptQueueAssumption, Enqueue, Typed, Prompts
<1>2. \A d \in Drains : SameWork(d)
  <2>1. UNCHANGED task => \A d \in Drains : SameWork(d)
    BY DEF SameWork, Holding
  <2> QED BY <2>1, SpawnWork DEF Enqueue
<1>3. /\ DOMAIN queue' = 1 .. n /\ Len(queue') = n
      /\ \A i \in DOMAIN queue : i \in DOMAIN queue' /\ queue'[i] = queue[i]
      /\ queue'[n] = new /\ n \in DOMAIN queue'
      /\ \A i \in DOMAIN queue' : i # n => i \in DOMAIN queue
  BY <1>0, AppendProperties DEF Enqueue, Typed
<1>4. new.prompt = enqueued + 1 /\ new.claim = None /\ ~new.fresh
  OBVIOUS
<1> HIDE DEF new, n
<1>5. QueueInOrder'
  <2>1. ASSUME NEW i \in DOMAIN queue', NEW j \in DOMAIN queue', i < j
        PROVE  queue'[i].prompt < queue'[j].prompt
    <3>1. i \in DOMAIN queue /\ queue[i].prompt \in Nat /\ queue[i].prompt <= enqueued
      BY <1>0, <1>3, <2>1 DEF n
    <3>2. CASE j = n
      BY <1>0, <1>3, <1>4, <3>1, <3>2
    <3>3. CASE j # n
      BY <1>3, <2>1, <3>1, <3>3 DEF QueueInOrder
    <3> QED BY <3>2, <3>3
  <2>2. ASSUME NEW i \in DOMAIN queue' PROVE Len(queue') - i <= enqueued' - queue'[i].prompt
    <3>1. CASE i = n
      BY <1>0, <1>1, <1>3, <1>4, <3>1 DEF n
    <3>2. CASE i # n
      <4>1. /\ i \in DOMAIN queue /\ queue'[i] = queue[i] /\ queue[i].prompt \in Nat /\ i \in Nat
            /\ Len(queue) - i <= enqueued - queue[i].prompt
        BY <1>0, <1>3, <3>2 DEF QueueInOrder
      <4> QED BY <1>0, <1>1, <1>3, <4>1 DEF n
    <3> QED BY <3>1, <3>2
  <2> QED BY <2>1, <2>2 DEF QueueInOrder
<1>6. ClaimsAreHeld'
  BY <1>1, <1>2, <1>3, <1>4 DEF ClaimsAreHeld, SameWork
<1>7. HoldersHaveClaims'
  <2>1. Queued \subseteq Queued'
    BY <1>3 DEF Queued
  <2>2. \A d \in Drains : Holding(d) => task[d].prompt # enqueued + 1
    BY <1>0 DEF HoldersInTurn, Typed, Work, Direct
  <2>3. \A i \in DOMAIN queue' : queue'[i].prompt = enqueued + 1 \/ (i \in DOMAIN queue /\ queue'[i] = queue[i])
    BY <1>3, <1>4
  <2> QED BY <1>1, <1>2, <2>1, <2>2, <2>3 DEF HoldersHaveClaims, SameWork
<1>8. HoldersInTurn'
  <2>1. ASSUME NEW d \in Drains PROVE task[d].prompt \in Nat
    <3>1. task[d] \in Work
      BY DEF Typed
    <3> QED BY <1>0, <3>1 DEF Work, Direct
  <2>2. ASSUME NEW d \in Drains, Holding(d)'
        PROVE  /\ Holding(d) /\ task'[d].prompt = task[d].prompt
               /\ task'[d].pc \in Started <=> task[d].pc \in Started
    BY <1>2, <2>2 DEF SameWork
  <2>3. ASSUME NEW d \in Drains, Holding(d)' PROVE task'[d].prompt <= enqueued'
    BY <1>0, <1>1, <2>1, <2>2, <2>3 DEF HoldersInTurn
  <2> QED BY <1>1, <2>2, <2>3 DEF HoldersInTurn, Past
<1>9. StartsAreClaimed'
  <2>1. starts[enqueued + 1] = 0
    BY <1>0, <1>1 DEF StartsAreClaimed
  <2>2. \A x \in Prompts : x > enqueued' => starts'[x] = 0
    BY <1>0, <1>1 DEF StartsAreClaimed
  <2>3. \A i \in DOMAIN queue' : queue'[i].prompt = enqueued + 1 \/ (i \in DOMAIN queue /\ queue'[i] = queue[i])
    BY <1>3, <1>4
  <2> QED BY <1>1, <1>2, <2>1, <2>2, <2>3 DEF StartsAreClaimed, SameWork
<1>10. NothingLost'
  <2>1. Queued \subseteq Queued' /\ enqueued + 1 \in Queued'
    BY <1>3, <1>4 DEF Queued
  <2> QED BY <1>0, <1>1, <2>1 DEF NothingLost
<1>11. StartedAtMostOnce' /\ StartedInOrder'
  BY <1>1 DEF StartedAtMostOnce, StartedInOrder
<1> QED BY <1>5, <1>6, <1>7, <1>8, <1>9, <1>10, <1>11

\* Fewer entries claim less, and keep their order.
LEMMA RemovalOrder ==
    ASSUME Typed, QueueInOrder, NEW i \in DOMAIN queue, queue' = RemoveAt(queue, i), UNCHANGED enqueued
    PROVE  QueueInOrder'
<1>0. /\ \A k \in DOMAIN queue : queue[k].prompt \in Nat
      /\ enqueued \in Nat
      /\ DOMAIN queue = 1 .. Len(queue) /\ Len(queue) \in Nat
  BY QueueFacts, QueueEntries DEF Typed
<1>1. /\ Len(queue') = Len(queue) - 1
      /\ \A k \in DOMAIN queue' :
           \E l \in DOMAIN queue : queue'[k] = queue[l] /\ l # i /\ k = IF l < i THEN l ELSE l - 1
  BY Removed DEF Typed
<1>2. ASSUME NEW k \in DOMAIN queue', NEW m \in DOMAIN queue', k < m
      PROVE  queue'[k].prompt < queue'[m].prompt
  <2>1. PICK a \in DOMAIN queue : queue'[k] = queue[a] /\ a # i /\ k = IF a < i THEN a ELSE a - 1
    BY <1>1
  <2>2. PICK b \in DOMAIN queue : queue'[m] = queue[b] /\ b # i /\ m = IF b < i THEN b ELSE b - 1
    BY <1>1
  <2>3. a < b
    BY <1>0, <1>2, <2>1, <2>2
  <2> QED BY <2>1, <2>2, <2>3 DEF QueueInOrder
<1>3. ASSUME NEW k \in DOMAIN queue' PROVE Len(queue') - k <= enqueued' - queue'[k].prompt
  <2>1. PICK a \in DOMAIN queue : queue'[k] = queue[a] /\ a # i /\ k = IF a < i THEN a ELSE a - 1
    BY <1>1
  <2>2. Len(queue) - a <= enqueued - queue[a].prompt
    BY DEF QueueInOrder
  <2>3. Len(queue') - k <= Len(queue) - a
    BY <1>0, <1>1, <2>1
  <2> QED BY <1>0, <1>1, <2>1, <2>2, <2>3
<1> QED BY <1>2, <1>3 DEF QueueInOrder

\* A deleted prompt is past; who works on it goes on without a claim.
LEMMA DeleteStep ==
    ASSUME Typed, ClaimProtocol, NEW i \in DOMAIN queue, DeleteAt(i)
    PROVE  ClaimProtocol'
<1> USE DEF ClaimProtocol
<1>1. /\ \A k \in DOMAIN queue' : \E l \in DOMAIN queue : queue'[k] = queue[l]
      /\ \A l \in DOMAIN queue \ {i} : \E k \in DOMAIN queue' : queue'[k] = queue[l]
  BY Removed DEF DeleteAt, Typed
<1>2. UNCHANGED <<task, enqueued, starts, lapsed>> /\ queue[i].prompt \in Prompts
      /\ fate' = [fate EXCEPT ![queue[i].prompt] = "deleted"]
  BY QueueFacts DEF DeleteAt
<1>3. \A x \in Prompts : fate'[x] = IF x = queue[i].prompt THEN "deleted" ELSE fate[x]
  BY <1>2 DEF Typed
<1>4. Queued \subseteq Queued' \cup {queue[i].prompt}
  BY <1>1 DEF Queued
<1>5. QueueInOrder'
  BY RemovalOrder DEF DeleteAt
<1>6. ClaimsAreHeld'
  BY <1>1, <1>2 DEF ClaimsAreHeld, Holding
<1>7. HoldersHaveClaims'
  <2>1. \A d \in Drains : Holding(d) => task[d].prompt \in Prompts
    BY DEF Holding, Typed, Work
  <2> QED BY <1>1, <1>2, <1>3, <1>4, <2>1 DEF HoldersHaveClaims, Holding, Withdrawn
<1>8. HoldersInTurn'
  BY <1>2, <1>3 DEF HoldersInTurn, Past, Holding
<1>9. StartsAreClaimed'
  BY <1>1, <1>2 DEF StartsAreClaimed, Holding
<1>10. NothingLost'
  <2>1. 1 .. enqueued \subseteq Prompts
    BY PromptQueueAssumption DEF PromptQueueAssumption, Prompts, Typed
  <2> QED BY <1>2, <1>3, <1>4, <2>1 DEF NothingLost
<1>11. StartedAtMostOnce' /\ StartedInOrder'
  BY <1>2, <1>3 DEF StartedAtMostOnce, StartedInOrder
<1> QED BY <1>5, <1>6, <1>7, <1>8, <1>9, <1>10, <1>11

\* The file of a queue in which no claim is fresh is removed, or all its
\* prompts are withdrawn, claimed or not.
LEMMA WipeStep ==
    ASSUME Typed, ClaimProtocol, NEW r \in Withdrawn \cup {"purged"}, r = "purged" => ~ClaimActive,
           queue' = <<>>, fate' = Wiped(r), UNCHANGED <<enqueued, starts, lapsed>>,
           \A d \in Drains : SameWork(d)
    PROVE  ClaimProtocol'
<1> USE DEF ClaimProtocol
<1>0. DOMAIN queue' = {} /\ Queued' = {} /\ Len(queue') = 0
  BY DEF Queued
<1>1. \A x \in Prompts : fate'[x] = IF x \in Queued THEN r ELSE fate[x]
  BY DEF Wiped
<1>2. \A x \in Prompts : Past(x) => Past(x)'
  BY <1>1 DEF Past, Withdrawn
<1>3. QueueInOrder' /\ ClaimsAreHeld'
  BY <1>0 DEF QueueInOrder, ClaimsAreHeld
<1>4. HoldersHaveClaims'
  <2>1. ASSUME NEW d \in Drains, Holding(d), task[d].prompt \notin lapsed
        PROVE  fate'[task[d].prompt] \in Withdrawn
    <3>1. task[d].prompt \in Prompts
      BY <2>1 DEF Holding, Typed, Work
    <3>2. CASE task[d].prompt \in Queued
      <4>1. PICK i \in DOMAIN queue : queue[i].prompt = task[d].prompt
        BY <3>2 DEF Queued
      <4>2. queue[i].fresh
        BY <2>1, <4>1 DEF HoldersHaveClaims
      <4>3. r \in Withdrawn
        BY <4>2 DEF ClaimActive, ClaimsAreHeld
      <4> QED BY <1>1, <3>1, <3>2, <4>3
    <3>3. CASE task[d].prompt \notin Queued
      BY <1>1, <2>1, <3>1, <3>3 DEF HoldersHaveClaims
    <3> QED BY <3>2, <3>3
  <2>2. \A d, e \in Drains : Holding(d) /\ task[d].prompt \notin lapsed /\ Holding(e)
            /\ task[e].prompt = task[d].prompt => e = d
    BY DEF HoldersHaveClaims
  <2> QED BY <1>0, <2>1, <2>2 DEF HoldersHaveClaims, SameWork
<1>5. HoldersInTurn'
  BY <1>2 DEF HoldersInTurn, SameWork
<1>6. StartsAreClaimed'
  BY <1>0 DEF StartsAreClaimed, SameWork
<1>7. NothingLost'
  <2>1. 1 .. enqueued \subseteq Prompts
    BY PromptQueueAssumption DEF PromptQueueAssumption, Prompts, Typed
  <2> QED BY <1>1, <2>1 DEF NothingLost, Withdrawn
<1>8. StartedAtMostOnce'
  BY DEF StartedAtMostOnce
<1>9. StartedInOrder'
  BY <1>1 DEF StartedInOrder, Withdrawn
<1> QED BY <1>3, <1>4, <1>5, <1>6, <1>7, <1>8, <1>9

\* A claim grows stale: from now on its prompt may be claimed by another.
LEMMA ExpireStep ==
    ASSUME Typed, ClaimProtocol, NEW i \in DOMAIN queue, Expire(i)
    PROVE  ClaimProtocol'
<1> USE DEF ClaimProtocol
<1>1. /\ UNCHANGED <<task, enqueued, starts, fate>> /\ lapsed' = lapsed \cup {queue[i].prompt}
      /\ queue' = [queue EXCEPT ![i].fresh = FALSE]
  BY DEF Expire
<1>2. /\ DOMAIN queue' = DOMAIN queue /\ Len(queue') = Len(queue)
      /\ \A k \in DOMAIN queue : queue'[k].prompt = queue[k].prompt /\ queue'[k].claim = queue[k].claim
      /\ \A k \in DOMAIN queue \ {i} : queue'[k] = queue[k]
      /\ ~queue'[i].fresh
  <2>1. \A k \in DOMAIN queue : queue[k] \in Entry
    BY QueueEntries DEF Typed
  <2>2. queue' = [queue EXCEPT ![i] = [queue[i] EXCEPT !.fresh = FALSE]]
    BY <1>1
  <2>3. [queue[i] EXCEPT !.fresh = FALSE] \in Entry /\ i \in 1 .. Len(queue)
    BY <2>1, EntryTypes, QueueEntries DEF Typed
  <2>4. Len(queue') = Len(queue)
    BY <2>2, <2>3, ExceptSeq DEF Typed
  <2>5. DOMAIN queue' = DOMAIN queue
    BY <2>2
  <2>6. /\ [queue[i] EXCEPT !.fresh = FALSE].prompt = queue[i].prompt
        /\ [queue[i] EXCEPT !.fresh = FALSE].claim = queue[i].claim
        /\ ~[queue[i] EXCEPT !.fresh = FALSE].fresh
    BY <2>1 DEF Entry
  <2> QED BY <2>2, <2>4, <2>5, <2>6
<1>3. Queued' = Queued
  BY <1>2 DEF Queued
<1>4. QueueInOrder'
  BY <1>1, <1>2 DEF QueueInOrder
<1>5. ClaimsAreHeld'
  BY <1>1, <1>2 DEF ClaimsAreHeld, Holding
<1>6. HoldersHaveClaims'
  <2>1. \A d \in Drains : task'[d].prompt \notin lapsed' => \A k \in DOMAIN queue : queue[k].prompt = task[d].prompt => queue'[k] = queue[k]
    BY <1>1, <1>2
  <2> QED BY <1>1, <1>2, <1>3, <2>1 DEF HoldersHaveClaims, Holding
<1>7. HoldersInTurn' /\ NothingLost' /\ StartedAtMostOnce' /\ StartedInOrder'
  BY <1>1, <1>3 DEF HoldersInTurn, Past, Holding, NothingLost, StartedAtMostOnce, StartedInOrder
<1>8. StartsAreClaimed'
  BY <1>1, <1>2 DEF StartsAreClaimed, Holding
<1> QED BY <1>4, <1>5, <1>6, <1>7, <1>8

\* The claims of a process that dies are orphaned.
LEMMA KillStep ==
    ASSUME Typed, ClaimProtocol, NEW p \in Procs, Kill(p)
    PROVE  ClaimProtocol'
<1> USE DEF ClaimProtocol
<1>1. /\ UNCHANGED <<enqueued, starts, lapsed, fate>> /\ queue' = Orphaned(Tasks(p))
      /\ task' = [d \in Drains |-> IF d \in Tasks(p) THEN NoTask ELSE task[d]]
      /\ Orphan # None /\ Orphan \notin Drains
  BY PromptQueueAssumption DEF PromptQueueAssumption, Kill
<1>2. /\ DOMAIN queue' = DOMAIN queue /\ Len(queue') = Len(queue)
      /\ \A k \in DOMAIN queue :
           /\ queue'[k].prompt = queue[k].prompt /\ queue'[k].fresh = queue[k].fresh
           /\ queue'[k].claim = IF queue[k].claim \in Tasks(p) THEN Orphan ELSE queue[k].claim
  <2>1. \A k \in DOMAIN queue : queue[k] \in Entry /\ [queue[k] EXCEPT !.claim = Orphan] \in Entry
    BY QueueEntries, EntryTypes DEF Typed
  <2>2. queue' \in [DOMAIN queue -> Entry]
    BY <1>1, <2>1 DEF Orphaned
  <2>3. DOMAIN queue' = DOMAIN queue /\ Len(queue') = Len(queue)
    BY <2>2, MapProperties DEF Typed
  <2>4. \A k \in DOMAIN queue :
           /\ [queue[k] EXCEPT !.claim = Orphan].prompt = queue[k].prompt
           /\ [queue[k] EXCEPT !.claim = Orphan].fresh = queue[k].fresh
           /\ [queue[k] EXCEPT !.claim = Orphan].claim = Orphan
    BY <2>1 DEF Entry
  <2> QED BY <1>1, <2>3, <2>4 DEF Orphaned
<1>3. /\ \A d \in Drains \ Tasks(p) : task'[d] = task[d]
      /\ \A d \in Drains : Holding(d)' => d \notin Tasks(p) /\ Holding(d)
  BY <1>1 DEF Holding, NoTask
<1>4. \A d \in Drains : Holding(d) /\ d \notin Tasks(p) => Holding(d)'
  BY <1>3 DEF Holding
<1>5. Queued' = Queued
  BY <1>2 DEF Queued
<1>6. QueueInOrder'
  BY <1>1, <1>2 DEF QueueInOrder
<1>7. ClaimsAreHeld'
  <2>1. None \notin Tasks(p)
    BY PromptQueueAssumption DEF PromptQueueAssumption, Tasks
  <2>2. ASSUME NEW i \in DOMAIN queue, NEW c \in Drains, queue'[i].claim = c
        PROVE  Holding(c)' /\ task'[c].prompt = queue'[i].prompt
    <3>1. queue[i].claim = c /\ c \notin Tasks(p)
      BY <1>1, <1>2, <2>2
    <3>2. Holding(c) /\ task[c].prompt = queue[i].prompt
      BY <3>1 DEF ClaimsAreHeld
    <3> QED BY <1>2, <1>3, <1>4, <3>1, <3>2
  <2>3. ASSUME NEW i \in DOMAIN queue
        PROVE  /\ queue'[i].claim # None /\ ~queue'[i].fresh => queue'[i].prompt \in lapsed'
               /\ queue'[i].fresh => queue'[i].claim # None
    BY <1>1, <1>2, <2>1 DEF ClaimsAreHeld
  <2> QED BY <1>2, <2>2, <2>3 DEF ClaimsAreHeld
<1>8. HoldersHaveClaims'
  BY <1>1, <1>2, <1>3, <1>5 DEF HoldersHaveClaims
<1>9. HoldersInTurn' /\ NothingLost' /\ StartedAtMostOnce' /\ StartedInOrder'
  BY <1>1, <1>3, <1>5 DEF HoldersInTurn, Past, NothingLost, StartedAtMostOnce, StartedInOrder
<1>10. StartsAreClaimed'
  BY <1>1, <1>2, <1>3 DEF StartsAreClaimed
<1> QED BY <1>6, <1>7, <1>8, <1>9, <1>10

-----------------------------------------------------------------------------
(* Steps of a drain that change the queue or start a prompt *)

\* A drain that ends without a claim leaves everything as it is.
LEMMA EndWork ==
    ASSUME Typed, NEW d \in Drains, End(d)
    PROVE  /\ ~Holding(d)'
           /\ \A e \in Drains \ {d} : task'[e] = task[e] /\ (Holding(e)' <=> Holding(e))
           /\ \A e \in Drains : Holding(e)' => e # d /\ Holding(e)
BY DEF End, Typed, NoTask, Holding

\* The head is claimed by one drain, and all before it are past.
LEMMA ClaimStep ==
    ASSUME Typed, ClaimProtocol, NEW d \in Drains, ClaimHead(d)
    PROVE  ClaimProtocol'
<1> USE DEF ClaimProtocol
<1>0. /\ UNCHANGED <<enqueued, starts, lapsed, fate>> /\ ~Holding(d) /\ task[d].pc = "claim"
      /\ d # None
  BY PromptQueueAssumption DEF PromptQueueAssumption, ClaimHead, At, Holding
<1>1. CASE queue = <<>> \/ Head(queue).fresh
  <2>1. End(d) /\ UNCHANGED queueVars
    BY <1>0, <1>1 DEF ClaimHead, queueVars
  <2>2. \A e \in Drains : SameWork(e)
    BY <1>0, <2>1, EndWork DEF SameWork
  <2> QED BY <2>1, <2>2, QuietStep
<1>2. CASE ~(queue = <<>> \/ Head(queue).fresh)
  <2> DEFINE x == queue[1].prompt
  <2>1. /\ 1 \in DOMAIN queue /\ Head(queue) = queue[1] /\ queue[1] \in Entry /\ x \in Prompts
        /\ x <= enqueued /\ (\A y \in Prompts : y \in Nat /\ y > 0) /\ enqueued \in Nat
        /\ \A i, j \in DOMAIN queue : queue[i].prompt = queue[j].prompt => i = j
        /\ DOMAIN queue = 1 .. Len(queue) /\ ~queue[1].fresh
    BY <1>2, QueueEntries, QueueFacts, EmptySeq DEF Typed
  <2>2. queue' = [queue EXCEPT ![1] = [queue[1] EXCEPT !.claim = d, !.fresh = TRUE]]
    BY <1>2 DEF ClaimHead
  <2>3. task' = [task EXCEPT ![d] = [task[d] EXCEPT !.pc = "backoff", !.prompt = x]]
    <3>1. x = Head(queue).prompt
      BY <2>1
    <3> HIDE DEF x
    <3>2. task' = [task EXCEPT ![d].pc = "backoff", ![d].prompt = x]
      BY <1>2, <3>1 DEF ClaimHead
    <3> QED BY <3>2
  <2>4. /\ DOMAIN queue' = DOMAIN queue /\ Len(queue') = Len(queue)
        /\ \A k \in DOMAIN queue : queue'[k].prompt = queue[k].prompt
        /\ \A k \in DOMAIN queue \ {1} : queue'[k] = queue[k]
        /\ queue'[1].claim = d /\ queue'[1].fresh
    <3>1. [queue[1] EXCEPT !.claim = d, !.fresh = TRUE] \in Entry
      BY <2>1, EntryTypes
    <3>2. /\ [queue[1] EXCEPT !.claim = d, !.fresh = TRUE].prompt = queue[1].prompt
          /\ [queue[1] EXCEPT !.claim = d, !.fresh = TRUE].claim = d
          /\ [queue[1] EXCEPT !.claim = d, !.fresh = TRUE].fresh
      BY <2>1 DEF Entry
    <3>3. Len(queue') = Len(queue)
      BY <2>1, <2>2, <3>1, ExceptSeq DEF Typed
    <3> QED BY <2>1, <2>2, <3>2, <3>3
  <2>5. /\ task'[d].pc = "backoff" /\ task'[d].prompt = x /\ Holding(d)'
        /\ \A e \in Drains \ {d} : task'[e] = task[e] /\ (Holding(e)' <=> Holding(e))
    <3>1. task[d] \in Work /\ task \in [Drains -> Work]
      BY DEF Typed
    <3>2. task'[d].pc = "backoff" /\ task'[d].prompt = x
      BY <2>3, <3>1 DEF Work
    <3>3. \A e \in Drains \ {d} : task'[e] = task[e]
      BY <2>3
    <3> QED BY <2>1, <3>2, <3>3 DEF Holding, Direct
  <2>6. Queued' = Queued /\ x \in Queued
    BY <2>1, <2>4 DEF Queued
  \* The head was not claimed, or its claim had lapsed.
  <2>7. x \in lapsed \/ queue[1].claim = None
    BY <2>1 DEF ClaimsAreHeld
  <2>8. \A e \in Drains : Holding(e) /\ task[e].prompt = x => x \in lapsed
    BY <2>1 DEF HoldersHaveClaims
  <2> HIDE DEF x
  <2>9. \A e \in Drains : e # d /\ Holding(e)' => Holding(e) /\ task'[e] = task[e]
    BY <2>5
  <2>10. QueueInOrder'
    BY <1>0, <2>4 DEF QueueInOrder
  <2>11. ClaimsAreHeld'
    <3>1. ASSUME NEW i \in DOMAIN queue, i # 1, NEW c \in Drains, queue[i].claim = c
          PROVE  Holding(c)' /\ task'[c].prompt = queue[i].prompt
      <4>1. Holding(c) /\ task[c].prompt = queue[i].prompt
        BY <3>1 DEF ClaimsAreHeld
      <4>2. c # d
        BY <1>0, <4>1
      <4> QED BY <2>5, <3>1, <4>1, <4>2
    <3>2. ASSUME NEW i \in DOMAIN queue, i # 1
          PROVE  /\ queue[i].claim # None /\ ~queue[i].fresh => queue[i].prompt \in lapsed
                 /\ queue[i].fresh => queue[i].claim # None
      BY DEF ClaimsAreHeld
    <3> QED BY <1>0, <2>1, <2>4, <2>5, <3>1, <3>2 DEF ClaimsAreHeld, x
  <2>12. HoldersHaveClaims'
    <3>1. ASSUME NEW e \in Drains, Holding(e)', task'[e].prompt \notin lapsed, e # d
          PROVE  /\ task[e].prompt # x /\ Holding(e)
                 /\ \A i \in DOMAIN queue' : queue'[i].prompt = task'[e].prompt => queue'[i].claim = e /\ queue'[i].fresh
      <4>1. Holding(e) /\ task'[e] = task[e] /\ task[e].prompt # x
        BY <2>8, <2>9, <3>1
      <4>2. \A i \in DOMAIN queue : queue[i].prompt = task[e].prompt => queue[i].claim = e /\ queue[i].fresh
        BY <3>1, <4>1 DEF HoldersHaveClaims
      <4> QED BY <2>1, <2>4, <4>1, <4>2 DEF x
    <3>2. ASSUME x \notin lapsed, NEW e \in Drains, Holding(e)', task'[e].prompt = x
          PROVE  e = d
      BY <2>8, <2>9, <3>2
    <3>3. \A i \in DOMAIN queue' : queue'[i].prompt = x => queue'[i].claim = d /\ queue'[i].fresh
      BY <2>1, <2>4 DEF x
    <3>4. ASSUME NEW e \in Drains, Holding(e)', task'[e].prompt \notin lapsed, e # d,
                 NEW f \in Drains, Holding(f)', task'[f].prompt = task'[e].prompt
          PROVE  f = e
      BY <2>5, <2>9, <3>1, <3>4 DEF HoldersHaveClaims
    <3>5. ASSUME NEW e \in Drains, Holding(e)', task'[e].prompt \notin lapsed, e # d
          PROVE  task'[e].prompt \in Queued' \/ fate'[task'[e].prompt] \in Withdrawn
      BY <1>0, <2>6, <2>9, <3>5 DEF HoldersHaveClaims
    <3> QED BY <1>0, <2>5, <2>6, <3>1, <3>2, <3>3, <3>4, <3>5 DEF HoldersHaveClaims
  <2>13. HoldersInTurn'
    <3>1. ASSUME NEW y \in Prompts, y < x PROVE Past(y)
      <4>1. y \notin Queued
        <5> SUFFICES ASSUME NEW i \in DOMAIN queue, queue[i].prompt = y PROVE FALSE
          BY DEF Queued
        <5>1. i = 1 \/ 1 < i
          BY <2>1
        <5>2. x < y \/ x = y
          BY <2>1, <5>1 DEF QueueInOrder, x
        <5> QED BY <2>1, <3>1, <5>2
      <4>2. y \in 1 .. enqueued
        BY <2>1, <3>1
      <4> QED BY <4>1, <4>2 DEF NothingLost, Past
    <3> QED BY <1>0, <2>1, <2>5, <2>9, <3>1 DEF HoldersInTurn, Past, Started
  <2>14. StartsAreClaimed'
    <3>1. x \notin lapsed => starts[x] = 0
      <4>1. starts[x] \in 0 .. 2 /\ 1 \in DOMAIN queue /\ queue[1].prompt = x /\ x \in Prompts
        BY <2>1 DEF Typed, x
      <4>2. x \notin lapsed /\ starts[x] > 0 => queue[1].claim # None
        BY <4>1 DEF StartsAreClaimed
      <4> QED BY <2>7, <4>1, <4>2
    <3>2. \A i \in DOMAIN queue' : queue'[i].prompt = x \/ queue'[i] = queue[i]
      BY <2>4 DEF x
    <3> QED BY <1>0, <2>4, <2>5, <2>9, <3>1, <3>2 DEF StartsAreClaimed
  <2>15. NothingLost' /\ StartedAtMostOnce' /\ StartedInOrder'
    BY <1>0, <2>6 DEF NothingLost, StartedAtMostOnce, StartedInOrder
  <2> QED BY <2>10, <2>11, <2>12, <2>13, <2>14, <2>15
<1> QED BY <1>1, <1>2

\* Only the drain that has the claim starts the prompt, and it is the first.
LEMMA ActivateStep ==
    ASSUME Typed, ClaimProtocol, NEW d \in Drains, Activate(d)
    PROVE  ClaimProtocol'
<1> USE DEF ClaimProtocol
<1>0. /\ UNCHANGED <<queue, enqueued, lapsed, fate>> /\ task[d].pc = "starting" /\ task[d] \in Work
      /\ Holding(d) <=> task[d].prompt # Direct
  BY DEF Activate, At, Holding, Typed
<1>1. CASE Goto(d, "release") /\ UNCHANGED starts
  BY <1>0, <1>1, GotoWork, QuietStep DEF queueVars, Started
<1>2. CASE Goto(d, "patch") /\ task[d].prompt = Direct /\ UNCHANGED starts
  <2>1. task'[d].prompt = Direct /\ \A e \in Drains \ {d} : task'[e] = task[e]
    BY <1>0, <1>2 DEF Goto, Typed, Work
  <2>2. \A e \in Drains : SameWork(e)
    BY <1>0, <1>2, <2>1 DEF SameWork, Holding
  <2> QED BY <1>0, <1>2, <2>2, QuietStep DEF queueVars
<1>3. CASE /\ Goto(d, "patch") /\ task[d].prompt # Direct
           /\ starts' = [starts EXCEPT ![task[d].prompt] = IF @ = 2 THEN 2 ELSE @ + 1]
  <2> DEFINE x == task[d].prompt
  <2>1. Holding(d) /\ x \in Prompts
    BY <1>0, <1>3 DEF Work
  <2>2. /\ task'[d].pc = "patch" /\ task'[d].prompt = x /\ Holding(d)'
        /\ \A e \in Drains \ {d} : task'[e] = task[e] /\ (Holding(e)' <=> Holding(e))
    <3>1. task'[d].pc = "patch" /\ task'[d].prompt = x /\ \A e \in Drains \ {d} : task'[e] = task[e]
      BY <1>0, <1>3 DEF Goto, Typed, Work
    <3> QED BY <1>3, <3>1 DEF Holding
  <2>3. /\ \A y \in Prompts \ {x} : starts'[y] = starts[y]
        /\ starts'[x] > 0 /\ (starts[x] = 0 => starts'[x] = 1)
        /\ \A y \in Prompts : starts[y] > 0 => starts'[y] > 0
    <3>1. starts[x] \in 0 .. 2 /\ starts \in [Prompts -> 0 .. 2]
      BY <2>1 DEF Typed
    <3> QED BY <1>3, <2>1, <3>1
  <2>4. x \notin lapsed => starts[x] = 0
    <3>1. starts[x] \in 0 .. 2 /\ task[d].pc \notin Started
      BY <1>0, <2>1 DEF Typed, Started
    <3> QED BY <2>1, <3>1 DEF StartsAreClaimed
  <2>5. \A e \in Drains : /\ Holding(e)' <=> Holding(e)
                          /\ task'[e].prompt = task[e].prompt
                          /\ task[e].pc \in Started => task'[e].pc \in Started
    BY <1>0, <2>1, <2>2 DEF Started
  <2> HIDE DEF x
  <2>6. QueueInOrder' /\ ClaimsAreHeld' /\ HoldersHaveClaims'
    BY <1>0, <2>5 DEF QueueInOrder, ClaimsAreHeld, HoldersHaveClaims, Queued
  <2>7. HoldersInTurn'
    <3>1. \A y \in Prompts : Past(y) => Past(y)'
      BY <1>0, <2>3 DEF Past
    <3>2. \A e \in Drains : Holding(e) => task[e].prompt \in Prompts
      BY DEF Holding, Typed, Work
    <3> QED BY <1>0, <2>2, <2>3, <2>5, <3>1, <3>2 DEF HoldersInTurn
  <2>8. StartsAreClaimed'
    <3>1. x <= enqueued
      BY <2>1 DEF HoldersInTurn, x
    <3>2. \A y \in Prompts : y > enqueued' => starts'[y] = 0
      <4>1. \A y \in Prompts : y \in Nat /\ enqueued \in Nat
        BY QueueFacts
      <4> QED BY <1>0, <2>1, <2>3, <3>1, <4>1 DEF StartsAreClaimed, x
    <3>3. ASSUME x \notin lapsed, NEW e \in Drains, Holding(e)', task'[e].prompt = x
          PROVE  task'[e].pc \in Started
      <4>1. Holding(e) /\ task[e].prompt = x
        BY <2>5, <3>3
      <4>2. e = d
        BY <2>1, <3>3, <4>1 DEF HoldersHaveClaims, x
      <4> QED BY <2>2, <4>2 DEF Started
    <3>4. ASSUME x \notin lapsed, NEW i \in DOMAIN queue', queue'[i].prompt = x
          PROVE  queue'[i].claim # None
      BY PromptQueueAssumption, <1>0, <2>1, <3>4 DEF PromptQueueAssumption, HoldersHaveClaims, x
    <3>5. ASSUME NEW y \in Prompts \ lapsed', starts'[y] > 0, y # x
          PROVE  /\ \A e \in Drains : Holding(e)' /\ task'[e].prompt = y => task'[e].pc \in Started
                 /\ \A i \in DOMAIN queue' : queue'[i].prompt = y => queue'[i].claim # None
      BY <1>0, <2>3, <2>5, <3>5 DEF StartsAreClaimed
    <3> QED BY <1>0, <3>2, <3>3, <3>4, <3>5 DEF StartsAreClaimed
  <2>9. NothingLost'
    <3>1. 1 .. enqueued \subseteq Prompts
      BY PromptQueueAssumption DEF PromptQueueAssumption, Prompts, Typed
    <3> QED BY <1>0, <2>3, <3>1 DEF NothingLost, Queued
  <2>10. StartedAtMostOnce'
    BY <1>0, <2>3, <2>4 DEF StartedAtMostOnce
  <2>11. StartedInOrder'
    <3>1. \A y \in Prompts : y < x => Past(y)
      BY <2>1 DEF HoldersInTurn, x
    <3> QED BY <1>0, <2>1, <2>3, <3>1 DEF StartedInOrder, Past, x
  <2> QED BY <2>6, <2>7, <2>8, <2>9, <2>10, <2>11
<1> QED BY <1>1, <1>2, <1>3 DEF Activate

\* What a drain removes it has started.
LEMMA RemoveStep ==
    ASSUME Typed, ClaimProtocol, NEW d \in Drains, RemoveClaimed(d)
    PROVE  ClaimProtocol'
<1> USE DEF ClaimProtocol
<1>0. UNCHANGED <<enqueued, starts, lapsed, fate>> /\ task[d].pc = "settle" /\ End(d)
  BY DEF RemoveClaimed, At
<1>1. /\ ~Holding(d)'
      /\ \A e \in Drains \ {d} : task'[e] = task[e] /\ (Holding(e)' <=> Holding(e))
      /\ \A e \in Drains : Holding(e)' => e # d /\ Holding(e)
  BY <1>0, EndWork
<1>2. /\ QueueInOrder'
      /\ \A k \in DOMAIN queue' : \E l \in DOMAIN queue : queue'[k] = queue[l] /\ queue[l].claim # d
      /\ \A l \in DOMAIN queue : queue[l].claim = d \/ \E k \in DOMAIN queue' : queue'[k] = queue[l]
  <2>1. CASE ClaimedBy(d) = {} /\ UNCHANGED queue
    BY <1>0, <2>1 DEF ClaimedBy, QueueInOrder
  <2>2. ASSUME NEW i \in ClaimedBy(d), queue' = RemoveAt(queue, i)
        PROVE  /\ QueueInOrder'
               /\ \A k \in DOMAIN queue' : \E l \in DOMAIN queue : queue'[k] = queue[l] /\ queue[l].claim # d
               /\ \A l \in DOMAIN queue : queue[l].claim = d \/ \E k \in DOMAIN queue' : queue'[k] = queue[l]
    <3>1. i \in DOMAIN queue /\ queue[i].claim = d
      BY <2>2 DEF ClaimedBy
    <3>2. \A l \in DOMAIN queue : queue[l].claim = d => l = i
      BY <3>1, QueueFacts DEF ClaimsAreHeld
    <3>3. QueueInOrder'
      BY <1>0, <2>2, <3>1, RemovalOrder
    <3>4. /\ \A k \in DOMAIN queue' : \E l \in DOMAIN queue : queue'[k] = queue[l] /\ l # i
          /\ \A l \in DOMAIN queue \ {i} : \E k \in DOMAIN queue' : queue'[k] = queue[l]
      BY <2>2, <3>1, Removed DEF Typed
    <3>5. \A k \in DOMAIN queue' : \E l \in DOMAIN queue : queue'[k] = queue[l] /\ queue[l].claim # d
      BY <3>2, <3>4
    <3>6. \A l \in DOMAIN queue : queue[l].claim = d \/ \E k \in DOMAIN queue' : queue'[k] = queue[l]
      BY <3>1, <3>4
    <3> QED BY <3>3, <3>5, <3>6
  <2> QED BY <2>1, <2>2 DEF RemoveClaimed
<1>3. \A l \in DOMAIN queue : queue[l].claim = d =>
         Holding(d) /\ task[d].prompt = queue[l].prompt /\ starts[queue[l].prompt] > 0
  BY <1>0 DEF ClaimsAreHeld, HoldersInTurn, Started
<1>4. ClaimsAreHeld'
  BY <1>0, <1>1, <1>2 DEF ClaimsAreHeld
<1>5. HoldersHaveClaims'
  <2>1. ASSUME NEW e \in Drains, Holding(e)', task'[e].prompt \notin lapsed
        PROVE  task'[e].prompt \in Queued' \/ fate'[task'[e].prompt] \in Withdrawn
    <3>1. Holding(e) /\ e # d /\ task'[e] = task[e] /\ fate' = fate
      BY <1>0, <1>1, <2>1
    <3>2. CASE task[e].prompt \in Queued
      <4>1. PICK l \in DOMAIN queue : queue[l].prompt = task[e].prompt
        BY <3>2 DEF Queued
      <4>2. queue[l].claim = e
        BY <2>1, <3>1, <4>1 DEF HoldersHaveClaims
      <4>3. PICK k \in DOMAIN queue' : queue'[k] = queue[l]
        BY <1>2, <3>1, <4>2
      <4> QED BY <3>1, <4>1, <4>3 DEF Queued
    <3> QED BY <2>1, <3>1, <3>2 DEF HoldersHaveClaims
  <2> QED BY <1>0, <1>1, <1>2, <2>1 DEF HoldersHaveClaims
<1>6. HoldersInTurn'
  BY <1>0, <1>1 DEF HoldersInTurn, Past
<1>7. StartsAreClaimed'
  BY <1>0, <1>1, <1>2 DEF StartsAreClaimed
<1>8. NothingLost'
  <2>1. \A x \in Queued : x \in Queued' \/ starts[x] > 0
    BY <1>2, <1>3 DEF Queued
  <2> QED BY <1>0, <2>1 DEF NothingLost
<1>9. StartedAtMostOnce' /\ StartedInOrder'
  BY <1>0 DEF StartedAtMostOnce, StartedInOrder
<1> QED BY <1>2, <1>4, <1>5, <1>6, <1>7, <1>8, <1>9

\* What a drain releases it has not started.
LEMMA ReleaseStep ==
    ASSUME Typed, ClaimProtocol, NEW d \in Drains, ReleaseClaim(d)
    PROVE  ClaimProtocol'
<1> USE DEF ClaimProtocol
<1>0. UNCHANGED <<enqueued, starts, lapsed, fate>> /\ task[d].pc = "release" /\ End(d) /\ None \notin Drains
  BY PromptQueueAssumption DEF PromptQueueAssumption, ReleaseClaim, At
<1>1. /\ ~Holding(d)'
      /\ \A e \in Drains \ {d} : task'[e] = task[e] /\ (Holding(e)' <=> Holding(e))
      /\ \A e \in Drains : Holding(e)' => e # d /\ Holding(e)
  BY <1>0, EndWork
<1>2. /\ DOMAIN queue' = DOMAIN queue /\ Len(queue') = Len(queue)
      /\ \A k \in DOMAIN queue : queue'[k].prompt = queue[k].prompt
      /\ \A k \in DOMAIN queue : queue[k].claim # d => queue'[k] = queue[k]
      /\ \A k \in DOMAIN queue : queue[k].claim = d => queue'[k].claim = None /\ ~queue'[k].fresh
  <2>1. \A k \in DOMAIN queue : queue[k] \in Entry /\ Unclaimed(queue[k]) \in Entry
    BY QueueEntries, EntryTypes DEF Typed
  <2>2. queue' = [i \in DOMAIN queue |-> IF queue[i].claim = d THEN Unclaimed(queue[i]) ELSE queue[i]]
    BY DEF ReleaseClaim, ClaimedBy
  <2>3. queue' \in [DOMAIN queue -> Entry]
    BY <2>1, <2>2
  <2>4. DOMAIN queue' = DOMAIN queue /\ Len(queue') = Len(queue)
    BY <2>3, MapProperties DEF Typed
  <2>5. \A k \in DOMAIN queue : /\ Unclaimed(queue[k]).prompt = queue[k].prompt
                                 /\ Unclaimed(queue[k]).claim = None /\ ~Unclaimed(queue[k]).fresh
    BY <2>1 DEF Entry, Unclaimed
  <2> QED BY <2>2, <2>4, <2>5
<1>3. Queued' = Queued
  BY <1>2 DEF Queued
<1>4. \A k \in DOMAIN queue : queue[k].claim = d => Holding(d) /\ task[d].prompt = queue[k].prompt
  BY DEF ClaimsAreHeld
<1>5. QueueInOrder'
  BY <1>0, <1>2 DEF QueueInOrder
<1>6. ClaimsAreHeld'
  BY <1>0, <1>1, <1>2 DEF ClaimsAreHeld
<1>7. HoldersHaveClaims'
  BY <1>0, <1>1, <1>2, <1>3 DEF HoldersHaveClaims
<1>8. HoldersInTurn'
  BY <1>0, <1>1 DEF HoldersInTurn, Past
<1>9. StartsAreClaimed'
  <2>1. task[d].pc \notin Started
    BY <1>0 DEF Started
  <2> QED BY <1>0, <1>1, <1>2, <1>4, <2>1 DEF StartsAreClaimed
<1>10. NothingLost' /\ StartedAtMostOnce' /\ StartedInOrder'
  BY <1>0, <1>3 DEF NothingLost, StartedAtMostOnce, StartedInOrder
<1> QED BY <1>5, <1>6, <1>7, <1>8, <1>9, <1>10

\* Every step keeps the protocol of the claims.
LEMMA ProtocolStep == Typed /\ ClaimProtocol /\ [Next]_vars => ClaimProtocol'
<1> SUFFICES ASSUME Typed, ClaimProtocol, [Next]_vars PROVE ClaimProtocol'
  OBVIOUS
<1>1. CASE UNCHANGED vars
  BY <1>1, QuietStep DEF vars, queueVars, SameWork, Holding
<1>2. ASSUME NEW p \in Procs, Enqueue(p) \/ Kill(p) PROVE ClaimProtocol'
  BY <1>2, EnqueueStep, KillStep
<1>3. ASSUME NEW i \in DOMAIN queue, DeleteAt(i) \/ Expire(i) PROVE ClaimProtocol'
  BY <1>3, DeleteStep, ExpireStep
<1>4. CASE Purge
  <2>1. \A d \in Drains : SameWork(d)
    BY <1>4 DEF Purge, SameWork, Holding
  <2> QED BY <1>4, <2>1, WipeStep DEF Purge
<1>5. CASE \/ \E p \in Procs : Exit(p) \/ FinishPatch(p) \/ FinishRun(p)
           \/ \E d \in Drains : up[leader] /\ (Scan(d) \/ StartDirect(d))
           \/ Park \/ Reactivate \/ Takeover
  BY <1>5, QuietOutside, QuietStep
<1>6. ASSUME NEW d \in Drains, Clear(d) PROVE ClaimProtocol'
  <2>1. ~Holding(d)
    BY <1>6 DEF Clear, At, Holding
  <2>2. \A e \in Drains : SameWork(e)
    BY <1>6, <2>1, EndWork DEF Clear, SameWork
  <2> QED BY <1>6, <2>2, WipeStep DEF Clear, Withdrawn
<1>7. ASSUME NEW d \in Drains, DrainStep(d) PROVE ClaimProtocol'
  BY <1>6, <1>7, ClaimStep, ActivateStep, RemoveStep, ReleaseStep, QuietDrain, QuietStep DEF DrainStep
<1> QED BY <1>1, <1>2, <1>3, <1>4, <1>5, <1>7 DEF Next, Done

-----------------------------------------------------------------------------
(* The purge *)

\* The purge sees a fresh claim of every prompt that is about to be started.
LEMMA PurgeStep ==
    ASSUME Typed, ClaimProtocol, NoStartInPurged, [Next]_vars
    PROVE  NoStartInPurged'
<1> DEFINE Exposed(d) == /\ task[d].pc \in {"start", "starting", "patch"} /\ Holding(d)
                         /\ fate[task[d].prompt] \notin Withdrawn
                         /\ task[d].prompt \notin lapsed
<1>1. CASE Purge
  <2>1. ASSUME NEW d \in Drains, Exposed(d)' PROVE FALSE
    <3>1. Holding(d) /\ task' = task /\ lapsed' = lapsed /\ ~ClaimActive
      BY <1>1, <2>1 DEF Purge, Holding
    <3>2. task[d].prompt \in Prompts
      BY <3>1 DEF Holding, Typed, Work
    <3>3. CASE task[d].prompt \in Queued
      <4>1. PICK i \in DOMAIN queue : queue[i].prompt = task[d].prompt
        BY <3>3 DEF Queued
      <4>2. queue[i].fresh /\ queue[i].claim # None
        BY <2>1, <3>1, <4>1 DEF ClaimProtocol, HoldersHaveClaims, ClaimsAreHeld
      <4> QED BY <3>1, <4>2 DEF ClaimActive
    <3>4. CASE task[d].prompt \notin Queued
      <4>1. fate[task[d].prompt] \in Withdrawn
        BY <2>1, <3>1, <3>4 DEF ClaimProtocol, HoldersHaveClaims
      <4> QED BY <1>1, <2>1, <3>1, <3>2, <3>4, <4>1 DEF Purge, Wiped
    <3> QED BY <3>3, <3>4
  <2> QED BY <2>1 DEF NoStartInPurged
<1>2. ASSUME ~Purge, session'.life = "purged" PROVE session.life = "purged"
  <2>1. session \in Session
    BY DEF Typed
  <2>2. ASSUME NEW d \in Drains, DrainStep(d) PROVE session'.life = session.life
    BY <2>1, <2>2 DEF Session, DrainStep, LoadSession, LoadQueue, Clear, Probe, Disown, ClaimHead, Backoff, Reload, Reserve,
       Activate, Patch, RemoveClaimed, ReleaseClaim
  <2> QED BY <1>2, <2>1, <2>2 DEF Session, Next, Done, vars, Enqueue, Kill, Exit, FinishPatch, FinishRun,
      DeleteAt, Expire, Scan, StartDirect, Park, Reactivate, Takeover, NewSession
\* Without a purge who is exposed in a purged session was so before.
<1>3. ASSUME ~Purge, session.life = "purged", NEW d \in Drains, Exposed(d)' PROVE Exposed(d)
  <2>1. task[d].prompt \in Prompts \cup {Direct} /\ task[d] \in Work /\ fate \in [Prompts -> Fate]
    BY DEF Typed, Work
  <2>2. lapsed \subseteq lapsed'
    BY <1>3 DEF Next, Done, vars, Enqueue, Kill, Exit, FinishPatch, FinishRun, DeleteAt, Expire, Scan,
       StartDirect, Park, Reactivate, Takeover, DrainStep, LoadSession, LoadQueue, Clear, Probe, Disown,
       ClaimHead, Backoff, Reload, Reserve, Activate, Patch, RemoveClaimed, ReleaseClaim
  <2>3. \A x \in Prompts : fate[x] \in Withdrawn => fate'[x] \in Withdrawn
    <3>1. CASE UNCHANGED fate
      BY <3>1
    <3>2. CASE \E i \in DOMAIN queue : DeleteAt(i)
      BY <2>1, <3>2 DEF DeleteAt, Withdrawn
    <3>3. CASE \E e \in Drains : Clear(e)
      BY <3>3 DEF Clear, Wiped, Withdrawn
    <3> QED BY <1>3, <3>1, <3>2, <3>3 DEF Next, Done, vars, Enqueue, Kill, Exit, FinishPatch, FinishRun, Expire,
       Scan, StartDirect, Park, Reactivate, Takeover, DrainStep, LoadSession, LoadQueue, Probe, Disown,
       ClaimHead, Backoff, Reload, Reserve, Activate, Patch, RemoveClaimed, ReleaseClaim
  <2>4. task[d].pc \in {"start", "starting", "patch"} /\ task'[d].prompt = task[d].prompt
    <3>0. task'[d].pc \in {"start", "starting", "patch"} /\ task'[d].prompt # Direct /\ task \in [Drains -> Work]
      BY <1>3 DEF Holding, Typed
    <3>1. ASSUME NEW e \in Drains, NEW k, NEW p, Spawn(e, k, p) PROVE task'[d] = task[d]
      BY <3>0, <3>1 DEF Spawn, NoTask
    <3>2. ASSUME NEW e \in Drains, StartDirect(e) PROVE task'[d] = task[d]
      <4>1. [NoTask EXCEPT !.pc = "start", !.kind = "direct", !.proc = leader].prompt = Direct
        BY DEF NoTask
      <4> QED BY <3>0, <3>2, <4>1 DEF StartDirect
    <3>3. ASSUME NEW p \in Procs, Kill(p) PROVE task'[d] = task[d]
      BY <3>0, <3>3 DEF Kill, NoTask
    <3>4. ASSUME NEW e \in Drains, DrainStep(e), e # d PROVE task'[d] = task[d]
      <4>1. ASSUME End(e) \/ \E pc \in Pc : Goto(e, pc) PROVE task'[d] = task[d]
        BY <3>0, <3>4, <4>1 DEF End, Goto
      <4>2. CASE LoadSession(e) \/ ClaimHead(e)
        BY <3>0, <3>4, <4>1, <4>2 DEF LoadSession, ClaimHead
      <4>3. CASE LoadQueue(e) \/ Probe(e) \/ Backoff(e) \/ Reload(e) \/ Reserve(e) \/ Activate(e)
        BY <4>1, <4>3 DEF LoadQueue, Probe, Backoff, Reload, Reserve, Activate, Pc
      <4>4. CASE Clear(e) \/ Disown(e) \/ Patch(e) \/ RemoveClaimed(e) \/ ReleaseClaim(e)
        BY <4>1, <4>4 DEF Clear, Disown, Patch, RemoveClaimed, ReleaseClaim, Pc
      <4> QED BY <3>4, <4>2, <4>3, <4>4 DEF DrainStep
    <3>5. CASE DrainStep(d)
      <4>1. CASE LoadSession(d) \/ LoadQueue(d) \/ Clear(d) \/ Probe(d) \/ Disown(d)
        BY <2>1, <3>0, <4>1 DEF LoadSession, LoadQueue, Clear, Probe, Disown, Goto, End, NoTask, Work
      <4>2. CASE ClaimHead(d) \/ Backoff(d) \/ RemoveClaimed(d) \/ ReleaseClaim(d)
        BY <2>1, <3>0, <4>2 DEF ClaimHead, Backoff, RemoveClaimed, ReleaseClaim, Goto, End, NoTask, Work
      <4>3. CASE Reload(d) \/ Patch(d)
        BY <1>3, <2>1, <3>0, <4>3 DEF Reload, Patch, Goto, Work
      <4>4. CASE Reserve(d) \/ Activate(d)
        BY <2>1, <3>0, <4>4 DEF Reserve, Activate, At, Goto, Work
      <4> QED BY <3>5, <4>1, <4>2, <4>3, <4>4 DEF DrainStep
    <3>6. CASE UNCHANGED task
      BY <3>0, <3>6
    <3>7. task'[d] = task[d] \/ DrainStep(d)
      <4>1. CASE \E p \in Procs : Enqueue(p) \/ FinishRun(p)
        BY <3>1, <4>1 DEF Enqueue, FinishRun
      <4>2. CASE \E e \in Drains : Scan(e) \/ StartDirect(e)
        BY <3>1, <3>2, <4>2 DEF Scan
      <4>3. CASE \E e \in Drains : DrainStep(e)
        BY <3>4, <4>3
      <4> QED BY <1>3, <3>3, <4>1, <4>2, <4>3 DEF Next, Done, vars, Exit, FinishPatch, DeleteAt,
              Expire, Park, Reactivate, Takeover
    <3> QED BY <3>0, <3>5, <3>7
  <2>5. Holding(d)
    BY <1>3, <2>4 DEF Holding
  <2>6. task[d].prompt \in Prompts
    BY <2>1, <2>5 DEF Holding
  <2> QED BY <1>3, <2>2, <2>3, <2>4, <2>5, <2>6
<1> QED BY <1>1, <1>2, <1>3 DEF NoStartInPurged

-----------------------------------------------------------------------------
(* The theorems *)

\* The queue is never longer than the prompts that were enqueued.
LEMMA QueueIsBounded == Typed /\ QueueInOrder => TypeOK
<1> SUFFICES ASSUME Typed, QueueInOrder PROVE Len(queue) <= MaxPrompts
  BY DEF Typed, TypeOK, Work
<1>1. Len(queue) \in Nat /\ enqueued \in Nat /\ enqueued <= MaxPrompts /\ DOMAIN queue = 1 .. Len(queue)
      /\ MaxPrompts \in Nat
  BY PromptQueueAssumption, QueueEntries DEF PromptQueueAssumption, Typed
<1>2. CASE queue = <<>>
  BY <1>1, <1>2
<1>3. CASE queue # <<>>
  <2>1. 1 \in DOMAIN queue
    BY <1>1, <1>3, EmptySeq DEF Typed
  <2>2. queue[1].prompt \in Nat /\ queue[1].prompt > 0
    BY <2>1, QueueFacts
  <2>3. Len(queue) - 1 <= enqueued - queue[1].prompt
    BY <2>1 DEF QueueInOrder
  <2> QED BY <1>1, <2>2, <2>3
<1> QED BY <1>2, <1>3

\* The inductive invariant holds.
LEMMA QueueInvInvariant == Spec => []QueueInv
<1> DEFINE Inv == Typed /\ ClaimProtocol /\ NoStartInPurged
<1>1. Init => Inv
  <2> SUFFICES ASSUME Init PROVE Inv
    OBVIOUS
  <2>1. NoTask \in Work /\ NoTask.pc = "idle" /\ NoTask.prompt = Direct
    BY NoTaskType DEF NoTask
  <2>2. NewSession \in Session
    BY DEF NewSession, Session, Life
  <2>3. /\ queue = <<>> /\ queue \in Seq(Entry) /\ Len(queue) = 0 /\ DOMAIN queue = {}
    BY EmptySeq DEF Init
  <2>4. Typed
    BY <2>1, <2>2, <2>3, PromptQueueAssumption DEF PromptQueueAssumption, Init, Typed, Procs, Phase, Fate
  <2>5. /\ \A d \in Drains : ~Holding(d)
        /\ \A x \in Prompts : starts[x] = 0
        /\ enqueued = 0
    BY <2>1 DEF Init, Holding
  <2>6. ClaimProtocol
    BY <2>3, <2>5 DEF ClaimProtocol, QueueInOrder, ClaimsAreHeld, HoldersHaveClaims, HoldersInTurn,
       StartsAreClaimed, NothingLost, StartedAtMostOnce, StartedInOrder
  <2>7. NoStartInPurged
    BY <2>5 DEF NoStartInPurged
  <2> QED BY <2>4, <2>6, <2>7
<1>2. Inv /\ [Next]_vars => Inv'
  BY TypedStep, ProtocolStep, PurgeStep
<1>3. Inv => QueueInv
  BY QueueIsBounded DEF QueueInv, ClaimProtocol
<1> HIDE DEF Inv
<1> QED BY <1>1, <1>2, <1>3, PTL DEF Spec

\* drainPendingAgentPromptQueue: whatever number of drains in whatever number
\* of processes work on the queue, a prompt becomes a run at most once, unless
\* a claim of it lapsed.
THEOREM PromptStartsAtMostOnce == Spec => []StartedAtMostOnce
<1>1. QueueInv => StartedAtMostOnce
  BY DEF QueueInv, ClaimProtocol
<1> QED BY <1>1, QueueInvInvariant, PTL

\* claimHead: the prompts are started in the order in which they were queued.
THEOREM PromptsStartInOrder == Spec => []StartedInOrder
<1>1. QueueInv => StartedInOrder
  BY DEF QueueInv, ClaimProtocol
<1> QED BY <1>1, QueueInvInvariant, PTL

\* PromptQueueStore: no prompt gets lost between the queue and its run, also
\* when processes die and claims lapse.
THEOREM NoPromptIsLost == Spec => []NothingLost
<1>1. QueueInv => NothingLost
  BY DEF QueueInv, ClaimProtocol
<1> QED BY <1>1, QueueInvInvariant, PTL

\* purgeSession: the fresh claim of a prompt keeps its session from being
\* purged until its run is recorded.
THEOREM NoPromptStartsInPurged == Spec => []NoStartInPurged
<1>1. QueueInv => NoStartInPurged
  BY DEF QueueInv
<1> QED BY <1>1, QueueInvInvariant, PTL

\* claimHead: two drains never work on one prompt, as long as no claim of it
\* lapsed.
THEOREM ClaimIsExclusive == Spec => []ClaimExcludes
<1>1. QueueInv => ClaimExcludes
  BY DEF QueueInv, ClaimProtocol, HoldersHaveClaims, ClaimExcludes
<1> QED BY <1>1, QueueInvInvariant, PTL
=============================================================================

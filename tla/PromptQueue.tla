---------------------------- MODULE PromptQueue ----------------------------
(***************************************************************************)
(* The durable prompt queue of one topic and the drains that start its     *)
(* prompts.                                                                *)
(*                                                                         *)
(* PromptQueueStore keeps the queue in a file; every operation of it is    *)
(* one step under the meta lock of the session.  A drain                   *)
(* (drainPendingAgentPromptQueue) is a sequence of such operations with    *)
(* arbitrary interleaving in between: it loads the session, loads the      *)
(* queue, claims the head, loads the session again, starts a run and       *)
(* removes or releases what it claimed.  Drains run at the same time in    *)
(* one process (periodic scan, end of a run, user command) and, during a   *)
(* rollout, in two.                                                        *)
(*                                                                         *)
(* Prompts are numbered in the order in which they are enqueued.  A claim  *)
(* id is the drain that made it; the claim of a drain that died is Orphan. *)
(* Of a claim's age only its being older than the claim TTL is kept.       *)
(***************************************************************************)
EXTENDS Naturals, Sequences, FiniteSets, SequencesExt

CONSTANTS
    MaxProcs,    \* bound on the gateway processes, each one service generation
    Drains,      \* concurrent calls of drainPendingAgentPromptQueue
    None,
    Orphan,      \* claim id of a drain that no longer exists
    MaxPrompts,  \* bound on the prompts of a behaviour
    MaxDirect,   \* bound on the runs started without the queue
    Faults       \* what may go wrong, a subset of Fault

\* "kill": a process dies; "slow": a claim outlives its TTL while its drain
\* is still at work; "delete": the user deletes queued prompts; "lifecycle":
\* the topic is closed, reopened, purged; "refuse": a start fails; "probe": the
\* probe of an owner fails although it lives.
Fault == {"kill", "slow", "delete", "lifecycle", "refuse", "probe"}

ASSUME PromptQueueAssumption ==
    /\ None \notin Drains \cup {Orphan} /\ Orphan \notin Drains
    /\ MaxProcs \in Nat \ {0} /\ MaxPrompts \in Nat /\ MaxDirect \in Nat
    /\ Faults \subseteq Fault

VARIABLES
    queue,      \* agent-prompt-queue.json
    session,    \* meta.json: lifecycle, owner, last_run_status = "running"
    leader,     \* the process that polls; the others retire
    up,         \* the process exists
    slot,       \* activeRuns and startingRuns of each process, this topic
    task,       \* each drain: its process, its step and what it read
    enqueued,   \* number of prompts enqueued so far
    direct,     \* number of runs started without the queue
    starts,     \* how often each prompt became a run, counted up to 2
    lapsed,     \* the prompts a claim of which went stale, see ClaimExcludes
    fate        \* how a prompt left the queue without a run

vars == <<queue, session, leader, up, slot, task, enqueued, direct, starts, lapsed, fate>>

Procs == 1 .. MaxProcs
Prompts == 1 .. MaxPrompts
Direct == 0      \* the prompt of a run that never was in the queue
Life == {"active", "parked", "purged"}
Session == [life : Life, owner : Procs \cup {None}, running : BOOLEAN]
Entry == [prompt : Prompts, claim : Drains \cup {None, Orphan}, fresh : BOOLEAN]
Kind == {"scan", "finish", "post", "direct"}
Pc == {"idle", "session", "queue", "clear", "probe", "disown", "claim",
       "backoff", "reload", "start", "starting", "patch", "settle", "release"}

\* "deleted": by the user; "purged": by the purge of the session; "cleared": by a
\* scan that found the session purged; "swept": by a scan that had found it
\* purged, when the session was in use again.
Fate == {"none", "deleted", "purged", "cleared", "swept"}

\* An entry goes this way whoever has claimed it.
Withdrawn == {"deleted", "cleared", "swept"}
Phase == {"idle", "starting", "active", "running", "ending"}

TypeOK ==
    /\ queue \in Seq(Entry) /\ Len(queue) <= MaxPrompts
    /\ session \in Session
    /\ leader \in Procs
    /\ up \in [Procs -> BOOLEAN]
    /\ slot \in [Procs -> Phase]
    /\ task \in [Drains -> [pc : Pc, kind : Kind, proc : Procs, seen : Session,
                            prompt : Prompts \cup {Direct}]]
    /\ enqueued \in 0 .. MaxPrompts /\ direct \in 0 .. MaxDirect
    /\ starts \in [Prompts -> 0 .. 2]
    /\ lapsed \subseteq Prompts
    /\ fate \in [Prompts -> Fate]

NewSession == [life |-> "active", owner |-> None, running |-> FALSE]
NoTask == [pc |-> "idle", kind |-> "scan", proc |-> 1,
           seen |-> NewSession, prompt |-> Direct]

Init ==
    /\ queue = <<>> /\ session = NewSession
    /\ leader = 1
    /\ up = [p \in Procs |-> TRUE]
    /\ slot = [p \in Procs |-> "idle"]
    /\ task = [d \in Drains |-> NoTask]
    /\ enqueued = 0 /\ direct = 0
    /\ starts = [x \in Prompts |-> 0]
    /\ lapsed = {}
    /\ fate = [x \in Prompts |-> "none"]

----------------------------------------------------------------------------
(* Operators on the queue, the session and the drains.                     *)

Queued == {queue[i].prompt : i \in DOMAIN queue}

\* The fates of the prompts when the file is removed for reason r
Wiped(r) == [x \in Prompts |-> IF x \in Queued THEN r ELSE fate[x]]

Unclaimed(e) == [e EXCEPT !.claim = None, !.fresh = FALSE]

\* findIndex of the entry with this claim id, as a set of positions
ClaimedBy(c) == {i \in DOMAIN queue : queue[i].claim = c}

\* The queue after the drains D died with their process
Orphaned(D) ==
    [i \in DOMAIN queue |->
        IF queue[i].claim \in D THEN [queue[i] EXCEPT !.claim = Orphan] ELSE queue[i]]

Tasks(p) == {d \in Drains : task[d].pc # "idle" /\ task[d].proc = p}
Retiring(p) == p # leader

\* shouldForwardSessionToOwner: the session in s belongs to another process
Foreign(s, p) == s.owner \notin {None, p} /\ s.running

\* A drain of a given kind begins in p.
Spawn(d, k, p) ==
    /\ task[d].pc = "idle"
    /\ task' = [task EXCEPT ![d] = [NoTask EXCEPT !.pc = "session", !.kind = k, !.proc = p]]

At(d, pc) == task[d].pc = pc /\ up[task[d].proc]
Goto(d, pc) == task' = [task EXCEPT ![d].pc = pc]
End(d) == task' = [task EXCEPT ![d] = NoTask]

----------------------------------------------------------------------------
(* Users, timers and the operator of the service.                          *)

\* A user queues a prompt: the update is handled by the leader, or forwarded
\* to the process that owns the running session.  The lifecycle of the session
\* is not looked at under the lock: the topic may have been closed or purged
\* since the command was read.  The first of the queue is drained at once,
\* except while the session is compacting or the process shuts down
\* (maybeEnqueuePromptForLater).
Enqueue(p) ==
    /\ up[p] /\ (p = leader \/ (session.owner = p /\ session.running))
    /\ enqueued < MaxPrompts
    /\ enqueued' = enqueued + 1
    /\ queue' = Append(queue, [prompt |-> enqueued + 1, claim |-> None, fresh |-> FALSE])
    /\ \/ queue = <<>> /\ \E d \in Drains : Spawn(d, "post", p)
       \/ UNCHANGED task
    /\ UNCHANGED <<session, leader, up, slot, direct, starts, lapsed, fate>>

\* The user deletes the prompt at position i, claimed or not.
DeleteAt(i) ==
    /\ "delete" \in Faults /\ i \in DOMAIN queue
    /\ queue' = RemoveAt(queue, i)
    /\ fate' = [fate EXCEPT ![queue[i].prompt] = "deleted"]
    /\ UNCHANGED <<session, leader, up, slot, task, enqueued, direct, starts, lapsed>>

\* The scan timer of the leader fires; one scan at a time.
Scan(d) ==
    /\ up[leader]
    /\ \A e \in Tasks(leader) : task[e].kind # "scan"
    /\ queue # <<>>
    /\ Spawn(d, "scan", leader)
    /\ UNCHANGED <<queue, session, leader, up, slot, enqueued, direct, starts, lapsed, fate>>

\* A prompt that is not queued: startPromptRun is called directly.
StartDirect(d) ==
    /\ up[leader] /\ direct < MaxDirect
    /\ session.life = "active" /\ ~Foreign(session, leader)
    /\ task[d].pc = "idle"
    /\ task' = [task EXCEPT ![d] = [NoTask EXCEPT !.pc = "start", !.kind = "direct",
                                                  !.proc = leader]]
    /\ direct' = direct + 1
    /\ UNCHANGED <<queue, session, leader, up, slot, enqueued, starts, lapsed, fate>>

\* The topic is closed or found unavailable.
Park ==
    /\ "lifecycle" \in Faults /\ session.life = "active"
    /\ session' = [session EXCEPT !.life = "parked"]
    /\ UNCHANGED <<queue, leader, up, slot, task, enqueued, direct, starts, lapsed, fate>>

\* The topic is reopened, or used again after a purge (ensureSession).
Reactivate ==
    /\ session.life # "active"
    /\ session' = IF session.life = "purged" THEN NewSession
                  ELSE [session EXCEPT !.life = "active"]
    /\ UNCHANGED <<queue, leader, up, slot, task, enqueued, direct, starts, lapsed, fate>>

\* isPromptQueueClaimActive
ClaimActive == \E i \in DOMAIN queue : queue[i].claim # None /\ queue[i].fresh

\* Mutant: the purge does not look at the claims.
PurgeOverClaims ==
    /\ "lifecycle" \in Faults /\ session.life # "purged"
    /\ ~session.running /\ session.owner = None
    /\ session' = [session EXCEPT !.life = "purged"]
    /\ queue' = <<>>
    /\ fate' = Wiped("purged")
    /\ UNCHANGED <<leader, up, slot, task, enqueued, direct, starts, lapsed>>

\* The retention sweep or an administrator purges the session: every file
\* but the lock is removed.
Purge ==
    /\ "lifecycle" \in Faults /\ session.life # "purged"
    /\ ~session.running /\ session.owner = None /\ ~ClaimActive
    /\ session' = [session EXCEPT !.life = "purged"]
    /\ queue' = <<>>
    /\ fate' = Wiped("purged")
    /\ UNCHANGED <<leader, up, slot, task, enqueued, direct, starts, lapsed>>

\* A claim becomes older than QUEUED_PROMPT_CLAIM_TTL_MS.
Expire(i) ==
    /\ i \in DOMAIN queue /\ queue[i].fresh
    /\ queue[i].claim = Orphan \/ "slow" \in Faults
    /\ queue' = [queue EXCEPT ![i].fresh = FALSE]
    /\ lapsed' = lapsed \cup {queue[i].prompt}
    /\ UNCHANGED <<session, leader, up, slot, task, enqueued, direct, starts, fate>>

\* The next generation takes the leadership over, because the leader died or
\* in a rollout; a process that led before never does again.
Takeover ==
    /\ leader + 1 \in Procs
    /\ leader' = leader + 1
    /\ UNCHANGED <<queue, session, up, slot, task, enqueued, direct, starts, lapsed, fate>>

\* A process dies; there is always a later one.
Kill(p) ==
    /\ "kill" \in Faults /\ p <= leader /\ p < MaxProcs /\ up[p]
    /\ up' = [up EXCEPT ![p] = FALSE]
    /\ slot' = [slot EXCEPT ![p] = "idle"]
    /\ task' = [d \in Drains |-> IF d \in Tasks(p) THEN NoTask ELSE task[d]]
    /\ queue' = Orphaned(Tasks(p))
    /\ UNCHANGED <<session, leader, enqueued, direct, starts, lapsed, fate>>

\* A retired process without a run stops.
Exit(p) ==
    /\ up[p] /\ p < leader /\ slot[p] = "idle" /\ Tasks(p) = {}
    /\ up' = [up EXCEPT ![p] = FALSE]
    /\ UNCHANGED <<queue, session, leader, slot, task, enqueued, direct, starts, lapsed, fate>>

----------------------------------------------------------------------------
(* One drain.                                                              *)

\* The listing of the scan, or the load of the one session
LoadSession(d) ==
    /\ At(d, "session")
    /\ task' = [task EXCEPT ![d].pc = "queue", ![d].seen = session]
    /\ UNCHANGED <<queue, session, leader, up, slot, enqueued, direct, starts, lapsed, fate>>

\* The queue is loaded; the session read before decides what to do.  Only
\* the scan has a generation store to look the owner up; a drain after a
\* user command passes no generation id and ignores the owner.
LoadQueue(d) ==
    LET s == task[d].seen
        foreign == task[d].kind # "post" /\ Foreign(s, task[d].proc)
    IN  /\ At(d, "queue")
        /\ \/ (queue = <<>> \/ s.life = "parked") /\ End(d)
           \/ queue # <<>> /\ s.life = "purged" /\ Goto(d, "clear")
           \/ queue # <<>> /\ s.life = "active" /\ ~foreign /\ Goto(d, "claim")
           \/ /\ queue # <<>> /\ s.life = "active" /\ foreign
              /\ IF task[d].kind = "scan" THEN Goto(d, "probe") ELSE End(d)
        /\ UNCHANGED <<queue, session, leader, up, slot, enqueued, direct, starts, lapsed, fate>>

\* The file is removed on the word of the session read before, whatever the
\* session is by now and whatever was queued since.
Clear(d) ==
    /\ At(d, "clear")
    /\ queue' = <<>>
    /\ fate' = Wiped(IF session.life = "purged" THEN "cleared" ELSE "swept")
    /\ End(d)
    /\ UNCHANGED <<session, leader, up, slot, enqueued, direct, starts, lapsed>>

\* isOwnedSessionForwardTargetLive: no dead owner is found to live, but one that
\* lives may not answer in time.
Probe(d) ==
    /\ At(d, "probe")
    /\ \/ up[task[d].seen.owner] /\ End(d)
       \/ (~up[task[d].seen.owner] \/ "probe" \in Faults) /\ Goto(d, "disown")
    /\ UNCHANGED <<queue, session, leader, up, slot, enqueued, direct, starts, lapsed, fate>>

\* Mutant: the patch replaces the record of the session.
DisownReplaces(d) ==
    /\ At(d, "disown")
    /\ session' = [owner |-> None]
    /\ Goto(d, "claim")
    /\ UNCHANGED <<queue, leader, up, slot, enqueued, direct, starts, lapsed, fate>>

\* The owner found dead is removed from the session; its status stays "running".
Disown(d) ==
    /\ At(d, "disown")
    /\ session' = [session EXCEPT !.owner = None]
    /\ Goto(d, "claim")
    /\ UNCHANGED <<queue, leader, up, slot, enqueued, direct, starts, lapsed, fate>>

\* Mutant: a claim is never respected.
ClaimHeadAlways(d) ==
    /\ At(d, "claim")
    /\ IF queue = <<>>
       THEN End(d) /\ UNCHANGED queue
       ELSE
          /\ queue' = [queue EXCEPT ![1].claim = d, ![1].fresh = TRUE]
          /\ task' = [task EXCEPT ![d].pc = "backoff", ![d].prompt = Head(queue).prompt]
    /\ UNCHANGED <<session, leader, up, slot, enqueued, direct, starts, lapsed, fate>>

\* Mutant: a stale claim is respected too.
ClaimHeadNeverStale(d) ==
    /\ At(d, "claim")
    /\ IF queue = <<>> \/ Head(queue).claim # None
       THEN End(d) /\ UNCHANGED queue
       ELSE
          /\ queue' = [queue EXCEPT ![1].claim = d, ![1].fresh = TRUE]
          /\ task' = [task EXCEPT ![d].pc = "backoff", ![d].prompt = Head(queue).prompt]
    /\ UNCHANGED <<session, leader, up, slot, enqueued, direct, starts, lapsed, fate>>

\* Mutant: the first prompt without a fresh claim is claimed.
ClaimFirstFree(d) ==
    LET free == {i \in DOMAIN queue : ~queue[i].fresh}
        i == CHOOSE k \in free : \A l \in free : k <= l
    IN  /\ At(d, "claim")
        /\ \/ free = {} /\ End(d) /\ UNCHANGED queue
           \/ /\ free # {}
              /\ queue' = [queue EXCEPT ![i].claim = d, ![i].fresh = TRUE]
              /\ task' = [task EXCEPT ![d].pc = "backoff", ![d].prompt = queue[i].prompt]
        /\ UNCHANGED <<session, leader, up, slot, enqueued, direct, starts, lapsed, fate>>

\* The head of the queue is claimed, unless it is claimed and the claim is
\* fresh.  A stale claim is replaced.
ClaimHead(d) ==
    /\ At(d, "claim")
    /\ IF queue = <<>> \/ Head(queue).fresh
       THEN End(d) /\ UNCHANGED queue
       ELSE
          /\ queue' = [queue EXCEPT ![1].claim = d, ![1].fresh = TRUE]
          /\ task' = [task EXCEPT ![d].pc = "backoff", ![d].prompt = Head(queue).prompt]
    /\ UNCHANGED <<session, leader, up, slot, enqueued, direct, starts, lapsed, fate>>

\* shouldSkipQueuedPromptStart: the host was unavailable a short while ago.
Backoff(d) ==
    /\ At(d, "backoff")
    /\ \/ Goto(d, "reload")
       \/ "refuse" \in Faults /\ Goto(d, "release")
    /\ UNCHANGED <<queue, session, leader, up, slot, enqueued, direct, starts, lapsed, fate>>

Reload(d) ==
    /\ At(d, "reload")
    /\ Goto(d, IF session.life = "active" THEN "start" ELSE "release")
    /\ UNCHANGED <<queue, session, leader, up, slot, enqueued, direct, starts, lapsed, fate>>

\* canStart and the reservation of the slot.  Other topics may use the
\* whole capacity.
Reserve(d) ==
    LET p == task[d].proc IN
    /\ At(d, "start")
    /\ \/ /\ slot[p] # "idle" \/ "refuse" \in Faults
          /\ Goto(d, "release") /\ UNCHANGED slot
       \/ /\ slot[p] = "idle"
          /\ slot' = [slot EXCEPT ![p] = "starting"]
          /\ Goto(d, "starting")
    /\ UNCHANGED <<queue, session, leader, up, enqueued, direct, starts, lapsed, fate>>

\* The host answered and the progress message is out: the run is active.
\* Or the host is unavailable, or one of the calls throws.
Activate(d) ==
    LET p == task[d].proc
        x == task[d].prompt
    IN  /\ At(d, "starting")
        /\ \/ /\ "refuse" \in Faults
              /\ slot' = [slot EXCEPT ![p] = "idle"]
              /\ Goto(d, "release") /\ UNCHANGED starts
           \/ /\ slot' = [slot EXCEPT ![p] = "active"]
              /\ Goto(d, "patch")
              /\ starts' = IF x = Direct THEN starts
                           ELSE [starts EXCEPT ![x] = IF @ = 2 THEN 2 ELSE @ + 1]
        /\ UNCHANGED <<queue, session, leader, up, enqueued, direct, lapsed, fate>>

\* The session is patched to running and the lifecycle of the run attached.
Patch(d) ==
    LET p == task[d].proc IN
    /\ At(d, "patch")
    /\ session' = [session EXCEPT !.owner = p, !.running = TRUE]
    /\ slot' = [slot EXCEPT ![p] = "running"]
    /\ Goto(d, "settle")
    /\ UNCHANGED <<queue, leader, up, enqueued, direct, starts, lapsed, fate>>

\* Mutant: the claimed prompt is released although its run was started.
RemoveClaimedReleases(d) ==
    /\ At(d, "settle")
    /\ queue' = [i \in DOMAIN queue |-> IF i \in ClaimedBy(d) THEN Unclaimed(queue[i]) ELSE queue[i]]
    /\ End(d)
    /\ UNCHANGED <<session, leader, up, slot, enqueued, direct, starts, lapsed, fate>>

\* Mutant: whatever stands at the head is removed.
RemoveClaimedShift(d) ==
    /\ At(d, "settle")
    /\ queue' = IF task[d].kind = "direct" \/ queue = <<>> THEN queue ELSE Tail(queue)
    /\ End(d)
    /\ UNCHANGED <<session, leader, up, slot, enqueued, direct, starts, lapsed, fate>>

\* The run is started: the entry with the drain's claim id is removed.
RemoveClaimed(d) ==
    /\ At(d, "settle")
    /\ \/ ClaimedBy(d) = {} /\ UNCHANGED queue
       \/ \E i \in ClaimedBy(d) : queue' = RemoveAt(queue, i)
    /\ End(d)
    /\ UNCHANGED <<session, leader, up, slot, enqueued, direct, starts, lapsed, fate>>

\* The run is not started: the claim is taken back.
ReleaseClaim(d) ==
    /\ At(d, "release")
    /\ queue' = [i \in DOMAIN queue |-> IF i \in ClaimedBy(d) THEN Unclaimed(queue[i]) ELSE queue[i]]
    /\ End(d)
    /\ UNCHANGED <<session, leader, up, slot, enqueued, direct, starts, lapsed, fate>>

----------------------------------------------------------------------------
(* The end of a run.                                                       *)

\* The terminal patch: status, and the owner is cleared.
FinishPatch(p) ==
    /\ up[p] /\ slot[p] = "running"
    /\ session' = [session EXCEPT !.owner = None, !.running = FALSE]
    /\ slot' = [slot EXCEPT ![p] = "ending"]
    /\ UNCHANGED <<queue, leader, up, task, enqueued, direct, starts, lapsed, fate>>

\* The run leaves activeRuns; a process that is not retiring drains.
FinishRun(p) ==
    /\ up[p] /\ slot[p] = "ending"
    /\ slot' = [slot EXCEPT ![p] = "idle"]
    /\ IF Retiring(p) THEN UNCHANGED task ELSE \E d \in Drains : Spawn(d, "finish", p)
    /\ UNCHANGED <<queue, session, leader, up, enqueued, direct, starts, lapsed, fate>>

DrainStep(d) ==
    \/ LoadSession(d) \/ LoadQueue(d) \/ Clear(d) \/ Probe(d) \/ Disown(d)
    \/ ClaimHead(d) \/ Backoff(d) \/ Reload(d) \/ Reserve(d) \/ Activate(d)
    \/ Patch(d) \/ RemoveClaimed(d) \/ ReleaseClaim(d)

\* Nothing is left to do within the bounds.
Done ==
    /\ queue = <<>> /\ enqueued = MaxPrompts
    /\ UNCHANGED vars

Next ==
    \/ \E p \in Procs : Enqueue(p) \/ Kill(p) \/ Exit(p) \/ FinishPatch(p) \/ FinishRun(p)
    \/ \E i \in DOMAIN queue : DeleteAt(i) \/ Expire(i)
    \/ \E d \in Drains : DrainStep(d) \/ (up[leader] /\ (Scan(d) \/ StartDirect(d)))
    \/ Park \/ Reactivate \/ Purge \/ Takeover \/ Done

Spec == Init /\ [][Next]_vars

\* The event loop of a live process runs every drain and every run to its
\* end, the scan timer fires, claims grow old and a dead leader is replaced.
\* A start that is possible again and again succeeds at some time.
Fairness ==
    /\ \A d \in Drains : WF_vars(DrainStep(d)) /\ SF_vars(ClaimHead(d))
    /\ \A d \in Drains : SF_vars(Reserve(d) /\ task'[d].pc = "starting")
    /\ \A p \in Procs : WF_vars(FinishPatch(p)) /\ WF_vars(FinishRun(p))
    /\ WF_vars(\E d \in Drains : Scan(d))
    /\ \A i \in Prompts : WF_vars(Expire(i))
    /\ WF_vars(~up[leader] /\ Takeover)

FairSpec == Spec /\ Fairness

----------------------------------------------------------------------------
(* Properties.                                                             *)

\* The drain holds a prompt it has claimed and not yet settled.
Holding(d) ==
    /\ task[d].prompt # Direct
    /\ task[d].pc \in {"backoff", "reload", "start", "starting", "patch", "settle", "release"}

\* claimHead: as long as its claim is not older than its TTL, two drains, in
\* one process or in two, never work on the same prompt.
ClaimExcludes ==
    \A d, e \in Drains :
        Holding(d) /\ Holding(e) /\ task[d].prompt = task[e].prompt
            => d = e \/ task[d].prompt \in lapsed

\* drainPendingAgentPromptQueue: a queued prompt is turned into a run at most
\* once, unless its process dies in the middle or its claim expires.
StartedAtMostOnce == \A x \in Prompts \ lapsed : starts[x] <= 1

\* Prompts are started in the order in which the user queued them, whatever
\* fails: an earlier prompt was started, or left the queue without a run, as
\* NothingLost lists it.
StartedInOrder ==
    \A x, y \in Prompts : x < y /\ starts[y] > 0 => starts[x] > 0 \/ fate[x] # "none"

\* A prompt accepted into the queue is still there, or was started, or the user
\* deleted it, or it went with its session: by the purge, or by a scan while the
\* session was purged.  The exception is "swept": a scan that read the session
\* as purged removes the file after the topic was used again, and with it what
\* was queued since (prompt-queue.js:421-423).  Such a prompt is lost, and
\* nobody is told.
NothingLost ==
    \A x \in 1 .. enqueued :
        \/ x \in Queued \/ starts[x] > 0
        \/ fate[x] \in {"deleted", "purged", "cleared"}
        \/ fate[x] = "swept"

\* purgeSession against the drain: a session is not purged under a prompt
\* that is about to become a run, as long as its claim protects it.  It does
\* not when the claim lapsed, when the user deleted the claimed prompt, or when
\* a scan on a reading "purged" removed the file over the claim, whether the
\* session still was purged or not (Clear: "cleared", "swept").
NoStartInPurged ==
    \A d \in Drains :
        (/\ task[d].pc \in {"start", "starting", "patch"} /\ Holding(d)
         /\ fate[task[d].prompt] \notin Withdrawn
         /\ task[d].prompt \notin lapsed)
            => session.life # "purged"

\* A queued prompt of a topic that stays open leaves the queue, even when the
\* process that claimed it, or the one that ran the topic, dies.
QueueMoves ==
    \A x \in Prompts : x \in Queued ~> (x \notin Queued)

============================================================================

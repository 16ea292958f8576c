---------------------------- MODULE Leadership ----------------------------
(***************************************************************************)
(* Which gateway process polls Telegram.                                   *)
(*                                                                         *)
(* Every process is a service generation.  It keeps a heartbeat record in  *)
(* the registry, answers identity probes on a loopback endpoint, and       *)
(* competes for one leader lease file guarded by a mkdir lock.  The module *)
(* models ServiceGenerationStore with its three callers: the main loop     *)
(* (acquireLeadership), the heartbeat timer (renewLeadership) and the      *)
(* retire and shutdown paths (releaseLeadership), which run concurrently   *)
(* even inside one process.                                                *)
(*                                                                         *)
(* Timestamps are kept as the time left, counted in ticks; Tick is the     *)
(* passage of one tick.  0 stands for "expired".                           *)
(***************************************************************************)
EXTENDS Integers, FiniteSets

CONSTANTS
    Gen,              \* generation ids, each the id of one process
    None,             \* "no lease file"
    LeaderTtl,        \* leaderTtlMs
    GenTtl,           \* generationTtlMs
    HeartbeatPeriod,  \* GENERATION_HEARTBEAT_MS
    LockTimeout,      \* LOCK_TIMEOUT_MS
    LockStale,        \* LOCK_STALE_MS
    MaxStalls,        \* bound on the stalls of a behaviour
    Events            \* what may happen to a process, a subset of Event

\* "stop": SIGTERM; "retire": a rollout hands over; "crash": SIGKILL outside
\* withLeaderLock; "crashInLock": SIGKILL inside it; "probeFails": a probe of
\* a healthy process times out.
Event == {"stop", "retire", "crash", "crashInLock", "probeFails"}

ASSUME ConstantsAssumption ==
    /\ None \notin Gen
    /\ LeaderTtl \in Nat /\ GenTtl \in Nat
    /\ HeartbeatPeriod \in Nat \ {0}
    /\ LockTimeout \in Nat \ {0} /\ LockStale \in Nat \ {0}
    /\ HeartbeatPeriod < LeaderTtl /\ HeartbeatPeriod < GenTtl
    /\ MaxStalls \in Nat /\ Events \subseteq Event

VARIABLES
    phase,      \* life of a process, from spawn to exit
    stalled,    \* its event loop does not run
    stalls,     \* stalls that may still happen
    leader,     \* serviceState.isLeader
    retiring,   \* serviceState.retiring
    endpoint,   \* the forwarding server is listening
    record,     \* time left of the heartbeat record, or Absent
    pruning,    \* records a starting process decided to remove
    lease,      \* the leader lease file
    lockDir,    \* the lock directory exists
    lockAge,    \* its age
    beatAge,    \* time since the heartbeat timer fired
    pc,         \* progress of each task inside withLeaderLock
    waited,     \* how long a task has waited for the lock
    seen,       \* generation named by the lease the task read
    age,        \* time since the task read the clock
    ok          \* the value the task will return

procVars == <<phase, stalled, stalls, leader, retiring, endpoint, record, pruning, beatAge>>
taskVars == <<pc, waited, seen, age, ok>>
vars == <<procVars, lease, lockDir, lockAge, taskVars>>

\* No heartbeat record in the registry
Absent == -1

Kind == {"takeover", "renew", "release"}
Task == Gen \X Kind
Phase == {"off", "starting", "up", "stopping", "closing", "releasing",
          "released", "exited"}
Pc == {"idle", "wait", "reap", "read", "probe", "write", "unlock", "sleep"}
InLock == {"read", "probe", "write", "unlock"}

ProcTypeOK ==
    /\ phase \in [Gen -> Phase]
    /\ stalled \in [Gen -> BOOLEAN]
    /\ stalls \in 0 .. MaxStalls
    /\ leader \in [Gen -> BOOLEAN]
    /\ retiring \in [Gen -> BOOLEAN]
    /\ endpoint \in [Gen -> BOOLEAN]

FileTypeOK ==
    /\ record \in [Gen -> Absent .. GenTtl]
    /\ pruning \in [Gen -> SUBSET Gen]
    /\ beatAge \in [Gen -> 0 .. HeartbeatPeriod]
    /\ lease \in [gen : Gen \cup {None}, ttl : 0 .. LeaderTtl]
    /\ lockDir \in BOOLEAN
    /\ lockAge \in 0 .. LockStale

TaskTypeOK ==
    /\ pc \in [Task -> Pc]
    /\ waited \in [Task -> 0 .. LockTimeout]
    /\ seen \in [Task -> Gen \cup {None}]
    /\ age \in [Task -> 0 .. LeaderTtl]
    /\ ok \in [Task -> BOOLEAN]

TypeOK == ProcTypeOK /\ FileTypeOK /\ TaskTypeOK

Init ==
    /\ phase = [g \in Gen |-> "off"]
    /\ stalled = [g \in Gen |-> FALSE]
    /\ stalls = MaxStalls
    /\ leader = [g \in Gen |-> FALSE]
    /\ retiring = [g \in Gen |-> FALSE]
    /\ endpoint = [g \in Gen |-> FALSE]
    /\ record = [g \in Gen |-> Absent]
    /\ pruning = [g \in Gen |-> {}]
    /\ lease = [gen |-> None, ttl |-> 0]
    /\ lockDir = FALSE
    /\ lockAge = 0
    /\ beatAge = [g \in Gen |-> 0]
    /\ pc = [t \in Task |-> "idle"]
    /\ waited = [t \in Task |-> 0]
    /\ seen = [t \in Task |-> None]
    /\ age = [t \in Task |-> 0]
    /\ ok = [t \in Task |-> FALSE]

----------------------------------------------------------------------------
(* Liveness checks of the store.                                           *)

\* process.kill(pid, 0)
Alive(g) == phase[g] \notin {"off", "exited"}

\* isGenerationRecordLive: an unexpired record of a process that exists
RecordLive(g) == record[g] > 0 /\ Alive(g)

\* listGenerations
Listed == {g \in Gen : record[g] # Absent}

\* isLeaderLeaseLive
LeaseLive == lease.gen # None /\ lease.ttl > 0 /\ Alive(lease.gen)

\* The answers probeForwardingEndpoint may give about g
ProbeAnswers(g) ==
    IF Alive(g) /\ endpoint[g] /\ ~stalled[g]
    THEN IF "probeFails" \in Events THEN {TRUE, FALSE} ELSE {TRUE}
    ELSE {FALSE}

\* The main loop of g issues getUpdates
Polling(g) ==
    phase[g] = "up" /\ leader[g] /\ ~retiring[g] /\ ~stalled[g]

Critical(t) == pc[t] \in InLock

----------------------------------------------------------------------------
(* withLeaderLock                                                          *)

\* A caller enters withLeaderLock and reads the clock for its time-out.
EnterWait(t) ==
    /\ pc' = [pc EXCEPT ![t] = "wait"]
    /\ waited' = [waited EXCEPT ![t] = 0]
    /\ UNCHANGED <<seen, age, ok>>

\* Mutant: an existing directory is not noticed (mkdir -p).
LockMkdirP(t) ==
    /\ pc[t] = "wait"
    /\ lockDir' = TRUE
    /\ lockAge' = 0
    /\ pc' = [pc EXCEPT ![t] = "read"]
    /\ waited' = [waited EXCEPT ![t] = 0]
    /\ UNCHANGED <<procVars, lease, seen, age, ok>>

\* mkdir succeeds.
Lock(t) ==
    /\ pc[t] = "wait"
    /\ ~lockDir
    /\ lockDir' = TRUE
    /\ lockAge' = 0
    /\ pc' = [pc EXCEPT ![t] = "read"]
    /\ waited' = [waited EXCEPT ![t] = 0]
    /\ UNCHANGED <<procVars, lease, seen, age, ok>>

\* Mutant: a stale directory is never reaped, every caller times out.
StatStaleNever(t) ==
    /\ pc[t] = "wait" /\ lockDir
    /\ waited[t] > LockTimeout
    /\ pc' = [pc EXCEPT ![t] = "reap"]
    /\ UNCHANGED <<procVars, lease, lockDir, lockAge, waited, seen, age, ok>>

\* mkdir fails after the time-out and stat shows a stale directory.
StatStale(t) ==
    /\ pc[t] = "wait"
    /\ lockDir
    /\ waited[t] = LockTimeout
    /\ lockAge = LockStale
    /\ pc' = [pc EXCEPT ![t] = "reap"]
    /\ UNCHANGED <<procVars, lease, lockDir, lockAge, waited, seen, age, ok>>

\* The directory that stat saw is removed, whoever owns it by now.
Reap(t) ==
    /\ pc[t] = "reap"
    /\ lockDir' = FALSE
    /\ lockAge' = 0
    /\ pc' = [pc EXCEPT ![t] = "wait"]
    /\ UNCHANGED <<procVars, lease, waited, seen, age, ok>>

\* The main loop sleeps (LEADER_WAIT_MS) after an attempt that failed.
AfterCall(t) == IF t[2] = "takeover" /\ ~ok[t] THEN "sleep" ELSE "idle"

\* mkdir fails after the time-out on a fresh directory: the call throws, and
\* each caller goes on without a result (a failed release does not stop the
\* rest of performShutdown).
Timeout(t) ==
    /\ pc[t] = "wait"
    /\ lockDir
    /\ waited[t] = LockTimeout
    /\ lockAge < LockStale
    /\ pc' = [pc EXCEPT ![t] = AfterCall(t)]
    /\ waited' = [waited EXCEPT ![t] = 0]
    /\ phase' = IF t[2] = "release" /\ phase[t[1]] = "releasing"
                THEN [phase EXCEPT ![t[1]] = "released"] ELSE phase
    /\ record' = IF t[2] = "release" /\ phase[t[1]] = "releasing"
                 THEN [record EXCEPT ![t[1]] = Absent] ELSE record
    /\ UNCHANGED <<stalled, stalls, leader, retiring, endpoint, pruning, beatAge,
                   lease, lockDir, lockAge, seen, age, ok>>

\* takeoverLeadership reads the lease, then the owner's heartbeat record; it
\* goes straight to the write unless both are live.
ReadTakeover(t) ==
    /\ t[2] = "takeover"
    /\ pc' = [pc EXCEPT ![t] =
                IF LeaseLive /\ RecordLive(lease.gen) THEN "probe" ELSE "write"]
    /\ UNCHANGED ok

\* renewLeadership and releaseLeadership give up unless the lease is theirs.
ReadOwned(t) ==
    /\ t[2] \in {"renew", "release"}
    /\ pc' = [pc EXCEPT ![t] = IF lease.gen = t[1] THEN "write" ELSE "unlock"]
    /\ ok' = [ok EXCEPT ![t] = FALSE]

Read(t) ==
    /\ pc[t] = "read"
    /\ ReadTakeover(t) \/ ReadOwned(t)
    /\ seen' = [seen EXCEPT ![t] = lease.gen]
    /\ age' = [age EXCEPT ![t] = 0]
    /\ UNCHANGED <<procVars, lease, lockDir, lockAge, waited>>

\* Mutant: the owner's answer is not taken into account.
ProbeIgnored(t) ==
    /\ pc[t] = "probe"
    /\ pc' = [pc EXCEPT ![t] = "write"]
    /\ ok' = [ok EXCEPT ![t] = FALSE]
    /\ UNCHANGED <<procVars, lease, lockDir, lockAge, waited, seen, age>>

\* The owner of the lease is asked to identify itself.
Probe(t) ==
    /\ pc[t] = "probe"
    /\ \E answer \in ProbeAnswers(seen[t]) :
         pc' = [pc EXCEPT ![t] =
                  IF answer /\ seen[t] # t[1] THEN "unlock" ELSE "write"]
    /\ ok' = [ok EXCEPT ![t] = FALSE]
    /\ UNCHANGED <<procVars, lease, lockDir, lockAge, waited, seen, age>>

\* Mutants: the lease gets the lifetime of a heartbeat record; a renewal
\* writes the lease back without a new expiry.
NextLeaseGenTtl(t) ==
    IF t[2] = "release"
    THEN [gen |-> None, ttl |-> 0]
    ELSE [gen |-> t[1], ttl |-> GenTtl - age[t]]

NextLeaseNotExtended(t) ==
    CASE t[2] = "release" -> [gen |-> None, ttl |-> 0]
      [] t[2] = "takeover" -> [gen |-> t[1], ttl |-> LeaderTtl - age[t]]
      [] t[2] = "renew" -> lease

\* The lease a takeover or a renewal writes expires LeaderTtl after the clock
\* was read, not after the write.
NextLease(t) ==
    IF t[2] = "release"
    THEN [gen |-> None, ttl |-> 0]
    ELSE [gen |-> t[1], ttl |-> LeaderTtl - age[t]]

Write(t) ==
    /\ pc[t] = "write"
    /\ lease' = NextLease(t)
    /\ ok' = [ok EXCEPT ![t] = TRUE]
    /\ pc' = [pc EXCEPT ![t] = "unlock"]
    /\ UNCHANGED <<procVars, lockDir, lockAge, waited, seen, age>>

\* The finally block removes the directory, whoever owns it by now, and the
\* caller continues.
UnlockTakeover(t) ==
    /\ t[2] = "takeover"
    /\ leader' = [leader EXCEPT ![t[1]] = @ \/ ok[t]]
    /\ record' = IF ok[t] THEN [record EXCEPT ![t[1]] = GenTtl] ELSE record
    /\ UNCHANGED phase

\* Mutant: the result of renewLeadership is ignored.
UnlockRenewIgnored(t) ==
    /\ t[2] = "renew"
    /\ UNCHANGED <<phase, leader, record>>

UnlockRenew(t) ==
    /\ t[2] = "renew"
    /\ leader' = [leader EXCEPT ![t[1]] =
                    @ /\ (ok[t] \/ retiring[t[1]])]
    /\ UNCHANGED <<phase, record>>

UnlockRelease(t) ==
    /\ t[2] = "release"
    /\ IF phase[t[1]] = "releasing"
       THEN /\ phase' = [phase EXCEPT ![t[1]] = "released"]
            /\ record' = [record EXCEPT ![t[1]] = Absent]
       ELSE UNCHANGED <<phase, record>>
    /\ UNCHANGED leader

Unlock(t) ==
    /\ pc[t] = "unlock"
    /\ UnlockTakeover(t) \/ UnlockRenew(t) \/ UnlockRelease(t)
    /\ lockDir' = FALSE
    /\ lockAge' = 0
    /\ pc' = [pc EXCEPT ![t] = AfterCall(t)]
    /\ seen' = [seen EXCEPT ![t] = None]
    /\ age' = [age EXCEPT ![t] = 0]
    /\ ok' = [ok EXCEPT ![t] = FALSE]
    /\ UNCHANGED <<stalled, stalls, retiring, endpoint, pruning, beatAge, lease, waited>>

----------------------------------------------------------------------------
(* The process                                                             *)

\* A process starts its forwarding server and judges the records it finds.
Start(g) ==
    /\ phase[g] = "off"
    /\ phase' = [phase EXCEPT ![g] = "starting"]
    /\ endpoint' = [endpoint EXCEPT ![g] = TRUE]
    /\ \E stale \in SUBSET Listed :
         /\ \A h \in Listed \ stale : RecordLive(h) /\ TRUE \in ProbeAnswers(h)
         /\ \A h \in stale : RecordLive(h) => FALSE \in ProbeAnswers(h)
         /\ pruning' = [pruning EXCEPT ![g] = stale]
    /\ UNCHANGED <<stalled, stalls, leader, retiring, record, beatAge, lease, lockDir, lockAge,
                   taskVars>>

\* It removes the records it judged stale and writes its own.
Ready(g) ==
    /\ phase[g] = "starting"
    /\ phase' = [phase EXCEPT ![g] = "up"]
    /\ record' = [h \in Gen |-> IF h = g THEN GenTtl
                                ELSE IF h \in pruning[g] THEN Absent ELSE record[h]]
    /\ pruning' = [pruning EXCEPT ![g] = {}]
    /\ beatAge' = [beatAge EXCEPT ![g] = 0]
    /\ UNCHANGED <<stalled, stalls, leader, retiring, endpoint, lease, lockDir, lockAge, taskVars>>

\* The main loop of a process that is not the leader tries to become it.
BeginTakeover(g) ==
    /\ phase[g] = "up" /\ ~retiring[g] /\ ~leader[g]
    /\ pc[<<g, "takeover">>] = "idle"
    /\ EnterWait(<<g, "takeover">>)
    /\ UNCHANGED <<procVars, lease, lockDir, lockAge>>

\* The heartbeat timer: the record is rewritten, and a leader starts a
\* renewal (one that is still pending absorbs it).
Heartbeat(g) ==
    /\ phase[g] \in {"up", "stopping", "closing", "releasing", "released"}
    /\ beatAge[g] = HeartbeatPeriod
    /\ beatAge' = [beatAge EXCEPT ![g] = 0]
    /\ record' = [record EXCEPT ![g] = GenTtl]
    /\ IF leader[g] /\ pc[<<g, "renew">>] = "idle"
       THEN EnterWait(<<g, "renew">>)
       ELSE UNCHANGED taskVars
    /\ UNCHANGED <<phase, stalled, stalls, leader, retiring, endpoint, pruning, lease, lockDir,
                   lockAge>>

\* retire() of the rollout controller: a leader steps down and releases.
Retire(g) ==
    /\ "retire" \in Events
    /\ phase[g] = "up" /\ leader[g] /\ ~retiring[g]
    /\ retiring' = [retiring EXCEPT ![g] = TRUE]
    /\ leader' = [leader EXCEPT ![g] = FALSE]
    /\ EnterWait(<<g, "release">>)
    /\ UNCHANGED <<phase, stalled, stalls, endpoint, record, pruning, beatAge, lease, lockDir,
                   lockAge>>

\* SIGTERM, or a retiring process without runs: performShutdown begins.
Stop(g) ==
    /\ "stop" \in Events
    /\ phase[g] = "up"
    /\ phase' = [phase EXCEPT ![g] = "stopping"]
    /\ retiring' = [retiring EXCEPT ![g] = TRUE]
    /\ UNCHANGED <<stalled, stalls, leader, endpoint, record, pruning, beatAge, lease, lockDir,
                   lockAge, taskVars>>

\* Runs are drained and the forwarding server stops listening.
StopForwarding(g) ==
    /\ phase[g] = "stopping"
    /\ phase' = [phase EXCEPT ![g] = "closing"]
    /\ endpoint' = [endpoint EXCEPT ![g] = FALSE]
    /\ UNCHANGED <<stalled, stalls, leader, retiring, record, pruning, beatAge, lease, lockDir,
                   lockAge, taskVars>>

\* isLeader = false, releaseLeadership().
BeginRelease(g) ==
    /\ phase[g] = "closing"
    /\ pc[<<g, "release">>] = "idle"
    /\ phase' = [phase EXCEPT ![g] = "releasing"]
    /\ leader' = [leader EXCEPT ![g] = FALSE]
    /\ EnterWait(<<g, "release">>)
    /\ UNCHANGED <<stalled, stalls, retiring, endpoint, record, pruning, beatAge, lease, lockDir,
                   lockAge>>

\* Nothing is pending: the process ends.
Exit(g) ==
    /\ phase[g] = "released"
    /\ \A k \in Kind : pc[<<g, k>>] \in {"idle", "sleep"}
    /\ phase' = [phase EXCEPT ![g] = "exited"]
    /\ leader' = [leader EXCEPT ![g] = FALSE]
    /\ UNCHANGED <<stalled, stalls, retiring, endpoint, record, pruning, beatAge, lease, lockDir,
                   lockAge, taskVars>>

\* The process is killed; a lock directory it made stays behind.
Crash(g) ==
    /\ Alive(g)
    /\ IF \A k \in Kind : ~Critical(<<g, k>>)
       THEN "crash" \in Events ELSE "crashInLock" \in Events
    /\ phase' = [phase EXCEPT ![g] = "exited"]
    /\ leader' = [leader EXCEPT ![g] = FALSE]
    /\ endpoint' = [endpoint EXCEPT ![g] = FALSE]
    /\ pruning' = [pruning EXCEPT ![g] = {}]
    /\ stalled' = [stalled EXCEPT ![g] = FALSE]
    /\ pc' = [t \in Task |-> IF t[1] = g THEN "idle" ELSE pc[t]]
    /\ waited' = [t \in Task |-> IF t[1] = g THEN 0 ELSE waited[t]]
    /\ seen' = [t \in Task |-> IF t[1] = g THEN None ELSE seen[t]]
    /\ age' = [t \in Task |-> IF t[1] = g THEN 0 ELSE age[t]]
    /\ ok' = [t \in Task |-> IF t[1] = g THEN FALSE ELSE ok[t]]
    /\ UNCHANGED <<stalls, retiring, record, beatAge, lease, lockDir, lockAge>>

\* The process is suspended, or its event loop is blocked, and goes on later.
Stall(g) ==
    /\ stalls > 0 /\ phase[g] = "up" /\ ~stalled[g]
    /\ stalls' = stalls - 1
    /\ stalled' = [stalled EXCEPT ![g] = TRUE]
    /\ UNCHANGED <<phase, leader, retiring, endpoint, record, pruning, beatAge,
                   lease, lockDir, lockAge, taskVars>>

Resume(g) ==
    /\ stalled[g]
    /\ stalled' = [stalled EXCEPT ![g] = FALSE]
    /\ UNCHANGED <<phase, stalls, leader, retiring, endpoint, record, pruning, beatAge,
                   lease, lockDir, lockAge, taskVars>>

----------------------------------------------------------------------------
(* Time                                                                    *)

\* The lock is held by a process that cannot give it back now.
Orphaned == lockDir /\ \A t \in Task : Critical(t) => stalled[t[1]]

\* The process has nothing left to do within this tick: its timer fired and
\* no task of it can go on.
Settled(g) ==
    /\ phase[g] # "starting"
    /\ beatAge[g] < HeartbeatPeriod
    /\ \A k \in Kind :
         \/ pc[<<g, k>>] \in {"idle", "sleep"}
         \/ pc[<<g, k>>] = "wait" /\ Orphaned /\ waited[<<g, k>>] < LockTimeout

Down(n) == IF n > 0 THEN n - 1 ELSE 0
Up(n, cap) == IF n < cap THEN n + 1 ELSE cap

Tick ==
    /\ \A g \in Gen : Alive(g) => stalled[g] \/ Settled(g)
    /\ lease' = [lease EXCEPT !.ttl = Down(@)]
    /\ record' = [g \in Gen |-> IF record[g] = Absent THEN Absent
                                ELSE Down(record[g])]
    /\ lockAge' = IF lockDir THEN Up(lockAge, LockStale) ELSE lockAge
    /\ beatAge' = [g \in Gen |-> IF Alive(g) /\ phase[g] # "starting"
                                 THEN Up(beatAge[g], HeartbeatPeriod)
                                 ELSE beatAge[g]]
    /\ waited' = [t \in Task |-> IF pc[t] = "wait" THEN Up(waited[t], LockTimeout)
                                 ELSE waited[t]]
    /\ age' = [t \in Task |-> IF pc[t] \in {"probe", "write"}
                              THEN Up(age[t], LeaderTtl) ELSE age[t]]
    /\ pc' = [t \in Task |-> IF pc[t] = "sleep" THEN "idle" ELSE pc[t]]
    /\ UNCHANGED <<phase, stalled, stalls, leader, retiring, endpoint, pruning, lockDir,
                   seen, ok>>

TaskStep(t) ==
    /\ ~stalled[t[1]]
    /\ \/ Lock(t) \/ StatStale(t) \/ Reap(t) \/ Timeout(t)
       \/ Read(t) \/ Probe(t) \/ Write(t) \/ Unlock(t)

ProcStep(g) ==
    /\ ~stalled[g]
    /\ \/ Start(g) \/ Ready(g) \/ BeginTakeover(g) \/ Heartbeat(g)
       \/ Retire(g) \/ Stop(g) \/ StopForwarding(g) \/ BeginRelease(g)
       \/ Exit(g)

Next ==
    \/ \E t \in Task : TaskStep(t)
    \/ \E g \in Gen : ProcStep(g) \/ Crash(g) \/ Stall(g) \/ Resume(g)
    \/ Tick

Spec == Init /\ [][Next]_vars

\* The event loop of a live process runs its callbacks, no stall lasts for
\* ever, and time goes on.
\* Nothing makes a process start, retire, stop or crash.
Fairness ==
    /\ WF_vars(Tick)
    /\ \A t \in Task : WF_vars(TaskStep(t))
    /\ \A g \in Gen :
         /\ WF_vars(Resume(g))
         /\ WF_vars(~stalled[g] /\ Ready(g))
         /\ WF_vars(~stalled[g] /\ BeginTakeover(g))
         /\ WF_vars(~stalled[g] /\ Heartbeat(g))
         /\ WF_vars(~stalled[g] /\ StopForwarding(g))
         /\ WF_vars(~stalled[g] /\ BeginRelease(g))
         /\ WF_vars(~stalled[g] /\ Exit(g))

FairSpec == Spec /\ Fairness

----------------------------------------------------------------------------
(* Properties                                                              *)

\* The leader lock is a lock: two tasks are never between mkdir and rm at
\* once, though any waiter may remove a stale directory and every caller
\* removes the directory when it leaves, without looking whose it is.
LockExcludes ==
    \A t, u \in Task : Critical(t) /\ Critical(u) => t = u

\* The read-check-write of takeover, renewal and release is atomic: nobody
\* changes the lease between the read and the write that was decided on it.
WriteOfWhatWasRead ==
    \A t \in Task : pc[t] \in {"probe", "write"} => lease.gen = seen[t]

\* At most one process issues getUpdates, through takeover, hand-over, retire,
\* shutdown and crash.
AtMostOnePoller ==
    \A g, h \in Gen : Polling(g) /\ Polling(h) => g = h

\* A process that polls holds an unexpired lease.
PollerHoldsLease ==
    \A g \in Gen : Polling(g) => lease.gen = g /\ lease.ttl > 0

\* A process whose lease has been given to another one stops polling: its
\* next renewal finds out.
DeposedStopsPolling ==
    \A g \in Gen : (Polling(g) /\ lease.gen # g) ~> (~Polling(g) \/ lease.gen = g)

\* No death, not even that of a process holding the leader lock, stops the
\* service: while some process stays ready to lead, polling goes on.
PollingGoesOn ==
    (\E g \in Gen : <>[](phase[g] = "up" /\ ~retiring[g]))
        => []<>(\E g \in Gen : Polling(g))

----------------------------------------------------------------------------
(* Why AtMostOnePoller holds when nothing is killed inside the lock, no    *)
(* process stalls and no probe of a healthy process fails: an inductive    *)
(* invariant, proved in LeadershipProofs.                                  *)

Led(g) == phase[g] = "up" /\ leader[g] /\ ~retiring[g]

\* No lock is ever held across a tick, so nobody waits, nothing gets stale.
LockInv ==
    /\ stalls = 0 /\ \A g \in Gen : ~stalled[g]
    /\ lockAge = 0
    /\ \A t \in Task : pc[t] # "reap" /\ waited[t] = 0 /\ age[t] = 0
    /\ \A t \in Task : pc[t] \notin {"idle", "sleep"}
                         => Alive(t[1]) /\ phase[t[1]] # "starting"
    /\ \A t \in Task : Critical(t) => lockDir
    /\ lockDir => \E t \in Task : Critical(t)
    /\ LockExcludes

\* What a task may rely on, and what it may be about to write.
TaskInv ==
    /\ WriteOfWhatWasRead
    /\ \A t \in Task : pc[t] = "probe" => t[2] = "takeover"
    /\ \A t \in Task : pc[t] = "write" /\ t[2] # "takeover" => lease.gen = t[1]
    /\ \A t \in Task : pc[t] = "write" /\ t[2] = "takeover"
                         => \A g \in Gen : Led(g) => g = t[1]
    /\ \A t \in Task : pc[t] = "unlock" /\ t[2] = "takeover" /\ ok[t]
                         => lease.gen = t[1] /\ lease.ttl = LeaderTtl
    /\ \A t \in Task : pc[t] # "idle" /\ t[2] = "release" => retiring[t[1]]

\* The record of a running process is fresh, and nobody is about to prune it.
RecordInv ==
    \A g \in Gen :
        /\ phase[g] \in {"off", "starting"} => record[g] = Absent /\ ~leader[g]
        /\ phase[g] = "starting" => endpoint[g]
        /\ phase[g] = "up" => endpoint[g] /\ record[g] + beatAge[g] >= GenTtl
        /\ \A h \in Gen : g \in pruning[h] =>
                              phase[g] \notin {"off", "starting", "up"}
        /\ phase[g] \in {"stopping", "closing", "releasing"} => retiring[g]

\* The lease of a leader is at most one heartbeat period old, or its renewal
\* is under way.
LeaseFresh(g) ==
    /\ pc[<<g, "renew">>] # "idle" => beatAge[g] < HeartbeatPeriod
    /\ Led(g) =>
         /\ lease.gen = g
         /\ \/ lease.ttl + beatAge[g] >= LeaderTtl
            \/ /\ pc[<<g, "renew">>] \in {"wait", "read", "write"}
               /\ lease.ttl + HeartbeatPeriod >= LeaderTtl

LeaseInv == \A g \in Gen : LeaseFresh(g)

IInv == TypeOK /\ LockInv /\ TaskInv /\ RecordInv /\ LeaseInv
=============================================================================

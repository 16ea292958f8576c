---------------------------- MODULE UpdateFeed ----------------------------
(***************************************************************************)
(* The way of Telegram's updates through the generations of the service:   *)
(* polling and the saved offset, the routing of an update to the process   *)
(* that owns the topic, the forwarding over the loopback and the recovery  *)
(* from its failures, the hand-over of a rollout, and the ownership that   *)
(* a run writes into the session of the topic.                             *)
(*                                                                         *)
(* There is one topic; an update is a prompt, a /status or a /menu.  A     *)
(* process runs once: after its end it is "dead".  The lease is the one of *)
(* Leadership, taken here in one step and released by a retiring leader or *)
(* by its death.  The probe of the owner of a session never takes a dead   *)
(* process for a live one; a live one it may take for dead.                *)
(***************************************************************************)
EXTENDS Integers, FiniteSets, FiniteSetsExt

CONSTANTS
    Gens,       \* generations of the service
    Nobody,     \* no generation
    MaxUpdate,  \* bound on the updates of a behaviour
    Status,     \* the updates that are /status commands
    Menu,       \* the updates that are /menu commands
    Faults      \* what may go wrong, a subset of Fault

\* "crash": a process dies; "throw": a handler throws; "timeout": a forwarded
\* update is not answered in time; "stuck": the owner survives SIGKILL for
\* RETIRING_OWNER_TERM_GRACE_MS; "refused": a run is not started; "rollout":
\* a rollout fails; "midbatch": a leader retires while it processes a batch;
\* "probe": an owner that lives is found dead.
Fault == {"crash", "throw", "timeout", "stuck", "refused", "rollout", "midbatch", "probe"}

ASSUME UpdateFeedAssumption ==
    /\ MaxUpdate \in Nat /\ IsFiniteSet(Gens) /\ Nobody \notin Gens
    /\ Status \subseteq 1 .. MaxUpdate /\ Menu \subseteq 1 .. MaxUpdate
    /\ Faults \subseteq Fault

Updates == 1 .. MaxUpdate

VARIABLES
    sent,      \* updates 1 .. sent exist
    low,       \* Telegram has forgotten the updates below low
    saved,     \* the offset file; 0 if there is none
    lease,     \* the holder of the leader lease
    gen,       \* the processes
    session,   \* the session of the topic
    runs,      \* the run of the topic in each process
    ipc,       \* forwarded updates that are under way
    handled,   \* how often an update was handled, up to 2
    dropped,   \* updates dropped at the first start
    repeated,  \* updates that may be handled again, see HandledOnce
    left       \* processes left behind with work of the topic, see OneRunner

vars == <<sent, low, saved, lease, gen, session, runs, ipc, handled, dropped, repeated, left>>

Final == {"completed", "failed", "interrupted"}

Session == [owner : Gens \cup {Nobody}, mode : {"none", "active", "retiring"},
            status : {"none", "running"} \cup Final, began : Nat]

\* Runs are numbered in the order in which they began, among those that live.
Run == [state : {"none", "starting", "active", "ending"}, began : Nat]
NoRun == [state |-> "none", began |-> 0]

\* Where the main loop of a process is.
Place == {"off", "standby", "leading", "boot", "poll", "route", "target", "wait",
          "recover", "clear", "dispatch", "started", "save", "dead"}

Process == [at : Place, offset : 0 .. MaxUpdate + 1, next : 0 .. MaxUpdate + 1,
            last : 0 .. MaxUpdate, seen : Session, retiring : BOOLEAN,
            child : Gens \cup {Nobody}, marked : BOOLEAN]

\* A request is awaited until its sender gives it up.
Request == [from : Gens, to : Gens, update : Updates, served : BOOLEAN, awaited : BOOLEAN]

TypeOK ==
    /\ sent \in 0 .. MaxUpdate /\ low \in 1 .. MaxUpdate + 1
    /\ saved \in 0 .. MaxUpdate + 1
    /\ lease \in Gens \cup {Nobody}
    /\ gen \in [Gens -> Process]
    /\ session \in Session /\ (session.owner = Nobody <=> session.mode = "none")
    /\ runs \in [Gens -> Run]
    /\ ipc \subseteq Request
    /\ handled \in [Updates -> 0 .. 2]
    /\ dropped \subseteq Updates /\ repeated \subseteq Updates
    /\ left \subseteq Gens

NoSession == [owner |-> Nobody, mode |-> "none", status |-> "none", began |-> 0]

NewProcess == [at |-> "off", offset |-> 0, next |-> 0, last |-> 0, seen |-> NoSession,
               retiring |-> FALSE, child |-> Nobody, marked |-> FALSE]

\* The service is started by hand with one process; the others are spawned by
\* rollouts, or started again by hand when no process is left.
Init ==
    /\ sent = 0 /\ low = 1 /\ saved = 0
    /\ lease = Nobody
    /\ gen = [g \in Gens |-> NewProcess]
    /\ session = NoSession
    /\ runs = [g \in Gens |-> NoRun]
    /\ ipc = {} /\ dropped = {} /\ repeated = {} /\ left = {}
    /\ handled = [u \in Updates |-> 0]

\* A process between two batches, and a dead one.
Idle(p) == [p EXCEPT !.at = "poll", !.next = 0, !.last = 0, !.seen = NoSession]
Gone == [NewProcess EXCEPT !.at = "dead"]

Alive(g) == gen[g].at \notin {"off", "dead"}
Living == {g \in Gens : Alive(g)}

feed == <<sent, low, saved, dropped>>

Go(g, place) == gen' = [gen EXCEPT ![g].at = place]
GoUnseen(g, place) == gen' = [gen EXCEPT ![g].at = place, ![g].seen = NoSession]

\* A process dies: nobody waits for the answers it was due, Orphans were asked
\* for them, and what it was doing may be done again.
Dead(g) == ipc' = {IF r.from = g THEN [r EXCEPT !.awaited = FALSE] ELSE r : r \in ipc}
Orphans(g) == {h \in Living \ {g} : \E r \in ipc : r.from = g /\ r.to = h}
Unsaved(g) == IF gen[g].at \in {"wait", "started", "save"} THEN {gen[g].next} ELSE {}

----------------------------------------------------------------------------
(* Handling an update                                                      *)

Prompt(u) == u \notin Status \cup Menu

\* isSafeLocalRecoveryUpdate
Safe(u) == u \in Status \cup Menu

\* dispatchAgentUpdateLocally: a prompt starts a run unless the process has
\* one, which then takes it; see LiveRun and PromptQueue.
Handle(g, u) ==
    /\ handled' = [handled EXCEPT ![u] = IF @ = 2 THEN 2 ELSE @ + 1]
    /\ runs' = IF Prompt(u) /\ runs[g] = NoRun THEN [runs EXCEPT ![g].state = "starting"] ELSE runs

\* startPromptRun writes the owner; the mode in the session stays, or is
\* "active" if there was no owner.
Activate(g) ==
    /\ runs[g].state = "starting"
    /\ LET now == 1 + Max({runs[h].began : h \in Gens}) IN
          /\ runs' = [runs EXCEPT ![g] = [state |-> "active", began |-> now]]
          /\ session' = [owner |-> g, status |-> "running", began |-> now,
                         mode |-> IF session.owner = Nobody THEN "active" ELSE session.mode]
    /\ UNCHANGED <<feed, lease, gen, ipc, handled, repeated, left>>

Refuse(g) ==
    /\ "refused" \in Faults /\ runs[g].state = "starting"
    /\ runs' = [runs EXCEPT ![g] = NoRun]
    /\ UNCHANGED <<feed, lease, gen, session, ipc, handled, repeated, left>>

\* isRunSuperseded
Superseded(g) == session.owner \notin {g, Nobody} \/ session.began > runs[g].began

\* The run is over.  A superseded one writes nothing; the others deliver
\* their documents and then write the result.
Finish(g) ==
    /\ runs[g].state = "active"
    /\ runs' = [runs EXCEPT ![g] = IF Superseded(g) THEN NoRun ELSE [@ EXCEPT !.state = "ending"]]
    /\ UNCHANGED <<feed, lease, gen, session, ipc, handled, repeated, left>>

Settle(g) ==
    /\ runs[g].state = "ending"
    /\ runs' = [runs EXCEPT ![g] = NoRun]
    /\ session' = [owner |-> Nobody, mode |-> "none", status |-> "completed",
                   began |-> runs[g].began]
    /\ UNCHANGED <<feed, lease, gen, ipc, handled, repeated, left>>

----------------------------------------------------------------------------
(* Becoming the poller                                                     *)

StartService(g) ==
    /\ gen[g].at = "off"
    /\ \A h \in Gens : ~Alive(h)
    /\ Go(g, "standby")
    /\ UNCHANGED <<feed, lease, session, runs, ipc, handled, repeated, left>>

Acquire(g) ==
    /\ gen[g].at = "standby" /\ ~gen[g].retiring
    /\ lease \notin Living
    /\ lease' = g
    /\ Go(g, "leading")
    /\ UNCHANGED <<feed, session, runs, ipc, handled, repeated, left>>

Unowned == [session EXCEPT !.owner = Nobody, !.mode = "none"]

\* Mutant: whether the owner lives is not asked.
RecoverStaleAlways(g) ==
    /\ gen[g].at = "leading"
    /\ Go(g, "boot")
    /\ session' = IF session.status = "running" THEN [Unowned EXCEPT !.status = "interrupted"]
                  ELSE session
    /\ UNCHANGED <<feed, lease, runs, ipc, handled, repeated, left>>

\* isGenerationRecordVerifiablyLive: the answer that h is dead.  It is also
\* given of a process that lives, whose record has expired or which does not
\* answer in DEFAULT_PROBE_TIMEOUT_MS.
FoundDead(h) == h \in Living => "probe" \in Faults

\* A process found dead while it has a run of the topic
Deserted(h) == {k \in Gens : k = h /\ runs[k] # NoRun}

\* recoverStaleRunningSessions: the session is read again under its lock, and
\* its owner is probed there.
RecoverStale(g) ==
    /\ gen[g].at = "leading"
    /\ Go(g, "boot")
    /\ \/ /\ session.status = "running" /\ FoundDead(session.owner)
          /\ session' = [Unowned EXCEPT !.status = "interrupted"]
          /\ left' = left \cup Deserted(session.owner)
       \/ /\ session.status = "running" => session.owner \in Living
          /\ UNCHANGED <<session, left>>
    /\ UNCHANGED <<feed, lease, runs, ipc, handled, repeated>>

\* Mutant: the first update that waits is handled, whatever the file says.
BootstrapFromTelegram(g) ==
    /\ gen[g].at = "boot"
    /\ gen' = [gen EXCEPT ![g].at = "poll", ![g].offset = low]
    /\ UNCHANGED <<feed, lease, session, runs, ipc, handled, repeated, left>>

\* bootstrapOffset.  Without a file the last update is asked for with offset
\* -1: Telegram forgets the ones before it, and the offset after it is saved.
Bootstrap(g) ==
    /\ gen[g].at = "boot"
    /\ IF saved # 0 \/ sent < low
       THEN /\ gen' = [gen EXCEPT ![g].at = "poll", ![g].offset = saved]
            /\ UNCHANGED feed
       ELSE /\ gen' = [gen EXCEPT ![g].at = "poll", ![g].offset = sent + 1]
            /\ low' = sent
            /\ saved' = sent + 1
            /\ dropped' = dropped \cup low .. sent
            /\ UNCHANGED sent
    /\ UNCHANGED <<lease, session, runs, ipc, handled, repeated, left>>

\* getUpdates confirms everything below the offset and returns what waits.
Poll(g) ==
    /\ gen[g].at = "poll" /\ ~gen[g].retiring
    /\ LET first == IF gen[g].offset > low THEN gen[g].offset ELSE low IN
       /\ low' = first
       /\ \/ /\ first > sent
             /\ UNCHANGED gen
          \/ \E hi \in first .. sent :
                gen' = [gen EXCEPT ![g].at = "route", ![g].next = first, ![g].last = hi]
    /\ UNCHANGED <<sent, saved, dropped, lease, session, runs, ipc, handled, repeated, left>>

----------------------------------------------------------------------------
(* processUpdates                                                          *)

\* shouldForwardSessionToOwner
ShouldForward(s, g) ==
    /\ s.owner \notin {g, Nobody}
    /\ s.status = "running" \/ (s.mode \in {"active", "retiring"} /\ s.status \notin Final)

\* resolveAgentUpdateRoute reads the session.
Route(g) ==
    /\ gen[g].at = "route"
    /\ IF ShouldForward(session, g) /\ gen[g].next \notin Status
       THEN gen' = [gen EXCEPT ![g].at = "target", ![g].seen = session]
       ELSE Go(g, "dispatch")
    /\ UNCHANGED <<feed, lease, session, runs, ipc, handled, repeated, left>>

\* Mutant: the owner is not probed.
TargetNotProbed(g) ==
    /\ gen[g].at = "target"
    /\ Go(g, "wait")
    /\ ipc' = ipc \cup {[from |-> g, to |-> gen[g].seen.owner,
                         update |-> gen[g].next, served |-> FALSE, awaited |-> TRUE]}
    /\ UNCHANGED <<feed, lease, session, runs, handled, repeated, left>>

\* The owner is probed: one found alive gets the update, one found dead is
\* cleared from the session, as it is by then.
Target(g) ==
    /\ gen[g].at = "target"
    /\ \/ /\ Alive(gen[g].seen.owner)
          /\ Go(g, "wait")
          /\ ipc' = ipc \cup {[from |-> g, to |-> gen[g].seen.owner,
                               update |-> gen[g].next, served |-> FALSE, awaited |-> TRUE]}
          /\ UNCHANGED <<session, left>>
       \/ /\ FoundDead(gen[g].seen.owner)
          /\ GoUnseen(g, "dispatch")
          /\ session' = Unowned
          /\ left' = left \cup Deserted(gen[g].seen.owner)
          /\ UNCHANGED ipc
    /\ UNCHANGED <<feed, lease, runs, handled, repeated>>

\* createForwardingRequestHandler in the owner
Serve(r) ==
    /\ r \in ipc /\ ~r.served /\ Alive(r.to)
    /\ ipc' = (ipc \ {r}) \cup {[r EXCEPT !.served = TRUE]}
    /\ Handle(r.to, r.update)
    /\ UNCHANGED <<feed, lease, gen, session, repeated, left>>

\* The answer arrives; an answer nobody waits for is lost.
Reply(r) ==
    /\ r \in ipc /\ r.served /\ runs[r.to].state # "starting"
    /\ ipc' = ipc \ {r}
    /\ IF r.awaited THEN GoUnseen(r.from, "save") ELSE UNCHANGED gen
    /\ UNCHANGED <<feed, lease, session, runs, handled, repeated, left>>

\* The owner died with the request.
HangUp(r) ==
    /\ r \in ipc /\ ~Alive(r.to)
    /\ ipc' = ipc \ {r}
    /\ IF r.awaited THEN Go(r.from, "recover") ELSE UNCHANGED gen
    /\ repeated' = IF r.served THEN repeated \cup {r.update} ELSE repeated
    /\ UNCHANGED <<feed, lease, session, runs, handled, left>>

\* The owner does not answer in time; the request may still be served.
Timeout(r) ==
    /\ "timeout" \in Faults
    /\ r \in ipc /\ r.awaited
    /\ ipc' = (ipc \ {r}) \cup {[r EXCEPT !.awaited = FALSE]}
    /\ Go(r.from, "recover")
    /\ repeated' = repeated \cup {r.update}
    /\ UNCHANGED <<feed, lease, session, runs, handled, left>>

\* processUpdates throws: the batch is given up and polled again from the
\* offset that the loop had before it, not from the one that was saved.
GiveUp(g) ==
    /\ gen' = [gen EXCEPT ![g] = Idle(@)]
    /\ repeated' = repeated \cup {u \in Updates : gen[g].offset <= u /\ u <= gen[g].next}

\* The handler threw, here or in the owner.
Throw(g) ==
    /\ "throw" \in Faults /\ gen[g].at = "dispatch"
    /\ GiveUp(g)
    /\ UNCHANGED <<feed, lease, session, runs, ipc, handled, left>>

ServeThrows(r) ==
    /\ "throw" \in Faults
    /\ r \in ipc /\ ~r.served /\ Alive(r.to)
    /\ ipc' = ipc \ {r}
    /\ IF r.awaited THEN GiveUp(r.from) ELSE UNCHANGED <<gen, repeated>>
    /\ UNCHANGED <<feed, lease, session, runs, handled, left>>

\* recoverForwardedUpdateLocally, for an owner that is not retiring: throw.
RecoverNot(g) ==
    /\ gen[g].at = "recover" /\ gen[g].seen.mode # "retiring"
    /\ GiveUp(g)
    /\ left' = left \cup ({gen[g].seen.owner} \cap Living)
    /\ UNCHANGED <<feed, lease, session, runs, ipc, handled>>

RecoverIdle(g) ==
    /\ gen[g].at = "recover" /\ gen[g].seen.mode = "retiring" /\ gen[g].seen.status # "running"
    /\ Go(g, "clear")
    /\ left' = left \cup ({gen[g].seen.owner} \cap Living)
    /\ UNCHANGED <<feed, lease, session, runs, ipc, handled, repeated>>

\* Mutant: the owner is not terminated before the topic is taken over.
TerminateNot(g) ==
    /\ gen[g].at = "recover" /\ gen[g].seen.mode = "retiring" /\ gen[g].seen.status = "running"
    /\ Go(g, "clear")
    /\ UNCHANGED <<feed, lease, session, runs, ipc, handled, repeated, left>>

\* terminateRetiringOwnerGeneration: the owner is gone, with all it did.
Terminate(g) ==
    /\ gen[g].at = "recover" /\ gen[g].seen.mode = "retiring" /\ gen[g].seen.status = "running"
    /\ gen' = [gen EXCEPT ![g].at = "clear", ![gen[g].seen.owner] = Gone]
    /\ runs' = [runs EXCEPT ![gen[g].seen.owner] = NoRun]
    /\ repeated' = repeated \cup Unsaved(gen[g].seen.owner)
    /\ left' = left \cup Orphans(gen[g].seen.owner)
    /\ Dead(gen[g].seen.owner)
    /\ UNCHANGED <<feed, lease, session, handled>>

\* It cannot be terminated: only a harmless update is handled here.
TerminateFails(g) ==
    /\ "stuck" \in Faults
    /\ gen[g].at = "recover" /\ gen[g].seen.mode = "retiring" /\ gen[g].seen.status = "running"
    /\ Alive(gen[g].seen.owner)
    /\ IF Safe(gen[g].next) THEN GoUnseen(g, "dispatch") /\ UNCHANGED repeated ELSE GiveUp(g)
    /\ left' = left \cup {gen[g].seen.owner}
    /\ UNCHANGED <<feed, lease, session, runs, ipc, handled>>

\* Mutant: the mode is not cleared with the owner.
ClearOwnerOnly(g) ==
    /\ gen[g].at = "clear"
    /\ GoUnseen(g, "dispatch")
    /\ session' = IF session.owner = gen[g].seen.owner THEN [session EXCEPT !.owner = Nobody]
                  ELSE session
    /\ UNCHANGED <<feed, lease, runs, ipc, handled, repeated, left>>

\* clearRetiringOwnerIfCurrent
Clear(g) ==
    /\ gen[g].at = "clear"
    /\ GoUnseen(g, "dispatch")
    /\ session' = IF session.owner \in {gen[g].seen.owner, Nobody} THEN Unowned ELSE session
    /\ UNCHANGED <<feed, lease, runs, ipc, handled, repeated, left>>

Dispatch(g) ==
    /\ gen[g].at = "dispatch"
    /\ Handle(g, gen[g].next)
    /\ Go(g, "started")
    /\ UNCHANGED <<feed, lease, session, ipc, repeated, left>>

\* startPromptRun returned.
Started(g) ==
    /\ gen[g].at = "started" /\ runs[g].state # "starting"
    /\ Go(g, "save")
    /\ UNCHANGED <<feed, lease, session, runs, ipc, handled, repeated, left>>

\* Mutant: the offset after the batch is saved with its first update.
SaveBatch(g) ==
    /\ gen[g].at = "save"
    /\ saved' = gen[g].last + 1
    /\ gen' = IF gen[g].next = gen[g].last
              THEN [gen EXCEPT ![g] = [Idle(@) EXCEPT !.offset = gen[g].last + 1]]
              ELSE [gen EXCEPT ![g].at = "route", ![g].next = @ + 1]
    /\ UNCHANGED <<sent, low, dropped, lease, session, runs, ipc, handled, repeated, left>>

\* The offset is saved after each update; the offset of the loop only after
\* the batch.  A retiring process may take back what the new leader saved.
Save(g) ==
    /\ gen[g].at = "save"
    /\ saved' = gen[g].next + 1
    /\ gen' = IF gen[g].next = gen[g].last
              THEN [gen EXCEPT ![g] = [Idle(@) EXCEPT !.offset = gen[g].last + 1]]
              ELSE [gen EXCEPT ![g].at = "route", ![g].next = @ + 1]
    /\ repeated' = repeated \cup {u \in Updates : gen[g].next < u /\ u < saved}
    /\ UNCHANGED <<sent, low, dropped, lease, session, runs, ipc, handled, left>>

----------------------------------------------------------------------------
(* Rollout and the end of a process                                        *)

Leader(g) == lease = g /\ ~gen[g].retiring /\ gen[g].at \notin {"off", "standby", "dead"}

\* maybeStartRollout: the replacement is spawned and gets ready.
Spawn(g, h) ==
    /\ Leader(g) /\ gen[g].child = Nobody /\ gen[h].at = "off"
    /\ gen' = [gen EXCEPT ![g].child = h, ![h].at = "standby"]
    /\ UNCHANGED <<feed, lease, session, runs, ipc, handled, repeated, left>>

\* markOwnedSessionsRetiring: the sessions of active and of starting runs
Mark(g) ==
    /\ Leader(g) /\ gen[g].child # Nobody /\ ~gen[g].marked
    /\ "midbatch" \in Faults \/ gen[g].at = "poll"
    /\ gen' = [gen EXCEPT ![g].marked = TRUE]
    /\ session' = IF runs[g] = NoRun THEN session
                  ELSE [session EXCEPT !.owner = g, !.mode = "retiring"]
    /\ UNCHANGED <<feed, lease, runs, ipc, handled, repeated, left>>

\* The rollout fails and its replacement is stopped; the marks stay.
RolloutFails(g) ==
    /\ "rollout" \in Faults
    /\ Leader(g) /\ gen[g].child # Nobody
    /\ gen' = [gen EXCEPT ![g].child = Nobody, ![g].marked = FALSE, ![gen[g].child] = Gone]
    /\ UNCHANGED <<feed, lease, session, runs, ipc, handled, repeated, left>>

\* retire: a batch that is being processed is not waited for.
Retire(g) ==
    /\ Leader(g) /\ gen[g].marked
    /\ "midbatch" \in Faults \/ gen[g].at = "poll"
    /\ gen' = [gen EXCEPT ![g].retiring = TRUE, ![g].child = Nobody, ![g].marked = FALSE]
    /\ lease' = Nobody
    /\ left' = IF gen[g].at = "poll" THEN left ELSE left \cup {g}
    /\ repeated' = IF gen[g].at = "poll" THEN repeated
                   ELSE repeated \cup {u \in Updates : gen[g].next <= u /\ u <= gen[g].last}
    /\ UNCHANGED <<feed, session, runs, ipc, handled>>

\* The main loop of a retiring process ends with its last run; performShutdown
\* closes the server, which waits for the answers that are due.
Exit(g) ==
    /\ gen[g].retiring /\ gen[g].at = "poll" /\ runs[g] = NoRun
    /\ \A r \in ipc : r.to = g => ~r.served
    /\ gen' = [gen EXCEPT ![g] = Gone]
    /\ UNCHANGED <<feed, lease, session, runs, ipc, handled, repeated, left>>

Die(g) ==
    /\ "crash" \in Faults /\ Alive(g)
    /\ gen' = [gen EXCEPT ![g] = Gone]
    /\ runs' = [runs EXCEPT ![g] = NoRun]
    /\ repeated' = repeated \cup Unsaved(g)
    /\ left' = left \cup Orphans(g)
    /\ Dead(g)
    /\ UNCHANGED <<feed, lease, session, handled>>

Send ==
    /\ sent < MaxUpdate
    /\ sent' = sent + 1
    /\ UNCHANGED <<low, saved, dropped, lease, gen, session, runs, ipc, handled, repeated, left>>

LoopStep(g) ==
    \/ StartService(g) \/ Acquire(g) \/ RecoverStale(g) \/ Bootstrap(g) \/ Poll(g)
    \/ Route(g) \/ Target(g) \/ RecoverNot(g) \/ RecoverIdle(g) \/ Terminate(g) \/ Clear(g)
    \/ Dispatch(g) \/ Started(g) \/ Save(g) \/ Exit(g)
    \/ Activate(g)

Done ==
    /\ sent = MaxUpdate /\ \A g \in Gens : ~Alive(g) /\ gen[g].at = "dead"
    /\ UNCHANGED vars

Next ==
    \/ \E g \in Gens :
          \/ LoopStep(g) \/ Refuse(g) \/ Finish(g) \/ Settle(g)
          \/ Mark(g) \/ RolloutFails(g) \/ Retire(g) \/ Die(g)
          \/ \E h \in Gens : Spawn(g, h)
    \/ \E g \in {g \in Gens : Alive(g)} : Throw(g) \/ TerminateFails(g)
    \/ \E r \in ipc : Serve(r) \/ ServeThrows(r) \/ Reply(r) \/ HangUp(r) \/ Timeout(r)
    \/ Send \/ Done

Spec == Init /\ [][Next]_vars

\* The event loops go on, answers arrive, and runs end.  Nothing makes a user
\* write or a rollout begin.
Fairness ==
    /\ \A g \in Gens : WF_vars(LoopStep(g)) /\ WF_vars(Finish(g)) /\ WF_vars(Settle(g))
    /\ WF_vars(\E r \in ipc : Serve(r) \/ Reply(r) \/ HangUp(r))

FairSpec == Spec /\ Fairness

----------------------------------------------------------------------------
(* Properties                                                              *)

\* processUpdates, bootstrapOffset: whatever dies, throws or retires, neither
\* Telegram nor the saved offset is ahead of the handling: an update below
\* them was handled, or dropped when the service first started.
NothingSkipped ==
    \A u \in Updates : u < low \/ u < saved => handled[u] > 0 \/ u \in dropped

\* processUpdates: an update is handled once, also across a hand-over between
\* two batches and with the updates of a running topic forwarded.  The cases
\* in which the code does hand it out again are the ones in repeated: its
\* process died before the offset was saved; the owner did not answer, or
\* died before it did; its batch was given up, which polls again also what
\* the batch had done; its leader retired with the batch in its hands, or
\* took the saved offset back.
HandledOnce == \A u \in Updates \ repeated : handled[u] <= 1

\* shouldForwardSessionToOwner, terminateRetiringOwnerGeneration: a topic is
\* not run by two processes, although the new leader takes it over when the
\* old one dies or does not answer, and although an owner without a run of the
\* topic may be found dead while it lives.  The code does not guarantee it once
\* a process was left behind: an update forwarded to it was given up without
\* its end, by a process that died or that took over; it retired in the
\* middle of a batch; or the probe found it dead while it ran the topic, and
\* the session was taken from it (service-generation-store.js:224-232).
OneRunner == left = {} => Cardinality({g \in Gens : runs[g] # NoRun}) <= 1

\* What routes the updates is true: the session of an active run names its
\* process and is running, until the run writes its end, unless a process was
\* left behind in one of the ways of OneRunner.
RunIsRecorded ==
    left = {} => \A g \in Gens : runs[g].state \in {"active", "ending"} =>
        session.owner = g /\ session.status = "running"

\* An update is handled in the end as long as some process lives, across
\* deaths, rollouts and forwards to processes that die.
Delivered ==
    \A u \in Updates : u <= sent ~> (handled[u] > 0 \/ u \in dropped \/ \A g \in Gens : gen[g].at = "dead")

============================================================================

------------------------- MODULE SessionLifecycle -------------------------
(***************************************************************************)
(* The session of one topic in the process that leads: its meta.json, its  *)
(* exchange log and active brief, and everything that writes them while    *)
(* something else is under way: runs, compactions, the drain of the prompt *)
(* queue, the commands, the retention sweep, service messages and          *)
(* transport errors.                                                       *)
(*                                                                         *)
(* Every write of meta.json is made under withMetaLock from the record     *)
(* read there, so it is one step; what a handler read before it awaited is *)
(* kept in its own variable and may be out of date when it is used.        *)
(*                                                                         *)
(* A purge ends a life of the session; exchanges, briefs and threads are   *)
(* represented by the lives they come from.                                *)
(***************************************************************************)
EXTENDS Naturals

CONSTANTS
    MaxLives,    \* bound on the lives of the session
    MaxQueue     \* bound on the queued prompts

ASSUME SessionAssumption ==
    /\ MaxLives \in Nat \ {0} /\ MaxQueue \in Nat

VARIABLES
    meta,      \* meta.json
    log,       \* lives in the exchange log
    brief,     \* lives in active-brief.md
    queue,     \* queued prompts, and whether the head is claimed
    run,       \* the entry of startingRuns or activeRuns, and its lifecycle
    job,       \* the entry of activeCompactions
    command,   \* the update in hand
    drain,     \* the drain of the queue
    pending,   \* writes decided on what was read before
    life,      \* which life the session is in
    raced      \* a purge fell on a run or a prompt about to run

vars == <<meta, log, brief, queue, run, job, command, drain, pending, life, raced>>

Lives == 1 .. MaxLives

Meta == [state : {"active", "parked", "purged"},
         running : BOOLEAN,          \* last_run_status, with the owner
         claim : {"none", "job", "dead"},  \* compaction_id: of the job, or left by a crash
         fresh : BOOLEAN,            \* compaction_started_at is recent
         thread : SUBSET Lives]      \* what codex_thread_id knows, {} for none

\* Of the session a handler has loaded, what it uses later: a prompt the thread,
\* a command whether it must refuse.
Snapshot == [thread : SUBSET Lives, life : Lives, busy : BOOLEAN]

RunStage == {"none", "starting", "active", "marked", "begun", "told", "rebuild",
             "compacting", "rebuilt", "failing", "settled"}

Run == [stage : RunStage, life : Lives, thread : SUBSET Lives,
        knows : SUBSET Lives,        \* what the thread of this attempt knows
        overlap : BOOLEAN]           \* a compaction not its own was under way

MetaType == meta \in Meta /\ ((meta.claim = "none") => ~meta.fresh)

FileType ==
    /\ log \subseteq Lives /\ brief \subseteq Lives
    /\ queue \in [items : 0 .. MaxQueue, claimed : BOOLEAN]
    /\ queue.claimed => queue.items > 0

JobType ==
    /\ job \in [stage : {"none", "claim", "source", "write"}, own : BOOLEAN,
                saw : SUBSET Lives]
    /\ (meta.claim = "job") => job.stage \in {"source", "write"}

HandlerType ==
    /\ command \in [name : {"none", "prompt", "compact", "purge"},
                    stage : {"ensure", "loaded", "checked", "starting"}, seen : Snapshot]
    /\ drain \in {"none", "active", "parked", "purged", "claimed", "starting"}
    /\ pending \subseteq {"sweep", "park", "reopen"}
    /\ life \in Lives /\ raced \in BOOLEAN

TypeOK == MetaType /\ FileType /\ run \in Run /\ JobType /\ HandlerType

NoRun == [stage |-> "none", life |-> 1, thread |-> {},
          knows |-> {}, overlap |-> FALSE]
NoJob == [stage |-> "none", own |-> FALSE, saw |-> {}]
NewMeta == [state |-> "active", running |-> FALSE, claim |-> "none", fresh |-> FALSE,
            thread |-> {}]
Nothing == [thread |-> {}, life |-> 1, busy |-> FALSE]
Loaded(m) == [thread |-> m.thread, life |-> life, busy |-> FALSE]
NoCommand == [name |-> "none", stage |-> "loaded", seen |-> Nothing]

Init ==
    /\ meta = NewMeta /\ log = {} /\ brief = {}
    /\ queue = [items |-> 0, claimed |-> FALSE]
    /\ run = NoRun /\ job = NoJob
    /\ command = NoCommand /\ drain = "none" /\ pending = {}
    /\ life = 1 /\ raced = FALSE

files == <<log, brief>>
workers == <<run, job>>
handlers == <<command, drain, pending>>
ghosts == <<life, raced>>

----------------------------------------------------------------------------
(* What the handlers ask before they act                                   *)

\* isPersistedCompactionActive: a claim lapses after fifteen minutes
Claimed == meta.claim # "none" /\ meta.fresh

\* SessionCompactor.isCompacting, on the session loaded again
Compacting == job.stage # "none" \/ Claimed

\* getActiveRun: a run that is only starting is not in activeRuns
ActiveRun == run.stage \notin {"none", "starting"}

\* canStart, of one topic
CanStart == run.stage = "none"

\* startPromptRun: the reservation
Reserved(s) ==
    [stage |-> "starting", life |-> s.life, thread |-> s.thread,
     knows |-> {}, overlap |-> job.stage # "none"]

Enqueued == [queue EXCEPT !.items = IF @ < MaxQueue THEN @ + 1 ELSE @]

----------------------------------------------------------------------------
(* A prompt                                                                *)

\* ensureSessionForMessage: a command or a prompt arrives and its session is
\* loaded.
Arrive(name) ==
    /\ command.name = "none"
    /\ command' =
          CASE name = "prompt" ->
                 [name |-> name, seen |-> Loaded(meta),
                  stage |-> IF meta.state = "active" THEN "loaded" ELSE "ensure"]
            [] name = "compact" ->
                 [name |-> name, stage |-> "loaded",
                  seen |-> [Nothing EXCEPT !.busy = meta.running \/ meta.state = "purged"]]
            [] name = "purge" ->
                 [name |-> name, stage |-> "loaded",
                  seen |-> [Nothing EXCEPT !.busy = meta.running]]
    /\ UNCHANGED <<meta, files, queue, workers, drain, pending, ghosts>>

\* ensureSession with reactivate: a purged session becomes a new one, a parked
\* one goes on.
Reactivated ==
    CASE meta.state = "purged" -> NewMeta
      [] meta.state = "parked" -> [meta EXCEPT !.state = "active"]
      [] OTHER -> meta

Ensure ==
    /\ command.name = "prompt" /\ command.stage = "ensure"
    /\ meta' = Reactivated
    /\ command' = [command EXCEPT !.stage = "loaded", !.seen = Loaded(Reactivated)]
    /\ UNCHANGED <<files, queue, workers, drain, pending, ghosts>>

\* handleIncomingMessage: a prompt to a topic that compacts is queued, or left
\* to the run that is there; another one starts a run or steers the one
\* that is there (LiveRun).
PromptWaits ==
    /\ command.name = "prompt" /\ command.stage = "loaded"
    /\ Compacting \/ ~CanStart
    /\ queue' = IF Compacting /\ CanStart THEN Enqueued ELSE queue
    /\ command' = NoCommand
    /\ UNCHANGED <<meta, files, workers, drain, pending, ghosts>>

PromptStarts ==
    /\ command.name = "prompt" /\ command.stage = "loaded"
    /\ ~Compacting /\ CanStart
    /\ run' = Reserved(command.seen)
    /\ command' = [command EXCEPT !.stage = "starting"]
    /\ UNCHANGED <<meta, files, queue, job, drain, pending, ghosts>>

----------------------------------------------------------------------------
(* drainPendingAgentPromptQueue                                            *)

List ==
    /\ drain = "none" /\ queue.items > 0
    /\ drain' = meta.state
    /\ UNCHANGED <<meta, files, queue, workers, command, pending, ghosts>>

\* The queue of a purged session is cleared; that of a parked one waits.
ClaimHead ==
    /\ drain \in {"active", "parked", "purged"}
    /\ LET claims == drain = "active" /\ queue.items > 0 /\ ~queue.claimed
       IN  /\ queue' = IF drain = "purged" THEN [items |-> 0, claimed |-> FALSE]
                       ELSE [queue EXCEPT !.claimed = @ \/ claims]
           /\ drain' = IF claims THEN "claimed" ELSE "none"
    /\ UNCHANGED <<meta, files, workers, command, pending, ghosts>>

\* The session is loaded again; nothing asks whether it is compacting.
DrainStarts ==
    /\ drain = "claimed"
    /\ LET starts == meta.state = "active" /\ CanStart
       IN  /\ run' = IF starts THEN Reserved(Loaded(meta)) ELSE run
           /\ drain' = IF starts THEN "starting" ELSE "none"
           /\ queue' = IF starts THEN queue ELSE [queue EXCEPT !.claimed = FALSE]
    /\ UNCHANGED <<meta, files, job, command, pending, ghosts>>

\* The claim of a drain that is no more lapses.
ClaimLapses ==
    /\ queue.claimed /\ drain \notin {"claimed", "starting"}
    /\ queue' = [queue EXCEPT !.claimed = FALSE]
    /\ UNCHANGED <<meta, files, workers, handlers, ghosts>>

----------------------------------------------------------------------------
(* The run                                                                 *)

\* startPromptRun: the host is unavailable or the progress message cannot be
\* sent; the drain releases its claim.
StartFails ==
    /\ run.stage = "starting"
    /\ run' = NoRun
    /\ command' = IF command.stage = "starting" THEN NoCommand ELSE command
    /\ drain' = IF drain = "starting" THEN "none" ELSE drain
    /\ queue' = IF drain = "starting" THEN [queue EXCEPT !.claimed = FALSE] ELSE queue
    /\ UNCHANGED <<meta, files, job, pending, ghosts>>

Activate ==
    /\ run.stage = "starting"
    /\ run' = [run EXCEPT !.stage = "active"]
    /\ UNCHANGED <<meta, files, queue, job, handlers, ghosts>>

\* The session says running, and whoever asked for the run goes on:
\* removeClaimed of the drain.
Mark ==
    /\ run.stage = "active"
    /\ run' = [run EXCEPT !.stage = "marked"]
    /\ meta' = [meta EXCEPT !.running = TRUE]
    /\ command' = IF command.stage = "starting" THEN NoCommand ELSE command
    /\ drain' = IF drain = "starting" THEN "none" ELSE drain
    /\ queue' = IF drain = "starting" /\ queue.items > 0
                THEN [items |-> queue.items - 1, claimed |-> FALSE] ELSE queue
    /\ UNCHANGED <<files, job, pending, ghosts>>

\* executeRunLifecycle and runAttempt: the attempt continues the thread, or is
\* given the brief (after a compaction, or because the instructions changed),
\* or begins with nothing (no compaction yet, or another runtime profile);
\* what decides it is left out.
Begin ==
    /\ run.stage = "marked"
    /\ \E knows \in {{}, run.thread, brief} :
          run' = [run EXCEPT !.stage = "begun", !.knows = knows]
    /\ UNCHANGED <<meta, files, queue, job, handlers, ghosts>>

\* applyRuntimeState: the thread of the attempt becomes that of the session.
Tell ==
    /\ run.stage = "begun"
    /\ run' = [run EXCEPT !.stage = "told", !.knows = @ \cup {run.life}]
    /\ meta' = [meta EXCEPT !.thread = run.knows \cup {run.life}]
    /\ UNCHANGED <<files, queue, job, handlers, ghosts>>

\* prepareFreshThreadFallback: the thread is too long or corrupt.  compact()
\* waits for a compaction of the topic that is under way.
Rebuild ==
    /\ run.stage = "told"
    /\ run' = [run EXCEPT !.stage = "rebuild"]
    /\ UNCHANGED <<meta, files, queue, job, handlers, ghosts>>

RebuildCompact ==
    /\ run.stage = "rebuild" /\ job.stage = "none"
    /\ job' = [NoJob EXCEPT !.stage = "claim", !.own = TRUE]
    /\ run' = [run EXCEPT !.stage = "compacting"]
    /\ UNCHANGED <<meta, files, queue, handlers, ghosts>>

RemarkNot ==
    /\ run.stage = "rebuilt"
    /\ run' = [run EXCEPT !.stage = "marked", !.thread = {}]
    /\ UNCHANGED <<meta, files, queue, job, handlers, ghosts>>

\* The compaction has cleared the status of the run; it is written again.
Remark ==
    /\ run.stage = "rebuilt"
    /\ run' = [run EXCEPT !.stage = "marked", !.thread = {}]
    /\ meta' = [meta EXCEPT !.running = TRUE]
    /\ UNCHANGED <<files, queue, job, handlers, ghosts>>

\* attachRunLifecycle: the result is written; the thread is kept, dropped
\* (failed) or left alone (an exception).
Settle ==
    /\ run.stage \in {"begun", "told", "failing"}
    /\ \E thread \in {run.knows, {}, meta.thread} :
          meta' = [meta EXCEPT !.running = FALSE, !.thread = thread]
    /\ run' = [NoRun EXCEPT !.stage = "settled", !.life = run.life]
    /\ UNCHANGED <<files, queue, job, handlers, ghosts>>

\* appendExchangeLogEntry, the delivery of the reply and the clean-up
Append ==
    /\ run.stage = "settled"
    /\ log' = log \cup {run.life}
    /\ run' = NoRun
    /\ UNCHANGED <<meta, brief, queue, job, handlers, ghosts>>

----------------------------------------------------------------------------
(* Compactions                                                             *)

\* handleCompactCommand and SessionCompactor.compact
Compact ==
    /\ command.name = "compact"
    /\ LET starts == ~command.seen.busy /\ ~Compacting /\ ~ActiveRun
       IN  /\ job' = IF starts THEN [NoJob EXCEPT !.stage = "claim"] ELSE job
           /\ run' = IF starts /\ run.stage = "starting" THEN [run EXCEPT !.overlap = TRUE] ELSE run
    /\ command' = NoCommand
    /\ UNCHANGED <<meta, files, queue, drain, pending, ghosts>>

\* The promise of compact() settles; a run that waits for it goes on.
JobEnds(stage) ==
    /\ job' = NoJob
    /\ run' = IF job.own THEN [run EXCEPT !.stage = stage] ELSE run

\* compactOnce: the claim is written
ClaimBrief ==
    /\ job.stage = "claim"
    /\ meta.state # "purged" /\ ~Claimed
    /\ meta' = [meta EXCEPT !.claim = "job", !.fresh = TRUE]
    /\ job' = [job EXCEPT !.stage = "source"]
    /\ UNCHANGED <<files, queue, run, handlers, ghosts>>

SkipBrief ==
    /\ job.stage = "claim"
    /\ meta.state = "purged" \/ Claimed
    /\ JobEnds("rebuilt")
    /\ UNCHANGED <<meta, files, queue, handlers, ghosts>>

\* The exchange log is read (a long one together with the brief before), and
\* the prompt of the run that waits.
Source ==
    /\ job.stage = "source"
    /\ \E saw \in {log, log \cup brief} :
          job' = [job EXCEPT !.stage = "write",
                             !.saw = saw \cup IF job.own THEN {run.life} ELSE {}]
    /\ UNCHANGED <<meta, files, queue, run, handlers, ghosts>>

WrittenMeta ==
    [meta EXCEPT !.claim = "none", !.fresh = FALSE, !.running = FALSE, !.thread = {}]

WriteAnyBrief ==
    /\ job.stage = "write"
    /\ IF meta.state # "purged"
       THEN brief' = job.saw /\ meta' = WrittenMeta
       ELSE UNCHANGED <<brief, meta>>
    /\ JobEnds("rebuilt")
    /\ UNCHANGED <<log, queue, handlers, ghosts>>

\* finalizeCompaction: the brief is written if the claim is still there
WriteBrief ==
    /\ job.stage = "write"
    /\ IF meta.state # "purged" /\ meta.claim = "job"
       THEN brief' = job.saw /\ meta' = WrittenMeta
       ELSE UNCHANGED <<brief, meta>>
    /\ JobEnds("rebuilt")
    /\ UNCHANGED <<log, queue, handlers, ghosts>>

FailBriefKeeps ==
    /\ job.stage \in {"source", "write"}
    /\ JobEnds("failing")
    /\ UNCHANGED <<meta, files, queue, handlers, ghosts>>

\* clearCompactionClaim: the brief could not be generated
FailBrief ==
    /\ job.stage \in {"source", "write"}
    /\ meta' = IF meta.claim = "job" THEN [meta EXCEPT !.claim = "none", !.fresh = FALSE] ELSE meta
    /\ JobEnds("failing")
    /\ UNCHANGED <<files, queue, handlers, ghosts>>

\* PERSISTED_COMPACTION_TTL_MS has passed, the compaction at work or dead
BriefLapses ==
    /\ meta.fresh
    /\ meta' = [meta EXCEPT !.fresh = FALSE]
    /\ UNCHANGED <<files, queue, workers, handlers, ghosts>>

----------------------------------------------------------------------------
(* Parking and purging                                                     *)

\* A topic is closed, reopened or unavailable: the session is loaded and, when
\* it is not purged, written later, whatever it has become.  The sweep
\* lists parked sessions whose time has run out.
Notice(what) ==
    /\ what \notin pending
    /\ IF what = "sweep" THEN meta.state = "parked" ELSE meta.state # "purged"
    /\ pending' = pending \cup {what}
    /\ UNCHANGED <<meta, files, queue, workers, command, drain, ghosts>>

Park ==
    /\ "park" \in pending
    /\ meta' = [meta EXCEPT !.state = "parked"]
    /\ pending' = pending \ {"park"}
    /\ UNCHANGED <<files, queue, workers, command, drain, ghosts>>

Reopen ==
    /\ "reopen" \in pending
    /\ meta' = [meta EXCEPT !.state = "active"]
    /\ pending' = pending \ {"reopen"}
    /\ UNCHANGED <<files, queue, workers, command, drain, ghosts>>

\* A run, or a prompt that is past the load of its session
UnderWay == run.stage # "none" \/ (command.name = "prompt" /\ command.stage = "loaded")

\* Everything in the directory of the session is removed.
Emptied ==
    /\ life < MaxLives
    /\ life' = life + 1
    /\ raced' = (raced \/ UnderWay)
    /\ meta' = [NewMeta EXCEPT !.state = "purged"]
    /\ log' = {} /\ brief' = {}
    /\ queue' = [items |-> 0, claimed |-> FALSE]

PurgeRunning ==
    IF meta.state = "purged" \/ Claimed \/ queue.claimed
    THEN UNCHANGED <<meta, files, queue, ghosts>>
    ELSE Emptied

\* SessionStore.purge: the guards on the session as it is now
Purge ==
    IF meta.state = "purged" \/ meta.running \/ Claimed \/ queue.claimed
    THEN UNCHANGED <<meta, files, queue, ghosts>>
    ELSE Emptied

Sweep ==
    /\ "sweep" \in pending
    /\ Purge
    /\ pending' = pending \ {"sweep"}
    /\ UNCHANGED <<workers, command, drain>>

\* handlePurgeCommand
CheckPurge ==
    /\ command.name = "purge" /\ command.stage = "loaded"
    /\ command' = IF ActiveRun \/ Compacting \/ command.seen.busy
                  THEN NoCommand ELSE [command EXCEPT !.stage = "checked"]
    /\ UNCHANGED <<meta, files, queue, workers, drain, pending, ghosts>>

PurgeCommand ==
    /\ command.name = "purge" /\ command.stage = "checked"
    /\ Purge
    /\ command' = NoCommand
    /\ UNCHANGED <<workers, drain, pending>>

----------------------------------------------------------------------------
\* The process dies and another one starts: recoverStaleRunningSessions clears
\* the run that is no more; claims stay.
Crash ==
    /\ run' = NoRun /\ job' = NoJob
    /\ command' = NoCommand /\ drain' = "none" /\ pending' = {}
    /\ meta' = [meta EXCEPT !.running = FALSE, !.claim = IF @ = "job" THEN "dead" ELSE @]
    /\ UNCHANGED <<files, queue, ghosts>>

Next ==
    \/ \E name \in {"prompt", "compact", "purge"} : Arrive(name)
    \/ Ensure \/ PromptWaits \/ PromptStarts
    \/ List \/ ClaimHead \/ DrainStarts \/ ClaimLapses
    \/ StartFails \/ Activate \/ Mark \/ Begin \/ Tell
    \/ Rebuild \/ RebuildCompact \/ Remark \/ Settle \/ Append
    \/ Compact \/ ClaimBrief \/ SkipBrief \/ Source \/ WriteBrief \/ FailBrief \/ BriefLapses
    \/ \E what \in {"sweep", "park", "reopen"} : Notice(what)
    \/ Park \/ Reopen \/ Sweep \/ CheckPurge \/ PurgeCommand
    \/ Crash

Spec == Init /\ [][Next]_vars

----------------------------------------------------------------------------
(* Properties                                                              *)

\* purgeSession and finalizeCompaction: what a purge removed stays removed.  No
\* log, brief or thread of the session reaches back before its last purge,
\* although a compaction may still be at work on what it read then and the
\* topic may be in use again.  A purge that falls on a run is excepted, for such
\* a run writes what it knows: on one that has not marked its session yet, and
\* in the windows RunIsMarked names.
NothingSurvivesPurge ==
    raced \/ (log \cup brief \cup meta.thread) \subseteq {life}

\* The stages of a run that has marked its session, but for the end of the
\* compaction that recovers it
MarkedStage == {"marked", "begun", "told", "rebuild", "compacting"}

\* From the patch of startPromptRun to that of the end, the session of a run
\* says running, with one window: the compaction that recovers the run clears
\* the status when it writes its brief (session-compactor.js:286), and the run
\* is marked again only when it goes on (fallbacks.js:115).  The window is never
\* open for nothing: the brief it goes on from holds what it was asked.
\* Excepted are a run over which another compaction finished, and a run on
\* which a purge fell.
RunIsMarked ==
    /\ run.stage \in MarkedStage => meta.running \/ run.overlap \/ raced
    /\ run.stage = "rebuilt" => meta.running \/ run.life \in brief \/ run.overlap \/ raced

\* The window of RunIsMarked: the run has marked its session and lives, and the
\* session does not say so.
Cleared == run.stage = "rebuilt" /\ ~meta.running

\* purgeSession: the files of a session are not removed under a run that has
\* marked it, whoever asks for the purge and whatever was read before; but in
\* the window in which its compaction has cleared the status, a sweep or a
\* /purge checked before does remove them.  Excepted are also a run over
\* which another compaction finished, and one on which a purge fell before.
PurgeSparesRuns ==
    [][ (life' # life /\ run.stage \in MarkedStage \cup {"rebuilt"})
        => Cleared \/ run.overlap \/ raced ]_vars

\* test/telegram-prompt-flow.test.js:146: "compacting topic should not start a
\* run".
CompactingStartsNoRun ==
    [][ (run.stage = "none" /\ run'.stage = "starting") => job.stage = "none" ]_vars

----------------------------------------------------------------------------
(* What makes them inductive                                               *)

\* A purged session has no claim, and nothing is at work on it unless the
\* purge fell on it.
PurgedIsIdle ==
    meta.state = "purged" => meta.claim = "none" /\ (raced \/ ~UnderWay)

\* A compaction has read nothing before it has its claim.  One that recovers a
\* run is the one its run waits for, and has read its prompt; any other one was
\* there before the run, or came while it was starting.
JobInv ==
    /\ job.own => job.stage # "none"
    /\ job.stage \in {"none", "claim"} => job.saw = {}
    /\ job.own <=> run.stage = "compacting"
    /\ job.own /\ job.stage = "write" => run.life \in job.saw
    /\ (job.stage # "none" /\ ~job.own /\ run.stage \notin {"none", "settled"}) => run.overlap

\* Unless a purge fell on a run, what a run, a prompt that is about to start one
\* or a compaction that still holds its claim has read is of this life.
LivesInv ==
    ~raced =>
        /\ (log \cup brief \cup meta.thread) \subseteq {life}
        /\ (run.stage # "none") => run.life = life /\ (run.thread \cup run.knows) \subseteq {life}
        /\ (command.name = "prompt" /\ command.stage = "loaded") =>
               command.seen.life = life /\ command.seen.thread \subseteq {life}
        /\ (meta.claim = "job") => job.saw \subseteq {life}

IInv == TypeOK /\ PurgedIsIdle /\ JobInv /\ LivesInv /\ RunIsMarked

============================================================================

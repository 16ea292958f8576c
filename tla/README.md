# Teledex in TLA+

Teledex is a gateway between a Telegram forum and Codex: every forum topic is a
session, every prompt in a topic is a run of Codex in that session. This
directory holds the specifications kept beside its code: TLA+ modules of the
parts whose order of events matters, TLC runs over small instances, and proofs
that the TLA+ proof system checks. Paths below are relative to the
repository's `src/` (JavaScript); `PROJECT.json` maps every definition to its
lines.

    tlc -workers 2 -config Rollout.cfg MCRollout
    tlapm MetaLockProofs.tla

## 1. The system

One process of the gateway is a *service generation*. A rollout starts a new
generation beside the old one; one of them is leader and polls Telegram. The
others retire: they keep the runs they own and are sent the updates of those
topics. All state that outlives a process is in JSON files under the state
directory, written by rename.

| Part | State | Operations | Module |
| --- | --- | --- | --- |
| Generation store (`runtime/service-generation-store.js`) | heartbeat record per process, leader lease, lock directory | heartbeat, take over, renew, release, prune, probe | Leadership |
| Rollout command and coordination (`runtime/service-rollout-command.js`, `rollout/`, `cli/run-rollout-controller.js`) | rollout record, signals | request, signal, wait, start, hand over, retire, complete | RolloutCommand |
| Update loop, forwarding, ownership (`cli/run.js`, `cli/run-update-processing.js`, `telegram/agent-update-routing.js`, `rollout/session-ownership.js`) | offset file, batch in hand, owner fields | poll, route, forward, save, recover, take over | UpdateFeed |
| Stale-run recovery (`cli/run-stale-run-recovery.js`, `run-stale-run-recovery.js`) | log of a run, rollout file of Codex | mirror, read, patch, append | RunLog |
| Prompt queue (`session-manager/prompt-queue.js`) | queue file per session, claims | enqueue, claim, remove, release, delete, drain | PromptQueue |
| Worker pool (`pty-worker/worker-pool*.js`) | startingRuns, activeRuns, pendingLiveSteers | start, attempt, recover, steer, interrupt, finalize | LiveRun |
| App-server attempt (`app-server-v2/`) | pending calls, thread, turn, pending steers, timers | start/resume thread, start/steer turn, goals, interrupt, finish | AppServerRun, AppServerRunProofs |
| Websocket attempt (`pty-worker/codex-runner*.js`) | socket, child, rollout watcher, recovery | start, attach again, replay, follow, interrupt, settle | RunnerTransport |
| Child that writes lines (`codex-exec/`, `deepseek-runtime/`) | child, chain of lines, result | stage, spawn, handle, interrupt, finish | ExecRun |
| Remote executor (`pty-worker/remote-executor*`, `cli/host-executor.js`) | ssh child, requests both ways | stage, run, steer, interrupt, clean up | RemoteExec |
| Profiles of runs (`session-manager/*settings*`, `pty-worker/worker-pool-run-lifecycle.js`, `telegram/command-handlers/`) | layers of settings, label of the thread | set, clear, resolve, rotate, keep | RunProfile |
| Session store and lifecycle (`session-manager/session-store*.js`, `session-lifecycle-manager.js`), compactor | meta.json, exchange log, brief, claim | ensure, patch, park, activate, purge, sweep, compact | SessionLifecycle |
| Meta lock (`session-manager/session-store-lock.js`) | lock directory, owner file | make, touch, wait, reap, remove | MetaLock |
| Fragment assembler, attachments (`telegram/prompt-fragment-assembler.js`, `telegram/command-handlers/prompt-flow/`) | buffers, timers, pending files | add, flush, cancel, /wait, /q | Intake |
| Progress and delivery (`transport/`, `pty-worker/worker-pool-delivery.js`, `session-manager/agent-final-event-store.js`) | progress message, chain of edits, final event | edit, retry, deliver, record | Delivery, DeliveryProofs, Mailbox |
| Reply normalizer (`transport/telegram-reply-normalizer/`) | blocks, pieces, chunks | split, pack | ReplyChunks |
| Control panels (`telegram/topic-control-panel/`, `telegram/global-control-panel/`) | menu message, screen, pending input | command, click, reply, redraw | Panel |
| General topic (`session-manager/general-message-ledger-store.js`, `telegram/general-message-cleanup.js`) | list of messages, menu | note, forget, /clear | GeneralLedger |
| Emergency chat (`emergency/`) | one run, pending attachments | prompt, interrupt, shut down | Emergency |
| Usage limits (`codex-runtime/limits/`) | cache, reading in flight | ask, force, read, merge | Limits |
| Hosts (`hosts/`) | canonical files, registry, lock | bootstrap, inspect, sync, merge | Hosts |
| Project catalog (`zoo/`) | topic file, pets | describe, look up, offer, add, remove, refresh | Zoo |
| Session admin, hook economy, configuration, service management, operator tools | files, reports | - | none: section 6 |

What is hard: callbacks interleave at every `await`; two processes share files
during a rollout; a process may be killed between any two steps; a child may end
at any moment of a dialogue; a message may arrive while nobody is there to take
it; claims, leases and locks expire while their owners are still at work.
`PROJECT.json` lists the hazards, each at the line where it bites, with the
properties that would catch it.

What makes each part correct:

* generations: one poller; no lost update of the lease; polling goes on;
* rollout: a command that tells of a new leader has seen one, the record lets the next command start;
* update loop: no update skipped, none handled twice outside a few known cases;
* ownership: a topic is run by one process, and its session says which;
* queue: nothing lost, nothing started twice, order kept, no prompt stuck;
* runs: a steer that was accepted is heard or queued, the loop ends, an interrupt ends the run;
* attempts, of every backend: what is reported is what happened;
* app-server attempt: no input forgotten or given twice, no completion before the turn is over;
* profile: a thread is continued with the model, effort and provider it was made with;
* session: a purge is final and spares runs; a run keeps its session marked;
* locks: exclusion;
* intake: what the user sent is taken once and in order, or gone in a way that was meant;
* delivery: a reply reported delivered is in the topic, the progress message goes, the record is true;
* panels: an input goes to the panel that asked for it, and one that is over does not come back;
* what is kept of the world (hosts, limits, pets, messages): it is what was found there.

## 2. The modules

In each module a step is what the code does between two `await`s, or under a
lock that makes a longer stretch atomic; what a handler has read before it
awaited is in a variable of its own and may be stale. A write of a file is one
step, because the code writes by rename. Variables marked "history" are in no
guard; properties use them to say what a step depended on, or in which of the
cases the code gives no guarantee a state is.

### Processes and what they hand on

**Leadership, LeadershipProofs.** `ServiceGenerationStore` with its three
callers: takeover by the main loop, renewal by the heartbeat timer, release by
retire and shutdown. Any of them may be inside `withLeaderLock` at once, within
one process and across processes. `phase`, `retiring`, `leader`, `endpoint` are
the life of a process; `record` the heartbeat record, `lease` the leader lease,
`lockDir`/`lockAge` the mkdir lock; `pc`, `seen`, `age`, `waited`, `ok` per task
where a call is. Times are ticks left. `Tick` may not pass a time a timer must
fire at in a process that does not stall; `Stall` is an event loop that does not
run. `Lock`, `StatStale`, `Reap`, `Timeout`, `Read`, `Probe`, `Write`, `Unlock`
are the steps of one locked call, `Heartbeat`, `Retire`, `Stop`, ... of a process.

**RolloutCommand.** The operator's rollout command, the coordination record and
the controllers of the generations. `file` is the record, `life`/`lease` the
generations, `ctl` the step of a controller (`Begin`, `RequestByLeader`, `Spawn`,
`Ready`, `StartRollout`, `FailRollout`, `Reconcile`, `Complete`), `cmd` the step
of a command (`Look`, `Load`, `RequestByCommand`, `Signal`, `Target`, `Shifted`,
`GiveUp`, ...). A store serialises the writes of its own process only, so the
retiring generation a request takes over is read in a step of its own. The lease
is the atomic one `Leadership` justifies.

**UpdateFeed, UpdateFeedProofs.** Polling and the saved offset, the routing of an update to the
generation that owns its topic, the forwarding over the loopback and what happens
when it fails (recovery of the stale run, termination of a retiring owner),
hand-over in a rollout, and the owner fields a run writes. Routing and recovery
probe the owner of a session (`FoundDead`): a dead one never answers, one that
lives may be found dead, because its record expired or it does not answer in time.

**RunLog.** What is left of a run when its process dies. `log` is the mirrored
log (or the rollout file of the legacy backend), `chain` the lines not yet
written, `service` what each generation does when it comes to lead: `Inspect`
reads the log (`ReadLog`, a fold over its lines), `Patch` writes the session if it
is still stale, `AppendEntry` and `WriteEvent` follow. A leader may lose its lease
meanwhile, and the next one recovers as well.

**PromptQueue, PromptQueueProofs.** The queue file of one topic and its drains: list-, claim-,
back-off-, reload-, start-, settle-steps of `drainPendingAgentPromptQueue` for
several drains in two processes, with parking, purging, deaths, claims that
outlive `QUEUED_PROMPT_CLAIM_TTL_MS`, and refusals by capacity or by the owner of
the topic. Every operation of `PromptQueueStore` is one step, because it holds the
meta lock. A drain does not notice that its own process retires. `fate` says how an
entry left the file without a run: by the user (`deleted`), with the session
(`purged`, and `cleared` by a scan of a purged session), or by a scan whose reading
of the session as purged was stale (`swept`).

### A run

**LiveRun, LiveRunProofs.** The runs of one topic in one process with the exec-json backend:
`startPromptRun`, the loop of `executeRunAttempts` with its four recoveries
(thread resume, upstream interrupt, model capacity, fresh thread), steers and
their buffer, interruption, and the clean-up. A run has a `prompt` (the set of
steers in it); a child has been `told` what was in the prompt when it started.

**AppServerRun, AppServerRunProofs.** One attempt on the app-server backend. `asked`, `wire`,
`answers` are the calls under way, the lines on the pipe and the replies not yet
looked at; in between, the turn the client believes in (`run.turn`) and the one of
the `server` differ. Actions are the handlers of the notifications, the steps of
`flushPendingSteers`, `interrupt`, the goal continuation, the completion timers,
and the end.

**RunnerTransport.** One attempt on the websocket backend. The rollout file
(`log`, `written`) has three readers: the notifications (`chain`, `inHand`), the
watcher (`watch`) and the recovery (`recovery`: attach again, resume, replay,
follow, give up). A process that ends (`Exit`, `Close`) and a socket that is lost
(`Disconnect`) race to settle the attempt once (`Settle`). Codex itself is
`Begin`, `Answer`, `Complete`, `Abort`, `Fail`, `Write`. A turn ends completed,
interrupted or failed. A notification tells which (`HandleEnd`), and so does the
answer to an attach (`Replay`); an abortion in the rollout has a reason, and unless
that is an interruption or the user asked for one the run ends with exit code 1
(`EndWith`). Of a failed turn the rollout may have nothing the readers know, or a
`task_complete`: what Codex writes there cannot be seen from this code, so the
model has both.

**ExecRun.** A child that writes events as lines: codex exec here or over ssh,
and the DeepSeek script. `lines` are read and handled one by one
(`HandleBegin`, `HandleEnd`) while the child dies, is interrupted, or is stopped
after its last event; `Finish` puts the result together in the order of the tests
in `telegram-exec-runner.js`. A remote attempt stages its input in `root`.

**RemoteExec.** A run on another host: the staging and its removal, and for the
legacy backend the executor on the host with requests in both directions over one
ssh pipe (`toHost`, `toGateway`), each side one line at a time.

**RunProfile.** Layers of settings (`global` with a per-process `cache`, `topic`),
the `catalog` of models of the host, the rules of the other providers
(`ProfileOf` with one branch per provider), and the thread a run leaves with its
label (`stored`): `Attempt` decides between continuing and rotating, `Retry`,
`Keep` and `Forget` are the ends of a run.

**SessionLifecycle, SessionLifecycleProofs.** The session of one topic in the
leading process. A session has *lives*: a purge ends one. Log, brief and thread
are represented by the set of lives whose words are in them, which is what makes
"a purged conversation comes back" a property of a state. `run` is the entry in
`startingRuns`/`activeRuns`, `job` the entry in `activeCompactions`, `meta.claim`
the claim it wrote (with `fresh`: less than `PERSISTED_COMPACTION_TTL_MS` old),
`command`, `drain` and `pending` what handlers, the drain and the sweep have read
and not yet used. The queue is cut down to its length and one claim.

**MetaLock, MetaLockProofs.** `withMetaLock`: `Make` the directory, `WriteOwner`,
`Beat` while the owner works, `Leave`; one that has waited for long looks at the
age (`Stat`), reads the owner (`ReadOwner`) and removes the directory (`Reap`) in
three steps. A directory may become old at any time (`Ages`).

**Emergency.** The private chat: `handler` is where `handleMessage` awaits,
`active` and `child` the repair run, `timer` the kill after the grace period,
`stop` the shutdown. Topics are one starter that asks for the lock of the chat
before it starts (`TopicAsks`, `TopicStarts`), and drains, which do not ask.

### The user's side

**Intake.** How the messages of one user in one topic become prompts: the buffers
of `PromptFragmentAssembler` by key (`entries`), flights of flushes and the
update loop as `jobs`, /wait windows, albums, the second assembler of /q, pending
attachments, a stop of the process, and a handler that throws at any step.

**Delivery, DeliveryProofs, Mailbox.** What a run shows in its topic: the `chain` of operations
of `TelegramProgressMessage` (flush, finalize, dismiss) with one Bot API `call` at
its head, and the end of the `run` (documents, persisting, chunks with attempts,
final event) with a `send` of its own. A call may be carried out without its
answer being heard, fail, be refused, be answered 429, or find the topic closed.
`Mailbox` is the abstract promise: parts are shown in order until the record is
sealed, the record names only parts that are shown, neither changes afterwards;
`Delivery` implements it with shown = chunks in the topic, sealed = there is a
final event, record = the chunks the event names (`ImplementsMailbox`).

**ReplyChunks, ReplyShapes.** `splitTelegramReply` over replies whose letters are
numbered: `SplitBlock` cuts a block that renders too long, `PackPiece` packs pieces
into chunks. The conversion of Markdown is the length of the tags.

**Panel.** The message with a keyboard, its screens and the input it may wait for;
every operation loads the file, edits or sends, and writes back. The loop of
updates runs one operation at a time, the timer of a collected goal text another.

**GeneralLedger.** The list of the messages of General as a file that two
processes change by load and write, and `/clear` with its bulk and single
deletions.

### What the gateway keeps of the world

**Zoo.** The topic file every actor reads and writes back (`writing`): updates,
lookups and refreshes in the background, the redraw timer. `texts` counts the
descriptions given, whatever the file says; `restored` is history.

**Hosts.** Canonical files, the registry that merges them with the health the
doctor found, the mkdir lock around the merge, the steps of a bootstrap, the
inspection, the sync.

**Limits.** The cache, the reading that is shared, forced or in the background,
what is read from the logs of threads (`ReadLog`, `Select`) and how snapshots are
merged.

### How they compose

The modules meet at interfaces that are invariants of one and assumptions of the
other. `UpdateFeed`, `PromptQueue` and `RolloutCommand` take one leader at a time
from `Leadership` (`AtMostOnePoller`). `LiveRun` takes from `AppServerRun` that an
attempt ends (`Ends`) and what a steer may be answered, and from `ExecRun` and
`RunnerTransport` that a result is true. `SessionLifecycle` takes the attempts of a
run from `LiveRun` as the choice of what the thread knows, and claims of the queue
from `PromptQueue`. `PromptQueue` and `SessionLifecycle` write a session in one
step, which is `MetaLockExcludes` of `MetaLock`. `Delivery` begins with the result
an attempt reports; its chunks are those of `ReplyChunks`.

`MCRollout`, `MCRuns`, `MCProgress` and `MCChat` put several components *side by
side*: a variable `part`, chosen at the start, says of which component a behaviour
is, the variables of the others stay where they start, so that the states are the
sum of those of the components and not the product. A property of such a module is
that of the component, conditional on `part`. This keeps the set of runs small,
one for each question; it composes nothing that the modules themselves do not.

## 3. The runs

| Run | Components and bounds | Shows |
| --- | --- | --- |
| `rollout` (`MCRollout`) | Leadership: 2 processes, ttl 3, record 4, heartbeat 1, lock wait 2, stale 5, stop, retire, crash. UpdateFeed: 3 generations, 2 updates, all faults but a retirement in mid-batch, failing probes of a live owner included. RolloutCommand: 2 commands, 3 generations, 1 crash or stop | one poller, which holds the lease; atomic read-decide-write; one runner per topic, recorded truly; commands tell of what happened and do not block the next one |
| `leadership_faults` | 2 processes, 1 stall, kill inside the lock, lost probes; fair | polling goes on; a deposed leader stops |
| `updatefeed_live` | 2 generations, 3 updates (a prompt, a /menu, a /status), all faults but "throw"; fair | nothing skipped, handled once, handled at last |
| `promptqueue_claims` | 2 processes, 2 drains, 2 prompts; kill, slow, lifecycle, refuse | nothing lost but to a stale scan, started once, in order, not into a purged session |
| `progress` (`MCProgress`) | PromptQueue: 2 processes, 2 drains, 1 prompt, 1 direct run, kill, delete, failing probes. LiveRun: no second run, 1 steer, 1 retry. AppServerRun: 2 turns, no repetition, time-outs and deaths. Delivery: 1 step, 1 chunk, 3 faults. MetaLock: 3 callers; fair | a queued prompt leaves the queue, an interrupted run ends, an attempt ends, a reply lands; the lock excludes |
| `runs` (`MCRuns`) | LiveRun: 1 steer, 2 runs, 1 retry of each kind, all faults. RunnerTransport: 1 socket lost, 2 notifications behind, rollout 1 line behind. ExecRun: 2 messages, 2 lines, 1 error. RemoteExec: 3 events, 2 errors. RunLog: 3 services, 2 runs, 2 turns. RunProfile: 2 processes, 4 providers, 2 changes, 2 threads, 3 attempts. Emergency: 2 repairs. Zoo: 2 projects, 2 texts, 2 orders, a redraw, a crash. Hosts: 2 commands at once, 1 host, 1 edit, 1 fault. Limits: 2 logs, 2 lines, 2 readings | answers have heard the steers, attempts are paid for by bounded recoveries, no steer is dropped; what is reported of an attempt, a recovery and a repair is true; a thread keeps its profile; what is kept of the world is what was found |
| `chat` (`MCChat`) | Intake: 2 messages of every kind, 2 commands, 1 error. Delivery: 2 steps, 2 chunks, 4 faults. ReplyChunks: all shapes of `ReplyShapes`, limit 7. Panel: 5 updates, 3 messages, 2 failing calls. GeneralLedger: 2 processes, 3 messages, 2 tracked | taken once and in order, nothing lost; the progress message goes, delivered is shown, the mailbox is implemented; chunks fit and read in order; inputs follow their panel; General's messages are listed |
| `appserverrun_steer` | 2 turns, 1 steer, 1 retry, time-outs and deaths | no steer forgotten, none given twice, no completion inside a turn |
| `sessionlifecycle_purge` | 2 lives, 1 queued prompt | a purge is final and spares runs, a run keeps its session marked, but for the window named below |
| `appserverrun_stale` | 2 turns, no fault | **violated**: finding 1 |
| `sessionlifecycle_queue` | 1 life, 1 queued prompt | **violated**: finding 2 |
| `intake_failed` | 2 messages, 1 error | **violated**: finding 3 |

Why the bounds are enough to be of use. Two processes are a rollout; a third one
is a hand-over during a hand-over, and for RolloutCommand a rollout chained to the
one before. The races of a queue need two drains and, for the order, two prompts.
A steer meets a flush, a recovery, an interruption and the clean-up of the run
before with one steer and two runs. Two turns let a stale turn id meet its
successor, two runs or lives let one find what the other left. Two messages are a
flight and what comes behind it. Three updates reach every pair of overlapping
panel operations, five a third menu. Letters of lengths 0, 1, 3 and 8 against a
limit of 7 are an empty, a short, a half and an overlong line. Three callers of the
meta lock are one that died in it, one that takes the lock away and one that makes
it anew in between. Two readings are one in
flight and one that is forced. The periods of Leadership keep the order of the
code: heartbeat < lock wait < lease < record < stale lock (shortened in
`leadership_faults`, where heartbeat and lock wait, record and stale lock coincide).

Every bound is a CONSTANT named `Max...` (or `SteerTries`, `CapacityTries`,
`Retries`, `Repeats`, `Attempts`, which stand for lengths of delay lists and
counts of the code), used in a guard and commented where it is declared; the
values are in the .cfg or, for the components of a module that sets several side by
side, in its INSTANCE.

Symmetry is used where a run checks only invariants (`rollout`,
`promptqueue_claims`), never with liveness. Deadlock is checked in every run
that must pass; `Done`, `Over` and `Stop` actions say where a behaviour may end
because its bounds are used up. `intake_failed` alone turns the check off: its
counterexample is an invariant, and it has no more to say.

### Fairness

Weak fairness is given to what Node's event loop does by itself: continuations
of a live process, timers, replies from a live process, the end of a child that
received a signal (SIGKILL follows after five seconds). Strong fairness is used
twice, in `PromptQueue`: a drain that is again and again able to claim does so at
some time, and a start that is again and again possible does succeed at some time
(the scan runs every second for ever; a host that is never available or a
capacity that never frees starves the queue, which is outside the claim). Runs
are assumed to end in `PromptQueue` and `UpdateFeed`; in `LiveRun` a child that got no
signal is not assumed to end. Nothing is assumed of users, rollouts, crashes,
faults, stalls beginning, or probes succeeding. In `updatefeed_live` "throw" is
not among the faults: a batch that throws for ever is retried for ever. In
`Delivery` the two chains of a live process go on; a call is answered at some time
because the client aborts it. `MCProgress` states the fairness of each component
for the steps of that component, each conjunct guarded by `part`.

### The exceptions the properties name

Where the code does not give a guarantee, the property says so in its own
history variable or state instead of hiding it in the model.

* `PromptQueue.lapsed`: a claim older than its TTL while its drain is still at
  work, or a start whose process died, may start the prompt twice.
* `PromptQueue.fate`: "swept". A scan that read the session as purged removes the
  queue file (`session-manager/prompt-queue.js:421`) after the topic was used again,
  with the prompts queued since. They are lost, and nobody is told: `NothingLost`
  names it, and `NoStartInPurged` says nothing of a prompt whose entry went from
  under its claim (deleted, cleared or swept).
* `LiveRun.excused`: a steer buffered during a flush that waits for its next try,
  or during the clean-up of the run before, is lost.
* `UpdateFeed.repeated`, `left`: the cases in which an update is handed out again,
  or a process was left behind: with a forwarded update that was given up, with a
  batch it retired in, or with a run of the topic while the probe found it dead
  (`runtime/service-generation-store.js:224`, 750 ms or an expired record), upon
  which `telegram/agent-update-routing.js:80` and the recovery
  (`cli/run-stale-run-recovery.js:439`) take the session from it. Then two processes
  can run the topic. An owner found dead without a run of the topic is harmless,
  and no exception.
* `AppServerRun.unsure`: a steer whose answer timed out may be sent twice.
* `SessionLifecycle.raced`, `overlap`: a purge that falls on a run, before the run
  has marked its session or in the window that follows; a foreign compaction that
  finishes over a run.
* `SessionLifecycle.Cleared`, a window: the compaction that recovers a run clears
  the status of its session with the brief (`session-manager/session-compactor.js:286`),
  and the run marks it again when it goes on
  (`pty-worker/worker-pool-run-recovery/fallbacks.js:115`). In between `RunIsMarked`
  claims only that the prompt of the run is in the brief, and a sweep or a /purge
  does remove the session under the run: `PurgeSparesRuns` excepts the window and
  nothing after it but what follows from such a purge (`raced`).
* `RunnerTransport.mark`: an old answer is taken for that of the run when the
  replay overlaps by 64 KiB, when the offset at the start is unknown, or when a
  thread is resumed before the turn began; a line the watcher took and did not
  emit is told by nobody. A failed turn of which the rollout has a `task_complete`
  counts as completed: no reader of the file could tell.
* `RunLog.Untouched`, `Mixed`: a crash before the log of the run has its first
  line; lines of a subagent in the log; an inspection of one run patched onto
  another.
* `RunProfile.cut`: a run that turned away from its thread and was interrupted
  before it had a new one keeps the old thread under the new label.
* `MetaLock.mistaken`: a lock taken away that was not the one looked at, or whose
  owner stood still before its name was written.
* `Emergency.crossed`: a repair and a run of a topic that each passed its check
  before the other started; a drain, which does not check. `gone`: an unhandled
  rejection ended the gateway.
* `Limits.crossed`: of two readings at once the older may be kept.
* `GeneralLedger.excused`, `moved`: a note lost between processes or to an error;
  a menu put up by another process while /clear works.
* `Hosts.shared`, `known`: two commands in the lock; something installed since the
  inspection.
* `Zoo.restored`: `patchTopic` (`zoo/store.js:332`) writes back the whole file it
  read, so that a redraw, a refresh or an old lookup brings an older description
  back, with its request; or the process ended before the last one was written. The
  user is then offered what was found for the older one, which is all that
  `CatalogIsAsked` claims there; otherwise it is what was found for the last
  description given. `revived`: a pet removed while its new name was on its way.
* `RolloutCommand.lost`: a generation of an unsettled record went down, or a
  request was written in the name of one that had stepped down.
* `ReplyChunks`: of a fence or quote that is too long a line is lost at every cut
  (`transport/telegram-reply-normalizer/chunks.js:58`, `:99`), which is why only
  paragraphs are claimed to be complete. `ExecRun`: an interrupted result says
  nothing of an answer that was told (`codex-exec/telegram-exec-runner.js:313`).

### Findings

1. `appserverrun_stale`: a run resumes a thread with an open turn; that turn
   completes while the prompt is on its way to it as a steer. The notification
   completes the run, and the prompt is never given to the model
   (`app-server-v2/notifications.js:139`).
2. `sessionlifecycle_queue`: a prompt queued because its topic compacts is started
   by the next scan of the queue, a second later, while the compaction goes on
   (`session-manager/prompt-queue.js:501`): the run uses the thread about to be
   dropped, and the end of the compaction clears the status, owner and thread of
   its session.
3. `intake_failed`: a flush of the assembler fails while another part is buffered
   under its key: the parts of the failed flush are dropped
   (`telegram/prompt-fragment-assembler.js:507`), which a test's title says are
   restored.

### Seen while modelling, without a run

* A rollout record that nothing clears, so that no later command starts a rollout:
  the leader dies between its request and `startRollout` (every command reports a
  rollout that never was); the new leader of a rollout in progress dies (every
  command waits for it and times out); a command is killed after its request for a
  leader that had stepped down (every command is refused). A command given
  between release and takeover finds no leader, clears the record and restarts the
  whole service. A late write of another process makes a rollout that happened be
  told as failed.
* `zoo`: a call to Telegram that throws in the catch of a lookup or refresh is an
  unhandled rejection; `pending_add.busy` stays set for ever if the redraw fails
  before the lookup starts, or the process restarts.
* `hosts`: a bootstrap enters `codex_bin_path`, which the next merge drops; a host
  half bootstrapped is called ready until the next doctor; of two inspections the
  older may be entered last; an EEXIST thrown inside the lock is taken for a busy lock.
* `remote-executor.js`: a start that fails after ssh was spawned later rejects
  `remoteFinished` without a handler (`Unheard`).
* `run-stale-run-recovery.js`: a crash after the session is marked and before the
  log is reset makes the answer of the run before that of this one; a crash between
  patch and artifacts leaves no entry for ever; the recovery is tried once per
  process.
* Profiles: /model and /reasoning in topics of other providers tell a default
  effort though the run takes the configured one; a generation keeps its cached
  global settings; store patches of two processes may overwrite each other.
* Emergency: the pending attachments' files are removed right after the run that
  was given them has started.
* Limits: a refresh that fails replaces the last good value. Ledger: a tracked
  send whose note cannot be written rejects although the message is there.

## 4. The proofs

`LeadershipProofs` proves for any number of processes and any periods with
heartbeat < lease and heartbeat < record, under the assumption `Punctual` (no
stall, nobody killed inside the lock, no lost probe): types, exclusion of the
lock, no lost update of the lease, a poller holds an unexpired lease, and one
poller at most. Exclusion of polling is not inductive: it needs that a task which
is about to write has seen the lease as it is (`TaskInv`, which rests on the lock,
`LockInv`), that a leader's lease is at most a heartbeat old (`LeaseInv`), and
that no record of a running process is pruned (`RecordInv`). Without `Punctual`
the lock does not exclude (a stale directory is removed by age), and only the
run `leadership_faults` speaks of that system.

`SessionLifecycleProofs` proves for any number of lives and queued prompts, from
`SessionAssumption` alone: types, `NothingSurvivesPurge`, `RunIsMarked` and
`PurgeSparesRuns`. `IInv` adds to them:

* `PurgedIsIdle`: a purged session has no claim, so a compaction of an earlier
  life finds its claim gone for good;
* `JobInv`: a compaction that recovers a run and that run wait for each other, and
  it has read the prompt of the run before it writes; a compaction that has no claim
  yet has read nothing, and any other compaction beside a run has set `overlap`;
* `LivesInv`: whatever is still going to be written (by the run, by a prompt about
  to start one, by a compaction that has its claim) is of the present life.

`MetaLockProofs` proves for any number of callers, with no assumption,
`MetaLockExcludes`: unless a lock was taken away by mistake, two callers never hold
it. `LockInv` says that the directory is of the one that holds the lock
(`HolderMadeIt`), and that one about to remove a directory has seen no owner or a
dead one (`ReaperSawDead`); as a dead process stays dead, a directory that is still
of the owner seen has nobody working under it.

`PromptQueueProofs` proves for any number of processes, drains and prompts, with
whatever of the faults is enabled, that a prompt becomes a run at most once, in its
turn, that none is lost but to the stale scan that `NothingLost` names, that none
whose claim protects it starts in a purged session, and that no two drains work on
the same prompt. A drain works
on its prompt without a lock, so none of this is inductive before the file and
the drains are tied together (`ClaimProtocol`):

* `ClaimsAreHeld`, `HoldersHaveClaims`: a claim in the file is of a drain that
  works on that very prompt, and a drain that works on a prompt has its fresh
  claim for as long as the prompt is queued, unless a claim of it has lapsed;
* `QueueInOrder`, `HoldersInTurn`: the file is in the order of the prompts, and
  all before the one a drain works on have been started or have left;
* `StartsAreClaimed`: a prompt that was started and is still in the file is
  claimed, and who works on it has started it. Without this, a second drain
  could start it between the start and the removal of the entry.

The step from a fresh claim to `NoStartInPurged` is what the purge's look at the
queue is for.

`UpdateFeedProofs` proves for any number of generations and updates, whatever
dies, throws or retires in the middle of a batch, `NothingSkipped` and
`HandledOnce`. `FeedInv` adds to them:

* `RolesHold`: whoever polls has the lease, a replacement stands by for as long
  as its parent polls, and an owner that is asked is another process;
* `RequestsHold`: a request that is awaited is the one its sender waits with, and
  one that was served left its update handled;
* `OffsetsCovered`: every offset a process may yet poll from or save is covered,
  not only Telegram's and the saved one;
* `SpentIsBehind`: nothing at or after the place of the poller has been handled,
  but for what it has in its hands. A process that retires with a batch, and a
  request nobody awaits any more, may handle what the next leader handles too;
  these are the cases in `repeated`, and the invariant says that there are no
  others.

It also proves `OneRunner` and `RunIsRecorded`, which hold while no process is
left behind with work of the topic, whatever the probes of the owners answer: one
that finds a running process dead leaves it behind, one that finds an idle one dead
changes nothing of the two; the run `rollout` checks the two as the
`OneRunner` of `MCRollout`. `TopicInv` adds to `FeedInv`:

* `OwnersHold`: an owner, also one that was seen, and whoever an update is
  forwarded to led at some time; who runs lives;
* `SendersHold`: who waits for an answer has asked the owner it saw, and a request
  that was given up goes to a dead process, or its sender is about to take over
  from the one it asked;
* `StartingHolds`: a run that starts has its update in the hands of the poller,
  who dispatches it or waits for the process it was forwarded to;
* `TopicHolds`: while the poller has an update in its hands, nobody runs but the
  owner it saw; nobody at all when it clears the ownership of that one; and nobody
  but itself when it dispatches a prompt;
* `OneRuns` and `Recorded`, the two properties.

A run that is only starting is not in the session yet, so the step that needs the
argument is the routing: `NoStarter` shows that no run is starting while an update
is routed. Whoever runs is then in the session (`RunnerRecorded`), and what
`shouldForwardSessionToOwner` reads there is the truth. A step that starts no run
and ends no batch of another keeps the invariant
(`CalmKeeps`), which covers all but the start of a run, the termination of an owner
and the end of a run.

The largest `began` of the runs is a maximum over a set; `BoundedMax` derives it
from the well-founded order of the naturals.

`LiveRunProofs` proves for any finite set of steers and any number of runs and
tries, with whatever faults, `AnswerHeardSteers`, `AttemptsBounded` and
`NothingDropped`. `RunInv` adds:

* `AttemptsPaid`: between a recovery and the next attempt that attempt is paid
  for already, and a restart is one of the provider's or is for a steer that was
  not counted before;
* `PromptsAgree`: a run has three prompts, the one with all its steers, the next
  one, and the one the child was told; which of them agree depends on the stage,
  and a failed recovery is where they part;
* `BufferKept`: a buffer is emptied by the flush of the present run, by the
  clean-up, or with a run that failed to start, and what it holds then is kept by
  someone else or is in `excused`.

`AppServerRunProofs` proves for any number of turns, tries and repetitions and
any set of steers, fresh or resumed, with whatever of time-outs and deaths,
`TakenOnce` and `NothingForgotten`. An input goes from the list to the hand of a
flush, from there into a request, and from a turn that is over back into the list
or into the next `turn/start`; its answer may be refused, late, lost, or unread
when the next thing happens. `SteerInv` adds:

* `CallsHold`: a call has one request with a caller, one reply on the pipe or one
  answer, never two of them, and none on a closed pipe but the answer;
* `StagesHold`, `JobsHold`: what is awaited is what some coroutine is at, the
  chain of flushes has each waiting steer once, and the prompt only while the
  start of a resumed run is not over;
* `InputsHold`: an input that is sent again by nobody is in the list, in the hand
  or in one request, and the server has it only when none of these can send it
  once more: what is in hand and taken has an answer on its way that does not
  refuse it;
* `HandHolds`: a `turn/steer` carries what the flush has in hand, so an answer that
  is good speaks for all of it;
* `SteersHold`: a steer whose pool was not told "refused" is with the server or
  still carried.

A step moves inputs or it does not (`Still`), and one lemma says what a step that
does not leaves true; what is left are the request that is served, the flush that
begins, its three answers, the flush that gives up and the steer that comes in.

The module goes on to prove `CompletedIsOver`, which is about what the client may
believe of the server's turn. The completion timer is set by the end of a turn; a
reply or a notice that was under way then must not name a turn behind its back.
What makes it true is the order of one pipe. `OrderInv` adds, of a run that
resumed no open turn:

* `TurnsHold`: until `turn/start` is served there is no turn and no notice; it is
  asked once, and a goal is asked only for a run that has one;
* `ReplyFirst`: no notice overtakes the reply to `turn/start`, so nothing of the
  turn that it names was handled when the client takes it up;
* `LastTurn`: without a goal, once the end of a turn is on the pipe, in the chain
  or behind the timer, the server has no open turn and starts none;
* `FreshHolds`: behind each end that was sent or read, and before each later line
  that speaks of an open turn or names one, stands the start of the next turn, of
  which the goal makes many (`Fresh`, of the pipe, and `FreshRead`, of the chain);
* `TimerHolds`: so while the timer runs a known turn, or a reply that names one,
  has an unhandled notice behind it, and the timer fires with none.

The server's steps add lines at the end of the pipe, the reader moves one from its
head to the end of the chain, the handler takes the head of the chain; every other
step is calm (`Calm`): it brings no notice and names no turn.

`DeliveryProofs` proves `ImplementsMailbox` for any number of progress texts,
chunks, attempts, faults and waits. A step may be one of the chain, of the end of
the run, or of the world around, and `MailInv` says what keeps them apart:

* `ChainHolds`: a call of the chain is about a progress message, so no chunk is
  edited or deleted by it, and a dismissal is in the chain only at the end of a
  run;
* `SendHolds`, `ChunksHold`: a chunk is posted from one place, in its turn, and
  neither taken back nor changed; a repeated attempt may post it twice, which the
  reader of the mailbox cannot tell;
* `IdsHold`: the ids a run collects, and those its event claims, are of messages;
* `EventHolds`: the event is written when the run is at its end and its status on
  disk is no longer "running", which is why the recovery of a dead run, which
  writes an event for "running" only, does not write a second one.

Then each step maps to `Show`, to `Seal`, or changes nothing of shown, sealed and
record (`MailboxStep`).

The module goes on to prove `ProgressGone` and `DeliveredIsShown`, where the chain
and the end of the run do meet. `ReplyInv` adds:

* `OwnOpHolds`: of what is in the chain one operation at most is the run's own, it
  is there while the run waits for it, and a dismissal is the last: a timer that
  was running is off by then, and none is set for a message closed with no text;
* `CallHolds`, `KnownHolds`: a call is about the message that is known, but for the
  deletion of one that was replaced; so a progress message that is shown is known,
  about to be deleted, or one Telegram lost track of;
* `ReplyHolds`: the text of the progress message, of its call or of its end is the
  reply if and only if the reply was entrusted to it;
* `EntrustedHolds`: then the message stays, and as long as its text is not the reply
  there is a flush or a timer that tries again;
* `PartsHold`: the chunks behind the run are in the topic, unless one was skipped.

A step of the run goes on without the progress message, hands it a last text, or
dismisses it (`GoesOn`, `Finalizes`, `Dismisses`), and moves in the chunks of its
reply or does not (`PartsGo`): these are what the invariant is proved about, and
each action is shown to be one of them.

Of the constants these modules use the assumptions named in `PromptQueue`,
`UpdateFeed`, `LiveRun`, `AppServerRun` and `Delivery`, which say that bounds are numbers, that
sets are finite, and that the names of nobody are not names of somebody.

There is one lemma per conjunct with one step per action. The theorems follow by
propositional temporal reasoning. Each invariant was checked by TLC before it was
proved.

Only model-checked:

* everything under fairness, since liveness and `ENABLED` are out of the prover's
  reach;
* the safety of RolloutCommand (`RolloutIsTold`), whose inductive invariant is not
  found yet;
* the invariants of the components that `MCRuns` and `MCChat` set side by side,
  but for those of LiveRun and Delivery, which are all proved.

Induction over data and `RECURSIVE` operators are out of reach as well; the
modules with proofs use neither. The `TypeOK` of a module says what its state is;
those of Leadership, SessionLifecycle, MetaLock, PromptQueue, UpdateFeed,
LiveRun and AppServerRun and the exclusion of the generation lock are proved, the types of Delivery
are in `Typed` of its invariant, and none is in a run.

## 5. What the next steps are

1. Proofs: `ToldLeads` of RolloutCommand (first a larger check: 3 commands, 4
   generations, 2 faults) and `RunProfile` (`ThreadKeepsProfile`).
2. More of the code: retries and downloads of the Bot API client, goals
   (`goal-command`, the goal client), session bindings, the topic context and its
   snapshots, steering over the websocket.
3. The set of runs stays small: a new module joins the run of its side.

## 6. What is not modelled

* The texts: prompts, replies, briefs, progress messages, menus, help, guidebook;
  the looks of pets, the rendering of configurations.
* Telegram itself, Codex itself and remote machines: an environment that answers,
  fails or is late.
* Token usage, journals, reports, context snapshots, service installation, CLI
  tools and live tests: pure input and output, nothing waits for them.
* Configuration, language and workspace resolution: parsing and file names.
* Hook economy and turn input: the input of an attempt is composed from files;
  the choice between thread, brief and nothing is in SessionLifecycle.
* Of `SessionLifecycle`: the retention pin, back-off and the claim's id in the
  queue, hand-over of the session to another process (`UpdateFeed` has it). Of
  `RunnerTransport`: steering. Of `RunProfile`: the compactor's settings, lost
  updates of the settings file. Of `Hosts`: the gateway's own host, the smoke test.
* `MetaLock` takes every caller for a process of its own: callers of one process
  never reap each other's lock.

`PROJECT.json` lists every component with its reason.

----------------------------- MODULE MCProgress -----------------------------
(***************************************************************************)
(* What must happen in the end, of four components side by side: the       *)
(* prompts of PromptQueue, the run of LiveRun, the attempt of AppServerRun *)
(* and the reply of Delivery; and MetaLock, the lock under which the       *)
(* session behind them is written.  Each behaviour is one of a single      *)
(* component, the others stay where they start.                            *)
(***************************************************************************)
EXTENDS MetaLock

CONSTANTS Drains, Orphan   \* of PromptQueue

VARIABLES
    part,       \* the component a behaviour is of
    queueQueue, queueSession, queueLeader, queueUp, queueSlot, queueTask,
    queueEnqueued, queueDirect, queueStarts, queueLapsed, queueFate, liveNo,
    liveStage, liveRun, livePending, liveSteering, liveCleanup, liveUnsent,
    liveTaken, liveQueued, liveHeard, liveExcused, attemptKind, attemptServer,
    attemptAsked, attemptWire, attemptAwaited, attemptAnswers, attemptPhase,
    attemptRun, attemptChain, attemptPending, attemptFlush, attemptStop,
    attemptTold, attemptTries, attemptGot, attemptUnsure, attemptResult, replyPosts,
    replyProgress, replyChain, replyCall, replyRun, replySend, replyDisk,
    replyWorld, replySteps, replyOrphans

Queue == INSTANCE PromptQueue WITH
    MaxProcs <- 2, MaxPrompts <- 1, MaxDirect <- 1, Faults <- {"kill", "delete", "probe"},
    queue <- queueQueue, session <- queueSession, leader <- queueLeader, up <-
    queueUp, slot <- queueSlot, task <- queueTask, enqueued <- queueEnqueued, direct
    <- queueDirect, starts <- queueStarts, lapsed <- queueLapsed, fate <- queueFate

Live == INSTANCE LiveRun WITH
    Steers <- {"s"}, MaxRuns <- 1, SteerTries <- 1, CapacityTries <- 1, Faults <-
    {"start", "steer", "recovery", "interrupt", "capacity"}, no <- liveNo, stage <-
    liveStage, run <- liveRun, pending <- livePending, steering <- liveSteering,
    cleanup <- liveCleanup, unsent <- liveUnsent, taken <- liveTaken, queued <-
    liveQueued, heard <- liveHeard, excused <- liveExcused

Attempt == INSTANCE AppServerRun WITH
    MaxTurn <- 2, Steers <- {}, Retries <- 0, Repeats <- 0, Faults <- {"timeout",
    "death"}, kind <- attemptKind, server <- attemptServer, asked <- attemptAsked,
    wire <- attemptWire, awaited <- attemptAwaited, answers <- attemptAnswers, phase
    <- attemptPhase, run <- attemptRun, chain <- attemptChain, pending <-
    attemptPending, flush <- attemptFlush, stop <- attemptStop, told <- attemptTold,
    tries <- attemptTries, got <- attemptGot, unsure <- attemptUnsure, result <-
    attemptResult

Letters == INSTANCE Delivery WITH
    MaxSteps <- 1, MaxChunks <- 1, MaxFaults <- 3, Attempts <- 2, MaxWaits <- 1,
    MaxQueued <- 2, posts <- replyPosts, progress <- replyProgress, chain <-
    replyChain, call <- replyCall, run <- replyRun, send <- replySend, disk <-
    replyDisk, world <- replyWorld, steps <- replySteps, orphans <- replyOrphans

queueVars == <<queueQueue, queueSession, queueLeader, queueUp, queueSlot, queueTask,
               queueEnqueued, queueDirect, queueStarts, queueLapsed, queueFate>>
liveVars == <<liveNo, liveStage, liveRun, livePending, liveSteering, liveCleanup,
              liveUnsent, liveTaken, liveQueued, liveHeard, liveExcused>>
attemptVars == <<attemptKind, attemptServer, attemptAsked, attemptWire,
                 attemptAwaited, attemptAnswers, attemptPhase, attemptRun,
                 attemptChain, attemptPending, attemptFlush, attemptStop,
                 attemptTold, attemptTries, attemptGot, attemptUnsure, attemptResult>>
replyVars == <<replyPosts, replyProgress, replyChain, replyCall, replyRun,
               replySend, replyDisk, replyWorld, replySteps, replyOrphans>>
allVars == <<part, queueVars, liveVars, attemptVars, replyVars, vars>>

ProgressInit ==
    /\ part \in {"queue", "run", "attempt", "reply", "lock"}
    /\ Queue!Init
    /\ Live!Init
    /\ part = "attempt" \/ attemptKind = [resumed |-> FALSE, open |-> FALSE, goal |-> FALSE]
    /\ Attempt!Init
    /\ Letters!Init
    /\ Init

ProgressNext ==
    \/ /\ part = "queue" /\ Queue!Next
       /\ UNCHANGED <<part, liveVars, attemptVars, replyVars, vars>>
    \/ /\ part = "run" /\ Live!Next
       /\ UNCHANGED <<part, queueVars, attemptVars, replyVars, vars>>
    \/ /\ part = "attempt" /\ Attempt!Next
       /\ UNCHANGED <<part, queueVars, liveVars, replyVars, vars>>
    \/ /\ part = "reply" /\ Letters!Next
       /\ UNCHANGED <<part, queueVars, liveVars, attemptVars, vars>>
    \/ /\ part = "lock" /\ Next
       /\ UNCHANGED <<part, queueVars, liveVars, attemptVars, replyVars>>

ProgressSpec ==
    /\ ProgressInit /\ [][ProgressNext]_allVars
    /\ \A d \in Drains : WF_queueVars(part = "queue" /\ (Queue!DrainStep(d)))
    /\ \A d \in Drains : SF_queueVars(part = "queue" /\ (Queue!ClaimHead(d)))
    /\ \A d \in Drains : SF_queueVars(part = "queue" /\ (Queue!Reserve(d) /\ queueTask'[d].pc = "starting"))
    /\ \A p \in Queue!Procs : WF_queueVars(part = "queue" /\ (Queue!FinishPatch(p)))
    /\ \A p \in Queue!Procs : WF_queueVars(part = "queue" /\ (Queue!FinishRun(p)))
    /\ WF_queueVars(part = "queue" /\ (\E d \in Drains : Queue!Scan(d)))
    /\ \A i \in Queue!Prompts : WF_queueVars(part = "queue" /\ (Queue!Expire(i)))
    /\ WF_queueVars(part = "queue" /\ (~queueUp[queueLeader] /\ Queue!Takeover))
    /\ WF_liveVars(part = "run" /\ (Live!LoopStep \/ (liveRun.hit /\ \E r \in Live!Result : Live!AttemptEnds(r)) \/ (\E c \in liveSteering : Live!SteerAgain(c) \/ Live!SteerRefused(c)) \/ Live!Requeue \/ Live!Forget))
    /\ WF_attemptVars(part = "attempt" /\ (Attempt!LoopStep \/ Attempt!TimerFires \/ Attempt!GoalTimerFires \/ (attemptStop.asked /\ Attempt!Die)))
    /\ WF_replyVars(part = "reply" /\ (Letters!ChainStep \/ Letters!EndStep))

\* PromptQueue: a queued prompt is started or leaves the queue in another way.
QueueMoves == Queue!QueueMoves

\* LiveRun: a run that is interrupted ends.
InterruptEnds == Live!InterruptEnds

\* AppServerRun: an attempt that is interrupted, completed or dead comes to
\* its end.
Ends == Attempt!Ends

\* Delivery: the run of a reply comes to its end, and the reply is read.
ReplyLands == Letters!ReplyLands

==============================================================================

------------------------------- MODULE MCRuns -------------------------------
(***************************************************************************)
(* A run and what it consists of, side by side: its attempts and steers in *)
(* LiveRun, the runners of an attempt in RunnerTransport, ExecRun and      *)
(* RemoteExec, its log in RunLog, its profile in RunProfile, the repair    *)
(* runs of the operator in Emergency; and what the gateway keeps for all   *)
(* of them, in Zoo, Hosts and Limits.  Each behaviour is one of a single   *)
(* component, the others stay where they start.                            *)
(***************************************************************************)
EXTENDS LiveRun

VARIABLES
    part,       \* the component a behaviour is of
    socketServer, socketChild, socketConn, socketDrops, socketLog, socketWritten,
    socketChain, socketInHand, socketStartup, socketRun, socketRecovery,
    socketWatch, socketSeen, socketResult, socketMark, execHost, execDeepseek,
    execResumes, execPc, execRoot, execChild, execWrote, execLines, execInHand,
    execState, execAsked, execFinish, execTold, execErrors, execResult, remoteV2,
    remotePc, remoteRoot, remoteLink, remoteToHost, remoteToGateway, remoteInHand,
    remoteSettled, remoteSteer, remoteInterrupt, remoteExecutor, remoteTold,
    remoteErrors, remoteResult, logBackend, logSession, logService, logRun, logLog,
    logChain, logSaid, logDone, logRecovered, logEntries, repairPending,
    repairHandler, repairActive, repairChild, repairHow, repairAsked, repairTold,
    repairTimer, repairTopic, repairCrossed, repairStop, repairFound, repairGone,
    profileKind, profileCatalog, profileGlobal, profileCache, profileTopic,
    profileStored, profileJob, profileRun, profileMade, profileCut, profileChanges,
    profileAttempts, zooPets, zooTopic, zooDoing, zooWriting, zooSaving, zooActive,
    zooBound, zooTexts, zooRestored, zooFound, zooWanted, zooRevived, zooOrders,
    zooTicks, zooCrashes, fleetCanonical, fleetReadable, fleetRegistry, fleetDamaged,
    fleetLock, fleetMade, fleetJob, fleetParts, fleetFresh, fleetPlugin, fleetLast,
    fleetKnown, fleetShared, fleetCommands, fleetEdits, fleetFaults, usageSource,
    usageLines, usageRefresh, usageInFlight, usageCached, usageCaller, usageBest,
    usageCrossed, usageAnswer

Socket == INSTANCE RunnerTransport WITH
    MaxDrops <- 1, MaxBehind <- 2, MaxLag <- 1, server <- socketServer, child <-
    socketChild, conn <- socketConn, drops <- socketDrops, log <- socketLog, written
    <- socketWritten, chain <- socketChain, inHand <- socketInHand, startup <-
    socketStartup, run <- socketRun, recovery <- socketRecovery, watch <-
    socketWatch, seen <- socketSeen, result <- socketResult, mark <- socketMark

Child == INSTANCE ExecRun WITH
    MaxMessages <- 2, MaxLines <- 2, MaxErrors <- 1, host <- execHost, deepseek <-
    execDeepseek, resumes <- execResumes, pc <- execPc, root <- execRoot, child <-
    execChild, wrote <- execWrote, lines <- execLines, inHand <- execInHand, state
    <- execState, asked <- execAsked, finish <- execFinish, told <- execTold, errors
    <- execErrors, result <- execResult

Remote == INSTANCE RemoteExec WITH
    MaxEvents <- 3, MaxErrors <- 2, v2 <- remoteV2, pc <- remotePc, root <-
    remoteRoot, link <- remoteLink, toHost <- remoteToHost, toGateway <-
    remoteToGateway, inHand <- remoteInHand, settled <- remoteSettled, steer <-
    remoteSteer, interrupt <- remoteInterrupt, executor <- remoteExecutor, told <-
    remoteTold, errors <- remoteErrors, result <- remoteResult

Trace == INSTANCE RunLog WITH
    Generations <- {1, 2, 3}, MaxRuns <- 2, MaxTurns <- 2, MaxMessages <- 1, backend
    <- logBackend, session <- logSession, service <- logService, run <- logRun, log
    <- logLog, chain <- logChain, said <- logSaid, done <- logDone, recovered <-
    logRecovered, entries <- logEntries

Repair == INSTANCE Emergency WITH
    MaxRuns <- 2, pending <- repairPending, handler <- repairHandler, active <-
    repairActive, child <- repairChild, how <- repairHow, asked <- repairAsked, told
    <- repairTold, timer <- repairTimer, topic <- repairTopic, crossed <-
    repairCrossed, stop <- repairStop, found <- repairFound, gone <- repairGone

Profile == INSTANCE RunProfile WITH
    Procs <- {1, 2}, Kinds <- {"codex", "own", "deepseek", "openrouter"}, MaxChanges
    <- 2, MaxThreads <- 2, MaxAttempts <- 3, kind <- profileKind, catalog <-
    profileCatalog, global <- profileGlobal, cache <- profileCache, topic <-
    profileTopic, stored <- profileStored, job <- profileJob, run <- profileRun,
    made <- profileMade, cut <- profileCut, changes <- profileChanges, attempts <-
    profileAttempts

Catalog == INSTANCE Zoo WITH
    Projects <- {"p", "q"}, None <- "none", MaxTexts <- 2, MaxOrders <- 2, MaxTicks
    <- 1, MaxCrashes <- 1, pets <- zooPets, topic <- zooTopic, doing <- zooDoing,
    writing <- zooWriting, saving <- zooSaving, active <- zooActive, bound <-
    zooBound, texts <- zooTexts, restored <- zooRestored, found <- zooFound,
    wanted <- zooWanted, revived <- zooRevived, orders <- zooOrders, ticks <-
    zooTicks, crashes <- zooCrashes

Fleet == INSTANCE Hosts WITH
    Procs <- {1, 2}, Hosts <- {"a"}, MaxCommands <- 2, MaxEdits <- 1, MaxFaults <-
    1, canonical <- fleetCanonical, readable <- fleetReadable, registry <-
    fleetRegistry, damaged <- fleetDamaged, lock <- fleetLock, made <- fleetMade,
    job <- fleetJob, parts <- fleetParts, fresh <- fleetFresh, plugin <-
    fleetPlugin, last <- fleetLast, known <- fleetKnown, shared <- fleetShared,
    commands <- fleetCommands, edits <- fleetEdits, faults <- fleetFaults

Usage == INSTANCE Limits WITH
    MaxLogs <- 2, Windows <- {1, 2}, Uses <- {1, 2}, Callers <- {1, 2}, MaxLines <-
    2, MaxRefreshes <- 2, source <- usageSource, lines <- usageLines, refresh <-
    usageRefresh, inFlight <- usageInFlight, cached <- usageCached, caller <-
    usageCaller, best <- usageBest, crossed <- usageCrossed, answer <- usageAnswer

socketVars == <<socketServer, socketChild, socketConn, socketDrops, socketLog,
                socketWritten, socketChain, socketInHand, socketStartup, socketRun,
                socketRecovery, socketWatch, socketSeen, socketResult, socketMark>>
execVars == <<execHost, execDeepseek, execResumes, execPc, execRoot, execChild,
              execWrote, execLines, execInHand, execState, execAsked, execFinish,
              execTold, execErrors, execResult>>
remoteVars == <<remoteV2, remotePc, remoteRoot, remoteLink, remoteToHost,
                remoteToGateway, remoteInHand, remoteSettled, remoteSteer,
                remoteInterrupt, remoteExecutor, remoteTold, remoteErrors,
                remoteResult>>
logVars == <<logBackend, logSession, logService, logRun, logLog, logChain, logSaid,
             logDone, logRecovered, logEntries>>
repairVars == <<repairPending, repairHandler, repairActive, repairChild, repairHow,
                repairAsked, repairTold, repairTimer, repairTopic, repairCrossed,
                repairStop, repairFound, repairGone>>
profileVars == <<profileKind, profileCatalog, profileGlobal, profileCache,
                 profileTopic, profileStored, profileJob, profileRun, profileMade,
                 profileCut, profileChanges, profileAttempts>>
zooVars == <<zooPets, zooTopic, zooDoing, zooWriting, zooSaving, zooActive,
             zooBound, zooTexts, zooRestored, zooFound, zooWanted, zooRevived,
             zooOrders, zooTicks, zooCrashes>>
fleetVars == <<fleetCanonical, fleetReadable, fleetRegistry, fleetDamaged,
               fleetLock, fleetMade, fleetJob, fleetParts, fleetFresh, fleetPlugin,
               fleetLast, fleetKnown, fleetShared, fleetCommands, fleetEdits,
               fleetFaults>>
usageVars == <<usageSource, usageLines, usageRefresh, usageInFlight, usageCached,
               usageCaller, usageBest, usageCrossed, usageAnswer>>
allRuns == <<part, vars, socketVars, execVars, remoteVars, logVars, repairVars, profileVars, zooVars, fleetVars, usageVars>>

RunsInit ==
    /\ part \in {"run", "socket", "exec", "remote", "log", "repair", "profile", "zoo", "hosts", "limits"}
    /\ Init
    /\ Socket!Init
    /\ part = "socket" \/ (socketServer.turn = 0)
    /\ Child!Init
    /\ part = "exec" \/ (execHost = "here" /\ ~execDeepseek /\ ~execResumes)
    /\ Remote!Init
    /\ part = "remote" \/ (~remoteV2)
    /\ Trace!Init
    /\ part = "log" \/ (logBackend = "exec")
    /\ Repair!Init
    /\ Profile!Init
    /\ part = "profile" \/ (profileKind = "codex")
    /\ Catalog!Init
    /\ part = "zoo" \/ (zooWanted = {} /\ zooTopic.pending.stage = "none")
    /\ Fleet!Init
    /\ part = "hosts" \/ ((fleetRegistry = {} /\ fleetParts["a"]["roots"] = 0))
    /\ Usage!Init
    /\ part = "limits" \/ (usageSource = "none")

RunsNext ==
    \/ /\ part = "run" /\ Next
       /\ UNCHANGED <<part, socketVars, execVars, remoteVars, logVars, repairVars,
                       profileVars, zooVars, fleetVars, usageVars>>
    \/ /\ part = "socket" /\ Socket!Next
       /\ UNCHANGED <<part, vars, execVars, remoteVars, logVars, repairVars,
                       profileVars, zooVars, fleetVars, usageVars>>
    \/ /\ part = "exec" /\ Child!Next
       /\ UNCHANGED <<part, vars, socketVars, remoteVars, logVars, repairVars,
                       profileVars, zooVars, fleetVars, usageVars>>
    \/ /\ part = "remote" /\ Remote!Next
       /\ UNCHANGED <<part, vars, socketVars, execVars, logVars, repairVars,
                       profileVars, zooVars, fleetVars, usageVars>>
    \/ /\ part = "log" /\ Trace!Next
       /\ UNCHANGED <<part, vars, socketVars, execVars, remoteVars, repairVars,
                       profileVars, zooVars, fleetVars, usageVars>>
    \/ /\ part = "repair" /\ Repair!Next
       /\ UNCHANGED <<part, vars, socketVars, execVars, remoteVars, logVars,
                       profileVars, zooVars, fleetVars, usageVars>>
    \/ /\ part = "profile" /\ Profile!Next
       /\ UNCHANGED <<part, vars, socketVars, execVars, remoteVars, logVars,
                       repairVars, zooVars, fleetVars, usageVars>>
    \/ /\ part = "zoo" /\ Catalog!Next
       /\ UNCHANGED <<part, vars, socketVars, execVars, remoteVars, logVars,
                       repairVars, profileVars, fleetVars, usageVars>>
    \/ /\ part = "hosts" /\ Fleet!Next
       /\ UNCHANGED <<part, vars, socketVars, execVars, remoteVars, logVars,
                       repairVars, profileVars, zooVars, usageVars>>
    \/ /\ part = "limits" /\ Usage!Next
       /\ UNCHANGED <<part, vars, socketVars, execVars, remoteVars, logVars,
                       repairVars, profileVars, zooVars, fleetVars>>

RunsSpec ==
    /\ RunsInit /\ [][RunsNext]_allRuns

\* Runners and recovery: what is reported of an attempt or of a run that was
\* cut off is what happened in it.
ResultIsTrue ==
    /\ part = "socket" => Socket!ResultIsTrue
    /\ part = "exec" => Child!ResultIsTrue
    /\ part = "remote" => Remote!ResultIsTrue
    /\ part = "log" => Trace!ResultIsTrue
    /\ part = "repair" => Repair!ResultIsTrue

\* RunProfile: a thread is continued with what it was made with, and the
\* effort fits.
ProfileHolds == part = "profile" => Profile!ProfileHolds

\* Zoo, Hosts, Limits: what is kept of the world is what was found.
KnownIsFound ==
    /\ part = "zoo" => Catalog!CatalogIsAsked
    /\ part = "hosts" => Fleet!HealthIsFound
    /\ part = "limits" => Usage!LimitsAreKnown

==============================================================================

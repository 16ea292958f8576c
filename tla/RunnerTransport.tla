-------------------------- MODULE RunnerTransport --------------------------
(***************************************************************************)
(* One attempt of a run on the websocket backend: a Codex app-server is    *)
(* started, a thread is started or resumed, a turn is begun, and the       *)
(* answer comes as notifications.  When the socket is lost, the runner     *)
(* attaches again, or it follows the rollout, the file in which Codex      *)
(* writes down the thread; a watcher reads that file all the time.  Three  *)
(* readers of one history, a process that may end and a socket that may    *)
(* close decide once how the run ended.                                    *)
(*                                                                         *)
(* Steering of the turn and the content of the events are left out; events *)
(* of other threads are not events of the run.                             *)
(***************************************************************************)
EXTENDS Integers, Sequences, SequencesExt

CONSTANTS
    MaxDrops,   \* bound on the sockets lost while the server lives
    MaxBehind,  \* bound on the notifications the runner is behind
    MaxLag      \* bound on the lines the rollout is behind the server

Unknown == -1    \* rolloutObservedOffset is null

VARIABLES
    server,    \* its last turn and how that is
    child,     \* the process: up, its exit code, whether "close" was emitted
    conn,      \* state.rpc: "none", "live", or "dead": a socket lost unnoticed
    drops,     \* sockets lost while the server lived
    log,       \* what the server has to write into the rollout
    written,   \* how much of it is in the file
    chain,     \* notificationChain
    inHand,    \* the first of chain waits for onEvent
    startup,   \* where startCodexTaskStartup is, and the open or begun turn
    run,       \* the fields of state
    recovery,  \* where the recovery is, what it was told, what it has read
    watch,     \* the watcher: on, what it has read, whether it emits an answer
    seen,      \* the summaries remembered
    result,    \* how the run ended
    mark       \* history: turns before the run, and what the readers got wrong

vars == <<server, child, conn, drops, log, written, chain, inHand,
          startup, run, recovery, watch, seen, result, mark>>

world == <<server, child, log, written>>

\* An interruption, and an abortion for another reason, as turn_aborted has it.
Aborts == {"aborted", "replaced"}

NoRun == [thread |-> FALSE, turn |-> 0, found |-> FALSE, offset |-> Unknown, final |-> FALSE,
          pending |-> FALSE, interrupt |-> FALSE, recovering |-> FALSE, allow |-> FALSE]
NoRecovery == [pc |-> "off", status |-> "completed", read |-> 0]
NoWatch == [on |-> FALSE, read |-> 0, emits |-> FALSE]

(***************************************************************************)
(* The end                                                                 *)
(***************************************************************************)
\* shutdownTransport closes the socket and stops the process; what is still
\* under way finds the run settled and changes nothing.
Shutdown ==
    /\ conn' = "none" /\ chain' = <<>> /\ inHand' = FALSE
    /\ startup' = [pc |-> "ready", turn |-> 0]
    /\ run' = [NoRun EXCEPT !.interrupt = run.interrupt]
    /\ recovery' = NoRecovery /\ watch' = NoWatch /\ seen' = {}
    /\ UNCHANGED <<world, drops>>

\* finish and fail settle the run once.
Settle(r) == result' = r /\ Shutdown /\ UNCHANGED mark

\* A line the watcher has not emitted yet is lost with the run.
Lost == result' = "lost" /\ Shutdown /\ mark' = [mark EXCEPT !.swallowed = @ \/ watch.emits]

Interrupted == Settle("interrupted")

\* The recovery throws: a thread that can be resumed is handed back to the pool.
Throw == IF run.interrupt \/ ~run.thread THEN Settle("failed") ELSE Lost

StartupFails == Settle(IF run.interrupt THEN "interrupted" ELSE "failed")

(***************************************************************************)
(* Reading the rollout                                                     *)
(***************************************************************************)
NothingRead(turn) == [turn |-> turn, end |-> "none", of |-> 0, seen |-> seen]

\* A line of another turn than the active one ends nothing; a message has no turn.
Foreign(read, line) ==
    line.line \in {"complete"} \cup Aborts /\ read.turn \notin {0, line.turn}

EndOf(line) == IF line.line \in Aborts THEN line.line ELSE "completed"

ReadLine(read, line, reader) ==
    CASE reader = "follow" /\ read.end \in Aborts -> read
      [] line.line = "started" -> [read EXCEPT !.end = "none", !.turn = line.turn]
      [] line.line # "started" /\
         (\/ Foreign(read, line) \/ line \in read.seen
          \/ (reader = "watch" /\ line.line \in Aborts)) -> read
      [] OTHER -> [read EXCEPT !.seen = @ \cup {line}, !.end = EndOf(line), !.of = line.turn]

\* The lines between from and the end of the file, as one of the readers takes them.
Read(from, turn, reader) ==
    FoldLeft(LAMBDA read, line : ReadLine(read, line, reader),
             NothingRead(turn), SubSeq(log, from + 1, written))

\* Where the run began in the file is not known, or a replay goes back behind it:
\* the answer of the turn before is taken for the answer of the run.
Excuse(read) ==
    mark' = [mark EXCEPT !.old = @ \/ (read.end = "completed" /\ read.of <= mark.before)]

Answered == \E i \in DOMAIN log : log[i].turn > mark.before /\ log[i].line \in {"final", "complete"}

\* The last turn of the run is over, and the file says so.
Completed ==
    /\ server.turn > mark.before /\ server.status = "completed"
    /\ written = Len(log)

(***************************************************************************)
(* The server                                                              *)
(***************************************************************************)
Says(line, turn) == [line |-> line, turn |-> turn]

\* The rollout has one line of it, or none that the readers know.
Tell(note, lines, turn) ==
    /\ Len(log) - written < MaxLag /\ Len(chain) < MaxBehind
    /\ \E line \in lines : log' = IF line = "none" THEN log ELSE Append(log, Says(line, turn))
    /\ chain' = IF conn = "live" THEN Append(chain, Says(note, turn)) ELSE chain
    /\ UNCHANGED <<child, conn, drops, written, inHand, run, recovery,
                   watch, seen, result, mark>>

\* A thread is at work only once it is resumed or started.
Runs == child.up /\ startup.pc \notin {"boot", "thread"} /\ result = "none"

Open == Runs /\ server.status = "open"

\* turn/start reaches the server.
Begin ==
    /\ startup.pc = "turn" /\ startup.turn = 0
    /\ child.up /\ conn = "live" /\ result = "none"
    /\ server.status # "open" /\ server.turn = mark.before
    /\ server' = [turn |-> server.turn + 1, status |-> "open", answered |-> FALSE]
    /\ startup' = [startup EXCEPT !.turn = server.turn + 1]
    /\ Tell("started", {"started"}, server.turn + 1)

Answer ==
    /\ Open /\ ~server.answered
    /\ server' = [server EXCEPT !.answered = TRUE]
    /\ Tell("final", {"final"}, server.turn)
    /\ UNCHANGED startup

\* A turn may complete without an answer.
Complete ==
    /\ Open
    /\ server' = [server EXCEPT !.status = "completed"]
    /\ Tell("complete", {"complete"}, server.turn)
    /\ UNCHANGED startup

Abort ==
    /\ Open
    /\ server' = [server EXCEPT !.status = "interrupted"]
    /\ Tell("aborted", Aborts, server.turn)
    /\ UNCHANGED startup

\* What the rollout has of a failed turn is Codex's: nothing the readers know, or
\* a task_complete like that of any other turn.
Fail ==
    /\ Open
    /\ server' = [server EXCEPT !.status = "failed"]
    /\ Tell("failed", {"none", "complete"}, server.turn)
    /\ UNCHANGED startup

\* Lines reach the file later than notifications reach the socket.
Write ==
    /\ child.up /\ written < Len(log) /\ result = "none"
    /\ written' = written + 1
    /\ UNCHANGED <<server, child, conn, drops, log, chain, inHand, startup,
                   run, recovery, watch, seen, result, mark>>

\* A graceful exit has written all of it.
Exit(code) ==
    /\ child.up /\ result = "none"
    /\ child' = [child EXCEPT !.up = FALSE, !.code = code]
    /\ written' = IF code = 0 THEN Len(log) ELSE written
    /\ UNCHANGED <<server, conn, drops, log, chain, inHand, startup, run,
                   recovery, watch, seen, result, mark>>

(***************************************************************************)
(* Startup                                                                 *)
(***************************************************************************)
At(pc) == startup.pc = pc /\ result = "none"

Boot ==
    /\ At("boot") /\ child.up
    /\ startup' = [startup EXCEPT !.pc = "thread"]
    /\ conn' = "live"
    /\ UNCHANGED <<world, drops, chain, inHand, run, recovery, watch, seen, result, mark>>

BootFails == At("boot") /\ StartupFails

\* thread/start or thread/resume, after the look into the history of threads.
Attach ==
    /\ At("thread") /\ conn = "live" /\ child.up
    /\ startup' = [pc |-> "context", turn |-> IF server.status = "open" THEN server.turn ELSE 0]
    /\ run' = [run EXCEPT !.thread = TRUE]
    /\ UNCHANGED <<world, conn, drops, chain, inHand, recovery, watch, seen, result, mark>>

ThreadFails == At("thread") /\ (StartupFails \/ (run.thread /\ Settle("replaced")))

\* The size of the rollout is what the run starts from.
Located == [run EXCEPT !.found = @ \/ written > 0,
                       !.offset = IF run.found \/ written > 0 THEN written ELSE Unknown]

Watching == [on |-> TRUE, read |-> IF run.offset = Unknown THEN 0 ELSE run.offset,
             emits |-> watch.emits]

\* readLatestContextSnapshot; then the open turn is taken over, or one is asked for.
Locate ==
    /\ At("context")
    /\ run' = Located
    /\ startup' = [startup EXCEPT !.pc = IF startup.turn # 0 THEN "attached" ELSE "located"]
    /\ mark' = [mark EXCEPT !.swallowed = @ \/ Completed]
    /\ UNCHANGED <<world, conn, drops, chain, inHand, recovery, watch, seen, result>>

TakeOver ==
    /\ At("attached")
    /\ run' = [run EXCEPT !.turn = startup.turn]
    /\ watch' = Watching
    /\ startup' = [startup EXCEPT !.pc = "ready"]
    /\ UNCHANGED <<world, conn, drops, chain, inHand, recovery, seen, result, mark>>

\* Without a socket the call throws, and the run with it.
AskTurn ==
    /\ At("located") /\ conn # "none"
    /\ startup' = [startup EXCEPT !.pc = "turn"]
    /\ UNCHANGED <<world, conn, drops, chain, inHand, run, recovery, watch, seen, result, mark>>

AskFails == At("located") /\ conn = "none" /\ StartupFails

TurnBegun ==
    /\ At("turn") /\ conn = "live" /\ startup.turn # 0
    /\ run' = [run EXCEPT !.turn = startup.turn]
    /\ watch' = Watching
    /\ startup' = [startup EXCEPT !.pc = "ready"]
    /\ UNCHANGED <<world, conn, drops, chain, inHand, recovery, seen, result, mark>>

TurnRefused == At("turn") /\ conn = "live" /\ startup.turn = 0 /\ StartupFails

(***************************************************************************)
(* The socket, the process and the notifications                           *)
(***************************************************************************)
Still == UNCHANGED <<world, startup, seen, mark>>

\* The socket closes, and what it had not yet brought is lost.  A call of the
\* startup fails with it.  Only a runner that is neither recovering nor waiting
\* for the answer of a completed turn sets out to recover.
Disconnect ==
    /\ conn = "live" /\ result = "none"
    /\ child.up => drops < MaxDrops
    /\ IF startup.pc \in {"thread", "turn"} THEN StartupFails
       ELSE /\ drops' = IF child.up THEN drops + 1 ELSE drops
            /\ \E n \in (IF inHand THEN 1 ELSE 0) .. Len(chain) : chain' = SubSeq(chain, 1, n)
            /\ IF run.recovering
                 THEN /\ conn' = IF recovery.pc = "resume" THEN "none" ELSE "dead"
                      /\ recovery' = IF recovery.pc = "resume"
                                       THEN [recovery EXCEPT !.pc = "attach"] ELSE recovery
                      /\ UNCHANGED run
               ELSE IF run.pending
                 THEN conn' = "dead" /\ UNCHANGED <<run, recovery>>
               ELSE /\ conn' = "none"
                    /\ run' = [run EXCEPT !.recovering = TRUE, !.allow = FALSE]
                    /\ recovery' = [recovery EXCEPT !.pc = "attach"]
            /\ Still /\ UNCHANGED <<inHand, watch, result>>

\* "close" of the child: a recovery notes it, an interruption is done with it,
\* otherwise it is handled behind the notifications.
Close ==
    /\ ~child.up /\ ~child.told /\ result = "none"
    /\ IF run.interrupt THEN Interrupted
       ELSE IF startup.pc = "boot" THEN StartupFails
       ELSE /\ child' = [child EXCEPT !.told = TRUE]
            /\ chain' = IF run.recovering THEN chain
                         ELSE Append(chain, [line |-> "close", turn |-> 0])
            /\ UNCHANGED <<server, log, written, conn, drops, inHand, startup,
                           run, recovery, watch, seen, result, mark>>

\* The overlap of replayRolloutGapAfterReconnect: what was there before the run
\* is read again, or is not if the rollout is long.
ReplayFrom == {0} \cup (IF run.offset = Unknown THEN {} ELSE {run.offset})

\* Ends the run with what a reader has found; an abortion is an interruption when
\* it says so or when the user asked for one, else the run ends with exit code 1.
EndWith(read) ==
    /\ result' = CASE read.end = "completed" -> "completed"
                   [] read.end = "aborted" \/ run.interrupt -> "interrupted"
                   [] OTHER -> "exited"
    /\ Shutdown

Head1 == Head(chain)

\* A graceful exit looks into the rollout once more.
HandleClose ==
    /\ chain # <<>> /\ ~inHand /\ Head1.line = "close" /\ result = "none"
    /\ IF run.pending
         THEN /\ chain' = Tail(chain)
              /\ UNCHANGED <<world, conn, drops, inHand, startup, run, recovery,
                             watch, seen, result, mark>>
       ELSE IF child.code # 0 THEN Settle("exited")
       ELSE \E from \in ReplayFrom :
              LET read == Read(from, run.turn, "replay")
              IN  IF run.thread /\ read.end # "none" THEN EndWith(read) /\ Excuse(read)
                  ELSE IF run.final THEN Settle("completed")
                  ELSE IF run.thread THEN Lost
                  ELSE Settle("exited")

\* handleNotification up to onEvent, and after it.
HandleBegin ==
    /\ chain # <<>> /\ ~inHand /\ Head1.line # "close" /\ result = "none"
    /\ inHand' = TRUE
    /\ run' = CASE Head1.line = "started" ->
                      [run EXCEPT !.pending = FALSE, !.final = FALSE, !.turn = Head1.turn]
                [] Head1.line = "final" -> [run EXCEPT !.final = TRUE]
                [] OTHER -> [run EXCEPT !.turn = 0]
    /\ UNCHANGED <<world, conn, drops, chain, startup, recovery, watch, seen, result, mark>>

\* turn/completed, with the status of the turn
Ends(line) == line \in {"complete", "aborted", "failed"}

HandleEnd ==
    /\ inHand /\ result = "none"
    /\ CASE Head1.line = "final" /\ run.pending -> Settle("completed")
         [] Head1.line = "aborted" -> Interrupted
         [] Head1.line = "failed" -> Settle("failed")
         [] Ends(Head1.line) /\ run.final -> Settle("completed")
         [] OTHER -> /\ inHand' = FALSE
                     /\ chain' = Tail(chain)
                     /\ run' = [run EXCEPT !.pending = @ \/ Ends(Head1.line)]
                     /\ UNCHANGED <<world, conn, drops, startup, recovery, watch,
                                    seen, result, mark>>

\* The final message of a completed turn is waited for only so long.
Grace == run.pending /\ result = "none" /\ Settle("completed")

\* The user's interruption; a turn may be aborted and the child may end of it.
Interrupt ==
    /\ ~run.interrupt /\ result = "none"
    /\ run' = [run EXCEPT !.interrupt = TRUE]
    /\ Still /\ UNCHANGED <<conn, drops, chain, inHand, recovery, watch, result>>

(***************************************************************************)
(* The watcher                                                             *)
(***************************************************************************)
Disabled == run.recovering /\ ~run.allow

WatchStops ==
    /\ watch.on /\ Disabled /\ result = "none"
    /\ watch' = [watch EXCEPT !.on = FALSE]
    /\ Still /\ UNCHANGED <<conn, drops, chain, inHand, run, recovery, result>>

\* An answer that was not told yet is emitted, and then ends the run.
WatchReads ==
    /\ watch.on /\ ~Disabled /\ written > watch.read /\ result = "none"
    /\ LET read == Read(watch.read, run.turn, "watch")
           mute == [line |-> "final", turn |-> read.of] \notin ToSet(log)
       IN  IF read.end # "none" /\ (run.final \/ mute) THEN EndWith(read) /\ UNCHANGED mark
           ELSE /\ watch' = [on |-> read.end = "none", read |-> written,
                             emits |-> watch.emits \/ read.end # "none"]
                /\ run' = [run EXCEPT !.found = TRUE]
                /\ seen' = read.seen
                /\ UNCHANGED <<world, conn, drops, chain, inHand, startup, recovery, result, mark>>

\* When the socket was lost meanwhile, nothing ends, and the line counts as read.
WatchEnds ==
    /\ watch.emits /\ result = "none"
    /\ IF Disabled
         THEN /\ watch' = [watch EXCEPT !.emits = FALSE]
              /\ mark' = [mark EXCEPT !.swallowed = TRUE]
              /\ UNCHANGED <<world, conn, drops, chain, inHand, startup, run,
                             recovery, seen, result>>
         ELSE Settle("completed")

(***************************************************************************)
(* Recovery from a lost socket                                             *)
(***************************************************************************)
Recovers(pc) == recovery.pc = pc /\ result = "none"

MayAttach == child.up /\ run.thread /\ ~run.interrupt

Reattach ==
    /\ Recovers("attach") /\ MayAttach
    /\ conn' = "live"
    /\ recovery' = [recovery EXCEPT !.pc = "resume"]
    /\ Still /\ UNCHANGED <<drops, chain, inHand, run, watch, result>>

\* thread/resume tells which turn is open and how the last one is.
Resumed ==
    /\ Recovers("resume") /\ conn = "live" /\ child.up
    /\ run' = [run EXCEPT !.turn = IF server.status = "open" THEN server.turn ELSE 0]
    /\ recovery' = [recovery EXCEPT !.pc = "replay", !.status = server.status]
    /\ mark' = [mark EXCEPT !.old = @ \/ (server.turn = mark.before /\ mark.before > 0)]
    /\ UNCHANGED <<world, conn, drops, chain, inHand, startup, watch, seen, result>>

ResumeFails ==
    /\ Recovers("resume")
    /\ conn' = "none"
    /\ recovery' = [recovery EXCEPT !.pc = "attach"]
    /\ Still /\ UNCHANGED <<drops, chain, inHand, run, watch, result>>

\* What was missed is read from the rollout; without an end in it, the last turn
\* says how the run goes on.
Replay ==
    /\ Recovers("replay")
    /\ \E from \in ReplayFrom :
         LET read == Read(from, run.turn, "replay")
             over == run.turn = 0
         IN  IF read.end # "none" THEN EndWith(read) /\ Excuse(read)
             ELSE IF over /\ recovery.status = "interrupted" THEN Interrupted
             ELSE IF over /\ recovery.status = "failed" THEN Settle("failed")
             ELSE IF over /\ recovery.status = "completed" /\ run.final THEN Settle("completed")
             ELSE /\ recovery' = [recovery EXCEPT !.pc = "off"]
                  /\ run' = [run EXCEPT !.recovering = FALSE, !.allow = TRUE,
                                        !.found = @ \/ written > 0,
                                        !.offset = IF @ = Unknown /\ written = 0 THEN @ ELSE written,
                                        !.pending = @ \/ (over /\ recovery.status = "completed")]
                  /\ watch' = [on |-> TRUE, read |-> written, emits |-> watch.emits]
                  /\ seen' = read.seen
                  /\ UNCHANGED <<world, conn, drops, chain, inHand, startup, result, mark>>

\* Mutant: the overlap of a replay is followed, too.
FloorOfOverlap == 0

\* replayFloorOffset
Floor == IF run.found /\ run.offset # Unknown THEN run.offset ELSE 0

\* The server is gone, the run interrupted, or the time for it is over.
GiveUp ==
    /\ Recovers("attach")
    /\ recovery' = [recovery EXCEPT !.pc = "follow", !.read = Floor]
    /\ run' = [run EXCEPT !.turn = 0]
    /\ mark' = [mark EXCEPT !.old = run.offset = Unknown /\ mark.before > 0]
    /\ UNCHANGED <<world, conn, drops, chain, inHand, startup, watch, seen, result>>

Follow ==
    /\ Recovers("follow") /\ written > recovery.read
    /\ LET read == Read(recovery.read, run.turn, "follow")
       IN  IF read.end # "none"
             THEN EndWith(read) /\ UNCHANGED mark
           ELSE /\ recovery' = [recovery EXCEPT !.read = written]
                /\ run' = [run EXCEPT !.found = TRUE]
                /\ seen' = read.seen
                /\ UNCHANGED <<world, conn, drops, chain, inHand, startup, watch, result, mark>>

\* The file is not found, or does not grow any more.
Stall ==
    /\ Recovers("follow") /\ written = recovery.read
    /\ IF run.interrupt /\ run.found THEN Interrupted ELSE Throw

(***************************************************************************)
(* Specification                                                           *)
(***************************************************************************)
Line(line) == Says(line, 1)

\* A new thread, one whose turn is over, and one whose turn is still open.
Init ==
    /\ \E n \in {0, 1, 3} :
          /\ log = SubSeq(<<Line("started"), Line("final"), Line("complete")>>, 1, n)
          /\ server = [turn |-> IF n = 0 THEN 0 ELSE 1, answered |-> n = 3,
                       status |-> IF n = 0 THEN "none" ELSE IF n = 1 THEN "open" ELSE "completed"]
          /\ run = [NoRun EXCEPT !.thread = n > 0]
          /\ mark = [before |-> IF n = 3 THEN 1 ELSE 0, old |-> FALSE, swallowed |-> FALSE]
    /\ child = [up |-> TRUE, code |-> 0, told |-> FALSE]
    /\ conn = "none" /\ drops = 0
    /\ written = Len(log)
    /\ chain = <<>> /\ inHand = FALSE
    /\ startup = [pc |-> "boot", turn |-> 0]
    /\ recovery = NoRecovery /\ watch = NoWatch
    /\ seen = {} /\ result = "none"

\* A runner that was attached again while its server ended: the recovery noted
\* the end and is over, and nothing is left to end the run, an interruption
\* included.  This is what the code does.
Stranded == child.told /\ ~run.recovering /\ chain = <<>> /\ startup.pc \in {"turn", "ready"}

Over == (result # "none" \/ Stranded) /\ UNCHANGED vars

Next ==
    \/ Begin \/ Answer \/ Complete \/ Abort \/ Fail \/ Write \/ \E code \in {0, 1} : Exit(code)
    \/ Boot \/ BootFails \/ Attach \/ ThreadFails \/ Locate \/ TakeOver \/ AskTurn \/ AskFails
    \/ TurnBegun \/ TurnRefused
    \/ Disconnect \/ Close \/ HandleClose \/ HandleBegin \/ HandleEnd \/ Grace \/ Interrupt
    \/ WatchStops \/ WatchReads \/ WatchEnds
    \/ Reattach \/ Resumed \/ ResumeFails \/ Replay \/ GiveUp \/ Follow \/ Stall
    \/ Over

Spec == Init /\ [][Next]_vars

(***************************************************************************)
(* Properties                                                              *)
(***************************************************************************)
\* A run that is reported completed has an answer or a completion of its own
\* turn, never one of the turn before, and a turn that failed is none; a run that
\* is reported interrupted was interrupted by the user or in the server; one that
\* is handed back as lost did not complete, as far as the file tells.  Excepted is
\* what the code gets wrong: a replay or a recovery that begins before the run is
\* known to begin, a turn that was over before its start was looked up, and a line
\* that the watcher took but did not emit.  A failed turn of which the rollout has
\* a task_complete counts as completed: the readers cannot tell it from one.
ResultIsTrue ==
    /\ result = "completed" => Answered \/ mark.old
    /\ result = "interrupted" => run.interrupt \/ server.status = "interrupted"
    /\ result = "lost" => ~Completed \/ mark.swallowed
=============================================================================

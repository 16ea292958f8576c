--------------------------- MODULE AppServerRun ---------------------------
(***************************************************************************)
(* One attempt of a run on the app-server backend: the JSON-RPC dialogue   *)
(* with a Codex app-server process over its pipes.  A line from the server *)
(* is either a notification, which is looked at when it is read and        *)
(* handled later, in order, behind the handlers of the earlier ones, or    *)
(* the reply that some call awaits, which then goes on at a later time.    *)
(* The attempt starts or resumes a thread, starts a turn, steers it with   *)
(* the messages of the user, follows a goal from turn to turn, and ends    *)
(* once, with a result.                                                    *)
(*                                                                         *)
(* Inputs are numbers: 0 is the prompt of the run, the others are steers.  *)
(* Events of other threads than the one of the run are left out.           *)
(***************************************************************************)
EXTENDS Integers, FiniteSets, SequencesExt

CONSTANTS
    MaxTurn,    \* bound on the turns of the thread
    Steers,     \* messages the user writes during the run
    Retries,    \* entries of STEER_ACTIVE_TURN_REFRESH_RETRY_DELAYS_MS and
                \* of INTERRUPT_RETRY_DELAYS_MS
    Repeats,    \* entries of LIVE_STEER_RETRY_DELAYS_MS, of the worker pool
    Faults      \* what may go wrong, a subset of Fault

\* "timeout": a call is not answered in time; "death": the server dies.
Fault == {"timeout", "death"}

ASSUME AppServerAssumption ==
    /\ MaxTurn \in Nat \ {0} /\ Retries \in Nat /\ Repeats \in Nat
    /\ Steers \subseteq Nat \ {0} /\ Faults \subseteq Fault

Inputs == Steers \cup {0}
Turns == 0 .. MaxTurn      \* 0 is no turn

\* Calls, at most one of each under way: thread/start or thread/resume,
\* turn/start, turn/steer, thread/resume of a refresh, thread/goal/set and
\* turn/interrupt.
Calls == {"thread", "start", "steer", "refresh", "goal", "interrupt"}

\* ok is FALSE for the errors "no active turn" and the like.
Answer == [call : Calls, turn : Turns \cup {-1}, ok : BOOLEAN]
Event == [event : {"started", "final", "completed", "failed", "interrupted"}, turn : Turns]

VARIABLES
    kind,      \* whether the run resumes a thread, and whether it has a goal
    server,    \* its last turn, if it is open, if it has told the final
               \* answer, if a goal is set, and whether the process lives
    asked,     \* requests on their way to the server
    wire,      \* lines on their way from the server
    awaited,   \* the calls that wait for a reply
    answers,   \* replies whose caller has not gone on yet; turn -1 if the
               \* call timed out or the transport is closed
    phase,     \* where startAppServerV2 is
    run,       \* the fields of state that are flags, timers and the turn
    chain,     \* notifications to be handled; the first one may be in hand
    pending,   \* pendingSteerInputs
    flush,     \* the jobs of flushChain and the state of the first one
    stop,      \* the interruption of the run
    told,      \* what the user's steer was answered
    tries,     \* how often each steer was called
    got,       \* how often the server took an input, up to 2
    unsure,    \* inputs that may be sent again, see TakenOnce
    result     \* how the attempt ended

vars == <<kind, server, asked, wire, awaited, answers, phase, run, chain, pending, flush,
          stop, told, tries, got, unsure, result>>

Going == result = "none"

TypeOK ==
    /\ kind \in [resumed : BOOLEAN, open : BOOLEAN, goal : BOOLEAN]
    /\ server \in [turn : Turns, open : BOOLEAN, final : BOOLEAN, goal : BOOLEAN, up : BOOLEAN]
    /\ \A i \in DOMAIN asked : asked[i].call \in Calls /\ asked[i].turn \in Turns
    /\ \A i \in DOMAIN wire : wire[i] \in Answer \cup Event
    /\ awaited \subseteq Calls
    /\ answers \subseteq Answer
    /\ phase \in {"boot", "start", "resteer", "goal", "up"}
    /\ run \in [turn : Turns, terminal : BOOLEAN, final : BOOLEAN, timer : BOOLEAN,
                goalTimer : BOOLEAN, goalLater : BOOLEAN, closed : BOOLEAN,
                inHand : {"no", "begun", "goal"}]
    /\ chain \in Seq(Event) /\ pending \in Seq(Inputs)
    /\ flush.at \in {"idle", "asking", "waiting", "refreshing", "refreshed"} /\ flush.try \in 0 .. Retries
    /\ stop \in [asked : BOOLEAN, at : {"no", "asking", "waiting", "over"},
                 turn : Turns, try : 0 .. Retries]
    /\ told \in [Steers -> {"no", "waiting", "buffered", "steered", "failed", "refused"}]
    /\ tries \in [Steers -> 0 .. Repeats + 1]
    /\ got \in [Inputs -> 0 .. 2] /\ unsure \subseteq Inputs
    /\ result \in {"none", "completed", "failed", "interrupted", "lost", "crashed"}

Request(call, turn, inputs) == [call |-> call, turn |-> turn, inputs |-> inputs, live |-> TRUE]
Reply(call, turn, ok) == [call |-> call, turn |-> turn, ok |-> ok]
Notice(event, turn) == [event |-> event, turn |-> turn]

\* A job of flushChain flushes for a steer, for the prompt (0) or for nobody.
Nobody == -1
NoJob == [jobs |-> <<>>, at |-> "idle", hand |-> <<>>, try |-> 0]
NoStop == [asked |-> FALSE, at |-> "no", turn |-> 0, try |-> 0]

Init ==
    /\ kind \in {k \in [resumed : BOOLEAN, open : BOOLEAN, goal : BOOLEAN] : k.open => k.resumed}
    /\ server = [turn |-> IF kind.open THEN 1 ELSE 0, open |-> kind.open, final |-> FALSE,
                 goal |-> FALSE, up |-> TRUE]
    /\ asked = <<Request("thread", 0, <<>>)>> /\ awaited = {"thread"}
    /\ wire = <<>> /\ answers = {} /\ phase = "boot"
    /\ run = [turn |-> 0, terminal |-> FALSE, final |-> FALSE, timer |-> FALSE,
              goalTimer |-> FALSE, goalLater |-> FALSE, closed |-> FALSE, inHand |-> "no"]
    /\ chain = <<>> /\ pending = <<>> /\ flush = NoJob /\ stop = NoStop
    /\ told = [s \in Steers |-> "no"] /\ tries = [s \in Steers |-> 0]
    /\ got = [i \in Inputs |-> 0] /\ unsure = {}
    /\ result = "none"

Lost(a) == a.turn = -1

\* A call, with the answers that are left; on a closed transport it is
\* rejected at once.
AskWith(rest, r) ==
    IF run.closed
    THEN /\ answers' = rest \cup {Reply(r.call, -1, FALSE)}
         /\ UNCHANGED <<asked, awaited>>
    ELSE /\ asked' = Append(asked, r)
         /\ awaited' = awaited \cup {r.call}
         /\ answers' = rest
Ask(r) == AskWith(answers, r)
AskAfter(a, r) == AskWith(answers \ {a}, r)

\* Whoever awaits a call itself goes on before the next notification is
\* looked at, which is two turns of the microtask queue away, and a refresh
\* before the end of its handler.  The first publication of the thread may
\* take its time.
Settled(unless) == \A a \in answers : a.call \in unless

\* What is ready to run in the event loop has run: timers, the user and what
\* the pipes bring come after it.  A handler in hand may take its time.
Quiet ==
    /\ Going
    /\ Settled({"thread"})
    /\ flush.at = "idle" => flush.jobs = <<>>
    /\ chain # <<>> => run.inHand # "no"

client == <<phase, run, chain, pending, flush, stop, told, tries, unsure>>
rpc == <<asked, awaited, answers>>

\* finish, fail: what is under way is given up with the process.
Finish(r) ==
    /\ result' = r
    /\ asked' = <<>> /\ wire' = <<>> /\ awaited' = {} /\ answers' = {}
    /\ chain' = <<>> /\ flush' = NoJob /\ stop' = NoStop

----------------------------------------------------------------------------
(* The app-server process                                                  *)

Takes(inputs) ==
    got' = [i \in Inputs |-> LET n == got[i] + Cardinality({k \in DOMAIN inputs : inputs[k] = i})
                             IN IF n > 2 THEN 2 ELSE n]

\* The events of the thread come once it is resumed.
Joined == phase # "boot" \/ asked = <<>>

OpenTurn == IF server.open THEN server.turn ELSE 0

\* The server takes the next request and replies, unless nobody waits.
Serve ==
    /\ Going /\ server.up /\ asked # <<>>
    /\ asked' = Tail(asked)
    /\ LET r == Head(asked)
           now == server.open /\ server.turn = r.turn
           opens == r.call = "start" /\ ~server.open /\ server.turn < MaxTurn
           stops == r.call = "interrupt" /\ now
           reply == CASE r.call \in {"thread", "refresh"} -> Reply(r.call, OpenTurn, TRUE)
                      [] r.call = "start" -> Reply("start", IF opens THEN server.turn + 1 ELSE 0, opens)
                      [] r.call = "goal" -> Reply("goal", 0, TRUE)
                      [] OTHER -> Reply(r.call, r.turn, now)
       IN /\ wire' = wire \o (IF r.live THEN <<reply>> ELSE <<>>)
                          \o (IF opens THEN <<Notice("started", server.turn + 1)>> ELSE <<>>)
                          \o (IF stops THEN <<Notice("interrupted", r.turn)>> ELSE <<>>)
          /\ server' = [server EXCEPT !.turn = IF opens THEN @ + 1 ELSE @,
                                      !.open = opens \/ (@ /\ ~stops),
                                      !.final = @ /\ ~opens,
                                      !.goal = @ \/ r.call = "goal"]
          /\ IF opens \/ (r.call = "steer" /\ now) THEN Takes(r.inputs) ELSE UNCHANGED got
    /\ UNCHANGED <<kind, awaited, answers, client, result>>

\* The model tells its final answer, and ends its turn.
Tell ==
    /\ Going /\ Joined /\ server.up /\ server.open /\ ~server.final
    /\ server' = [server EXCEPT !.final = TRUE]
    /\ wire' = Append(wire, Notice("final", server.turn))
    /\ UNCHANGED <<kind, rpc, client, got, result>>

EndTurn ==
    /\ Going /\ Joined /\ server.up /\ server.open
    /\ \E e \in {"completed", "failed"} :
          /\ server' = [server EXCEPT !.open = FALSE, !.goal = @ /\ e = "completed"]
          /\ wire' = Append(wire, Notice(e, server.turn))
    /\ UNCHANGED <<kind, rpc, client, got, result>>

\* A goal starts the next turn.
Continue ==
    /\ Going /\ server.up /\ server.goal /\ ~server.open /\ server.turn < MaxTurn
    /\ server' = [server EXCEPT !.turn = @ + 1, !.open = TRUE, !.final = FALSE]
    /\ wire' = Append(wire, Notice("started", server.turn + 1))
    /\ UNCHANGED <<kind, rpc, client, got, result>>

\* The process dies, by itself or by the signals of the pool after an
\* interruption; what it wrote can still be read.
Die ==
    /\ Going /\ server.up /\ ("death" \in Faults \/ stop.asked)
    /\ server' = [server EXCEPT !.up = FALSE, !.open = FALSE]
    /\ asked' = <<>>
    /\ UNCHANGED <<kind, wire, awaited, answers, client, got, result>>

----------------------------------------------------------------------------
(* createJsonLineRpcClient                                                 *)

\* A reply that is not awaited is left aside.  The end of the turn is marked
\* when it is read: markTerminalTurnObserved.
Read ==
    /\ Going /\ wire # <<>> /\ ~run.closed
    /\ wire' = Tail(wire)
    /\ LET l == Head(wire) IN
       IF l \in Event
       THEN /\ chain' = Append(chain, l)
            /\ run' = IF l.event \in {"completed", "failed", "interrupted"}
                      THEN [run EXCEPT !.terminal = TRUE, !.turn = 0] ELSE run
            /\ UNCHANGED <<awaited, answers>>
       ELSE /\ awaited' = awaited \ {l.call}
            /\ answers' = IF l.call \in awaited THEN answers \cup {l} ELSE answers
            /\ UNCHANGED <<chain, run>>
    /\ UNCHANGED <<kind, server, asked, phase, pending, flush, stop, told, tries, unsure, got, result>>

\* The reply to a call that timed out, if it is on its way, is not waited for.
Timeout(call) ==
    /\ Quiet /\ "timeout" \in Faults /\ call \in awaited
    /\ awaited' = awaited \ {call}
    /\ answers' = answers \cup {Reply(call, -1, FALSE)}
    /\ asked' = [i \in DOMAIN asked |->
                   [asked[i] EXCEPT !.live = @ /\ asked[i].call # call]]
    /\ LET late == {k \in DOMAIN wire : wire[k] \notin Event /\ wire[k].call = call}
       IN (late = {} /\ UNCHANGED wire) \/ \E k \in late : wire' = RemoveAt(wire, k)
    /\ UNCHANGED <<kind, server, client, got, result>>

\* The end of the pipe: every call that waits is rejected.
Close ==
    /\ Quiet /\ ~server.up /\ wire = <<>> /\ ~run.closed
    /\ run' = [run EXCEPT !.closed = TRUE]
    /\ awaited' = {}
    /\ answers' = answers \cup {Reply(call, -1, FALSE) : call \in awaited}
    /\ UNCHANGED <<kind, server, asked, wire, phase, chain, pending, flush, stop, told, tries, unsure,
                   got, result>>

\* Mutant: a run whose final message was read is taken for one about to complete.
LossEndsUnlessFinal ==
    /\ Going /\ run.closed /\ chain = <<>> /\ ~run.timer /\ ~run.final
    /\ Finish("lost")
    /\ UNCHANGED <<kind, server, phase, run, pending, told, tries, unsure, got>>

\* finishTransportLossAfterNotifications: when all that was read is handled,
\* unless the run is about to complete.
LossEnds ==
    /\ Going /\ run.closed /\ chain = <<>> /\ ~run.timer
    /\ Finish("lost")
    /\ UNCHANGED <<kind, server, phase, run, pending, told, tries, unsure, got>>

----------------------------------------------------------------------------
(* startAppServerV2                                                        *)

\* The coroutine of call goes on with the reply a.
Resume(call, a) == Going /\ a \in answers /\ a.call = call

Consume(a) == answers' = answers \ {a} /\ UNCHANGED <<asked, awaited>>

Scheduled == [flush EXCEPT !.jobs = Append(@, Nobody)]

\* setGoalAndWaitForContinuation
GoalState(turn) ==
    [run EXCEPT !.turn = turn, !.terminal = FALSE, !.final = FALSE, !.goalTimer = @ \/ turn = 0]

\* The thread is there: the prompt starts a turn, steers the turn that is
\* open, or sets the goal.
ThreadReady(a) ==
    /\ Resume("thread", a) /\ a.ok
    /\ IF kind.goal /\ kind.resumed
       THEN /\ phase' = "goal"
            /\ run' = GoalState(IF a.turn # 0 THEN a.turn ELSE run.turn)
            /\ AskAfter(a, Request("goal", 0, <<>>))
            /\ UNCHANGED <<pending, flush>>
       ELSE IF a.turn # 0
       THEN /\ phase' = "resteer"
            /\ run' = [run EXCEPT !.turn = a.turn]
            /\ pending' = Append(pending, 0)
            /\ flush' = [flush EXCEPT !.jobs = Append(@, 0)]
            /\ Consume(a)
       ELSE /\ phase' = "start"
            /\ run' = [run EXCEPT !.goalLater = kind.goal]
            /\ AskAfter(a, Request("start", 0, <<0>>))
            /\ UNCHANGED <<pending, flush>>
    /\ UNCHANGED <<kind, server, wire, chain, stop, told, tries, unsure, got, result>>

\* startNewTurn goes on; the turn may have ended already.
TurnStarted(a) ==
    /\ Resume("start", a) /\ a.ok
    /\ phase' = "up"
    /\ run' = [run EXCEPT !.turn = a.turn]
    /\ flush' = Scheduled
    /\ Consume(a)
    /\ UNCHANGED <<kind, server, wire, chain, pending, stop, told, tries, unsure, got, result>>

GoalSet(a) ==
    /\ Resume("goal", a) /\ a.ok
    /\ phase' = IF phase = "goal" THEN "up" ELSE phase
    /\ IF run.inHand = "goal"
       THEN run' = [run EXCEPT !.inHand = "no"] /\ chain' = Tail(chain)
       ELSE UNCHANGED <<run, chain>>
    /\ Consume(a)
    /\ UNCHANGED <<kind, server, wire, pending, flush, stop, told, tries, unsure, got, result>>

\* The start fails; finishRecoverableStartupControlError keeps the thread.
StartFails(a) ==
    /\ Going /\ a \in answers /\ ~a.ok
    /\ \/ a.call \in {"thread", "start"}
       \/ a.call = "goal" /\ phase = "goal"
    /\ Finish(IF stop.asked THEN "interrupted" ELSE IF Lost(a) THEN "lost" ELSE "failed")
    /\ UNCHANGED <<kind, server, phase, run, pending, told, tries, unsure, got>>

\* thread/goal/set fails in the handler of a notification: the rejection is
\* swallowed by what is queued behind it, or by the loss of the transport;
\* otherwise nobody catches it.
GoalFails(a) ==
    /\ Resume("goal", a) /\ ~a.ok /\ run.inHand = "goal"
    /\ IF Len(chain) > 1 \/ run.closed
       THEN /\ run' = [run EXCEPT !.inHand = "no", !.goalTimer = FALSE]
            /\ chain' = Tail(chain)
            /\ Consume(a)
            /\ UNCHANGED <<wire, flush, stop, result>>
       ELSE Finish("crashed") /\ UNCHANGED run
    /\ UNCHANGED <<kind, server, phase, pending, told, tries, unsure, got>>

----------------------------------------------------------------------------
(* handleNotification                                                      *)

\* Mutant: the completion that is scheduled is not called off.
StartsTurnCompleting(turn) ==
    [run EXCEPT !.turn = turn, !.terminal = FALSE, !.final = FALSE, !.goalTimer = FALSE,
                !.inHand = "begun"]

\* A turn starts; with a goal it follows one that was about to end the run.
StartsTurn(turn) ==
    [run EXCEPT !.turn = turn, !.terminal = FALSE, !.final = FALSE, !.goalTimer = FALSE,
                !.timer = FALSE, !.inHand = "begun"]

\* Up to the event handlers of the run, which may take their time.
HandleBegin ==
    /\ Going /\ chain # <<>> /\ run.inHand = "no" /\ Settled({"thread", "refresh"})
    /\ LET e == Head(chain) IN
       /\ run' = CASE e.event = "started" -> StartsTurn(e.turn)
                   [] e.event = "final" -> [run EXCEPT !.final = TRUE, !.inHand = "begun"]
                   [] OTHER -> [run EXCEPT !.inHand = "begun"]
       /\ flush' = IF e.event = "started" THEN Scheduled ELSE flush
    /\ UNCHANGED <<kind, server, rpc, wire, phase, chain, pending, stop, told, tries, unsure, got, result>>

\* And from there on.
HandleEnd ==
    /\ Going /\ run.inHand = "begun" /\ Settled({"thread"})
    /\ \/ /\ Head(chain).event \in {"started", "final"}
          /\ run' = [run EXCEPT !.inHand = "no"]
          /\ chain' = Tail(chain)
          /\ UNCHANGED <<rpc, wire, flush, stop, result>>
       \/ /\ Head(chain).event \in {"failed", "interrupted"}
          /\ Finish(Head(chain).event)
          /\ run' = [run EXCEPT !.terminal = TRUE, !.turn = 0]
       \/ /\ Head(chain).event = "completed" /\ run.goalLater
          /\ run' = [GoalState(0) EXCEPT !.goalLater = FALSE, !.inHand = "goal"]
          /\ Ask(Request("goal", 0, <<>>))
          /\ UNCHANGED <<wire, chain, flush, stop, result>>
       \/ /\ Head(chain).event = "completed" /\ ~run.goalLater /\ run.final /\ ~kind.goal
          /\ Finish("completed")
          /\ run' = [run EXCEPT !.terminal = TRUE, !.turn = 0]
       \/ /\ Head(chain).event = "completed" /\ ~run.goalLater /\ ~(run.final /\ ~kind.goal)
          /\ run' = [run EXCEPT !.terminal = TRUE, !.turn = 0, !.timer = TRUE, !.inHand = "no"]
          /\ chain' = Tail(chain)
          /\ UNCHANGED <<rpc, wire, flush, stop, result>>
    /\ UNCHANGED <<kind, server, phase, pending, told, tries, unsure, got>>

\* TURN_COMPLETION_FINAL_MESSAGE_GRACE_MS are over.
TimerFires ==
    /\ Quiet /\ run.timer
    /\ Finish("completed")
    /\ UNCHANGED <<kind, server, phase, run, pending, told, tries, unsure, got>>

\* GOAL_CONTINUATION_START_TIMEOUT_MS are over.
GoalTimerFires ==
    /\ Quiet /\ run.goalTimer
    /\ IF run.turn = 0
       THEN Finish("failed") /\ UNCHANGED run
       ELSE /\ run' = [run EXCEPT !.goalTimer = FALSE]
            /\ UNCHANGED <<rpc, wire, chain, flush, stop, result>>
    /\ UNCHANGED <<kind, server, phase, pending, told, tries, unsure, got>>

----------------------------------------------------------------------------
(* Steering                                                                *)

\* isFinalizingTurnState
Finalizing == run.timer \/ (run.terminal /\ run.turn = 0)

\* The pool steers the run with s, for the first time or again.
Steer(s) ==
    /\ Quiet /\ told[s] \in {"no", "failed"} /\ tries[s] <= Repeats
    /\ tries' = [tries EXCEPT ![s] = @ + 1]
    /\ unsure' = IF tries[s] = 0 THEN unsure ELSE unsure \cup {s}
    /\ IF Finalizing
       THEN /\ told' = [told EXCEPT ![s] = "refused"]
            /\ UNCHANGED <<pending, flush>>
       ELSE /\ pending' = Append(pending, s)
            /\ told' = [told EXCEPT ![s] = IF run.turn = 0 THEN "buffered" ELSE "waiting"]
            /\ flush' = IF run.turn = 0 THEN flush ELSE [flush EXCEPT !.jobs = Append(@, s)]
    /\ UNCHANGED <<kind, server, rpc, wire, phase, run, chain, stop, got, result>>

\* The first job ends: the next may begin.
NextJob == [NoJob EXCEPT !.jobs = Tail(flush.jobs)]
Tells(answer) ==
    LET who == Head(flush.jobs) IN
    told' = IF who \in Steers THEN [told EXCEPT ![who] = answer] ELSE told
Ready == phase' = IF Head(flush.jobs) = 0 THEN "up" ELSE phase

\* flushPendingSteers
FlushNothing ==
    /\ Going /\ flush.at = "idle" /\ flush.jobs # <<>>
    /\ run.turn = 0 \/ pending = <<>>
    /\ flush' = NextJob
    /\ Tells("buffered") /\ Ready
    /\ UNCHANGED <<kind, server, rpc, wire, run, chain, pending, stop, tries, unsure, got, result>>

\* Mutant: what is sent stays in the list.
FlushBeginKeeps ==
    /\ Going /\ flush.at = "idle" /\ flush.jobs # <<>>
    /\ run.turn # 0 /\ pending # <<>>
    /\ flush' = [flush EXCEPT !.at = "asking", !.hand = pending, !.try = 0]
    /\ UNCHANGED pending
    /\ Ask(Request("steer", run.turn, pending))
    /\ UNCHANGED <<kind, server, wire, phase, run, chain, stop, told, tries, unsure, got, result>>

FlushBegin ==
    /\ Going /\ flush.at = "idle" /\ flush.jobs # <<>>
    /\ run.turn # 0 /\ pending # <<>>
    /\ flush' = [flush EXCEPT !.at = "asking", !.hand = pending, !.try = 0]
    /\ pending' = <<>>
    /\ Ask(Request("steer", run.turn, pending))
    /\ UNCHANGED <<kind, server, wire, phase, run, chain, stop, told, tries, unsure, got, result>>

Steered(a) ==
    /\ Resume("steer", a) /\ a.ok
    /\ run' = [run EXCEPT !.turn = a.turn]
    /\ flush' = NextJob
    /\ Tells("steered") /\ Ready
    /\ Consume(a)
    /\ UNCHANGED <<kind, server, wire, chain, pending, stop, tries, unsure, got, result>>

\* Mutant: the inputs in hand are not put back.
GivesUpForgets(rest) ==
    /\ flush' = NextJob
    /\ run' = [run EXCEPT !.turn = 0]
    /\ IF Head(flush.jobs) = 0
       THEN /\ AskWith(rest, Request("start", 0, flush.hand \o pending))
            /\ phase' = "start"
            /\ pending' = <<>>
            /\ UNCHANGED told
       ELSE /\ Tells("failed")
            /\ answers' = rest /\ UNCHANGED <<asked, awaited>>
            /\ UNCHANGED <<phase, pending>>

\* There is no turn to steer: the inputs wait for the next one, and the
\* prompt of a resumed run starts one with them.
GivesUp(rest) ==
    /\ flush' = NextJob
    /\ run' = [run EXCEPT !.turn = 0]
    /\ IF Head(flush.jobs) = 0
       THEN /\ AskWith(rest, Request("start", 0, flush.hand \o pending))
            /\ phase' = "start"
            /\ pending' = <<>>
            /\ UNCHANGED told
       ELSE /\ pending' = flush.hand \o pending
            /\ Tells("failed")
            /\ answers' = rest /\ UNCHANGED <<asked, awaited>>
            /\ UNCHANGED phase

SteerStale(a) ==
    /\ Resume("steer", a) /\ ~a.ok /\ ~Lost(a)
    /\ IF flush.try = Retries THEN GivesUp(answers \ {a})
       ELSE /\ run' = [run EXCEPT !.turn = 0]
            /\ flush' = [flush EXCEPT !.at = "waiting"]
            /\ Consume(a)
            /\ UNCHANGED <<phase, pending, told>>
    /\ UNCHANGED <<kind, server, wire, chain, stop, tries, unsure, got, result>>

\* refreshActiveTurnFromThreadResume
Refresh ==
    /\ Quiet /\ flush.at = "waiting"
    /\ flush' = [flush EXCEPT !.at = "refreshing", !.try = @ + 1]
    /\ Ask(Request("refresh", 0, <<>>))
    /\ UNCHANGED <<kind, server, wire, phase, run, chain, pending, stop, told, tries, unsure, got, result>>

Refreshed(a) ==
    /\ Resume("refresh", a)
    /\ run' = [run EXCEPT !.turn = IF a.ok THEN a.turn ELSE @]
    /\ flush' = [flush EXCEPT !.at = "refreshed"]
    /\ Consume(a)
    /\ UNCHANGED <<kind, server, wire, phase, chain, pending, stop, told, tries, unsure, got, result>>

\* The turn is published, and the loop goes round.
FlushAgain ==
    /\ Quiet /\ flush.at = "refreshed"
    /\ IF run.turn = 0 /\ flush.try = Retries THEN GivesUp(answers)
       ELSE /\ flush' = [flush EXCEPT !.at = IF run.turn = 0 THEN "waiting" ELSE "asking"]
            /\ IF run.turn = 0 THEN UNCHANGED rpc
               ELSE Ask(Request("steer", run.turn, flush.hand))
            /\ UNCHANGED <<phase, run, pending, told>>
    /\ UNCHANGED <<kind, server, wire, chain, stop, tries, unsure, got, result>>

\* No answer: what was sent is in the list again, whatever the server did.
SteerLost(a) ==
    /\ Resume("steer", a) /\ Lost(a)
    /\ IF Head(flush.jobs) = 0
       THEN /\ Finish(IF stop.asked THEN "interrupted" ELSE "lost")
            /\ UNCHANGED <<pending, told>>
       ELSE /\ flush' = NextJob
            /\ pending' = flush.hand \o pending
            /\ Tells("failed")
            /\ Consume(a)
            /\ UNCHANGED <<wire, chain, stop, result>>
    /\ unsure' = unsure \cup {flush.hand[k] : k \in DOMAIN flush.hand}
    /\ UNCHANGED <<kind, server, phase, run, tries, got>>

----------------------------------------------------------------------------
(* requestTurnInterrupt                                                    *)

Interrupt ==
    /\ Quiet /\ ~stop.asked
    /\ IF run.turn = 0 \/ Finalizing
       THEN /\ stop' = [NoStop EXCEPT !.asked = TRUE, !.at = "over"]
            /\ UNCHANGED rpc
       ELSE /\ stop' = [NoStop EXCEPT !.asked = TRUE, !.at = "asking", !.turn = run.turn]
            /\ Ask(Request("interrupt", run.turn, <<>>))
    /\ UNCHANGED <<kind, server, wire, phase, run, chain, pending, flush, told, tries, unsure, got, result>>

\* Mutant: the tries are not counted.
InterruptAnsweredForever(a) ==
    /\ Resume("interrupt", a)
    /\ stop' = IF a.ok \/ Lost(a) THEN [stop EXCEPT !.at = "over"]
               ELSE [stop EXCEPT !.at = "waiting", !.try = @ + 1]
    /\ Consume(a)
    /\ UNCHANGED <<kind, server, wire, phase, run, chain, pending, flush, told, tries, unsure, got, result>>

InterruptAnswered(a) ==
    /\ Resume("interrupt", a)
    /\ stop' = IF a.ok \/ Lost(a) \/ stop.try = Retries THEN [stop EXCEPT !.at = "over"]
               ELSE [stop EXCEPT !.at = "waiting", !.try = @ + 1]
    /\ Consume(a)
    /\ UNCHANGED <<kind, server, wire, phase, run, chain, pending, flush, told, tries, unsure, got, result>>

\* The turn that is interrupted is the one of the first request.
InterruptAgain ==
    /\ Quiet /\ stop.at = "waiting"
    /\ IF Finalizing
       THEN stop' = [stop EXCEPT !.at = "over"] /\ UNCHANGED rpc
       ELSE /\ stop' = [stop EXCEPT !.at = "asking"]
            /\ Ask(Request("interrupt", stop.turn, <<>>))
    /\ UNCHANGED <<kind, server, wire, phase, run, chain, pending, flush, told, tries, unsure, got, result>>

----------------------------------------------------------------------------

\* What the event loop does without being told to.
LoopStep ==
    \/ Read \/ Close \/ LossEnds \/ HandleBegin \/ HandleEnd \/ FlushNothing \/ FlushBegin
    \/ Refresh \/ FlushAgain \/ InterruptAgain
    \/ \E a \in answers :
          \/ ThreadReady(a) \/ TurnStarted(a) \/ GoalSet(a) \/ StartFails(a) \/ GoalFails(a)
          \/ Steered(a) \/ SteerStale(a) \/ Refreshed(a) \/ SteerLost(a) \/ InterruptAnswered(a)

Done == ~Going /\ UNCHANGED vars

Next ==
    \/ Serve \/ Tell \/ EndTurn \/ Continue \/ Die
    \/ LoopStep \/ TimerFires \/ GoalTimerFires \/ Interrupt
    \/ \E call \in Calls : Timeout(call)
    \/ \E s \in Steers : Steer(s)
    \/ Done

Spec == Init /\ [][Next]_vars

\* The event loop goes on, its timers fire, and the pool kills the process of
\* an interrupted run (SIGINT after five seconds, then SIGKILL).
Fairness ==
    /\ WF_vars(LoopStep) /\ WF_vars(TimerFires) /\ WF_vars(GoalTimerFires)
    /\ WF_vars(stop.asked /\ Die)

FairSpec == Spec /\ Fairness

----------------------------------------------------------------------------
(* Properties                                                              *)

InList(i, list) == \E k \in DOMAIN list : list[k] = i
Carried(i) == InList(i, pending) \/ InList(i, flush.hand)
              \/ \E k \in DOMAIN asked : asked[k].call = "start" /\ InList(i, asked[k].inputs)

\* The attempt is about to fail: the process is dead, or turn/start is
\* rejected.
StartRejected(a) == a.call = "start" /\ ~a.ok
Failing == \/ ~server.up
           \/ \E a \in answers : StartRejected(a)
           \/ \E k \in DOMAIN wire : wire[k] \in Answer /\ StartRejected(wire[k])

\* flushPendingSteers: while the attempt goes on, a steer that the pool was
\* told is taken has reached the server or is still to be sent: a flush that
\* fails, for a turn that is over or for want of an answer, loses neither its
\* own message nor the ones that other steers had added to it.
NothingForgotten ==
    Going /\ ~Failing => \A s \in Steers : told[s] \in {"buffered", "steered"} => got[s] > 0 \/ Carried(s)

\* No input is given to the model twice: not by the flushes that several
\* notifications and steers set off, not by a flush that goes from a turn to
\* the next, and not by the turn that a stale one makes start.  The code does
\* not guarantee it for the inputs in unsure: a steer that was not answered
\* in time stays in the list, and a steer that failed does too when the pool
\* sends it again.
TakenOnce == \A i \in Inputs \ unsure : got[i] <= 1

\* scheduleCompletedTurnFinish: a run that resumed no open turn is completed
\* only when its turn is over, and one that follows a goal never while a turn
\* is under way that it knows of.
CompletedIsOver ==
    result = "completed" /\ ~kind.open => run.turn = 0 /\ (kind.goal \/ ~server.open)

\* finishTransportLossAfterNotifications, requestTurnInterrupt: the attempt
\* ends when the process dies, wherever the dialogue stands, and when the
\* user interrupts it.
Ends == ~server.up \/ stop.asked ~> ~Going

\* test/app-server-v2-runner.test.js "starts a new turn when resumed open
\* turn is stale": a run that is completed had its prompt taken by the model.
PromptTaken == result = "completed" /\ ~kind.goal => got[0] > 0

============================================================================

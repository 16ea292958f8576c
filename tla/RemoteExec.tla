----------------------------- MODULE RemoteExec -----------------------------
(***************************************************************************)
(* A run on another host.  With the app-server-v2 backend the gateway      *)
(* stages the input and runs the app server itself, over ssh.  With the    *)
(* app-server backend it brings its own checkout to the host and starts    *)
(* host-executor there: the two talk over the pipe of the ssh child, each  *)
(* side handling one line after the other, and the events of the run, its  *)
(* end, steers and interruptions are requests which the other side         *)
(* answers.                                                                *)
(*                                                                         *)
(* The runner on the host is RunnerTransport; here it tells a few events   *)
(* and ends.                                                               *)
(***************************************************************************)
EXTENDS Naturals, Sequences, SequencesExt

CONSTANTS
    MaxEvents,  \* bound on the events of the run
    MaxErrors   \* bound on what goes wrong in a command, a callback, the link

VARIABLES
    v2,         \* the backend is app-server-v2
    pc,         \* how far the gateway is
    root,       \* remoteInputRoot on the host: "none", "made", "gone"
    link,       \* the ssh child: "none", "up", "down", "closed"
    toHost,     \* lines for the host
    toGateway,  \* lines for the gateway, those in enqueueStdoutLine first
    inHand,     \* a request whose handler the gateway awaits
    settled,    \* what remoteFinished came to
    steer,      \* the request of a steer: "none", "asked", "ok", "failed"
    interrupt,  \* the request of an interruption, in the same way
    executor,   \* host-executor
    told,       \* the events onEvent was called with
    errors,     \* what has gone wrong
    result

vars == <<v2, pc, root, link, toHost, toGateway, inHand, settled, steer, interrupt,
          executor, told, errors, result>>

pipe == <<link, toHost, toGateway>>

gateway == <<inHand, settled, steer, interrupt, told>>

ErrorsLeft == errors < MaxErrors

Fails == ErrorsLeft /\ errors' = errors + 1

(***************************************************************************)
(* Before the run                                                          *)
(***************************************************************************)
Ends(r) == pc' = "over" /\ result' = r

quiet == <<v2, pipe, gateway, executor>>

\* The repository is synchronised and the directory of the session is there.
Prepare ==
    /\ pc = "prepare" /\ pc' = "root"
    /\ UNCHANGED <<quiet, root, errors, result>>

PrepareFails ==
    /\ pc = "prepare" /\ Fails /\ Ends("threw")
    /\ UNCHANGED <<quiet, root>>

MakeRoot ==
    /\ pc = "root" /\ pc' = "stage" /\ root' = "made"
    /\ UNCHANGED <<quiet, errors, result>>

\* It may have been made all the same.
MakeRootFails ==
    /\ pc = "root" /\ Fails /\ Ends("threw")
    /\ root' \in {"none", "made"}
    /\ UNCHANGED quiet

Stage ==
    /\ pc = "stage" /\ pc' = "spawn"
    /\ UNCHANGED <<quiet, root, errors, result>>

\* What is told once the staged input is removed is in pc.
StageFails ==
    /\ pc \in {"stage", "spawn"} /\ Fails /\ pc' = "cleanup threw"
    /\ UNCHANGED <<quiet, root, result>>

CleanUps == {"cleanup threw", "cleanup ok", "cleanup failed"}

Reported ==
    CASE pc = "cleanup threw" -> "threw"
      [] pc = "cleanup ok" -> "ok"
      [] pc = "cleanup failed" -> "failed"

Cleanup ==
    /\ pc \in CleanUps
    /\ root' = "gone" /\ Ends(Reported)
    /\ UNCHANGED <<quiet, errors>>

CleanupFails ==
    /\ pc \in CleanUps /\ Fails /\ Ends(Reported)
    /\ UNCHANGED <<quiet, root>>

\* The app server over ssh is AppServerRun; here it ends.
SpawnTask ==
    /\ pc = "spawn" /\ v2 /\ pc' = "task"
    /\ executor' = [executor EXCEPT !.run = "runs"]
    /\ UNCHANGED <<v2, pipe, gateway, root, errors, result>>

TaskEnds ==
    /\ pc = "task"
    /\ \E how \in {"ok", "failed"} :
          /\ executor' = [executor EXCEPT !.run = how]
          /\ pc' = IF how = "ok" THEN "cleanup ok" ELSE "cleanup failed"
    /\ UNCHANGED <<v2, pipe, gateway, root, errors, result>>

Spawn ==
    /\ pc = "spawn" /\ ~v2 /\ pc' = "starting"
    /\ link' = "up" /\ toHost' = <<"startRun">>
    /\ executor' = [executor EXCEPT !.up = TRUE]
    /\ UNCHANGED <<v2, toGateway, gateway, root, errors, result>>

(***************************************************************************)
(* The executor on the host                                                *)
(***************************************************************************)
\* What ssh has not delivered is lost, what the gateway has in hand is not.
Lose ==
    /\ link' = "down" /\ toHost' = <<>>
    /\ toGateway' \in {s \in Prefixes(toGateway) : inHand => s # <<>>}

Send(line) == toGateway' = IF link = "up" THEN Append(toGateway, line) ELSE toGateway

Answers(line) ==
    CASE line = "startRun" -> "started"
      [] line = "steer" -> "steered"
      [] line = "interrupt" -> "interrupted"

\* startRun is answered at once; the others when the runner has answered, and
\* until then no other line is read.
HostReads ==
    /\ executor.up /\ toHost # <<>> /\ executor.inHand = "none"
    /\ toHost' = Tail(toHost)
    /\ LET line == Head(toHost) IN
         /\ executor' =
              CASE line = "startRun" -> [executor EXCEPT !.run = "runs"]
                [] line = "heard" -> [executor EXCEPT !.waits = FALSE]
                [] line = "refused" -> [executor EXCEPT !.waits = FALSE, !.refused = TRUE]
                [] line = "noted" -> [executor EXCEPT !.up = FALSE]
                [] OTHER -> [executor EXCEPT !.inHand = line]
         /\ IF line = "startRun" THEN Send("started") ELSE UNCHANGED toGateway
         /\ link' = IF line = "noted" /\ link = "up" THEN "down" ELSE link
    /\ UNCHANGED <<v2, pc, root, gateway, errors, result>>

HostAnswers ==
    /\ executor.up /\ executor.inHand # "none"
    /\ executor' = [executor EXCEPT !.inHand = "none"]
    /\ Send(Answers(executor.inHand))
    /\ UNCHANGED <<v2, pc, root, link, toHost, gateway, errors, result>>

HostTells ==
    /\ executor.up /\ executor.run = "runs" /\ ~executor.waits /\ ~executor.refused
    /\ executor.events < MaxEvents
    /\ executor' = [executor EXCEPT !.events = @ + 1, !.waits = TRUE]
    /\ Send("onEvent")
    /\ UNCHANGED <<v2, pc, root, link, toHost, gateway, errors, result>>

\* Its end is told once; with nobody to read it the process ends.
RunEnds ==
    /\ executor.up /\ executor.run = "runs"
    /\ \E how \in {"failed"} \cup (IF executor.refused THEN {} ELSE {"ok"}) :
          /\ executor' = [executor EXCEPT !.run = how, !.up = link = "up"]
          /\ Send(IF how = "ok" THEN "finished" ELSE "failed")
    /\ UNCHANGED <<v2, pc, root, link, toHost, gateway, errors, result>>

\* ssh or the executor dies: what was not read yet may be lost.
LinkBreaks ==
    /\ link = "up" /\ Fails
    /\ Lose
    /\ executor' \in {executor, [executor EXCEPT !.up = FALSE]}
    /\ UNCHANGED <<v2, pc, root, gateway, result>>

(***************************************************************************)
(* The gateway                                                             *)
(***************************************************************************)
Requests == {"onEvent", "finished", "failed"}

\* Nobody waits for remoteFinished before startRun is answered: that it is
\* rejected then, or after a start that failed, ends the process.
Unheard == pc # "running"

\* The first end counts; requests not answered are rejected.
SettleRemote(how) ==
    IF settled # "none" THEN UNCHANGED <<settled, steer, interrupt, pc>>
    ELSE /\ settled' = how
         /\ steer' = IF steer = "asked" THEN "failed" ELSE steer
         /\ interrupt' = IF interrupt = "asked" THEN "failed" ELSE interrupt
         /\ pc' = CASE Unheard /\ how = "failed" -> "crashed"
                    [] ~Unheard /\ how = "ok" -> "cleanup ok"
                    [] ~Unheard /\ how = "failed" -> "cleanup failed"
                    [] OTHER -> pc

Alive == pc # "crashed"

GatewayReads ==
    /\ Alive /\ toGateway # <<>> /\ ~inHand
    /\ LET line == Head(toGateway) IN
         /\ inHand' = (line \in Requests)
         /\ toGateway' = IF line \in Requests THEN toGateway ELSE Tail(toGateway)
         /\ pc' = IF line = "started" /\ pc = "starting" THEN "running" ELSE pc
         /\ steer' = IF line = "steered" /\ steer = "asked" THEN "ok" ELSE steer
         /\ interrupt' = IF line = "interrupted" /\ interrupt = "asked" THEN "ok" ELSE interrupt
    /\ UNCHANGED <<v2, root, link, toHost, settled, executor, told, errors, result>>

Answer(line) == toHost' = IF link = "up" THEN Append(toHost, line) ELSE toHost

\* The end of a run counts when its answer is written.
Handle ==
    /\ Alive /\ inHand /\ inHand' = FALSE
    /\ toGateway' = Tail(toGateway)
    /\ LET line == Head(toGateway) IN
         IF line = "onEvent"
           THEN /\ told' = told + 1 /\ Answer("heard")
                /\ UNCHANGED <<settled, steer, interrupt, pc>>
           ELSE /\ Answer("noted") /\ UNCHANGED told
                /\ SettleRemote(IF line = "finished" /\ link = "up" THEN "ok" ELSE "failed")
    /\ UNCHANGED <<v2, root, link, executor, errors, result>>

HandleFails ==
    /\ Alive /\ inHand /\ Head(toGateway) = "onEvent" /\ Fails
    /\ inHand' = FALSE /\ toGateway' = Tail(toGateway)
    /\ Answer("refused") /\ told' = told + 1
    /\ UNCHANGED <<v2, pc, root, link, settled, steer, interrupt, executor, result>>

\* "close": it does not wait for the lines in the queue.
Closed ==
    /\ Alive /\ link = "down" /\ link' = "closed"
    /\ SettleRemote("failed")
    /\ UNCHANGED <<v2, root, toHost, toGateway, inHand, executor, told, errors, result>>

\* startRun is not answered in 20 seconds: ssh gets SIGTERM.
StartTimesOut ==
    /\ pc = "starting" /\ Fails
    /\ pc' = "cleanup threw"
    /\ Lose
    /\ UNCHANGED <<v2, root, gateway, executor, result>>

AskSteer ==
    /\ pc = "running" /\ steer = "none"
    /\ IF link = "up" THEN steer' = "asked" /\ Answer("steer")
       ELSE steer' = "failed" /\ UNCHANGED toHost
    /\ UNCHANGED <<v2, pc, root, link, toGateway, inHand, settled, interrupt, executor,
                   told, errors, result>>

SteerTimesOut ==
    /\ Alive /\ steer = "asked" /\ Fails
    /\ steer' = "failed"
    /\ UNCHANGED <<v2, pc, root, pipe, inHand, settled, interrupt, executor, told, result>>

AskInterrupt ==
    /\ pc = "running" /\ interrupt = "none"
    /\ IF link = "up" THEN interrupt' = "asked" /\ Answer("interrupt")
       ELSE interrupt' = "failed" /\ UNCHANGED toHost
    /\ UNCHANGED <<v2, pc, root, link, toGateway, inHand, settled, steer, executor,
                   told, errors, result>>

(***************************************************************************)
(* Specification                                                           *)
(***************************************************************************)
Init ==
    /\ v2 \in BOOLEAN /\ pc = IF v2 THEN "root" ELSE "prepare"
    /\ root = "none" /\ link = "none" /\ toHost = <<>> /\ toGateway = <<>>
    /\ inHand = FALSE /\ settled = "none" /\ steer = "none" /\ interrupt = "none"
    /\ executor = [up |-> FALSE, run |-> "none", inHand |-> "none", waits |-> FALSE,
                   refused |-> FALSE, events |-> 0]
    /\ told = 0 /\ errors = 0 /\ result = "none"

Over == pc \in {"over", "crashed"} /\ UNCHANGED vars

Next ==
    \/ Prepare \/ PrepareFails \/ MakeRoot \/ MakeRootFails \/ Stage \/ StageFails
    \/ Cleanup \/ CleanupFails \/ SpawnTask \/ TaskEnds \/ Spawn
    \/ HostReads \/ HostAnswers \/ HostTells \/ RunEnds \/ LinkBreaks
    \/ GatewayReads \/ Handle \/ HandleFails \/ Closed \/ StartTimesOut
    \/ AskSteer \/ SteerTimesOut \/ AskInterrupt
    \/ Over

Spec == Init /\ [][Next]_vars

(***************************************************************************)
(* Properties                                                              *)
(***************************************************************************)
\* What the gateway reports of a remote run is how it ended there: done only
\* if it was done and every event it told was handled; failed only if it failed,
\* or the link or a command did; and the staged input is removed, unless that
\* fails.
ResultIsTrue ==
    /\ result = "ok" => executor.run = "ok" /\ told = executor.events
    /\ result = "failed" => executor.run = "failed" \/ errors > 0
    /\ result = "threw" => errors > 0
    /\ result # "none" /\ errors = 0 => root = "gone"
=============================================================================

------------------------------ MODULE Emergency ------------------------------
(***************************************************************************)
(* The private chat with the operator, beside all topics: one repair run   *)
(* at a time, as a child process of its own, with the attachments that     *)
(* were sent before the prompt.  Messages of the chat are handled one      *)
(* after the other; the child, the timers of an interruption, the runs of  *)
(* topics and the shutdown of the gateway come in between.                 *)
(*                                                                         *)
(* The topics are one starter, which asks for the lock of the chat and     *)
(* then starts, and the drains of prompt queues, which do not ask.         *)
(***************************************************************************)
EXTENDS Naturals

CONSTANT MaxRuns   \* bound on the repair runs

Repairs == 1..MaxRuns

VARIABLES
    pending,   \* there are pendingAttachments
    handler,   \* handleMessage: where it waits, the message in hand, the run it started
    active,    \* activeRun, 0 if none
    child,     \* of a run: "none", "up", "dead", "closed", "error"
    how,       \* how it ended: "ok", "fail", "signal", "outside"
    asked,     \* it was sent SIGTERM
    told,      \* what the operator was told of it
    timer,     \* the kill after the grace period is set
    topic,     \* the starter of topic runs: "idle", "passed", "running"
    crossed,   \* history: one started while the other was past its check
    stop,      \* shutdown: "no", "clears", "term", "kill", "over"
    found,     \* the run it found
    gone       \* the process has ended by an unhandled rejection

vars == <<pending, handler, active, child, how, asked, told, timer, topic, crossed,
          stop, found, gone>>

chat == <<pending, handler>>
runs == <<active, child, how, asked, told, timer>>
others == <<topic, crossed, stop, found, gone>>

None == [at |-> "idle", kind |-> "none", run |-> 0]

Kinds == {"prompt", "prompt with file", "file", "interrupt", "command"}

Started == {r \in Repairs : child[r] # "none"}

Up(r) == child[r] = "up"

(***************************************************************************)
(* The child                                                               *)
(***************************************************************************)
\* SIGTERM, and the timer that kills; nothing for a child that has ended.
Interrupted(r) ==
    IF r # 0 /\ Up(r)
    THEN asked' = [asked EXCEPT ![r] = TRUE] /\ timer' = [timer EXCEPT ![r] = TRUE]
    ELSE UNCHANGED <<asked, timer>>

Killed(r) ==
    IF Up(r)
    THEN child' = [child EXCEPT ![r] = "dead"] /\ how' = [how EXCEPT ![r] = "signal"]
    ELSE UNCHANGED <<child, how>>

Dies(r, end) ==
    /\ Up(r) /\ (end = "signal" => asked[r])
    /\ child' = [child EXCEPT ![r] = "dead"]
    /\ how' = [how EXCEPT ![r] = end]
    /\ UNCHANGED <<chat, active, asked, told, timer, others>>

\* Its pipes may be held open for longer.
Close(r) ==
    /\ child[r] = "dead" /\ child' = [child EXCEPT ![r] = "closed"]
    /\ UNCHANGED <<chat, active, how, asked, told, timer, others>>

\* The program cannot be started.  Nobody listens yet while the files of the
\* pending attachments are removed.
SpawnError(r) ==
    /\ Up(r) /\ ~asked[r]
    /\ child' = [child EXCEPT ![r] = "error"]
    /\ gone' = (handler.at = "clear" /\ handler.run = r)
    /\ UNCHANGED <<chat, active, how, asked, told, timer, topic, crossed,
                   stop, found>>

OutcomeOrAnswer(end) == IF end = "fail" THEN "failed" ELSE "answer"

Outcome(end) ==
    CASE end = "ok" -> "answer"
      [] end = "fail" -> "failed"
      [] OTHER -> "interrupted"

\* The last message of the run may be there and not readable.
Finalize(r) ==
    /\ child[r] \in {"closed", "error"} /\ told[r] = "nothing"
    /\ ~(handler.at = "clear" /\ handler.run = r)
    /\ active' = IF active = r THEN 0 ELSE active
    /\ \E said \in {Outcome(how[r]), "failed"} :
          /\ child[r] = "error" => said = "failed"
          /\ told' = [told EXCEPT ![r] = said]
    /\ UNCHANGED <<chat, child, how, asked, timer, others>>

Fire(r) ==
    /\ timer[r] /\ timer' = [timer EXCEPT ![r] = FALSE]
    /\ IF active = r THEN Killed(r) ELSE UNCHANGED <<child, how>>
    /\ UNCHANGED <<chat, active, asked, told, others>>

(***************************************************************************)
(* A message of the chat                                                   *)
(***************************************************************************)
RefusedIfBusy == active # 0

\* The check of all messages that are no command.
Refused == active # 0 \/ topic = "running"

\* startRun; the files that were pending are removed before activeRun is set.
Starts(r) ==
    /\ child' = [child EXCEPT ![r] = "up"]
    /\ IF pending
       THEN handler' = [None EXCEPT !.at = "clear", !.run = r] /\ UNCHANGED active
       ELSE handler' = None /\ active' = r
    /\ UNCHANGED pending

CannotStart ==
    /\ pending' = FALSE /\ handler' = None
    /\ UNCHANGED <<child, active>>

\* A command forgets the pending attachments; the ones whose time is over go before.
Receive(kind) ==
    /\ handler = None
    /\ pending' \in IF kind \in {"interrupt", "command"} THEN {FALSE} ELSE {FALSE, pending}
    /\ IF kind = "interrupt" THEN Interrupted(active) ELSE UNCHANGED <<asked, timer>>
    /\ handler' = IF kind \in {"interrupt", "command"} \/ Refused THEN None
                  ELSE [None EXCEPT !.at = IF kind = "prompt" THEN "start" ELSE "ingest",
                                    !.kind = kind]
    /\ UNCHANGED <<active, child, how, told, others>>

\* Nothing comes between the check of a prompt and its start.
AtOnce == handler.at = "start"

StartAtOnce ==
    /\ AtOnce
    /\ CannotStart \/ \E r \in Repairs \ Started : Starts(r)
    /\ UNCHANGED <<how, asked, told, timer, others>>

\* The attachment is there; the check is not repeated.
Ingested ==
    /\ handler.at = "ingest"
    /\ IF handler.kind = "file"
       THEN pending' = TRUE /\ handler' = None /\ UNCHANGED <<child, active, crossed>>
       ELSE /\ \E r \in Repairs \ Started : Starts(r)
            /\ crossed' = (crossed \/ topic = "running")
    /\ UNCHANGED <<how, asked, told, timer, topic, stop, found, gone>>

IngestFails ==
    /\ handler.at = "ingest" /\ CannotStart
    /\ UNCHANGED <<how, asked, told, timer, others>>

Cleared ==
    /\ handler.at = "clear"
    /\ pending' = FALSE
    /\ active' = handler.run /\ handler' = None
    /\ UNCHANGED <<child, how, asked, told, timer, others>>

(***************************************************************************)
(* The topics and the end of the gateway                                   *)
(***************************************************************************)
PastItsCheck == handler.at \in {"ingest", "clear"}

TopicAsks ==
    /\ topic = "idle" /\ active = 0 /\ topic' = "passed"
    /\ UNCHANGED <<chat, runs, crossed, stop, found, gone>>

\* From idle it is a drain, which does not ask.  canStart refuses in a shutdown.
TopicStarts ==
    /\ topic \in {"passed", "idle"} /\ stop = "no" /\ topic' = "running"
    /\ crossed' = (crossed \/ active # 0 \/ PastItsCheck)
    /\ UNCHANGED <<chat, runs, stop, found, gone>>

TopicEnds ==
    /\ topic \in {"passed", "running"} /\ topic' = "idle"
    /\ UNCHANGED <<chat, runs, crossed, stop, found, gone>>

\* shutdown, once the runs of topics have ended: forget the attachments, then look.
Stop ==
    /\ stop = "no" /\ stop' = "clears"
    /\ UNCHANGED <<chat, runs, topic, crossed, found, gone>>

StopFinds ==
    /\ stop = "clears" /\ pending' = FALSE
    /\ found' = active
    /\ stop' = IF active = 0 THEN "over" ELSE "term"
    /\ Interrupted(active)
    /\ UNCHANGED <<handler, active, child, how, told, topic, crossed, gone>>

StopSees ==
    /\ stop \in {"term", "kill"} /\ child[found] \in {"closed", "error"}
    /\ stop' = "over"
    /\ UNCHANGED <<chat, runs, topic, crossed, found, gone>>

StopKills ==
    /\ stop = "term" /\ child[found] \in {"up", "dead"}
    /\ stop' = "kill" /\ Killed(found)
    /\ UNCHANGED <<chat, active, asked, told, timer, topic, crossed,
                   found, gone>>

StopGivesUp ==
    /\ stop = "kill" /\ child[found] = "dead"
    /\ stop' = "over" /\ active' = IF active = found THEN 0 ELSE active
    /\ UNCHANGED <<chat, child, how, asked, told, timer, topic, crossed,
                   found, gone>>

Init ==
    /\ pending = FALSE /\ handler = None /\ active = 0
    /\ child = [r \in Repairs |-> "none"] /\ how = [r \in Repairs |-> "none"]
    /\ asked = [r \in Repairs |-> FALSE] /\ timer = [r \in Repairs |-> FALSE]
    /\ told = [r \in Repairs |-> "nothing"]
    /\ topic = "idle" /\ crossed = FALSE /\ stop = "no" /\ found = 0 /\ gone = FALSE

ChildStep ==
    \E r \in Repairs :
        \/ \E end \in {"ok", "fail", "signal", "outside"} : Dies(r, end)
        \/ Close(r) \/ SpawnError(r) \/ Finalize(r) \/ Fire(r)

Others ==
    \/ ChildStep
    \/ \E kind \in Kinds : Receive(kind)
    \/ Ingested \/ IngestFails \/ Cleared
    \/ TopicAsks \/ TopicStarts \/ TopicEnds
    \/ Stop \/ StopFinds \/ StopSees \/ StopKills \/ StopGivesUp

Over == UNCHANGED vars

Next == \/ ~gone /\ StartAtOnce
        \/ ~gone /\ ~AtOnce /\ Others
        \/ Over

Spec == Init /\ [][Next]_vars

(***************************************************************************)
(* Properties                                                              *)
(***************************************************************************)
\* "Interrupted" is told of a run that was signalled from here or from outside, an
\* answer of one that ended by itself.
ToldIsTrue ==
    \A r \in Repairs :
        /\ told[r] = "answer" => how[r] = "ok"
        /\ told[r] = "interrupted" => how[r] = "outside" \/ (how[r] = "signal" /\ asked[r])
        /\ told[r] # "nothing" => ~Up(r)

\* One repair at a time, and none beside a run of a topic: not so where one of the
\* two starts after the other was checked for, and a drain does not check.
RepairIsAlone ==
    /\ \A r, q \in Repairs : Up(r) /\ Up(q) => r = q
    /\ (active # 0 \/ handler.at = "clear") /\ topic = "running" => crossed

\* The run a shutdown finds does not outlive it.
StopEndsIt == stop = "over" /\ found # 0 => ~Up(found)

\* The repair chat keeps its promises under every order of messages, ends and
\* signals (EmergencyPrivateChatRouter).
ResultIsTrue == ToldIsTrue /\ RepairIsAlone /\ StopEndsIt
=============================================================================

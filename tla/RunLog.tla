-------------------------------- MODULE RunLog --------------------------------
(***************************************************************************)
(* What is left of a run when its process dies.  While Codex works, the    *)
(* gateway mirrors its lines into a log of the topic, one after the other; *)
(* lines that wait to be written are lost in a crash.  A service that is   *)
(* the leader for the first time looks for sessions that are still marked  *)
(* as running by a generation that is not live, reads the log, and ends    *)
(* the run as completed, interrupted or failed.  A leader may lose its     *)
(* lease while it does so, and the next one does it too.                   *)
(*                                                                         *)
(* The legacy app-server keeps a log of its own, the rollout file, with    *)
(* the turns of all runs.  Lines about commands, goals and reasoning,      *)
(* which the reading passes over and the mirror may shorten, are left out, *)
(* and so is a line that cannot be written.                                *)
(***************************************************************************)
EXTENDS Naturals, SequencesExt

CONSTANTS
    Generations,   \* services, in the order 1..n in which they come to lead
    MaxRuns,       \* bound on runs
    MaxTurns,      \* bound on turns of all runs
    MaxMessages    \* bound on messages of one turn

VARIABLES
    backend,    \* "exec", "v2" or "legacy"
    session,    \* what the store says of the topic
    service,    \* what each generation does
    run,        \* the run in hand: where it is, and its turn
    log,        \* the lines in the file
    chain,      \* lines that wait to be written
    said,       \* history: what Codex said, with the run, the turn and who said it
    done,       \* history: the turns of the main thread that completed
    recovered,  \* history: what the recoveries made of runs
    entries     \* history: entries in the exchange log, and final events, by recoveries

vars == <<backend, session, service, run, log, chain, said, done, recovered, entries>>

Texts == [run : 1..MaxRuns, turn : 1..MaxTurns, who : {"main", "sub"}, n : 1..MaxMessages]

Line(what, who) == [what |-> what, who |-> who, run |-> session.run, turn |-> run.turn, n |-> 0]

Live(g) == service[g].at # "dead"

StaleRun == session.status = "running" /\ (session.owner = 0 \/ ~Live(session.owner))

Outcome == [answer |-> {}, has |-> FALSE, thread |-> FALSE, of |-> 0]

(***************************************************************************)
(* Reading the log                                                         *)
(***************************************************************************)
Blank == [turn |-> {}, done |-> {}, ended |-> FALSE, latest |-> {}, answer |-> {}, has |-> FALSE]

\* Lines of codex exec bear no turn.
TurnOf(line) == IF backend = "exec" THEN {} ELSE {line.turn}

\* What the runner took as a message of the main thread is commentary.  A line
\* of a subagent is none to the runner's reader, and the other reader, which is
\* asked next, takes any message without a phase for an answer.
Phase(line) == IF backend = "exec" /\ line.who = "main" THEN "commentary" ELSE "final_answer"

Text(line) == [run |-> line.run, turn |-> line.turn, who |-> line.who, n |-> line.n]

Started(seen, line) == [Blank EXCEPT !.turn = TurnOf(line)]

StartedKeeps(seen, line) == [seen EXCEPT !.turn = TurnOf(line)]

SaidOne(seen, line) ==
    IF seen.ended /\ (TurnOf(line) = {} \/ seen.done = {} \/ TurnOf(line) = seen.done)
         /\ Phase(line) = "final_answer"
      THEN [seen EXCEPT !.latest = {Text(line)}, !.answer = {Text(line)}, !.has = TRUE]
      ELSE [seen EXCEPT !.latest = {Text(line)}]

Completed(seen, line) ==
    [seen EXCEPT !.done = IF TurnOf(line) = {} THEN seen.turn ELSE TurnOf(line), !.ended = TRUE,
                 !.answer = IF seen.latest = {} THEN @ ELSE seen.latest,
                 !.has = @ \/ seen.latest # {}]

Stopped(seen, line) == [seen EXCEPT !.done = {}, !.ended = FALSE, !.answer = {}, !.has = FALSE]

ReadLine(seen, line) ==
    CASE line.what = "started" -> Started(seen, line)
      [] line.what = "said" -> SaidOne(seen, line)
      [] line.what = "completed" -> Completed(seen, line)
      [] line.what = "stopped" -> Stopped(seen, line)
      [] OTHER -> seen

\* In a rollout file an answer counts at once, and the end of another turn not
\* at all.
ReadRolloutLine(seen, line) ==
    CASE line.what = "started" -> Started(seen, line)
      [] line.what = "said" -> [seen EXCEPT !.answer = {Text(line)}, !.has = TRUE]
      [] line.what = "completed" /\ (seen.turn = {} \/ TurnOf(line) = seen.turn) ->
             [seen EXCEPT !.has = TRUE]
      [] OTHER -> seen

ReadLog ==
    LET Read(seen, line) ==
            IF backend = "legacy" THEN ReadRolloutLine(seen, line) ELSE ReadLine(seen, line)
    IN FoldLeft(Read, Blank, log)

(***************************************************************************)
(* A run                                                                   *)
(***************************************************************************)
\* The session says that the topic runs; the log is still that of the run before.
Mark(g) ==
    /\ service[g].at = "up" /\ run.at = "none" /\ session.run < MaxRuns
    /\ session.status = "running" => StaleRun
    /\ session' = [session EXCEPT !.status = "running", !.owner = g, !.run = @ + 1, !.reply = {}]
    /\ run' = [run EXCEPT !.at = "marked", !.by = g]
    /\ UNCHANGED <<backend, service, log, chain, said, done, recovered, entries>>

\* Every attempt begins with an empty log.
Reset ==
    /\ run.at = "marked"
    /\ run' = [run EXCEPT !.at = "attempt"]
    /\ log' = IF backend = "legacy" THEN log ELSE <<>>
    /\ UNCHANGED <<backend, session, service, chain, said, done, recovered, entries>>

\* The app-server's reader waits until a line is written before it goes on.
Mirror(line) ==
    IF backend = "legacy"
      THEN log' = Append(log, line) /\ UNCHANGED chain
      ELSE /\ backend = "v2" => chain = <<>>
           /\ chain' = Append(chain, line) /\ UNCHANGED log

Write ==
    /\ chain # <<>>
    /\ log' = Append(log, Head(chain)) /\ chain' = Tail(chain)
    /\ UNCHANGED <<backend, session, service, run, said, done, recovered, entries>>

Begin ==
    /\ run.at \in {"attempt", "ended"} /\ run.turn < MaxTurns
    /\ run.at = "ended" => backend # "exec"
    /\ run' = [run EXCEPT !.at = "turn", !.turn = @ + 1, !.n = 0]
    /\ Mirror([Line("started", "main") EXCEPT !.turn = run.turn + 1])
    /\ session' = [session EXCEPT !.thread = TRUE]
    /\ UNCHANGED <<backend, service, said, done, recovered, entries>>

\* Only codex exec mirrors what subagents say.  The app-server may say the
\* answer after the end of its turn.
Say(who) ==
    /\ run.at = "turn" \/ (run.at = "ended" /\ backend = "v2")
    /\ run.n < MaxMessages /\ (who = "sub" => backend = "exec")
    /\ run' = [run EXCEPT !.n = @ + 1]
    /\ LET line == [Line("said", who) EXCEPT !.n = run.n + 1]
       IN Mirror(line) /\ said' = said \cup {Text(line)}
    /\ UNCHANGED <<backend, session, service, done, recovered, entries>>

\* The end of a subagent's turn is one of the lines of codex exec.
SubEnds ==
    /\ run.at = "turn" /\ backend = "exec" /\ \E t \in said : t.who = "sub" /\ t.turn = run.turn
    /\ \A i \in DOMAIN (log \o chain) : (log \o chain)[i] # Line("completed", "sub")
    /\ Mirror(Line("completed", "sub"))
    /\ UNCHANGED <<backend, session, service, run, said, done, recovered, entries>>

End(what) ==
    /\ run.at = "turn"
    /\ run' = [run EXCEPT !.at = "ended"]
    /\ Mirror(Line(what, "main"))
    /\ done' = IF what = "completed" THEN done \cup {run.turn} ELSE done
    /\ UNCHANGED <<backend, session, service, said, recovered, entries>>

\* The attempt ends when its lines are written, or before it has any; another
\* one, or the end of the run, follows.
Again ==
    /\ run.at = "ended" /\ chain = <<>> /\ run.turn < MaxTurns
    /\ run' = [run EXCEPT !.at = "marked"]
    /\ UNCHANGED <<backend, session, service, log, chain, said, done, recovered, entries>>

Finish ==
    /\ run.at \in {"attempt", "ended"} /\ chain = <<>>
    /\ run' = [run EXCEPT !.at = "none", !.by = 0]
    /\ session' = [session EXCEPT !.status = "over", !.owner = 0]
    /\ UNCHANGED <<backend, service, log, chain, said, done, recovered, entries>>

(***************************************************************************)
(* A service leads for the first time                                      *)
(***************************************************************************)
Goes(g, where, found) == service' = [service EXCEPT ![g] = [at |-> where, found |-> found]]

Inspect(g) ==
    /\ service[g].at = "starts" /\ \A h \in Generations : h < g => service[h].at # "starts"
    /\ IF StaleRun
         THEN Goes(g, "inspected",
                   [answer |-> ReadLog.answer, has |-> ReadLog.has, of |-> session.run,
                    thread |-> session.thread \/ \E i \in DOMAIN log : log[i].what = "started"])
         ELSE Goes(g, "up", Outcome)
    /\ UNCHANGED <<backend, session, run, log, chain, said, done, recovered, entries>>

Status(found) == IF found.has THEN "completed" ELSE IF found.thread THEN "interrupted" ELSE "failed"

\* Under the lock of the session it is asked again whether the run is stale.
StillStale == StaleRun

Patch(g) ==
    /\ service[g].at = "inspected"
    /\ LET found == service[g].found IN
       IF StillStale
         THEN /\ session' = [session EXCEPT !.status = Status(found), !.owner = 0,
                               !.reply = IF found.has THEN found.answer ELSE {}]
              /\ recovered' = Append(recovered, [run |-> session.run, of |-> found.of,
                                 status |-> Status(found), answer |-> found.answer, log |-> log])
              /\ Goes(g, "entry", found)
         ELSE Goes(g, "up", Outcome) /\ UNCHANGED <<session, recovered>>
    /\ UNCHANGED <<backend, run, log, chain, said, done, entries>>

\* A run that was merely interrupted has no entry, and a crash may leave the run\n\* without its entry and its final event.
AppendEntry(g) ==
    /\ service[g].at = "entry"
    /\ entries' = IF service[g].found.has \/ ~service[g].found.thread
                    THEN [entries EXCEPT !.log = @ + 1] ELSE entries
    /\ Goes(g, "event", service[g].found)
    /\ UNCHANGED <<backend, session, run, log, chain, said, done, recovered>>

WriteEvent(g) ==
    /\ service[g].at = "event"
    /\ entries' = [entries EXCEPT !.event = @ + 1]
    /\ Goes(g, "up", Outcome)
    /\ UNCHANGED <<backend, session, run, log, chain, said, done, recovered>>

\* Codex ends with the process that started it.
Crash(g) ==
    /\ service[g].at \notin {"starts", "dead"}
    /\ \E h \in Generations : h # g /\ service[h].at # "dead"
    /\ Goes(g, "dead", Outcome)
    /\ IF run.by = g
         THEN run' = [run EXCEPT !.at = "none", !.by = 0] /\ chain' = <<>>
         ELSE UNCHANGED <<run, chain>>
    /\ UNCHANGED <<backend, session, log, said, done, recovered, entries>>

Over ==
    /\ session.run = MaxRuns /\ run.at = "none"
    /\ \A g \in Generations : service[g].at \in {"up", "dead"}
    /\ UNCHANGED vars

Init ==
    /\ backend \in {"exec", "v2", "legacy"}
    /\ session = [status |-> "none", owner |-> 0, run |-> 0, reply |-> {}, thread |-> FALSE]
    /\ service = [g \in Generations |-> [at |-> IF g = 1 THEN "up" ELSE "starts", found |-> Outcome]]
    /\ run = [at |-> "none", by |-> 0, turn |-> 0, n |-> 0]
    /\ log = <<>> /\ chain = <<>>
    /\ said = {} /\ done = {} /\ recovered = <<>>
    /\ entries = [log |-> 0, event |-> 0]

Next ==
    \/ \E g \in Generations : Mark(g)
    \/ Reset
    \/ Write
    \/ Begin
    \/ \E who \in {"main", "sub"} : Say(who)
    \/ SubEnds
    \/ \E what \in {"completed", "stopped"} : End(what)
    \/ Again
    \/ Finish
    \/ \E g \in Generations : Inspect(g)
    \/ \E g \in Generations : Patch(g)
    \/ \E g \in Generations : AppendEntry(g)
    \/ \E g \in Generations : WriteEvent(g)
    \/ \E g \in Generations : Crash(g)
    \/ Over

Spec == Init /\ [][Next]_vars

(***************************************************************************)
(* Properties                                                              *)
(***************************************************************************)
Seen(r, P(_)) == \E i \in DOMAIN r.log : P(r.log[i])

\* The crash fell between the mark of the run and the first line of it.
Untouched(r) == LET Mine(line) == line.run = r.run IN ~Seen(r, Mine)

\* A subagent's lines are in the log.
Mixed(r) == LET Sub(line) == line.who = "sub" IN Seen(r, Sub)

LastBegun(r) ==
    LET begun == {i \in DOMAIN r.log : r.log[i].what = "started"}
    IN r.log[CHOOSE i \in begun : \A j \in begun : j <= i].turn

\* A run that was cut off and is recovered as completed has as its reply what
\* the main thread said in it, in the last turn of which the start is on disk,
\* and for the mirrored logs that turn did complete.  Not so in three states:
\* nothing of the run is in the log yet, which still is that of the run before;
\* a subagent's lines are in it; the run that was inspected is another one.
RecoveredIsSaid ==
    \A i \in DOMAIN recovered :
        LET r == recovered[i] IN
        r.status = "completed" /\ r.of = r.run /\ ~Untouched(r) /\ ~Mixed(r) =>
            /\ r.answer \subseteq said
            /\ \A t \in r.answer : t.who = "main" /\ t.run = r.run /\ t.turn = LastBegun(r)
            /\ backend # "legacy" => LastBegun(r) \in done

\* A run is recovered once, by however many services, and the entries in
\* the exchange log and the final events are no more than the recoveries.
RecoveredOnce ==
    /\ \A i, j \in DOMAIN recovered : recovered[i].run = recovered[j].run => i = j
    /\ entries.log <= Len(recovered) /\ entries.event <= Len(recovered)

\* What is left of a run is what happened in it (run-stale-run-recovery.js).
ResultIsTrue == RecoveredIsSaid /\ RecoveredOnce

TypeOK ==
    /\ backend \in {"exec", "v2", "legacy"}
    /\ session.status \in {"none", "running", "over", "completed", "interrupted", "failed"}
    /\ session.owner \in Generations \cup {0} /\ session.run \in 0..MaxRuns
    /\ session.reply \subseteq Texts
    /\ run.at \in {"none", "marked", "attempt", "turn", "ended"} /\ run.turn \in 0..MaxTurns
    /\ said \subseteq Texts
===============================================================================

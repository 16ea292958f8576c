------------------------------- MODULE Intake -------------------------------
(***************************************************************************)
(* How the messages of one user in one topic become prompts.  Parts of a   *)
(* long message, the photos of an album and whatever arrives in a /wait    *)
(* window are collected by a PromptFragmentAssembler and flushed by its    *)
(* timers, one more assembler collects the parts of a /q; a file without a *)
(* word is kept as a pending attachment for the prompt that follows.  The  *)
(* loop of updates handles one message at a time, but a flush runs beside  *)
(* it and may fail.                                                        *)
(***************************************************************************)
EXTENDS Naturals, Sequences, FiniteSets, SequencesExt

CONSTANTS
    MaxMessages,   \* bound on the messages of the user
    MaxCommands,   \* bound on /wait and on other commands
    MaxFaults,     \* bound on the errors thrown while a prompt is handled
    Kinds          \* the kinds of message that are sent

\* Short and long text, the word that flushes a window, a file without and with a
\* caption, an item of an album without and with one, /q with a short text, with a
\* long one and with a file only.
AllKinds == {"short", "long", "word", "file", "caption", "album", "titled", "q", "qlong",
             "qfile"}

VARIABLES
    says,       \* the kinds of the messages heard so far
    entries,    \* entries of the assemblers, by buffer key
    jobs,       \* prompts on their way: one per flight, and the loop's own
    strays,     \* keys that a timer of an entry no longer kept will flush
    waits,      \* the flush that the loop awaits, and for which message
    again,      \* the message whose update is handled again after an error
    pending,    \* pending_prompt_attachments and pending_queue_attachments
    taken,      \* prompts accepted: [parts, files, queued]
    gone,       \* history: messages by what became of them
    down,       \* the stop: "no", "asked", "failed", "queue", "yes"
    commands, faults    \* history: how many there were

vars == <<says, entries, jobs, strays, waits, again, pending, taken, gone, down,
          commands, faults>>

Keys == {"topic", "album", "local", "global", "queue"}
Messages == 1 .. MaxMessages
HasText(m) == says[m] \notin {"file", "album", "qfile"}
HasFile(m) == says[m] \in {"file", "caption", "album", "titled", "qfile"}
IsQ(m) == says'[m] \in {"q", "qlong", "qfile"}

NoEntry == [mode |-> "none", parts |-> <<>>, timer |-> FALSE]
NoJob == [pc |-> "none", mode |-> "none", parts |-> <<>>, files |-> <<>>,
          queued |-> FALSE, kept |-> FALSE]
NoWait == [key |-> "main", m |-> 0]
Manual(e) == e.mode \in {"manual-local", "manual-global"}
Busy(o) == jobs[o].pc # "none"

Lose(how, parts) == [gone EXCEPT ![how] = @ \cup ToSet(parts)]

-----------------------------------------------------------------------------
(* PromptFragmentAssembler *)

\* getActiveLocalManualWindowKey, ...Global..., getActiveTopicBufferKey
Active(k) == IF k \in {"local", "global"} THEN Manual(entries[k]) \/ Busy(k)
             ELSE entries[k].mode # "none" \/ Busy(k)

OwnKey(m) == IF says'[m] \in {"album", "titled"} THEN "album" ELSE "topic"

Preferred(m) == CASE Active("local") -> "local"
                  [] Active("global") -> "global"
                  [] OTHER -> OwnKey(m)

Enqueued(k, m) ==
    [entries EXCEPT ![k] =
        [@ EXCEPT !.mode = IF @ # "none" THEN @
                           ELSE IF k \in {"local", "global"} THEN "manual" ELSE "auto",
                  !.parts = Append(@, m),
                  !.timer = TRUE]]

\* flushKey on entries es: a key in flight keeps what came since.
Flush(ks, es) ==
    LET starts == {k \in ks : ~Busy(k) /\ es[k].parts # <<>>}
        emptied == {k \in ks : ~Busy(k) /\ es[k].parts = <<>>}
    IN  /\ jobs' = [o \in DOMAIN jobs |->
              IF o \in starts
              THEN [pc |-> "load", mode |-> es[o].mode, parts |-> es[o].parts,
                    files |-> <<>>, queued |-> o = "queue", kept |-> TRUE]
              ELSE jobs[o]]
        /\ entries' = [k \in Keys |->
              IF k \notin starts \cup emptied THEN es[k]
              ELSE IF es[k].mode = "manual-global"
              THEN [NoEntry EXCEPT !.mode = "manual-global"]
              ELSE NoEntry]

\* cancelKey; what is in flight goes on.
Cancel(ks, preserve) ==
    LET stay == {k \in ks : preserve /\ Manual(entries[k])}
    IN  /\ entries' = [k \in Keys |->
              IF k \in stay THEN [NoEntry EXCEPT !.mode = entries[k].mode]
              ELSE IF k \in ks THEN NoEntry ELSE entries[k]]
        /\ gone' = [gone EXCEPT !.cancelled =
                       @ \cup UNION {ToSet(entries[k].parts) : k \in ks}]
        /\ jobs' = [o \in DOMAIN jobs |->
              IF o \in (ks \ stay) \cap {"global"}
              THEN [jobs[o] EXCEPT !.kept = FALSE] ELSE jobs[o]]

TimerFires(k) ==
    /\ down # "yes" /\ entries[k].timer
    /\ Flush({k}, [entries EXCEPT ![k].timer = FALSE])
    /\ UNCHANGED <<says, strays, waits, again, pending, taken, gone, down, commands, faults>>

StrayFires(k) ==
    /\ down # "yes" /\ k \in strays
    /\ strays' = strays \ {k}
    /\ Flush({k}, entries)
    /\ UNCHANGED <<says, waits, again, pending, taken, gone, down, commands, faults>>

-----------------------------------------------------------------------------
(* The loop of updates *)

Idle == down # "yes" /\ ~Busy("main") /\ waits = NoWait

StartMain(m) ==
    jobs' = [jobs EXCEPT !.main = [NoJob EXCEPT !.pc = "load", !.parts = <<m>>,
                                                !.queued = IsQ(m)]]

Await(k, m) == Flush({k}, entries) /\ waits' = [key |-> k, m |-> m]

\* preparePromptRoutingContext, then handleTopicPrompt or handleQueueCommand.
\* A flush word in a window with parts flushes it; a message that follows parts
\* of a /q joins them; /q flushes them first and, like any other command, cancels
\* what the topic has buffered for a prompt.
Route(m) ==
    LET kind == says'[m]
        k == Preferred(m)
        queueing == entries["queue"].parts # <<>> \/ Busy("queue")
    IN  /\ again' = 0
        /\ CASE kind = "word" /\ Manual(entries[k]) /\ entries[k].parts # <<>> ->
                  Await(k, m) /\ UNCHANGED gone
             [] queueing /\ IsQ(m) ->
                  Await("queue", m) /\ UNCHANGED gone
             [] queueing /\ ~IsQ(m) ->
                  /\ entries' = Enqueued("queue", m)
                  /\ UNCHANGED <<jobs, waits, gone>>
             [] ~queueing /\ IsQ(m) ->
                  LET held == {k} \cap {x \in Keys : entries[x].mode # "none"}
                      stay == {x \in held : Manual(entries[x])}
                      cleared == [x \in Keys |->
                                    IF x \in stay THEN [NoEntry EXCEPT !.mode = entries[x].mode]
                                    ELSE IF x \in held THEN NoEntry ELSE entries[x]]
                  IN  /\ gone' = [gone EXCEPT !.cancelled =
                                    @ \cup UNION {ToSet(entries[x].parts) : x \in held}]
                      /\ IF kind = "qlong"
                         THEN /\ entries' = [cleared EXCEPT !["queue"] =
                                    [mode |-> "auto", parts |-> <<m>>, timer |-> TRUE]]
                              /\ UNCHANGED jobs
                         ELSE entries' = cleared /\ StartMain(m)
                      /\ UNCHANGED waits
             [] OTHER ->
                  IF Active(k) \/ kind \in {"long", "album", "titled"}
                  THEN entries' = Enqueued(k, m) /\ UNCHANGED <<jobs, waits, gone>>
                  ELSE StartMain(m) /\ UNCHANGED <<entries, waits, gone>>

Hear ==
    /\ Idle /\ again = 0 /\ down = "no" /\ Len(says) < MaxMessages
    /\ \E kind \in Kinds : says' = Append(says, kind)
    /\ Route(Len(says) + 1)
    /\ UNCHANGED <<strays, pending, taken, down, commands, faults>>

HearAgain ==
    /\ Idle /\ again # 0
    /\ says' = says
    /\ Route(again)
    /\ UNCHANGED <<strays, pending, taken, down, commands, faults>>

\* The flush the loop awaited has ended: the word has done its work, a /q goes on,
\* but one without a text is over, whatever file it had.
Awaited ==
    /\ waits.key # "main" /\ ~Busy(waits.key)
    /\ waits' = NoWait
    /\ IF says[waits.m] = "word"
       THEN gone' = Lose("answered", <<waits.m>>) /\ again' = 0
       ELSE IF says[waits.m] = "qfile"
       THEN gone' = Lose("cleared", <<waits.m>>) /\ again' = 0
       ELSE again' = waits.m /\ UNCHANGED gone
    /\ UNCHANGED <<says, entries, jobs, strays, pending, taken, down, commands, faults>>

Command == Idle /\ again = 0 /\ commands < MaxCommands /\ commands' = commands + 1

\* openWindow, for a topic or for all; parts of a /q are cancelled by the command.
WaitOn(k) ==
    /\ Command /\ down = "no" /\ k \in {"local", "global"}
    /\ entries' = [entries EXCEPT
          ![k] = [@ EXCEPT !.mode = IF k = "local" THEN "manual-local" ELSE "manual-global",
                           !.timer = entries[k].parts # <<>>],
          !["queue"] = NoEntry]
    /\ gone' = [gone EXCEPT !.cancelled = @ \cup ToSet(entries["queue"].parts)]
    /\ UNCHANGED <<says, jobs, strays, waits, again, pending, taken, down, faults>>

WaitOff(k) ==
    /\ Command /\ down = "no" /\ k \in {"local", "global"}
    /\ Cancel({k, "queue"}, FALSE)
    /\ UNCHANGED <<says, strays, waits, again, pending, taken, down, faults>>

\* Any command but /wait, /menu and /q.
OtherCommand ==
    /\ Command /\ down = "no"
    /\ LET k == CASE Active("local") -> "local"
                  [] Active("global") -> "global"
                  [] OTHER -> "topic"
       IN  Cancel({k, "queue"}, TRUE)
    /\ UNCHANGED <<says, strays, waits, again, pending, taken, down, faults>>

-----------------------------------------------------------------------------
(* startTopicPromptRun and queueTopicPrompt, for the loop or for a flight *)

Scope(o) == IF jobs[o].queued THEN "queue" ELSE "prompt"
Texts(o) == SelectSeq(jobs[o].parts, HasText)
Fresh(o) == SelectSeq(jobs[o].parts, HasFile)

Step(o, pc) == o \in DOMAIN jobs /\ jobs[o].pc = pc
Over(o) == jobs' = [jobs EXCEPT ![o] = NoJob]

\* A run of the emergency chat is on: the user is told to wait.
Guarded(o) ==
    /\ Step(o, "load")
    /\ gone' = Lose("answered", jobs[o].parts)
    /\ Over(o)
    /\ UNCHANGED <<says, entries, strays, waits, again, pending, taken, down, commands, faults>>

\* Parts without a word: their files are kept for the prompt, or the /q, to come.
KeepFiles(o) ==
    /\ Step(o, "load") /\ Texts(o) = <<>> /\ ~jobs[o].queued
    /\ pending' = [pending EXCEPT !.prompt = @ \o Fresh(o)]
    /\ jobs' = [jobs EXCEPT ![o].pc = "reply"]
    /\ UNCHANGED <<says, entries, strays, waits, again, taken, gone, down, commands, faults>>

KeepQueueFiles(o) ==
    /\ Step(o, "load") /\ Texts(o) = <<>> /\ jobs[o].queued
    /\ pending' = [pending EXCEPT !.queue = @ \o Fresh(o)]
    /\ jobs' = [jobs EXCEPT ![o].pc = "reply"]
    /\ UNCHANGED <<says, entries, strays, waits, again, taken, gone, down, commands, faults>>

\* loadPendingPromptAttachments, which clears them when they have expired, and
\* collectIncomingAttachments.
LoadFiles(o) ==
    /\ Step(o, "load") /\ Texts(o) # <<>>
    /\ \E lapsed \in {FALSE} \cup {pending[Scope(o)] # <<>>} :
          /\ pending' = IF lapsed THEN [pending EXCEPT ![Scope(o)] = <<>>] ELSE pending
          /\ gone' = IF lapsed THEN Lose("lapsed", pending[Scope(o)]) ELSE gone
          /\ jobs' = [jobs EXCEPT ![o].pc = "start",
                         ![o].files = IF lapsed THEN <<>> ELSE pending[Scope(o)]]
    /\ UNCHANGED <<says, entries, strays, waits, again, taken, down, commands, faults>>

Take(o) ==
    /\ Step(o, "start")
    /\ taken' = Append(taken, [parts |-> jobs[o].parts,
                               files |-> jobs[o].files \o Fresh(o),
                               queued |-> jobs[o].queued])
    /\ jobs' = [jobs EXCEPT ![o].pc =
                   IF jobs[o].files \o Fresh(o) = <<>> THEN "reply" ELSE "clear"]
    /\ UNCHANGED <<says, entries, strays, waits, again, pending, gone, down, commands, faults>>

\* startPromptRun or a live run takes it, or, while the topic compacts or the
\* process stops, the durable queue.
Accept(o) == Take(o) /\ ~jobs[o].queued

\* enqueuePromptQueue, and a drain when it is the first there.
Enqueue(o) == Take(o) /\ jobs[o].queued

\* No room, no host, or busy with a run that takes no steer: only the files
\* that came with this prompt are added to those that wait.
Refuse(o) ==
    /\ Step(o, "start") /\ ~jobs[o].queued
    /\ pending' = [pending EXCEPT !.prompt = @ \o Fresh(o)]
    /\ gone' = Lose("answered", Texts(o))
    /\ jobs' = [jobs EXCEPT ![o].pc = "reply"]
    /\ UNCHANGED <<says, entries, strays, waits, again, taken, down, commands, faults>>

\* clearPendingPromptAttachments: all that wait now, not only those it took.
ClearFiles(o) ==
    /\ Step(o, "clear")
    /\ pending' = [pending EXCEPT ![Scope(o)] = <<>>]
    /\ gone' = [gone EXCEPT !.cleared = @ \cup (ToSet(pending[Scope(o)])
                                               \ ToSet(jobs[o].files))]
    /\ jobs' = [jobs EXCEPT ![o].pc = "reply"]
    /\ UNCHANGED <<says, entries, strays, waits, again, taken, down, commands, faults>>

Reply(o) ==
    /\ Step(o, "reply")
    /\ Over(o)
    /\ UNCHANGED <<says, entries, strays, waits, again, pending, taken, gone, down,
                   commands, faults>>

\* What was done before the error stays done.
Throw(o) ==
    /\ o \in DOMAIN jobs /\ Busy(o) /\ faults < MaxFaults
    /\ faults' = faults + 1
    /\ UNCHANGED <<says, pending, taken, commands>>

\* Parts lost by an error, and parts whose prompt had been taken before it.
Redone(o, lost) ==
    [gone EXCEPT !.lost = @ \cup lost,
                 !.redone = @ \cup IF \E i \in DOMAIN taken : taken[i].parts = jobs[o].parts
                                     THEN ToSet(jobs[o].parts) ELSE {}]

\* Mutant: what failed is put behind what came since.
FlightFailsBehind(k) ==
    /\ k # "main" /\ Throw(k)
    /\ LET job == jobs[k]
           back == IF job.mode = "manual-global" THEN job.kept
                   ELSE entries[k].mode = "none"
       IN  /\ entries' = IF back
                         THEN [entries EXCEPT ![k] =
                                 [mode |-> job.mode, parts |-> @.parts \o job.parts,
                                  timer |-> TRUE]]
                         ELSE entries
           /\ strays' = IF back THEN strays ELSE strays \cup {k}
           /\ gone' = Redone(k, IF back THEN {} ELSE ToSet(job.parts))
    /\ Over(k)
    /\ waits' = IF waits.key = k THEN NoWait ELSE waits
    /\ again' = IF waits.key = k THEN waits.m ELSE again
    /\ down' = IF down = "asked" /\ k # "queue" THEN "failed" ELSE down

\* Mutant: the error is only logged.
FlightForgotten(k) ==
    /\ k # "main" /\ Throw(k)
    /\ Over(k)
    /\ waits' = IF waits.key = k THEN NoWait ELSE waits
    /\ again' = IF waits.key = k THEN waits.m ELSE again
    /\ down' = IF down = "asked" /\ k # "queue" THEN "failed" ELSE down
    /\ UNCHANGED <<entries, strays, gone>>

\* The catch of flushKey: the parts go back, unless the key has been taken by a
\* new entry or the window of all topics was closed; the entry that nobody
\* keeps still has its timer set.
FlightFails(k) ==
    /\ k # "main" /\ Throw(k)
    /\ LET job == jobs[k]
           back == IF job.mode = "manual-global" THEN job.kept
                   ELSE entries[k].mode = "none"
       IN  /\ entries' = IF back
                         THEN [entries EXCEPT ![k] =
                                 [mode |-> job.mode, parts |-> job.parts \o @.parts,
                                  timer |-> TRUE]]
                         ELSE entries
           /\ strays' = IF back THEN strays ELSE strays \cup {k}
           /\ gone' = Redone(k, IF back THEN {} ELSE ToSet(job.parts))
    /\ Over(k)
    /\ waits' = IF waits.key = k THEN NoWait ELSE waits
    /\ again' = IF waits.key = k THEN waits.m ELSE again
    /\ down' = IF down = "asked" /\ k # "queue" THEN "failed" ELSE down

\* The update was not confirmed and comes once more.
LoopFails ==
    /\ Throw("main")
    /\ Over("main")
    /\ again' = jobs["main"].parts[1]
    /\ gone' = Redone("main", {})
    /\ UNCHANGED <<entries, strays, waits, down>>

-----------------------------------------------------------------------------
(* performShutdown: flushAll of both assemblers, then the end *)

Stop ==
    /\ down = "no"
    /\ down' = "asked"
    /\ Flush(Keys \ {"queue"}, entries)
    /\ UNCHANGED <<says, strays, waits, again, pending, taken, gone, commands, faults>>

StopQueue ==
    /\ down = "failed" \/ (down = "asked" /\ \A k \in Keys \ {"queue"} : ~Busy(k))
    /\ down' = "queue"
    /\ Flush({"queue"}, entries)
    /\ UNCHANGED <<says, strays, waits, again, pending, taken, gone, commands, faults>>

Exit ==
    /\ down = "queue" /\ waits = NoWait
    /\ \A o \in DOMAIN jobs : ~Busy(o)
    /\ down' = "yes"
    /\ gone' = [gone EXCEPT !.left = @ \cup UNION {ToSet(entries[k].parts) : k \in Keys}]
    /\ entries' = [k \in Keys |-> NoEntry]
    /\ UNCHANGED <<says, jobs, strays, waits, again, pending, taken, commands, faults>>

Quiet == down = "yes" /\ UNCHANGED vars

-----------------------------------------------------------------------------

Init ==
    /\ says = <<>> /\ taken = <<>> /\ strays = {} /\ again = 0
    /\ entries = [k \in Keys |-> NoEntry]
    /\ jobs = [o \in Keys \cup {"main"} |-> NoJob]
    /\ waits = NoWait
    /\ pending = [prompt |-> <<>>, queue |-> <<>>]
    /\ gone = [answered |-> {}, cancelled |-> {}, lapsed |-> {}, lost |-> {}, left |-> {},
                cleared |-> {}, redone |-> {}]
    /\ down = "no" /\ commands = 0 /\ faults = 0

Next ==
    \/ Hear \/ HearAgain \/ Awaited \/ OtherCommand
    \/ \E k \in Keys : WaitOn(k) \/ WaitOff(k) \/ TimerFires(k) \/ StrayFires(k)
                       \/ FlightFails(k)
    \/ \E o \in Keys \cup {"main"} :
          \/ Guarded(o) \/ KeepFiles(o) \/ KeepQueueFiles(o) \/ LoadFiles(o)
          \/ Accept(o) \/ Enqueue(o) \/ Refuse(o) \/ ClearFiles(o) \/ Reply(o)
    \/ LoopFails \/ Stop \/ StopQueue \/ Exit \/ Quiet

Spec == Init /\ [][Next]_vars

-----------------------------------------------------------------------------
(* Properties *)

TypeOK ==
    /\ says \in Seq(Kinds) /\ Len(says) <= MaxMessages
    /\ \A k \in Keys : /\ entries[k].mode \in {"none", "auto", "manual"} \cup
                                              {"manual-local", "manual-global"}
                        /\ entries[k].parts \in Seq(Messages)
    /\ strays \subseteq Keys /\ again \in 0 .. MaxMessages
    /\ waits.key \in Keys \cup {"main"}
    /\ \A s \in {"prompt", "queue"} : pending[s] \in Seq(Messages)

\* Where a message is that has been heard.
Buffered == UNION {ToSet(entries[k].parts) : k \in Keys}
OnTheWay == UNION {ToSet(jobs[o].parts) : o \in DOMAIN jobs} \cup {again, waits.m}
Accepted == UNION {ToSet(taken[i].parts) \cup ToSet(taken[i].files) : i \in DOMAIN taken}
Waiting == ToSet(pending.prompt) \cup ToSet(pending.queue)

\* What the user wrote is never just gone: it is in a buffer, on its way, pending,
\* part of a prompt that was taken, or was answered, cancelled by a command or out
\* of date.  Excepted is what the code loses: the parts of a flight that failed
\* when its key was in use again, what is buffered when the process ends, a file
\* made pending while a prompt with files was being taken, and the file of a /q
\* that only flushes.
NothingLost ==
    \A m \in DOMAIN says :
        m \in Buffered \cup OnTheWay \cup Accepted \cup Waiting
             \cup UNION {gone[h] : h \in DOMAIN gone \ {"redone"}}

\* A prompt has its parts in the order they were sent, however they came back to
\* the buffer, and no part goes with two prompts, though a flight, the loop and the
\* timers work side by side; unless the error came after its prompt was taken.
TakenOnceInOrder ==
    \A i, j \in DOMAIN taken :
        \A a \in DOMAIN taken[i].parts, b \in DOMAIN taken[j].parts :
            LET x == taken[i].parts[a]
                y == taken[j].parts[b]
            IN  /\ i = j /\ a < b => x < y
                /\ i # j => x # y \/ x \in gone.redone

\* test/prompt-fragment-assembler.test.js: "PromptFragmentAssembler restores
\* buffered fragments after a flush failure".
FailedIsRestored == gone.lost = {}
=============================================================================

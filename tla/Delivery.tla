------------------------------ MODULE Delivery ------------------------------
(***************************************************************************)
(* What one run shows in its topic: the progress message that is edited    *)
(* while the run works, the documents and the chunks of its reply, and the *)
(* final event that records them.  Two things go on at once in a process:  *)
(* the chain of operations of TelegramProgressMessage, fed by the timers   *)
(* of the run, and the end of the run, which waits for the chain only in   *)
(* finalize and dismiss.  Telegram may carry a call out and lose its       *)
(* answer, fail it, refuse it, or have closed the topic.                   *)
(***************************************************************************)
EXTENDS Naturals, Sequences, FiniteSets, SequencesExt

CONSTANTS
    MaxSteps,     \* bound on the progress texts of a run
    MaxChunks,    \* bound on the chunks of a reply
    MaxFaults,    \* bound on the calls that do not simply succeed
    Attempts,     \* FINAL_REPLY_MAX_ATTEMPTS
    MaxWaits,     \* DEFAULT_RETRY_AFTER_MAX_ATTEMPTS: answers 429 a call sits out
    MaxQueued     \* bound on the operations queued when an update comes

ASSUME DeliveryAssumption ==
    /\ {MaxSteps, MaxChunks, Attempts} \subseteq Nat \ {0}
    /\ {MaxFaults, MaxWaits, MaxQueued} \subseteq Nat

VARIABLES
    posts,     \* messages of the topic, by message id: [kind, text, up]
    progress,  \* the TelegramProgressMessage
    chain,     \* its operationChain: "flush", "finalize", "dismiss"
    call,      \* the Bot API call of the operation at the head
    run,       \* where attachRunLifecycle is
    send,      \* the Bot API call of the run itself
    disk,      \* meta.json and agent-final-event.json
    world,     \* process, topic, later owner, faults left
    steps,     \* the latest progress text
    orphans    \* history: posts nobody knows of or could delete

vars == <<posts, progress, chain, call, run, send, disk, world, steps, orphans>>

Attempted == 1 .. Attempts
Null == 0
Stopping == MaxSteps + 1      \* the progress text of an interrupted run
Reply == MaxSteps + 2     \* the reply, as a progress text
Texts == 1 .. Reply

Idle == [method |-> "none", text |-> Null, post |-> Null, over |-> FALSE, waits |-> 0]
Ask(method, text, post) ==
    [Idle EXCEPT !.method = method, !.text = text, !.post = post]
Post(kind, text) == [kind |-> kind, text |-> text, up |-> TRUE]
Without(id) == [posts EXCEPT ![id].up = FALSE]

-----------------------------------------------------------------------------
(* Telegram and the Bot API client *)

\* What a call may come to.  "lost" is carried out without the client hearing
\* of it; an edit to the same text counts as carried out ("not modified").
Outcomes(c) ==
    IF ~world.open /\ c.method # "delete" THEN {"gone"}
    ELSE {"ok"} \cup
         IF world.faults = 0 THEN {}
         ELSE {"lost", "down", "refused"}
              \cup (IF c.method = "edit" THEN {"replace"} ELSE {})
              \cup (IF c.method = "chunk" /\ run.target THEN {"noreply"} ELSE {})

Spent(out) == IF out \in {"ok", "gone"} THEN world
              ELSE [world EXCEPT !.faults = @ - 1]

Done(out) == out \in {"ok", "lost"}
Transient(out) == out \in {"lost", "down"}

\* executeWithRetry: the answer 429 is sat out, the call repeated, so often.
TooMany(c) == /\ c.method # "none"
              /\ c.waits < MaxWaits
              /\ world.faults > 0
              /\ world' = [world EXCEPT !.faults = @ - 1]

WaitForCall == /\ TooMany(call)
               /\ call' = [call EXCEPT !.waits = @ + 1]
               /\ UNCHANGED <<posts, progress, chain, run, send, disk, steps, orphans>>

WaitForSend == /\ TooMany(send)
               /\ send' = [send EXCEPT !.waits = @ + 1]
               /\ UNCHANGED <<posts, progress, chain, call, run, disk, steps, orphans>>

-----------------------------------------------------------------------------
(* The progress message *)

\* Where the run goes on when its operation on the progress message is over.
After(kind) ==
    CASE kind = "finalize" /\ run.pc = "finalize" -> [run EXCEPT !.pc = "reply"]
      [] kind = "finalize" /\ run.pc = "fallback" ->
            [run EXCEPT !.pc = "event", !.viaProgress = TRUE, !.delivered = TRUE,
                        !.ids = <<progress'.id>>]
      [] kind = "dismiss" -> [run EXCEPT !.pc = "over"]
      [] OTHER -> run

Pop == /\ chain' = Tail(chain)
       /\ call' = Idle
       /\ run' = After(Head(chain))

\* Mutants: a failed flush of a closed message keeps its own text; is not retried.
KeepOldText(p, text, retry) ==
    [p EXCEPT !.pending = text, !.timer = @ \/ (retry /\ text # Null)]
KeepUnscheduled(p, text, retry) ==
    [p EXCEPT !.pending = IF p.closed THEN p.terminal ELSE text]

KeepPending(p, text, retry) ==
    LET next == IF p.closed THEN p.terminal ELSE text
    IN  [p EXCEPT !.pending = next, !.timer = @ \/ (retry /\ next # Null)]

QueueUpdate(p, text) ==
    IF p.closed \/ p.id = Null \/ text = p.current THEN p
    ELSE [p EXCEPT !.pending = text, !.timer = TRUE]

\* The timer of queueUpdate or scheduleRetry.
TimerFires ==
    /\ progress.timer
    /\ progress' = [progress EXCEPT !.timer = FALSE]
    /\ chain' = Append(chain, "flush")
    /\ UNCHANGED <<posts, call, run, send, disk, world, steps, orphans>>

\* flushPending up to its call; finalize sets pendingText and does the same.
BeginFlush ==
    /\ chain # <<>> /\ Head(chain) # "dismiss" /\ call = Idle
    /\ LET text == IF progress.closed THEN progress.terminal ELSE progress.pending
           ends == text \in {Null, progress.current} \/ progress.id = Null
       IN  /\ progress' = [progress EXCEPT !.pending =
                             IF progress.id = Null THEN text ELSE Null]
           /\ IF ends THEN Pop
              ELSE /\ call' = Ask(IF progress.append THEN "send" ELSE "edit",
                                  text, progress.id)
                   /\ UNCHANGED <<chain, run>>
    /\ UNCHANGED <<posts, send, disk, world, steps, orphans>>

Edited ==
    /\ call.method = "edit"
    /\ \E out \in Outcomes(call) :
        /\ world' = Spent(out)
        /\ posts' = IF Done(out) THEN [posts EXCEPT ![call.post].text = call.text]
                    ELSE posts
        /\ disk' = [disk EXCEPT !.parked = @ \/ out = "gone"]
        /\ \/ /\ out = "ok"
              /\ progress' = [progress EXCEPT !.current = call.text]
              /\ Pop
           \/ /\ out \in {"lost", "down", "refused", "gone"}
              /\ progress' = KeepPending(progress, call.text, out # "gone")
              /\ Pop
           \/ /\ out = "replace"
              /\ progress' = [progress EXCEPT !.append = TRUE, !.pending = call.text]
              /\ call' = [Ask("send", call.text, call.post) EXCEPT !.over = TRUE]
              /\ UNCHANGED <<chain, run>>
    /\ UNCHANGED <<send, steps, orphans>>

\* sendAppendOnly of a flush: a new message, then the old one is deleted.
Appended ==
    /\ call.method = "send"
    /\ \E out \in Outcomes(call) :
        /\ world' = Spent(out)
        /\ posts' = IF Done(out) THEN Append(posts, Post("progress", call.text))
                    ELSE posts
        /\ orphans' = IF out = "lost" THEN orphans \cup {Len(posts) + 1} ELSE orphans
        /\ disk' = [disk EXCEPT !.parked = @ \/ out = "gone"]
        /\ IF out = "ok"
           THEN /\ progress' = [progress EXCEPT !.id = Len(posts) + 1,
                                                !.current = call.text]
                /\ call' = [call EXCEPT !.method = "delete", !.waits = 0]
                /\ UNCHANGED <<chain, run>>
           ELSE /\ progress' = KeepPending(progress, call.text, TRUE)
                /\ Pop
    /\ UNCHANGED <<send, steps>>

\* Whoever replaced an uneditable message forgets the text queued meanwhile.
Deleted ==
    /\ call.method = "delete" /\ Head(chain) # "dismiss"
    /\ \E out \in Outcomes(call) :
        /\ world' = Spent(out)
        /\ posts' = IF Done(out) THEN Without(call.post) ELSE posts
        /\ orphans' = IF Done(out) THEN orphans ELSE orphans \cup {call.post}
        /\ progress' = IF call.over THEN [progress EXCEPT !.pending = Null]
                       ELSE progress
        /\ Pop
    /\ UNCHANGED <<send, disk, steps>>

BeginDismiss ==
    /\ chain # <<>> /\ Head(chain) = "dismiss" /\ call = Idle
    /\ progress' = [progress EXCEPT !.pending = Null]
    /\ IF progress.id = Null THEN Pop
       ELSE /\ call' = Ask("delete", Null, progress.id)
            /\ UNCHANGED <<chain, run>>
    /\ UNCHANGED <<posts, send, disk, world, steps, orphans>>

Dismissed ==
    /\ call.method = "delete" /\ Head(chain) = "dismiss"
    /\ \E out \in Outcomes(call) :
        /\ world' = Spent(out)
        /\ posts' = IF Done(out) THEN Without(call.post) ELSE posts
        /\ orphans' = IF Done(out) THEN orphans ELSE orphans \cup {call.post}
        /\ progress' = IF out = "ok"
                       THEN [progress EXCEPT !.id = Null, !.current = Null]
                       ELSE progress
        /\ Pop
    /\ UNCHANGED <<send, disk, steps>>

\* finalize and dismiss as the run calls them: no update after them.
Finalize(text) ==
    /\ progress' = [progress EXCEPT !.closed = TRUE, !.terminal = text, !.timer = FALSE]
    /\ chain' = Append(chain, "finalize")

Dismiss ==
    /\ progress' = [progress EXCEPT !.closed = TRUE, !.terminal = Null, !.timer = FALSE]
    /\ chain' = Append(chain, "dismiss")

-----------------------------------------------------------------------------
(* The run while it works *)

Start ==
    /\ run.pc = "start" /\ send = Idle
    /\ send' = Ask("send", 1, Null)
    /\ UNCHANGED <<posts, progress, chain, call, run, disk, world, steps, orphans>>

\* sendInitial.  A transient failure leaves the run without a progress message,
\* any other one without a start.
Started ==
    /\ run.pc = "start" /\ send # Idle
    /\ send' = Idle
    /\ \E out \in Outcomes(send) :
        /\ world' = Spent(out)
        /\ posts' = IF Done(out) THEN Append(posts, Post("progress", 1)) ELSE posts
        /\ orphans' = IF out = "lost" THEN orphans \cup {1} ELSE orphans
        /\ progress' = IF out = "ok" THEN [progress EXCEPT !.id = 1, !.current = 1]
                       ELSE progress
        /\ IF out = "ok" \/ Transient(out)
           THEN /\ run' = [run EXCEPT !.pc = "work"]
                /\ disk' = [disk EXCEPT !.status = "running"]
           ELSE /\ run' = [run EXCEPT !.pc = "over"]
                /\ disk' = [disk EXCEPT !.parked = @ \/ out = "gone"]
    /\ UNCHANGED <<chain, call, steps>>

\* The rest of startPromptRun fails, or the pool is shutting down by now.
StartThrows ==
    /\ run.pc = "work" /\ steps = 1 /\ chain = <<>>
    /\ world.faults > 0
    /\ world' = [world EXCEPT !.faults = @ - 1]
    /\ run' = [run EXCEPT !.pc = "dismiss"]
    /\ Dismiss
    /\ UNCHANGED <<posts, call, send, disk, steps, orphans>>

\* An event of the attempt, or the typing interval with the text there is.
Update ==
    /\ run.pc = "work" /\ Len(chain) < MaxQueued
    /\ steps' \in {s \in {steps, steps + 1} : s <= MaxSteps}
    /\ progress' = QueueUpdate(progress, steps')
    /\ UNCHANGED <<posts, chain, call, run, send, disk, world, orphans>>

\* maybeSuppressSupersededRunCompletion, asked once before anything is shown.
Suppressed == /\ world.superseded
              /\ Dismiss
              /\ run' = [run EXCEPT !.pc = "dismiss"]

\* The attempts are over.  A completed run has a reply, perhaps with a
\* document: "bad" (no such file, outside the roots, too large), "local", "remote".
Finish(status, document, chunks) ==
    /\ run.pc = "work"
    /\ status # "completed" => document = "none" /\ chunks = 1
    /\ \/ Suppressed
       \/ /\ ~world.superseded
          /\ run' = [run EXCEPT !.pc = IF document = "none" THEN "patch" ELSE "docs",
                                !.status = status, !.document = document,
                                !.total = chunks]
          /\ UNCHANGED <<progress, chain>>
    /\ UNCHANGED <<posts, call, send, disk, world, steps, orphans>>

\* An error outside what the run handles: a failure text replaces the reply.
Throw ==
    \/ /\ Suppressed
    \/ /\ ~world.superseded
       /\ run' = [run EXCEPT !.pc = "patch", !.status = "failed",
                             !.failing = TRUE, !.total = 1]
       /\ UNCHANGED <<progress, chain>>

WorkThrows ==
    /\ run.pc = "work"
    /\ world.faults > 0
    /\ world' = [world EXCEPT !.faults = @ - 1]
    /\ Throw
    /\ UNCHANGED <<posts, call, send, disk, steps, orphans>>

-----------------------------------------------------------------------------
(* Documents: deliverRunDocuments *)

RefuseDocument ==
    /\ run.pc = "docs" /\ run.document = "bad"
    /\ run' = [run EXCEPT !.pc = "patch", !.document = "none"]
    /\ UNCHANGED <<posts, progress, chain, call, send, disk, world, steps, orphans>>

\* stageRemoteDocumentForDelivery: rsync into a directory of its own.
StageDocument ==
    /\ run.pc = "docs" /\ run.document = "remote" /\ ~disk.staged
    /\ \/ /\ disk' = [disk EXCEPT !.staged = TRUE]
          /\ run' = [run EXCEPT !.document = "local"]
          /\ UNCHANGED world
       \/ /\ world.faults > 0
          /\ world' = [world EXCEPT !.faults = @ - 1]
          /\ run' = [run EXCEPT !.pc = "patch", !.document = "none"]
          /\ UNCHANGED disk
    /\ UNCHANGED <<posts, progress, chain, call, send, steps, orphans>>

SendDocument ==
    /\ run.pc = "docs" /\ run.document = "local" /\ send = Idle
    /\ send' = Ask("document", Null, Null)
    /\ UNCHANGED <<posts, progress, chain, call, run, disk, world, steps, orphans>>

DocumentSent ==
    /\ run.pc = "docs" /\ send # Idle
    /\ send' = Idle
    /\ \E out \in Outcomes(send) :
        /\ world' = Spent(out)
        /\ posts' = IF Done(out) THEN Append(posts, Post("document", Null)) ELSE posts
        /\ disk' = [disk EXCEPT !.parked = @ \/ out = "gone", !.staged = FALSE]
        /\ run' = [run EXCEPT !.pc = "patch", !.document = "none",
                              !.mute = out = "gone"]
    /\ UNCHANGED <<progress, chain, call, steps, orphans>>

-----------------------------------------------------------------------------
(* The end of the run: attachRunLifecycle *)

\* Mutant: the final event is written with the result, before the reply goes out.
EventFirst ==
    /\ run.pc \in {"patch", "log"}
    /\ IF run.pc = "patch"
       THEN /\ disk' = [disk EXCEPT !.status = run.status,
                                    !.event = [status |-> run.status, ids |-> <<>>]]
            /\ run' = [run EXCEPT !.pc = "log"]
            /\ UNCHANGED <<progress, chain>>
       ELSE /\ run' = [run EXCEPT !.pc = "finalize"]
            /\ Finalize(IF run.status = "interrupted" THEN Stopping ELSE steps)
            /\ UNCHANGED disk
    /\ UNCHANGED <<posts, call, send, world, steps, orphans>>

\* meta.json first, then the exchange log; either write may throw.
Persist ==
    /\ run.pc \in {"patch", "log"}
    /\ IF run.pc = "patch"
       THEN /\ disk' = [disk EXCEPT !.status = run.status]
            /\ run' = [run EXCEPT !.pc = "log"]
            /\ UNCHANGED <<progress, chain>>
       ELSE /\ run' = [run EXCEPT !.pc = "finalize"]
            /\ Finalize(IF run.status = "interrupted" THEN Stopping ELSE steps)
            /\ UNCHANGED disk
    /\ UNCHANGED <<posts, call, send, world, steps, orphans>>

PersistThrows ==
    /\ run.pc \in {"patch", "log"}
    /\ world.faults > 0
    /\ world' = [world EXCEPT !.faults = @ - 1]
    /\ IF run.failing
       THEN /\ run' = [run EXCEPT !.pc = "over"]
            /\ UNCHANGED <<progress, chain>>
       ELSE Throw
    /\ UNCHANGED <<posts, call, send, disk, steps, orphans>>

SkipReply ==
    /\ run.pc = "reply" /\ run.mute
    /\ run' = [run EXCEPT !.pc = "event"]
    /\ UNCHANGED <<posts, progress, chain, call, send, disk, world, steps, orphans>>

SendChunk ==
    /\ run.pc = "reply" /\ ~run.mute /\ send = Idle
    /\ run.chunk <= run.total
    /\ send' = Ask("chunk", run.chunk, Null)
    /\ UNCHANGED <<posts, progress, chain, call, run, disk, world, steps, orphans>>

\* Mutant: off by one, the last chunk is left out.
EndsEarly(r) ==
    [r EXCEPT !.chunk = @ + 1, !.try = 1, !.target = FALSE,
              !.delivered = r.chunk + 1 >= r.total,
              !.pc = IF r.chunk + 1 >= r.total THEN "event" ELSE "reply"]

\* The loop over the attempts of a chunk has ended.
NextChunk(r) ==
    [r EXCEPT !.chunk = @ + 1, !.try = 1, !.target = FALSE,
              !.delivered = r.chunk = r.total,
              !.pc = IF r.chunk = r.total THEN "event" ELSE "reply"]

\* One more attempt; past the last one the loop just ends, the chunk unsent.
Retried(r) ==
    IF r.try = Attempts THEN NextChunk([r EXCEPT !.skipped = TRUE])
    ELSE [r EXCEPT !.try = @ + 1]

\* deliverRunReply throws, with the ids of what was sent.
ReplyThrows(r) ==
    [r EXCEPT !.pc = IF r.failing THEN "over" ELSE "event"]

\* The answer to a chunk, in the order of deliverRunReply's catch block.
ChunkSent ==
    /\ run.pc = "reply" /\ send # Idle
    /\ send' = Idle
    /\ \E out \in Outcomes(send) :
        /\ world' = Spent(out)
        /\ posts' = IF Done(out) THEN Append(posts, Post("chunk", run.chunk)) ELSE posts
        /\ disk' = [disk EXCEPT !.parked = @ \/ out = "gone"]
        /\ LET again == Transient(out) /\ run.try < Attempts
               viaProgress == /\ Transient(out) /\ ~again
                              /\ run.ids = <<>> /\ progress.id # Null
           IN  /\ run' = CASE out = "ok" ->
                                NextChunk([run EXCEPT !.ids = Append(@, Len(posts) + 1)])
                           [] out = "noreply" ->
                                Retried([run EXCEPT !.target = FALSE])
                           [] out = "gone" -> [run EXCEPT !.pc = "event"]
                           [] again -> [run EXCEPT !.try = @ + 1]
                           [] viaProgress -> [run EXCEPT !.pc = "fallback"]
                           [] OTHER -> ReplyThrows(run)
               /\ IF viaProgress THEN Finalize(Reply) ELSE UNCHANGED <<progress, chain>>
    /\ UNCHANGED <<call, steps, orphans>>

Event == [status |-> run.status, ids |-> run.ids]

\* emitAgentFinalEvent, then the progress message goes unless it is the reply.
Emit ==
    /\ run.pc = "event"
    /\ disk' = [disk EXCEPT !.event = Event]
    /\ IF run.viaProgress
       THEN /\ run' = [run EXCEPT !.pc = "over"]
            /\ UNCHANGED <<progress, chain>>
       ELSE /\ run' = [run EXCEPT !.pc = "dismiss"]
            /\ Dismiss
    /\ UNCHANGED <<posts, call, send, world, steps, orphans>>

\* The event cannot be written: once more with nothing claimed, or never.
EmitThrows ==
    /\ run.pc = "event"
    /\ world.faults > 0
    /\ world' = [world EXCEPT !.faults = @ - 1]
    /\ \/ /\ ~run.failing
          /\ disk' = [disk EXCEPT !.event = [status |-> run.status, ids |-> <<>>]]
       \/ UNCHANGED disk
    /\ IF run.viaProgress \/ run.failing
       THEN /\ run' = [run EXCEPT !.pc = "over"]
            /\ UNCHANGED <<progress, chain>>
       ELSE /\ run' = [run EXCEPT !.pc = "dismiss"]
            /\ Dismiss
    /\ UNCHANGED <<posts, call, send, steps, orphans>>

-----------------------------------------------------------------------------
(* Around the run *)

\* Another generation took the session, or a later run started in it.
Supersede ==
    /\ run.pc = "work" /\ ~world.superseded
    /\ world' = [world EXCEPT !.superseded = TRUE]
    /\ UNCHANGED <<posts, progress, chain, call, run, send, disk, steps, orphans>>

CloseTopic ==
    /\ world.open
    /\ world' = [world EXCEPT !.open = FALSE]
    /\ UNCHANGED <<posts, progress, chain, call, run, send, disk, steps, orphans>>

\* The process dies with all that is under way.
Crash ==
    /\ world.alive /\ world.faults > 0
    /\ world' = [world EXCEPT !.alive = FALSE, !.faults = @ - 1]
    /\ run' = [run EXCEPT !.pc = "dead"]
    /\ progress' = [progress EXCEPT !.timer = FALSE]
    /\ chain' = <<>> /\ call' = Idle /\ send' = Idle
    /\ UNCHANGED <<posts, disk, steps, orphans>>

\* recoverStaleRunningSessions of the next process: what the log says of the
\* run is recorded, with no message.
Recover ==
    /\ ~world.alive /\ disk.status = "running"
    /\ \E status \in {"completed", "interrupted", "failed"} :
          disk' = [disk EXCEPT !.status = status,
                               !.event = [status |-> status, ids |-> <<>>]]
    /\ UNCHANGED <<posts, progress, chain, call, run, send, world, steps, orphans>>

Over ==
    /\ run.pc \in {"over", "dead"} /\ chain = <<>> /\ ~progress.timer
    /\ ~(~world.alive /\ disk.status = "running")
    /\ UNCHANGED vars

-----------------------------------------------------------------------------
Init ==
    /\ posts = <<>>
    /\ progress = [id |-> Null, current |-> Null, pending |-> Null, timer |-> FALSE,
                   closed |-> FALSE, terminal |-> Null, append |-> FALSE]
    /\ chain = <<>> /\ call = Idle /\ send = Idle
    /\ run = [pc |-> "start", status |-> "none", document |-> "none", total |-> 1,
              chunk |-> 1, try |-> 1, target |-> TRUE, ids |-> <<>>, mute |-> FALSE,
              failing |-> FALSE, viaProgress |-> FALSE, delivered |-> FALSE,
              skipped |-> FALSE]
    /\ disk = [status |-> "none", event |-> [status |-> "none", ids |-> <<>>],
               parked |-> FALSE, staged |-> FALSE]
    /\ world = [alive |-> TRUE, open |-> TRUE, superseded |-> FALSE,
                faults |-> MaxFaults]
    /\ steps = 1
    /\ orphans = {}

ChainStep == TimerFires \/ BeginFlush \/ Edited \/ Appended \/ Deleted
             \/ BeginDismiss \/ Dismissed

EndStep == Start \/ Started \/ RefuseDocument \/ StageDocument \/ SendDocument
           \/ DocumentSent \/ Persist \/ SkipReply \/ SendChunk \/ ChunkSent \/ Emit

Next ==
    \/ ChainStep
    \/ EndStep
    \/ WaitForCall \/ WaitForSend
    \/ StartThrows \/ Update \/ WorkThrows \/ PersistThrows \/ EmitThrows
    \/ \E status \in {"completed", "interrupted", "failed"},
          document \in {"none", "bad", "local", "remote"}, chunks \in 1 .. MaxChunks :
          Finish(status, document, chunks)
    \/ Supersede \/ CloseTopic \/ Crash \/ Recover
    \/ Over

\* Timers fire and calls are answered as long as the process lives.
Fairness == WF_vars(ChainStep) /\ WF_vars(EndStep)

Spec == Init /\ [][Next]_vars /\ Fairness

-----------------------------------------------------------------------------
(* Properties *)

Calls == [method : {"none", "edit", "send", "delete", "chunk", "document"},
          text : Texts \cup {Null}, post : Nat, over : BOOLEAN, waits : 0 .. MaxWaits]

\* Types; what the run waits for is the one operation of its own in the chain.
TypeOK ==
    /\ posts \in Seq([kind : {"progress", "chunk", "document"},
                      text : Texts \cup {Null}, up : BOOLEAN])
    /\ {progress.current, progress.pending, progress.terminal} \subseteq Texts \cup {Null}
    /\ progress.id \in 0 .. Len(posts)
    /\ chain \in Seq({"flush", "finalize", "dismiss"})
    /\ {call, send} \subseteq Calls
    /\ run.chunk \in 1 .. MaxChunks + 1 /\ run.try \in Attempted
    /\ world.faults \in 0 .. MaxFaults
    /\ steps \in 1 .. MaxSteps
    /\ orphans \subseteq DOMAIN posts
    /\ Len(SelectSeq(chain, LAMBDA o : o # "flush"))
         = IF run.pc \in {"finalize", "fallback", "dismiss"} THEN 1 ELSE 0

Up(kind) == {i \in DOMAIN posts : posts[i].kind = kind /\ posts[i].up}
Shown(text) == \E i \in Up("progress") : posts[i].text = text
Chunks == {posts[i].text : i \in Up("chunk")}
Quiet == chain = <<>> /\ ~progress.timer

\* A run that is over leaves no progress message in the topic and will post none
\* (dismiss, whatever timers, retries and replacements were under way), unless
\* the reply is in it, Telegram lost track of it, or the failure text of a run
\* that failed could not be sent either.
ProgressGone ==
    run.pc = "over" /\ ~run.viaProgress /\ ~run.failing =>
        /\ Quiet
        /\ Up("progress") \subseteq orphans

\* deliverRunReply says "delivered" only when every chunk is in the topic, or
\* when the progress message shows the reply or is still being tried with it.
\* Excepted: a chunk whose last attempt found its reply target missing, and a
\* topic closed meanwhile.
DeliveredIsShown ==
    run.delivered /\ world.alive =>
        \/ run.skipped \/ ~world.open
        \/ ~run.viaProgress /\ 1 .. run.total \subseteq Chunks
        \/ run.viaProgress /\ (Shown(Reply) \/ progress.timer \/ chain # <<>>)

\* Once a run has its result it comes to its end, and a reply entrusted to the
\* progress message is read there in the end, if process and topic last.
ReplyLands ==
    (run.pc \in {"docs", "patch", "fallback"})
        ~> \/ ~world.alive \/ ~world.open
           \/ run.pc = "over" /\ (run.viaProgress => Shown(Reply))

-----------------------------------------------------------------------------
\* What the reader of the topic and the reader of the final event may rely on.
Claimed == {posts[i].text : i \in {j \in ToSet(disk.event.ids) : posts[j].kind = "chunk"}}

Letter == INSTANCE Mailbox WITH
            Parts <- 1 .. MaxChunks,
            shown <- Chunks,
            sealed <- disk.event.status # "none",
            record <- Claimed

\* The run implements the mailbox: chunks appear in order, none after the final
\* event, and the event claims no chunk that is not in the topic.
ImplementsMailbox == Letter!Spec
=============================================================================

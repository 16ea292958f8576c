------------------------------ MODULE ExecRun ------------------------------
(***************************************************************************)
(* One attempt of a run as a child process that writes events as lines:    *)
(* codex exec, here or over ssh on another host, and the DeepSeek script   *)
(* over ssh.  The lines are handled one after the other while the process  *)
(* ends, is interrupted, or is stopped because its last event was read;    *)
(* the result is put together from what was handled and how the process    *)
(* ended.  A remote attempt stages its input in a directory of its own.    *)
(*                                                                         *)
(* Of the events that only show progress there is none; "foreign" is an    *)
(* event of a sub-agent.                                                   *)
(***************************************************************************)
EXTENDS Naturals, Sequences

CONSTANTS
    MaxMessages,  \* bound on the messages of the agent
    MaxLines,     \* bound on the lines not handled
    MaxErrors     \* bound on what goes wrong in a call of the pool or of ssh

VARIABLES
    host,     \* the execution host: "here", "remote", "down"
    deepseek, \* runtimeBackend = DEEPSEEK_HTTP_BACKEND
    resumes,  \* sessionThreadId is given
    pc,       \* how far the task is
    root,     \* the staged input on the host: "none", "made", "gone"
    child,    \* "none", "up", "dead", "closed"; how it ended
    wrote,    \* history: what it wrote
    lines,    \* lines read and not handled
    inHand,   \* onEvent has the first of them
    state,    \* state of the processor, chainError
    asked,    \* userInterruptRequested, steerInterruptRequested
    finish,   \* completedFromTerminalEvent, exit, readers still open
    told,     \* the message told as the final answer, 0 if none
    errors,   \* what has gone wrong
    result

vars == <<host, deepseek, resumes, pc, root, child, wrote, lines, inHand, state,
          asked, finish, told, errors, result>>

given == <<host, deepseek, resumes>>

Remote == host = "remote"

\* terminateOnTerminalEvent
Terminates == ~deepseek

ErrorsLeft == errors < MaxErrors

(***************************************************************************)
(* Before the child                                                        *)
(***************************************************************************)
Ends(r) == pc' = "over" /\ result' = r

idle == <<child, wrote, lines, inHand, state, asked, finish, told>>

\* hostAwareRunTask: a host that is down and a DeepSeek run here are refused.
Choose ==
    /\ pc = "choose"
    /\ IF host = "down" \/ (deepseek /\ ~Remote) THEN Ends("threw")
       ELSE /\ pc' = IF Remote /\ ~deepseek THEN "prepare" ELSE "spawn"
            /\ UNCHANGED result
    /\ UNCHANGED <<given, root, idle, errors>>

Prepare ==
    /\ pc = "prepare"
    /\ pc' = "stage" /\ root' = "made"
    /\ UNCHANGED <<given, idle, errors, result>>

\* The script fails, or it is not known to have succeeded.
PrepareFails ==
    /\ pc = "prepare" /\ ErrorsLeft
    /\ root' \in {"none", "made"} /\ errors' = errors + 1
    /\ Ends("threw")
    /\ UNCHANGED <<given, idle>>

Stage ==
    /\ pc = "stage" /\ pc' = "spawn"
    /\ UNCHANGED <<given, root, idle, errors, result>>

StageFails ==
    /\ pc = "stage" /\ ErrorsLeft
    /\ errors' = errors + 1 /\ pc' = "cleanup"
    /\ finish' = [finish EXCEPT !.result = "threw"]
    /\ UNCHANGED <<given, root, child, wrote, lines, inHand, state, asked, told, result>>

Spawn ==
    /\ pc = "spawn"
    /\ pc' = "run" /\ child' = [child EXCEPT !.is = "up"]
    /\ UNCHANGED <<given, root, wrote, lines, inHand, state, asked, finish, told, errors, result>>

AfterChild == IF root = "made" THEN "cleanup" ELSE "over"

\* What the caller gets once the staged input is removed.
Hand(r) ==
    /\ pc' = AfterChild
    /\ finish' = [finish EXCEPT !.result = r]
    /\ result' = IF AfterChild = "over" THEN r ELSE result

SpawnFails ==
    /\ pc = "spawn" /\ ErrorsLeft
    /\ errors' = errors + 1 /\ Hand("threw")
    /\ UNCHANGED <<given, root, child, wrote, lines, inHand, state, asked, told>>

Cleanup ==
    /\ pc = "cleanup"
    /\ root' = "gone" /\ Ends(finish.result)
    /\ UNCHANGED <<given, idle, errors>>

CleanupFails ==
    /\ pc = "cleanup" /\ ErrorsLeft
    /\ errors' = errors + 1 /\ Ends(finish.result)
    /\ UNCHANGED <<given, root, idle>>

(***************************************************************************)
(* The child                                                               *)
(***************************************************************************)
\* The order in which codex exec and the script of the DeepSeek run write.
May(line) ==
    CASE line = "thread" -> ~wrote.thread
      [] line = "message" -> wrote.thread /\ wrote.turn = "open" /\ wrote.messages < MaxMessages
      [] line = "completed" -> wrote.thread /\ wrote.turn = "open"
      [] line = "failed" -> wrote.turn = "open"
      [] line = "error" -> wrote.turn = "open" /\ ~wrote.error /\ ~deepseek
      [] line = "foreign" -> wrote.thread /\ ~wrote.foreign /\ ~deepseek

\* SIGKILL is not survived, though the end may become known late.
Killed == Terminates /\ finish.terminal /\ pc # "term"

Writes(line) ==
    /\ child.is = "up" /\ ~Killed /\ Len(lines) < MaxLines /\ May(line)
    /\ wrote' = CASE line = "thread" -> [wrote EXCEPT !.thread = TRUE]
                  [] line = "message" -> [wrote EXCEPT !.messages = @ + 1]
                  [] line \in {"completed", "failed"} -> [wrote EXCEPT !.turn = line]
                  [] line = "error" -> [wrote EXCEPT !.error = TRUE]
                  [] line = "foreign" -> [wrote EXCEPT !.foreign = TRUE]
    /\ lines' = IF finish.open THEN Append(lines, line) ELSE lines
    /\ UNCHANGED <<given, pc, root, child, inHand, state, asked, finish, told, errors, result>>

\* It ends by itself, in the end or before, or of the signal it got.
Dies ==
    /\ child.is = "up"
    /\ \E how \in {"one"} \cup (IF wrote.turn = "completed" THEN {"zero"} ELSE {})
                    \cup (IF child.signalled THEN {"interrupt"} ELSE {}) :
          child' = [child EXCEPT !.is = "dead", !.exit = how]
    /\ UNCHANGED <<given, pc, root, wrote, lines, inHand, state, asked, finish, told, errors, result>>

\* "close" comes when its output has been read to the end.
Close ==
    /\ child.is = "dead"
    /\ child' = [child EXCEPT !.is = "closed"]
    /\ finish' = [finish EXCEPT !.open = FALSE,
                                !.exit = IF pc \in {"run", "term", "kill"} THEN child.exit ELSE @]
    /\ pc' = IF pc \in {"run", "term", "kill", "streams"} THEN "settle" ELSE pc
    /\ UNCHANGED <<given, root, wrote, lines, inHand, state, asked, told, errors, result>>

Interrupt ==
    /\ pc \in {"run", "term", "kill", "streams", "settle"} /\ ~asked.user
    /\ asked' = [asked EXCEPT !.user = TRUE]
    /\ child' = [child EXCEPT !.signalled = TRUE]
    /\ UNCHANGED <<given, pc, root, wrote, lines, inHand, state, finish, told, errors, result>>

\* Signalling a process that is gone counts as done.
Steer ==
    /\ pc \in {"run", "term", "kill", "streams", "settle"} /\ ~asked.steer
    /\ asked' = [asked EXCEPT !.steer = TRUE]
    /\ child' = [child EXCEPT !.signalled = TRUE]
    /\ UNCHANGED <<given, pc, root, wrote, lines, inHand, state, finish, told, errors, result>>

(***************************************************************************)
(* The lines                                                               *)
(***************************************************************************)
Terminal == {"completed", "failed", "error"}

\* handleEvent up to onEvent.
HandleBegin ==
    /\ lines # <<>> /\ ~inHand /\ result = "none"
    /\ inHand' = TRUE
    /\ state' = CASE Head(lines) = "thread" -> [state EXCEPT !.thread = TRUE]
                  [] Head(lines) = "message" -> [state EXCEPT !.message = @ + 1]
                  [] Head(lines) = "completed" -> [state EXCEPT !.completed = TRUE]
                  [] Head(lines) = "failed" -> [state EXCEPT !.failed = TRUE, !.fatal = TRUE]
                  [] Head(lines) = "error" -> [state EXCEPT !.fatal = TRUE]
                  [] OTHER -> state
    /\ UNCHANGED <<given, pc, root, child, wrote, lines, asked, finish, told, errors, result>>

\* The last event stops the process; a further one finds it done.
HandleEnd ==
    /\ inHand /\ result = "none"
    /\ inHand' = FALSE /\ lines' = Tail(lines)
    /\ told' = IF Head(lines) = "completed" THEN state.message ELSE told
    /\ IF Head(lines) \in Terminal /\ pc = "run"
         THEN /\ pc' = "term"
              /\ finish' = [finish EXCEPT !.terminal = TRUE]
              /\ child' = [child EXCEPT !.signalled = @ \/ Terminates]
         ELSE UNCHANGED <<pc, finish, child>>
    /\ UNCHANGED <<given, root, wrote, state, asked, errors, result>>

HandleFails ==
    /\ inHand /\ ErrorsLeft /\ result = "none"
    /\ inHand' = FALSE /\ lines' = Tail(lines)
    /\ state' = [state EXCEPT !.threw = TRUE] /\ errors' = errors + 1
    /\ UNCHANGED <<given, pc, root, child, wrote, asked, finish, told, result>>

(***************************************************************************)
(* The end                                                                 *)
(***************************************************************************)
\* The grace for an answer to SIGTERM, and then to SIGKILL.
Grace ==
    /\ pc \in {"term", "kill"} /\ child.is # "closed"
    /\ pc' = IF pc = "term" /\ Terminates THEN "kill" ELSE "streams"
    /\ UNCHANGED <<given, root, idle, errors, result>>

\* The grace of the readers: what comes later is not read.
CloseReaders ==
    /\ pc = "streams"
    /\ pc' = "settle" /\ finish' = [finish EXCEPT !.open = FALSE]
    /\ UNCHANGED <<given, root, child, wrote, lines, inHand, state, asked, told, errors, result>>

Interrupted ==
    /\ ~finish.terminal
    /\ \/ finish.exit = "interrupt"
       \/ (asked.user \/ asked.steer) /\ ~state.completed /\ ~state.failed /\ ~state.fatal

Ok == (finish.terminal \/ finish.exit = "zero") /\ state.completed /\ ~state.fatal

\* exec-resume-unavailable: the pool starts a new thread with the same prompt.
Unavailable(auth) ==
    ~deepseek /\ resumes /\ ~state.thread /\ ~Interrupted /\ ~Ok /\ ~auth

\* stderr may tell that the login is refused.
Finish ==
    /\ pc = "settle" /\ lines = <<>> /\ ~inHand
    /\ \E auth \in BOOLEAN :
          Hand(CASE state.threw -> "threw"
                 [] ~state.threw /\ Interrupted -> "interrupted"
                 [] ~state.threw /\ Ok -> "ok"
                 [] ~state.threw /\ Unavailable(auth) -> "unavailable"
                 [] OTHER -> "failed")
    /\ UNCHANGED <<given, root, child, wrote, lines, inHand, state, asked, told, errors>>

(***************************************************************************)
(* Specification                                                           *)
(***************************************************************************)
Init ==
    /\ host \in {"here", "remote", "down"} /\ deepseek \in BOOLEAN /\ resumes \in BOOLEAN
    /\ pc = "choose" /\ root = "none"
    /\ child = [is |-> "none", signalled |-> FALSE, exit |-> "none"]
    /\ wrote = [thread |-> FALSE, messages |-> 0, turn |-> "open", error |-> FALSE, foreign |-> FALSE]
    /\ lines = <<>> /\ inHand = FALSE
    /\ state = [thread |-> FALSE, message |-> 0, completed |-> FALSE, failed |-> FALSE,
                fatal |-> FALSE, threw |-> FALSE]
    /\ asked = [user |-> FALSE, steer |-> FALSE]
    /\ finish = [terminal |-> FALSE, exit |-> "none", open |-> TRUE, result |-> "none"]
    /\ told = 0 /\ errors = 0 /\ result = "none"

\* A child may outlive its attempt.
Over == pc = "over" /\ UNCHANGED vars

Next ==
    \/ Choose \/ Prepare \/ PrepareFails \/ Stage \/ StageFails \/ Spawn \/ SpawnFails
    \/ Cleanup \/ CleanupFails
    \/ \E line \in {"thread", "message", "completed", "failed", "error", "foreign"} : Writes(line)
    \/ Dies \/ Close \/ Interrupt \/ Steer
    \/ HandleBegin \/ HandleEnd \/ HandleFails \/ Grace \/ CloseReaders \/ Finish
    \/ Over

Spec == Init /\ [][Next]_vars

(***************************************************************************)
(* Properties                                                              *)
(***************************************************************************)
\* A run is reported as done only with the last message of a completed turn as
\* its answer; a turn that was completed is reported as failed only if something
\* went wrong after it; a new thread is started for the prompt only if this one
\* was not; and the staged input is gone, unless its removal, or the call that
\* made it, failed.
ResultIsTrue ==
    /\ result = "ok" => wrote.turn = "completed" /\ told = wrote.messages
    /\ result \in {"failed", "unavailable"} =>
          wrote.turn # "completed" \/ wrote.error \/ finish.exit = "one"
    /\ result = "unavailable" => ~wrote.thread
    /\ result # "none" /\ errors = 0 => root # "made"
=============================================================================

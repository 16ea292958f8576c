------------------------------ MODULE LiveRun ------------------------------
(***************************************************************************)
(* The runs of one topic inside one process, from startPromptRun to the    *)
(* clean-up, with the attempt loop of executeRunAttempts and the messages  *)
(* that steer a run while it is under way (exec-json backend).             *)
(*                                                                         *)
(* A run makes attempts; an attempt is a child process.  Between attempts  *)
(* there is no child and no controller: a steer that arrives then is       *)
(* buffered in pendingLiveSteers and flushed when the next child is        *)
(* attached.  Steering an exec-json child interrupts it; the loop then     *)
(* starts a new attempt with the text of the steer appended.  What is      *)
(* still buffered when the run is over goes to the durable prompt queue.   *)
(*                                                                         *)
(* Of the prompt only the set of steers in it is kept.                     *)
(***************************************************************************)
EXTENDS Naturals, FiniteSets

CONSTANTS
    Steers,         \* messages sent to the topic while it is busy
    MaxRuns,        \* bound on the runs of a behaviour
    SteerTries,     \* LIVE_STEER_RETRY_DELAYS_MS.length
    CapacityTries,  \* upstreamModelCapacityRetryDelaysMs.length
    Faults          \* what may go wrong, a subset of Fault

\* "start": a start fails; "steer": signalling the child fails; "recovery":
\* the preparation of a new attempt fails; "interrupt": the user interrupts;
\* "upstream", "window", "corrupt", "capacity", "resume": how an attempt ends.
Fault == {"start", "steer", "recovery", "interrupt",
          "upstream", "window", "corrupt", "capacity", "resume"}

\* MAX_THREAD_RESUME_RETRIES and MAX_UPSTREAM_INTERRUPT_RECOVERIES
ResumeTries == 1
UpstreamTries == 2

ASSUME LiveRunAssumption ==
    /\ IsFiniteSet(Steers)
    /\ MaxRuns \in Nat /\ SteerTries \in Nat /\ CapacityTries \in Nat
    /\ Faults \subseteq Fault

VARIABLES
    no,        \* number of the current or last run
    stage,     \* where it is
    run,       \* run.state and the counters of executeRunAttempts
    pending,   \* pendingLiveSteers of the topic
    steering,  \* calls of steerRunWithRetry under way
    cleanup,   \* the clean-up of an earlier run: requeuePendingLiveSteer
    unsent,    \* steers not sent yet
    taken,     \* steers whose sender was told that the run takes them
    queued,    \* steers in the durable prompt queue
    heard,     \* steers that were in the prompt of some attempt
    excused    \* steers whose run failed, was interrupted or never began, and
               \* those buffered during a clean-up or a flush

vars == <<no, stage, run, pending, steering, cleanup, unsent, taken, queued, heard, excused>>

Result == {"final", "failed", "upstream", "window", "corrupt", "capacity", "resume", "stopped"}
Stage == {"idle", "starting", "top", "launching", "live", "result", "threw",
          "compacting", "rescuing", "interrupted", "closing"}

RunState ==
    [prompt : SUBSET Steers,     \* exchangePrompt
     next : SUBSET Steers,       \* nextPrompt
     told : SUBSET Steers,       \* the prompt of the latest attempt
     accepted : Nat,             \* acceptedLiveSteerCount
     recovered : Nat,            \* recoveredLiveSteerCount
     restarts : Nat,             \* recoveredInterruptedRunCount
     windows : 0 .. 1,           \* recoveredContextWindowCount
     corruptions : 0 .. 1,       \* recoveredThreadCorruptionCount
     capacity : 0 .. CapacityTries,
     resumes : 0 .. ResumeTries,
     attempts : Nat,             \* attempts made
     stop : BOOLEAN,             \* interruptRequested
     hit : BOOLEAN,              \* the child got a signal
     result : Result]

Call == [text : SUBSET Steers, tries : 0 .. SteerTries, flush : BOOLEAN, no : 1 .. MaxRuns]

TypeOK ==
    /\ no \in 0 .. MaxRuns
    /\ stage \in Stage
    /\ run \in RunState
    /\ pending \subseteq Steers
    /\ steering \subseteq Call
    /\ cleanup \in {"none", "load", "delete"}
    /\ unsent \subseteq Steers /\ taken \subseteq Steers /\ queued \subseteq Steers
    /\ heard \subseteq Steers /\ excused \subseteq Steers

NewRun ==
    [prompt |-> {}, next |-> {}, told |-> {}, accepted |-> 0, recovered |-> 0,
     restarts |-> 0, windows |-> 0, corruptions |-> 0, capacity |-> 0, resumes |-> 0,
     attempts |-> 0, stop |-> FALSE, hit |-> FALSE, result |-> "failed"]

Init ==
    /\ no = 0 /\ stage = "idle" /\ run = NewRun
    /\ pending = {} /\ steering = {} /\ cleanup = "none"
    /\ unsent = Steers /\ taken = {} /\ queued = {} /\ heard = {} /\ excused = {}

messages == <<pending, steering, cleanup, unsent, taken, queued>>

----------------------------------------------------------------------------
(* startPromptRun                                                          *)

Start ==
    /\ stage = "idle" /\ no < MaxRuns
    /\ stage' = "starting"
    /\ no' = no + 1
    /\ run' = NewRun
    /\ UNCHANGED <<messages, heard, excused>>

\* The host is unavailable or the progress message cannot be sent: nothing
\* was attached yet and what was buffered stays buffered.
StartRefused ==
    /\ stage = "starting" /\ "start" \in Faults
    /\ stage' = "idle"
    /\ UNCHANGED <<no, run, messages, heard, excused>>

\* The run is in activeRuns but the session cannot be patched: the run is
\* removed and what was buffered is dropped with it.
StartFails ==
    /\ stage = "starting" /\ "start" \in Faults
    /\ stage' = "idle"
    /\ pending' = {}
    /\ excused' = excused \cup pending
    /\ UNCHANGED <<no, run, steering, cleanup, unsent, taken, queued, heard>>

Activate ==
    /\ stage = "starting"
    /\ stage' = "top"
    /\ UNCHANGED <<no, run, messages, heard, excused>>

----------------------------------------------------------------------------
(* The attempt loop                                                        *)

\* The top of the loop: an interrupted run makes no further attempt.
Loop ==
    /\ stage = "top"
    /\ IF run.stop
       THEN /\ stage' = "closing"
            /\ run' = [run EXCEPT !.result = "stopped"]
       ELSE /\ stage' = "launching"
            /\ run' = [run EXCEPT !.attempts = @ + 1, !.told = run.next, !.hit = FALSE]
    /\ UNCHANGED <<no, messages, heard, excused>>

\* steerRunWithRetry, one try: the child is signalled and applyAcceptedSteer
\* appends the text to the prompt of the run r; a flush forgets the buffer.
Accept(r, c) ==
    /\ run' = [r EXCEPT !.prompt = @ \cup c.text, !.accepted = @ + 1, !.hit = TRUE]
    /\ taken' = taken \cup c.text
    /\ pending' = IF c.flush THEN {} ELSE pending
    /\ steering' = steering \ {c}
    /\ UNCHANGED queued

\* The try failed.  If it was the last, the caller of steerActiveRun queues
\* the message; a flush leaves its text in the buffer.
Retry(r, c) ==
    /\ run' = r
    /\ IF c.tries > 0
       THEN /\ steering' = (steering \ {c}) \cup {[c EXCEPT !.tries = @ - 1]}
            /\ UNCHANGED queued
       ELSE /\ steering' = steering \ {c}
            /\ queued' = IF c.flush THEN queued ELSE queued \cup c.text
    /\ UNCHANGED <<pending, taken>>

\* The first try follows at once, the others after a delay.
FirstTry(r, c) == Accept(r, c) \/ ("steer" \in Faults /\ Retry(r, c))

NewCall(text, flush) == [text |-> text, tries |-> SteerTries, flush |-> flush, no |-> no]

\* Mutant: a child launched after the interruption is not signalled.
LaunchUnsignalled ==
    /\ stage = "launching"
    /\ stage' = "live"
    /\ heard' = heard \cup run.told
    /\ IF pending = {} THEN UNCHANGED <<run, pending, steering, taken, queued>>
       ELSE FirstTry(run, NewCall(pending, TRUE))
    /\ UNCHANGED <<no, cleanup, unsent, excused>>

\* runTask returned: the controller is attached, an interruption that came
\* meanwhile is applied to the child, and the buffered steers are flushed.
Launch ==
    /\ stage = "launching"
    /\ stage' = "live"
    /\ heard' = heard \cup run.told
    /\ LET r == [run EXCEPT !.hit = run.stop] IN
       IF pending = {} THEN run' = r /\ UNCHANGED <<pending, steering, taken, queued>>
       ELSE FirstTry(r, NewCall(pending, TRUE))
    /\ UNCHANGED <<no, cleanup, unsent, excused>>

\* The ways in which a child may end.  A child that was signalled ends
\* interrupted, unless it had written its answer before.
Ends ==
    {"final", "failed"} \cup (IF run.hit THEN {"upstream"} ELSE Faults \cap Result)

\* The child ends; the controller is removed.
AttemptEnds(r) ==
    /\ stage = "live" /\ r \in Ends
    /\ stage' = "result"
    /\ run' = [run EXCEPT !.result = r]
    /\ UNCHANGED <<no, messages, heard, excused>>

\* runTask throws, or the child cannot be waited for.
AttemptThrows(r) ==
    /\ stage \in {"launching", "live"}
    /\ r \in {"failed"} \cup (Faults \cap {"window", "corrupt", "capacity"})
    /\ stage' = "threw"
    /\ run' = [run EXCEPT !.result = r]
    /\ UNCHANGED <<no, messages, heard, excused>>

CanCompact(r) ==
    /\ ~run.stop
    /\ \/ r = "window" /\ run.windows = 0
       \/ r = "corrupt" /\ run.corruptions = 0

\* prepareContextWindowFallback, prepareThreadCorruptionFallback: the
\* session is compacted; the prompt is the one of this moment.
Compact ==
    /\ stage \in {"result", "threw"}
    /\ CanCompact(run.result)
    /\ stage' = IF stage = "result" THEN "compacting" ELSE "rescuing"
    /\ run' = [run EXCEPT !.next = run.prompt,
                          !.windows = IF run.result = "window" THEN 1 ELSE @,
                          !.corruptions = IF run.result = "corrupt" THEN 1 ELSE @]
    /\ UNCHANGED <<no, messages, heard, excused>>

Compacted ==
    /\ stage \in {"compacting", "rescuing"}
    /\ stage' = "top"
    /\ UNCHANGED <<no, run, messages, heard, excused>>

\* After a result the loop goes on with what it has; after an error it ends.
CompactFails ==
    /\ stage \in {"compacting", "rescuing"} /\ "recovery" \in Faults
    /\ IF stage = "compacting"
       THEN stage' = "result" /\ UNCHANGED run
       ELSE stage' = "closing" /\ run' = [run EXCEPT !.result = "failed"]
    /\ UNCHANGED <<no, messages, heard, excused>>

\* A model at capacity is tried again, with the prompt of the last attempt.
CapacityRetry ==
    /\ stage = "threw" /\ run.result = "capacity"
    /\ ~run.stop /\ run.capacity < CapacityTries
    /\ stage' = "top"
    /\ run' = [run EXCEPT !.capacity = @ + 1]
    /\ UNCHANGED <<no, messages, heard, excused>>

\* Any other error ends the run.
Throw ==
    /\ stage = "threw" /\ ~CanCompact(run.result)
    /\ ~(run.result = "capacity" /\ ~run.stop /\ run.capacity < CapacityTries)
    /\ stage' = "closing"
    /\ run' = [run EXCEPT !.result = "failed"]
    /\ UNCHANGED <<no, messages, heard, excused>>

\* Mutant: a child that finished is not restarted for a steer it took.
RecoveryOfInterrupted ==
    IF run.stop THEN "none"
    ELSE IF run.result = "upstream" /\ run.accepted > run.recovered THEN "steer"
    ELSE IF run.result = "upstream" /\ run.restarts < UpstreamTries THEN "upstream"
    ELSE "none"

\* classifyInterruptedRunRecovery
Recovery ==
    IF run.stop THEN "none"
    ELSE IF run.accepted > run.recovered THEN "steer"
    ELSE IF run.result = "upstream" /\ run.restarts < UpstreamTries THEN "upstream"
    ELSE "none"

\* Mutant: only restarts for a steer are counted.
InterruptedUncounted ==
    /\ stage = "result" /\ ~CanCompact(run.result)
    /\ Recovery # "none"
    /\ stage' = "interrupted"
    /\ run' = IF Recovery = "steer"
              THEN [run EXCEPT !.restarts = @ + 1, !.recovered = run.accepted]
              ELSE run
    /\ UNCHANGED <<no, messages, heard, excused>>

\* An attempt interrupted by a steer or by the provider is prepared anew.
Interrupted ==
    /\ stage = "result" /\ ~CanCompact(run.result)
    /\ Recovery # "none"
    /\ stage' = "interrupted"
    /\ run' = [run EXCEPT !.restarts = @ + 1,
                          !.recovered = IF Recovery = "steer" THEN run.accepted ELSE @]
    /\ UNCHANGED <<no, messages, heard, excused>>

\* Mutant: the new attempt gets the prompt of the old one.
RestartWithOldPrompt ==
    /\ stage = "interrupted"
    /\ stage' = "top"
    /\ UNCHANGED <<no, run, messages, heard, excused>>

\* prepareInterruptedRunFallback, after the back-off
Restart ==
    /\ stage = "interrupted"
    /\ stage' = "top"
    /\ run' = [run EXCEPT !.next = run.prompt]
    /\ UNCHANGED <<no, messages, heard, excused>>

RestartFails ==
    /\ stage = "interrupted" /\ "recovery" \in Faults
    /\ stage' = "closing"
    /\ run' = [run EXCEPT !.result = "failed"]
    /\ UNCHANGED <<no, messages, heard, excused>>

\* The stored thread cannot be resumed: one more try, then the run ends.
Resume ==
    /\ stage = "result" /\ ~CanCompact(run.result) /\ Recovery = "none"
    /\ IF run.result = "resume" /\ ~run.stop /\ run.resumes < ResumeTries
       THEN /\ stage' = "top"
            /\ run' = [run EXCEPT !.resumes = @ + 1]
       ELSE /\ stage' = "closing"
            /\ UNCHANGED run
    /\ UNCHANGED <<no, messages, heard, excused>>

----------------------------------------------------------------------------
(* Interruption and steering                                               *)

Active == stage \notin {"idle", "starting"}
HasController == stage = "live"
Finalizing == stage = "closing"

\* interrupt: a child, if there is one, is signalled.
Interrupt ==
    /\ "interrupt" \in Faults
    /\ Active /\ ~Finalizing /\ ~run.stop
    /\ run' = [run EXCEPT !.stop = TRUE, !.hit = (stage = "live") \/ @]
    /\ UNCHANGED <<no, stage, messages, heard, excused>>

Flushing == \E c \in steering : c.flush /\ c.no = no

\* steerActiveRun: deferred to the queue if there is no run or it is closing,
\* handed to the child if there is one, and buffered otherwise.
Steer(s) ==
    /\ s \in unsent
    /\ unsent' = unsent \ {s}
    /\ \/ /\ stage = "idle" \/ Finalizing
          /\ queued' = queued \cup {s}
          /\ UNCHANGED <<run, pending, steering, taken, excused>>
       \/ /\ HasController
          /\ FirstTry(run, NewCall({s}, FALSE))
          /\ UNCHANGED excused
       \/ /\ stage # "idle" /\ ~Finalizing /\ ~HasController
          /\ pending' = pending \cup {s}
          /\ taken' = taken \cup {s}
          /\ excused' = IF cleanup # "none" \/ Flushing THEN excused \cup {s} ELSE excused
          /\ UNCHANGED <<run, steering, queued>>
    /\ UNCHANGED <<no, stage, cleanup, heard>>

\* isRunStillSteerable
Steerable(c) == c.no = no /\ Active /\ ~Finalizing

\* A later try: there may be no controller at the moment.
SteerAgain(c) ==
    /\ c \in steering /\ Steerable(c)
    /\ \/ HasController /\ Accept(run, c)
       \/ (~HasController \/ "steer" \in Faults) /\ Retry(run, c)
    /\ UNCHANGED <<no, stage, cleanup, unsent, heard, excused>>

\* The run is over or closing: nothing is left to steer.
SteerRefused(c) ==
    /\ c \in steering /\ ~Steerable(c)
    /\ steering' = steering \ {c}
    /\ queued' = IF c.flush THEN queued ELSE queued \cup c.text
    /\ UNCHANGED <<no, stage, run, pending, cleanup, unsent, taken, heard, excused>>

----------------------------------------------------------------------------
(* The end of a run                                                        *)

\* Mutant: the buffer is emptied with the run, and not queued.
CloseForgets ==
    /\ stage = "closing" /\ (cleanup = "none" \/ pending = {})
    /\ stage' = "idle"
    /\ excused' = IF run.result = "final" /\ ~run.stop THEN excused ELSE excused \cup run.prompt
    /\ pending' = {}
    /\ UNCHANGED <<no, run, steering, cleanup, unsent, taken, queued, heard>>

\* The result is persisted and delivered, the run leaves activeRuns, and
\* what is buffered is about to be queued.
Close ==
    /\ stage = "closing" /\ (cleanup = "none" \/ pending = {})
    /\ stage' = "idle"
    /\ excused' = IF run.result = "final" /\ ~run.stop THEN excused ELSE excused \cup run.prompt
    /\ cleanup' = IF pending = {} THEN cleanup ELSE "load"
    /\ UNCHANGED <<no, run, pending, steering, unsent, taken, queued, heard>>

\* requeuePendingLiveSteer: the session was loaded, the buffer is read and
\* appended to the queue; afterwards the buffer is deleted.
Requeue ==
    /\ cleanup = "load"
    /\ IF pending = {} THEN cleanup' = "none" ELSE cleanup' = "delete"
    /\ queued' = queued \cup pending
    /\ UNCHANGED <<no, stage, run, pending, steering, unsent, taken, heard, excused>>

Forget ==
    /\ cleanup = "delete"
    /\ cleanup' = "none"
    /\ pending' = {}
    /\ UNCHANGED <<no, stage, run, steering, unsent, taken, queued, heard, excused>>

LoopStep ==
    \/ Activate \/ Loop \/ Launch \/ Compact \/ Compacted \/ CompactFails \/ CapacityRetry
    \/ Throw \/ Interrupted \/ Restart \/ RestartFails \/ Resume \/ Close

Done ==
    /\ stage = "idle" /\ no = MaxRuns
    /\ UNCHANGED vars

Next ==
    \/ Start \/ StartRefused \/ StartFails \/ LoopStep
    \/ \E r \in Result : AttemptEnds(r) \/ AttemptThrows(r)
    \/ Interrupt
    \/ \E s \in Steers : Steer(s)
    \/ \E c \in steering : SteerAgain(c) \/ SteerRefused(c)
    \/ Requeue \/ Forget \/ Done

Spec == Init /\ [][Next]_vars

\* The event loop goes on, and a child that got a signal ends (SIGKILL five
\* seconds later); nothing is assumed of a child that got none.
Fairness ==
    /\ WF_vars(LoopStep)
    /\ WF_vars(run.hit /\ \E r \in Result : AttemptEnds(r))
    /\ WF_vars(\E c \in steering : SteerAgain(c) \/ SteerRefused(c))
    /\ WF_vars(Requeue) /\ WF_vars(Forget)

FairSpec == Spec /\ Fairness

----------------------------------------------------------------------------
(* Properties                                                              *)

\* executeRunAttempts: a run that ends with an answer has given every steer it
\* took to its last child, however the steers, the budgets and the
\* recoveries came together.
AnswerHeardSteers ==
    Finalizing /\ run.result = "final" /\ ~run.stop => run.prompt \subseteq run.told

\* A message the user was told is taken by the run is in a prompt, in the
\* buffer or in the durable queue, unless its run fails or is interrupted.
\* Two cases are excepted in which the code does lose it: the message is
\* buffered while the clean-up of the run before empties the buffer, or
\* while a flush that will empty it waits for its next try.
NothingDropped ==
    taken \subseteq heard \cup run.prompt \cup queued \cup pending \cup excused

\* executeRunAttempts does not start children for ever: every attempt of a run
\* but the first was paid for by one of its recoveries, and what all of them can
\* pay for together is bounded by the budgets and the steers the run took.
AttemptsBounded ==
    /\ run.attempts <= 1 + run.windows + run.corruptions + run.capacity
                         + run.resumes + run.restarts
    /\ run.windows + run.corruptions + run.capacity + run.resumes + run.restarts
         <= 2 + CapacityTries + ResumeTries + UpstreamTries + run.accepted

\* interrupt: a run the user interrupts ends, whichever step of the loop the
\* interruption falls into, and although no signal reaches a child that is
\* only being launched.
InterruptEnds == run.stop ~> stage = "idle"

============================================================================

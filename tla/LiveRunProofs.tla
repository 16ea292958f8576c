--------------------------- MODULE LiveRunProofs ---------------------------
(***************************************************************************)
(* The attempts and the steers of a run, for any number of runs, steers    *)
(* and tries: what a run pays for its attempts, that an answer has heard   *)
(* every steer, and that no steer a run took is dropped.                   *)
(*                                                                         *)
(* The three invariants are about what is true when a run closes or at any *)
(* time.  They follow from what holds step by step of the loop: whether    *)
(* the next attempt is paid for already, which of the three prompts of the *)
(* run agree, and who else keeps the text of a buffer that is about to be  *)
(* emptied.                                                                *)
(***************************************************************************)
EXTENDS LiveRun, TLAPS

\* What the attempts of the run so far were paid with.
Paid == run.windows + run.corruptions + run.capacity + run.resumes + run.restarts

\* Between a recovery and the next attempt that attempt is paid for already.
\* A restart is either one of the provider's, or is for a steer not counted
\* before.
AttemptsPaid ==
    /\ run.attempts <= 1 + Paid
    /\ stage \in {"starting", "top", "compacting", "rescuing", "interrupted"}
         => run.attempts <= Paid
    /\ run.restarts <= UpstreamTries + run.recovered
    /\ run.recovered <= run.accepted

\* While no restart for a steer is due, the next prompt has all the steers;
\* the child has the next prompt, until a failed recovery has changed it, and
\* what the child has was heard.
PromptsAgree ==
    /\ stage \notin {"interrupted", "closing", "idle"} /\ run.accepted = run.recovered
         => run.prompt \subseteq run.next
    /\ stage \in {"launching", "live"} => run.told = run.next
    /\ stage = "result" /\ run.result = "final" => run.told = run.next
    /\ stage = "live" => run.told \subseteq heard
    /\ stage \in {"result", "closing"} /\ run.result = "final" => run.told \subseteq heard
    /\ stage \in {"compacting", "rescuing"} => run.result # "final"

\* A buffer is emptied by the flush of the present run, by the clean-up, or
\* with a run that failed to start; what it holds then is kept by another.
BufferKept ==
    /\ \A c \in steering : c.no <= no
    /\ \A c \in steering : c.flush /\ c.no = no => pending \subseteq c.text \cup excused
    /\ cleanup = "delete" => pending \subseteq queued \cup excused
    /\ stage = "idle" => run.prompt \subseteq heard \cup excused
    /\ stage = "starting" => run = NewRun
    /\ stage # "idle" => no > 0

RunInv ==
    /\ TypeOK
    /\ AttemptsPaid
    /\ PromptsAgree
    /\ AnswerHeardSteers
    /\ BufferKept
    /\ NothingDropped

-----------------------------------------------------------------------------
(* Types *)

\* What a step leaves alone when it only moves the run of the loop.
LEMMA RunTypeStep ==
    ASSUME TypeOK, (LoopStep /\ ~Launch) \/ \E r \in Result : AttemptEnds(r) \/ AttemptThrows(r)
    PROVE  TypeOK'
<1> USE LiveRunAssumption DEF LiveRunAssumption, TypeOK, RunState, Stage, Result, messages
<1>1. CASE Activate 
  BY <1>1 DEF Activate
<1>2. CASE Loop 
  <2>1. CASE run.stop
    BY <1>2, <2>1 DEF Loop
  <2>2. CASE ~run.stop
    <3>1. run.attempts + 1 \in Nat /\ run.next \in SUBSET Steers
      OBVIOUS
    <3>2. run' = [run EXCEPT !.attempts = run.attempts + 1, !.told = run.next, !.hit = FALSE]
      BY <1>2, <2>2 DEF Loop
    <3>3. run' \in RunState
      BY <3>1, <3>2
    <3> QED BY <1>2, <2>2, <3>3 DEF Loop
  <2> QED BY <2>1, <2>2
<1>3. CASE Compact
  <2>1. run' \in RunState
    <3> DEFINE w == IF run.result = "window" THEN 1 ELSE run.windows
               c == IF run.result = "corrupt" THEN 1 ELSE run.corruptions
    <3>1. w \in 0 .. 1 /\ c \in 0 .. 1 /\ run.prompt \in SUBSET Steers
      OBVIOUS
    <3>2. run' = [run EXCEPT !.next = run.prompt, !.windows = w, !.corruptions = c]
      BY <1>3 DEF Compact
    <3> HIDE DEF w, c
    <3> QED BY <3>1, <3>2
  <2> QED BY <1>3, <2>1 DEF Compact
<1>40. CASE Compacted
  BY <1>40 DEF Compacted
<1>4. CASE CompactFails
  <2>1. run' \in RunState
    BY <1>4 DEF CompactFails
  <2> QED BY <1>4, <2>1 DEF CompactFails
<1>5. CASE CapacityRetry
  BY <1>5 DEF CapacityRetry
<1>6. CASE Throw
  BY <1>6 DEF Throw
<1>7. CASE Interrupted
  <2> DEFINE n == IF Recovery = "steer" THEN run.accepted ELSE run.recovered
  <2>1. n \in Nat /\ run.restarts + 1 \in Nat
    OBVIOUS
  <2>2. run' = [run EXCEPT !.restarts = run.restarts + 1, !.recovered = n]
    BY <1>7 DEF Interrupted
  <2> HIDE DEF n
  <2>3. run' \in RunState
    BY <2>1, <2>2
  <2> QED BY <1>7, <2>3 DEF Interrupted
<1>8. CASE Restart \/ RestartFails
  BY <1>8 DEF Restart, RestartFails
<1>9. CASE Resume
  <2>1. run' \in RunState
    BY <1>9 DEF Resume, ResumeTries
  <2> QED BY <1>9, <2>1 DEF Resume
<1>10. ASSUME NEW r \in Result, AttemptEnds(r) PROVE TypeOK'
  BY <1>10 DEF AttemptEnds
<1>11. ASSUME NEW r \in Result, AttemptThrows(r) PROVE TypeOK'
  BY <1>11 DEF AttemptThrows
<1>12. CASE Close
  BY <1>12 DEF Close
<1> QED
  BY <1>1, <1>2, <1>3, <1>40, <1>4, <1>5, <1>6, <1>7, <1>8, <1>9, <1>10, <1>11, <1>12 DEF LoopStep

\* steerRunWithRetry, one try with the text of c at the run r.
LEMMA TryType ==
    ASSUME TypeOK, NEW r \in RunState, NEW c \in Call, Accept(r, c) \/ Retry(r, c)
    PROVE  /\ run' \in RunState /\ steering' \subseteq Call
           /\ pending' \subseteq Steers /\ taken' \subseteq Steers /\ queued' \subseteq Steers
<1> USE DEF TypeOK, Call
<1>1. CASE Accept(r, c)
  <2>1. r.prompt \cup c.text \in SUBSET Steers /\ r.accepted + 1 \in Nat
    BY DEF RunState
  <2>2. run' = [r EXCEPT !.prompt = r.prompt \cup c.text, !.accepted = r.accepted + 1, !.hit = TRUE]
    BY <1>1 DEF Accept
  <2>3. run' \in RunState
    BY <2>1, <2>2 DEF RunState
  <2> QED BY <1>1, <2>3 DEF Accept
<1>2. CASE Retry(r, c)
  <2>1. CASE c.tries > 0
    <3>1. [c EXCEPT !.tries = c.tries - 1] \in Call
      BY <2>1, LiveRunAssumption DEF LiveRunAssumption
    <3> QED BY <1>2, <2>1, <3>1 DEF Retry
  <2> QED BY <1>2, <2>1 DEF Retry
<1> QED BY <1>1, <1>2

\* Every step keeps the types.
LEMMA TypeStep == TypeOK /\ (stage # "idle" => no > 0) /\ [Next]_vars => TypeOK'
<1> SUFFICES ASSUME TypeOK, stage # "idle" => no > 0, [Next]_vars PROVE TypeOK'
  OBVIOUS
<1> USE DEF TypeOK
<1>1. CASE UNCHANGED vars
  BY <1>1 DEF vars
<1>2. CASE Start
  <2>1. NewRun \in RunState
    BY LiveRunAssumption DEF LiveRunAssumption, NewRun, RunState, Result, ResumeTries
  <2> QED BY <1>2, <2>1, LiveRunAssumption DEF LiveRunAssumption, Start, messages, Stage
<1>3. CASE StartRefused \/ StartFails
  BY <1>3 DEF StartRefused, StartFails, messages, Stage
<1>4. CASE Launch
  <2>0. [run EXCEPT !.hit = run.stop] \in RunState
    BY DEF RunState
  <2>1. CASE pending = {}
    <3>1. run' \in RunState /\ run.told \subseteq Steers
      BY <1>4, <2>0, <2>1 DEF Launch, RunState
    <3> QED BY <1>4, <2>1, <3>1 DEF Launch, Stage
  <2>2. CASE pending # {}
    <3>1. NewCall(pending, TRUE) \in Call
      BY <1>4, LiveRunAssumption DEF LiveRunAssumption, Launch, NewCall, Call
    <3>2. Accept([run EXCEPT !.hit = run.stop], NewCall(pending, TRUE))
            \/ Retry([run EXCEPT !.hit = run.stop], NewCall(pending, TRUE))
      BY <1>4, <2>2 DEF Launch, FirstTry
    <3>3. run.told \subseteq Steers
      BY DEF RunState
    <3> QED BY <1>4, <2>0, <3>1, <3>2, <3>3, TryType DEF Launch, Stage
  <2> QED BY <2>1, <2>2
<1>5. CASE LoopStep /\ ~Launch
  BY <1>5, RunTypeStep DEF LoopStep
<1>6. ASSUME NEW r \in Result, AttemptEnds(r) \/ AttemptThrows(r) PROVE TypeOK'
  BY <1>6, RunTypeStep
<1>7. CASE Interrupt
  BY <1>7 DEF Interrupt, messages, RunState
<1>8. ASSUME NEW s \in Steers, Steer(s) PROVE TypeOK'
  <2>1. CASE HasController
    <3>1. NewCall({s}, FALSE) \in Call
      BY <2>1, LiveRunAssumption DEF LiveRunAssumption, HasController, NewCall, Call
    <3>2. Accept(run, NewCall({s}, FALSE)) \/ Retry(run, NewCall({s}, FALSE))
      BY <1>8, <2>1 DEF Steer, FirstTry, HasController, Finalizing
    <3> QED BY <1>8, <2>1, <3>1, <3>2, TryType DEF Steer, HasController, Finalizing
  <2> QED BY <1>8, <2>1 DEF Steer
<1>9. ASSUME NEW c \in steering, SteerAgain(c) PROVE TypeOK'
  BY <1>9, TryType DEF SteerAgain
<1>10. ASSUME NEW c \in steering, SteerRefused(c) PROVE TypeOK'
  BY <1>10 DEF SteerRefused, Call
<1>11. CASE Requeue \/ Forget
  BY <1>11 DEF Requeue, Forget
<1> QED BY <1>1, <1>2, <1>3, <1>4, <1>5, <1>6, <1>7, <1>8, <1>9, <1>10, <1>11 DEF Next, Done

-----------------------------------------------------------------------------
(* What a run pays for its attempts *)

\* A try takes the steer, or leaves the prompt alone; the rest of the run is
\* left alone by both.
LEMMA TryRun ==
    ASSUME NEW r \in RunState, NEW c \in Call, Accept(r, c) \/ Retry(r, c)
    PROVE  /\ \/ run'.prompt = r.prompt \cup c.text /\ run'.accepted = r.accepted + 1
              \/ run'.prompt = r.prompt /\ run'.accepted = r.accepted
           /\ run'.next = r.next /\ run'.told = r.told /\ run'.recovered = r.recovered
           /\ run'.restarts = r.restarts /\ run'.windows = r.windows
           /\ run'.corruptions = r.corruptions /\ run'.capacity = r.capacity
           /\ run'.resumes = r.resumes /\ run'.attempts = r.attempts
           /\ run'.stop = r.stop /\ run'.result = r.result
BY DEF Accept, Retry, RunState

\* The steps that may try a steer change nothing else of the run.
LEMMA StepTries ==
    ASSUME TypeOK, stage # "idle" => no > 0,
           \/ Launch
           \/ \E s \in Steers : Steer(s)
           \/ \E c \in steering : SteerAgain(c)
    PROVE  /\ \/ run'.prompt = run.prompt /\ run'.accepted = run.accepted
              \/ run'.accepted = run.accepted + 1 /\ HasController'
           /\ run'.next = run.next /\ run'.told = run.told /\ run'.recovered = run.recovered
           /\ run'.restarts = run.restarts /\ run'.windows = run.windows
           /\ run'.corruptions = run.corruptions /\ run'.capacity = run.capacity
           /\ run'.resumes = run.resumes /\ run'.attempts = run.attempts
           /\ run'.stop = run.stop /\ run'.result = run.result
<1> USE DEF TypeOK
<1>1. CASE Launch
  <2>1. CASE pending = {}
    BY <1>1, <2>1 DEF Launch, RunState
  <2>2. CASE pending # {}
    <3> DEFINE r == [run EXCEPT !.hit = run.stop]
               c == NewCall(pending, TRUE)
    <3>1. c \in Call
      BY <1>1, LiveRunAssumption DEF LiveRunAssumption, Launch, NewCall, Call
    <3>2. /\ r \in RunState /\ r.prompt = run.prompt /\ r.accepted = run.accepted
          /\ r.next = run.next /\ r.told = run.told /\ r.recovered = run.recovered
          /\ r.restarts = run.restarts /\ r.windows = run.windows
          /\ r.corruptions = run.corruptions /\ r.capacity = run.capacity
          /\ r.resumes = run.resumes /\ r.attempts = run.attempts
          /\ r.stop = run.stop /\ r.result = run.result
      BY DEF RunState
    <3>3. Accept(r, c) \/ Retry(r, c)
      BY <1>1, <2>2 DEF Launch, FirstTry
    <3>4. HasController'
      BY <1>1 DEF Launch, HasController
    <3> HIDE DEF r, c
    <3> QED BY <3>1, <3>2, <3>3, <3>4, TryRun
  <2> QED BY <2>1, <2>2
<1>2. ASSUME NEW s \in Steers, Steer(s), run' # run
      PROVE  /\ HasController /\ HasController' /\ NewCall({s}, FALSE) \in Call
             /\ Accept(run, NewCall({s}, FALSE)) \/ Retry(run, NewCall({s}, FALSE))
  <2>1. /\ HasController /\ HasController'
        /\ Accept(run, NewCall({s}, FALSE)) \/ Retry(run, NewCall({s}, FALSE))
    BY <1>2 DEF Steer, FirstTry, HasController, Finalizing
  <2> QED BY <2>1, LiveRunAssumption DEF LiveRunAssumption, HasController, NewCall, Call
<1>3. ASSUME NEW s \in Steers, Steer(s), run' # run
      PROVE  HasController' /\ \E c \in Call : Accept(run, c) \/ Retry(run, c)
  BY <1>3, <1>2
<1>4. ASSUME NEW c \in steering, SteerAgain(c)
      PROVE  (Accept(run, c) /\ HasController') \/ Retry(run, c)
  BY <1>4 DEF SteerAgain, HasController
<1>5. ASSUME NEW r \in RunState, NEW c \in Call, Retry(r, c) PROVE run' = r
  BY <1>5 DEF Retry
<1>6. run \in RunState /\ steering \subseteq Call
  OBVIOUS
<1>7. CASE \E s \in Steers : Steer(s) /\ run' # run
  <2>1. PICK c \in Call : HasController' /\ (Accept(run, c) \/ Retry(run, c))
    BY <1>3, <1>7
  <2> QED BY <2>1, <1>6, TryRun
<1>8. CASE \E c \in steering : SteerAgain(c)
  <2>1. PICK c \in steering : (Accept(run, c) /\ HasController') \/ Retry(run, c)
    BY <1>4, <1>8
  <2> QED BY <2>1, <1>5, <1>6, TryRun
<1> QED BY <1>1, <1>7, <1>8

\* Every step pays for the attempt it starts.
LEMMA PaidStep ==
    ASSUME TypeOK, AttemptsPaid, BufferKept, [Next]_vars
    PROVE  AttemptsPaid'
<1> USE DEF TypeOK, RunState, AttemptsPaid, Paid, UpstreamTries, ResumeTries
<1>2. CASE Start
  BY <1>2 DEF Start, NewRun
<1>3. CASE StartRefused \/ StartFails
  BY <1>3 DEF StartRefused, StartFails
<1>14. CASE Activate \/ Compacted
  BY <1>14 DEF Activate, Compacted
<1>4. CASE Loop
  <2>1. CASE run.stop
    BY <1>4, <2>1 DEF Loop
  <2>2. CASE ~run.stop
    <3>1. stage = "top" /\ stage' = "launching" /\ run'.attempts = run.attempts + 1
      BY <1>4, <2>2 DEF Loop
    <3>2. Paid' = Paid /\ run'.restarts = run.restarts /\ run'.recovered = run.recovered
          /\ run'.accepted = run.accepted
      BY <1>4, <2>2 DEF Loop
    <3>3. run.attempts \in Nat /\ Paid \in Nat
      BY LiveRunAssumption DEF LiveRunAssumption
    <3> HIDE DEF Paid
    <3> QED BY <3>1, <3>2, <3>3
  <2> QED BY <2>1, <2>2
<1>5. CASE Compact
  BY <1>5 DEF Compact, CanCompact
<1>6. CASE CompactFails
  BY <1>6 DEF CompactFails
<1>7. CASE CapacityRetry
  BY <1>7 DEF CapacityRetry
<1>8. CASE Interrupted
  BY <1>8 DEF Interrupted, Recovery
<1>9. CASE Resume
  BY <1>9 DEF Resume
<1>10. CASE Throw \/ Restart \/ RestartFails
  BY <1>10 DEF Throw, Restart, RestartFails
<1>11. CASE Interrupt
  BY <1>11 DEF Interrupt
<1>12. ASSUME NEW r \in Result, AttemptEnds(r) \/ AttemptThrows(r) PROVE AttemptsPaid'
  BY <1>12 DEF AttemptEnds, AttemptThrows
<1>13. CASE Close
  BY <1>13 DEF Close
<1>15. CASE Launch \/ (\E s \in Steers : Steer(s)) \/ (\E c \in steering : SteerAgain(c))
  <2>1. stage' = stage \/ stage' = "live"
    BY <1>15 DEF Launch, Steer, SteerAgain
  <2> QED BY <1>15, <2>1, StepTries DEF BufferKept
<1>16. CASE (\E c \in steering : SteerRefused(c)) \/ Requeue \/ Forget \/ UNCHANGED vars
  BY <1>16 DEF SteerRefused, Requeue, Forget, vars
<1> HIDE DEF TypeOK, RunState, AttemptsPaid, Paid
<1> QED
  BY <1>2, <1>3, <1>4, <1>5, <1>6, <1>7, <1>8, <1>9, <1>10, <1>11, <1>12, <1>13, <1>14, <1>15, <1>16
  DEF Next, LoopStep, Done

-----------------------------------------------------------------------------
(* An answer has heard every steer *)

\* Every step keeps the prompts of the run in agreement.
LEMMA PromptStep ==
    ASSUME TypeOK, AttemptsPaid, PromptsAgree, AnswerHeardSteers, BufferKept, [Next]_vars
    PROVE  PromptsAgree' /\ AnswerHeardSteers'
<1> USE DEF TypeOK, RunState, PromptsAgree, AnswerHeardSteers, Finalizing
<1>1. CASE Start
  BY <1>1 DEF Start, NewRun
<1>2. CASE StartRefused \/ StartFails
  BY <1>2 DEF StartRefused, StartFails
<1>3. CASE Activate
  BY <1>3 DEF Activate
<1>4. CASE Compacted
  BY <1>4 DEF Compacted
<1>5. CASE Loop
  <2>1. CASE run.stop
    BY <1>5, <2>1 DEF Loop
  <2>2. CASE ~run.stop
    BY <1>5, <2>2 DEF Loop
  <2> QED BY <2>1, <2>2
<1>6. CASE Compact
  BY <1>6 DEF Compact, CanCompact
<1>7. CASE CompactFails
  BY <1>7 DEF CompactFails
<1>8. CASE CapacityRetry
  BY <1>8 DEF CapacityRetry
<1>9. CASE Interrupted
  BY <1>9 DEF Interrupted
<1>10. CASE Resume
  BY <1>10 DEF Resume, Recovery, AttemptsPaid
<1>11. CASE Throw \/ RestartFails
  BY <1>11 DEF Throw, RestartFails
<1>12. CASE Restart
  BY <1>12 DEF Restart
<1>13. CASE Interrupt
  BY <1>13 DEF Interrupt
<1>14. ASSUME NEW r \in Result, AttemptEnds(r) PROVE PromptsAgree' /\ AnswerHeardSteers'
  BY <1>14 DEF AttemptEnds
<1>15. ASSUME NEW r \in Result, AttemptThrows(r) PROVE PromptsAgree' /\ AnswerHeardSteers'
  BY <1>15 DEF AttemptThrows
<1>16. CASE Close
  BY <1>16 DEF Close
<1>17. CASE Launch \/ (\E s \in Steers : Steer(s)) \/ (\E c \in steering : SteerAgain(c))
  <2>1. \/ stage' = stage /\ heard' = heard
        \/ stage = "launching" /\ stage' = "live" /\ heard' = heard \cup run.told
    BY <1>17 DEF Launch, Steer, SteerAgain
  <2>2. run.accepted \in Nat /\ run.recovered \in Nat /\ run.recovered <= run.accepted
    BY DEF AttemptsPaid
  <2> QED BY <1>17, <2>1, <2>2, StepTries DEF BufferKept, HasController
<1>18. CASE (\E c \in steering : SteerRefused(c)) \/ Requeue \/ Forget \/ UNCHANGED vars
  BY <1>18 DEF SteerRefused, Requeue, Forget, vars
<1> HIDE DEF TypeOK, RunState, PromptsAgree, AnswerHeardSteers, Finalizing
<1> QED
  BY <1>1, <1>2, <1>3, <1>4, <1>5, <1>6, <1>7, <1>8, <1>9, <1>10, <1>11, <1>12, <1>13, <1>14, <1>15, <1>16, <1>17, <1>18
  DEF Next, LoopStep, Done

-----------------------------------------------------------------------------
(* No steer a run took is dropped *)

\* What one try does to the buffer, the queue and the calls.
LEMMA TryKeeps ==
    ASSUME NEW r \in RunState, NEW c \in Call, Accept(r, c) \/ Retry(r, c)
    PROVE  /\ \/ taken' = taken \cup c.text /\ c.text \subseteq run'.prompt
                 /\ pending' = IF c.flush THEN {} ELSE pending
              \/ taken' = taken /\ pending' = pending
           /\ queued \subseteq queued' /\ r.prompt \subseteq run'.prompt
           /\ \A d \in steering' :
                d \in steering \/ (d.text = c.text /\ d.flush = c.flush /\ d.no = c.no)
<1>1. CASE Accept(r, c)
  BY <1>1 DEF Accept, RunState
<1>2. CASE Retry(r, c)
  BY <1>2 DEF Retry, Call
<1> QED BY <1>1, <1>2

\* A steer tried by the call c of the present run, or not tried at all.
LEMMA TryStep ==
    ASSUME TypeOK, BufferKept, NothingDropped, NEW r \in RunState, NEW c \in Call,
           r.prompt = run.prompt, c.no = no, Accept(r, c) \/ Retry(r, c),
           c.flush => pending \subseteq c.text \cup excused,
           UNCHANGED <<no, cleanup, excused>>, stage' \in {"live", stage},
           stage \notin {"idle", "starting"}, heard \subseteq heard'
    PROVE  BufferKept' /\ NothingDropped'
<1>1. /\ queued \subseteq queued' /\ run.prompt \subseteq run'.prompt
      /\ pending' \subseteq pending
      /\ taken' \subseteq taken \cup run'.prompt
      /\ pending \subseteq pending' \cup run'.prompt \cup excused
  BY TryKeeps
<1>2. \A d \in steering' :
         d \in steering \/ (d.text = c.text /\ d.flush = c.flush /\ d.no = no)
  BY TryKeeps
<1>3. BufferKept'
  <2>1. stage' \notin {"idle", "starting"} /\ no' > 0
    BY DEF BufferKept
  <2>2. \A d \in steering' : d.no <= no'
    BY <1>2, <2>1 DEF BufferKept, TypeOK
  <2>3. ASSUME NEW d \in steering', d.flush, d.no = no'
        PROVE  pending' \subseteq d.text \cup excused'
    BY <1>1, <1>2, <2>3 DEF BufferKept
  <2>4. cleanup' = "delete" => pending' \subseteq queued' \cup excused'
    BY <1>1 DEF BufferKept
  <2> QED BY <2>1, <2>2, <2>3, <2>4 DEF BufferKept
<1>4. NothingDropped'
  BY <1>1 DEF NothingDropped
<1> QED BY <1>3, <1>4

\* Every step keeps the steers a run took.
LEMMA KeptStep ==
    ASSUME TypeOK, PromptsAgree, AnswerHeardSteers, BufferKept, NothingDropped, [Next]_vars
    PROVE  BufferKept' /\ NothingDropped'
<1>1. CASE Start
  <2>1. UNCHANGED <<messages, heard, excused>> /\ stage = "idle" /\ stage' = "starting"
        /\ no' = no + 1 /\ run' = NewRun /\ no \in Nat
    BY <1>1 DEF Start, TypeOK
  <2>2. \A c \in steering : c.no \in Nat /\ c.no <= no
    BY DEF BufferKept, TypeOK, Call
  <2>3. \A c \in steering' : c.no <= no' /\ c.no # no'
    BY <2>1, <2>2 DEF messages
  <2>4. BufferKept'
    BY <2>1, <2>3 DEF messages, BufferKept
  <2>5. run.prompt \subseteq heard \cup excused
    BY <2>1 DEF BufferKept
  <2> QED BY <2>1, <2>4, <2>5 DEF messages, NothingDropped
<1>2. CASE StartRefused
  BY <1>2 DEF StartRefused, messages, BufferKept, NothingDropped, NewRun
<1>3. CASE StartFails
  BY <1>3 DEF StartFails, BufferKept, NothingDropped, NewRun
<1>4. CASE LoopStep /\ ~Launch /\ ~Close
  <2>1. UNCHANGED <<no, messages, heard, excused>> /\ stage' \notin {"idle", "starting"}
        /\ stage # "idle"
    BY <1>4 DEF LoopStep, Activate, Loop, Compact, Compacted, CompactFails, CapacityRetry, Throw,
       Interrupted, Restart, RestartFails, Resume
  <2>2. run'.prompt = run.prompt
    BY <1>4 DEF LoopStep, Activate, Loop, Compact, Compacted, CompactFails, CapacityRetry, Throw,
       Interrupted, Restart, RestartFails, Resume, TypeOK, RunState
  <2> QED BY <2>1, <2>2 DEF messages, BufferKept, NothingDropped
<1>5. CASE Interrupt \/ \E r \in Result : AttemptEnds(r) \/ AttemptThrows(r)
  <2>1. UNCHANGED <<no, messages, heard, excused>> /\ stage' \notin {"idle", "starting"}
        /\ stage \notin {"idle", "starting"}
    BY <1>5 DEF Interrupt, Active, AttemptEnds, AttemptThrows
  <2>2. run'.prompt = run.prompt
    BY <1>5 DEF Interrupt, AttemptEnds, AttemptThrows, TypeOK, RunState
  <2> QED BY <2>1, <2>2 DEF messages, BufferKept, NothingDropped
<1>6. CASE Close
  <2>1. run.result = "final" /\ ~run.stop => run.prompt \subseteq heard
    BY <1>6 DEF Close, PromptsAgree, AnswerHeardSteers, Finalizing
  <2>2. run'.prompt \subseteq heard' \cup excused' /\ excused \subseteq excused'
    BY <1>6, <2>1 DEF Close
  <2>3. cleanup' # "delete" \/ pending = {}
    BY <1>6 DEF Close, TypeOK
  <2> QED BY <1>6, <2>2, <2>3 DEF Close, BufferKept, NothingDropped
<1>7. CASE Launch
  <2>0. run \in RunState
    BY DEF TypeOK
  <2>1. CASE pending = {}
    BY <1>7, <2>1, <2>0 DEF Launch, BufferKept, NothingDropped, RunState
  <2>2. CASE pending # {}
    <3> DEFINE r == [run EXCEPT !.hit = run.stop]
               c == NewCall(pending, TRUE)
    <3>1. c \in Call /\ c.no = no /\ c.text = pending
      BY <1>7, LiveRunAssumption DEF LiveRunAssumption, Launch, NewCall, Call, TypeOK, BufferKept
    <3>2. r \in RunState /\ r.prompt = run.prompt
      BY <2>0 DEF RunState
    <3>3. Accept(r, c) \/ Retry(r, c)
      BY <1>7, <2>2 DEF Launch, FirstTry
    <3> HIDE DEF r, c
    <3> QED BY <1>7, <3>1, <3>2, <3>3, TryStep DEF Launch
  <2> QED BY <2>1, <2>2
<1>8. ASSUME NEW s \in Steers, Steer(s) PROVE BufferKept' /\ NothingDropped'
  <2>1. CASE HasController
    <3> DEFINE c == NewCall({s}, FALSE)
    <3>1. c \in Call /\ c.no = no /\ ~c.flush
      BY <2>1, LiveRunAssumption DEF LiveRunAssumption, HasController, NewCall, Call, TypeOK, BufferKept
    <3>2. Accept(run, c) \/ Retry(run, c)
      BY <1>8, <2>1 DEF Steer, FirstTry, HasController, Finalizing
    <3>3. UNCHANGED <<no, stage, cleanup, heard, excused>> /\ run \in RunState
      BY <1>8, <2>1 DEF Steer, HasController, Finalizing, TypeOK
    <3> HIDE DEF c
    <3> QED BY <2>1, <3>1, <3>2, <3>3, TryStep DEF HasController
  <2>2. CASE ~HasController /\ (stage = "idle" \/ Finalizing)
    BY <1>8, <2>2 DEF Steer, BufferKept, NothingDropped, HasController
  <2>3. CASE ~HasController /\ stage # "idle" /\ ~Finalizing
    BY <1>8, <2>3 DEF Steer, BufferKept, NothingDropped, HasController, Flushing, TypeOK
  <2> QED BY <2>1, <2>2, <2>3
<1>9. ASSUME NEW c \in steering, SteerAgain(c) PROVE BufferKept' /\ NothingDropped'
  <2>1. run \in RunState /\ c \in Call /\ c.no = no /\ stage \notin {"idle", "starting"}
    BY <1>9 DEF SteerAgain, Steerable, Active, TypeOK
  <2>2. c.flush => pending \subseteq c.text \cup excused
    BY <2>1 DEF BufferKept
  <2>3. (Accept(run, c) \/ Retry(run, c)) /\ UNCHANGED <<no, stage, cleanup, heard, excused>>
    BY <1>9 DEF SteerAgain
  <2> QED BY <2>1, <2>2, <2>3, TryStep
<1>10. ASSUME NEW c \in steering, SteerRefused(c) PROVE BufferKept' /\ NothingDropped'
  BY <1>10 DEF SteerRefused, BufferKept, NothingDropped
<1>11. CASE Requeue
  BY <1>11 DEF Requeue, BufferKept, NothingDropped
<1>12. CASE Forget
  BY <1>12 DEF Forget, BufferKept, NothingDropped
<1>13. CASE UNCHANGED vars
  BY <1>13 DEF vars, BufferKept, NothingDropped
<1> QED
  BY <1>1, <1>2, <1>3, <1>4, <1>5, <1>6, <1>7, <1>8, <1>9, <1>10, <1>11, <1>12, <1>13 DEF Next, Done

-----------------------------------------------------------------------------
(* The theorems *)

\* The inductive invariant holds.
LEMMA RunInvInvariant == Spec => []RunInv
<1>1. Init => RunInv
  <2> SUFFICES ASSUME Init PROVE RunInv
    OBVIOUS
  <2>1. NewRun \in RunState /\ TypeOK
    BY LiveRunAssumption DEF LiveRunAssumption, Init, TypeOK, NewRun, RunState, Stage, Result, ResumeTries
  <2> QED BY <2>1 DEF Init, NewRun, RunInv, AttemptsPaid, Paid, UpstreamTries, PromptsAgree,
          AnswerHeardSteers, Finalizing, BufferKept, NothingDropped
<1>2. RunInv /\ [Next]_vars => RunInv'
  BY TypeStep, PaidStep, PromptStep, KeptStep DEF RunInv, BufferKept
<1> QED BY <1>1, <1>2, PTL DEF Spec

\* executeRunAttempts: a run that ends with an answer has given every steer it
\* took to its last child, for any number of steers, tries and recoveries.
THEOREM AnswersHaveHeardSteers == Spec => []AnswerHeardSteers
<1>1. RunInv => AnswerHeardSteers
  BY DEF RunInv
<1> QED BY <1>1, RunInvInvariant, PTL

\* executeRunAttempts: every attempt but the first was paid for, and the
\* budgets and the steers taken bound them all.
THEOREM AttemptsAreBounded == Spec => []AttemptsBounded
<1>1. RunInv => AttemptsBounded
  <2> SUFFICES ASSUME RunInv PROVE AttemptsBounded
    OBVIOUS
  <2>1. run \in RunState /\ run.attempts <= 1 + Paid
        /\ run.restarts <= UpstreamTries + run.recovered /\ run.recovered <= run.accepted
    BY DEF RunInv, TypeOK, AttemptsPaid
  <2> QED BY <2>1, LiveRunAssumption
          DEF LiveRunAssumption, RunState, Paid, AttemptsBounded, ResumeTries, UpstreamTries
<1> QED BY <1>1, RunInvInvariant, PTL

\* steerActiveRun, steerRunWithRetry, requeuePendingLiveSteer: a message the user
\* was told is taken by the run is in a prompt, in the buffer or in the durable
\* queue, unless it belongs to the excepted cases NothingDropped names.
THEOREM NoSteerIsDropped == Spec => []NothingDropped
<1>1. RunInv => NothingDropped
  BY DEF RunInv
<1> QED BY <1>1, RunInvInvariant, PTL
=============================================================================

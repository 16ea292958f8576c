----------------------------- MODULE RolloutCommand ---------------------------
(***************************************************************************)
(* The command by which the operator has the service replaced by a new     *)
(* generation, the record through which it and the generations speak       *)
(* (rollout-coordination.json), and the part the generations take in it.   *)
(*                                                                         *)
(* A command looks for the leader, then reads the record, and starts a     *)
(* rollout, resumes one, waits for one or refuses.  It writes the request  *)
(* and signals the leader, which writes the request again with the name of *)
(* the replacement, spawns it, waits until it is ready, writes that the    *)
(* rollout is in progress and steps down.  The command waits until the     *)
(* replacement leads.  The new leader completes the record when the old    *)
(* one is gone.                                                            *)
(*                                                                         *)
(* A store serialises the writes of its own process only.  What a write    *)
(* takes over from the record it read is the retiring generation, and only *)
(* a request does so: that read is a step of its own.                      *)
(***************************************************************************)
EXTENDS Naturals

CONSTANTS
    Ops,        \* commands, given once each
    MaxGen,     \* bound: generations, named in the order of their making
    MaxFaults,  \* bound: generations that crash or are stopped
    None        \* no generation

Generations == 1..MaxGen

VARIABLES
    file,       \* the record: status and the generations it names
    life,       \* what a generation is
    lease,      \* the generation that holds the lease of the leader
    ctl,        \* the controller of a generation: its step, its target, what it read
    wanted,     \* a signal came that no rollout has answered
    settling,   \* reconcileRolloutState has read a rollout of this generation that is over
    cmd,        \* a command: its step, the leader it found, whom not to wait for,
                \* the target it read and the retiring generation it read
    told,       \* what a command has told: how, and the generation it named
    led,        \* history: who took the lead since a command looked
    faults,     \* generations that crashed or were stopped
    lost        \* history: a generation of an unsettled record went down, or a
                \* request was written in the name of one that had stepped down

vars == <<file, life, lease, ctl, wanted, settling, cmd, told, led, faults, lost>>

GenOrNone == Generations \cup {None}
Settling == {"requested", "in_progress"}
Live == {g \in Generations : life[g] \in {"starting", "ready", "leader", "retiring", "stopping"}}

Record(status, current, target, retiring) ==
    [status |-> status, current |-> current, target |-> target, retiring |-> retiring]

\* buildEmptyRolloutCoordinationState
Empty == Record("idle", None, None, None)

\* requestRollout: all but the retiring generation is new.
Request(current, target, read) == Record("requested", current, target, read)

Idle == [pc |-> "idle", target |-> None, read |-> None]
Fresh == [pc |-> "idle", leader |-> None, not |-> None, target |-> None, read |-> None]

Go(o, where) == cmd' = [cmd EXCEPT ![o].pc = where]
Step(g, where) == ctl' = [ctl EXCEPT ![g].pc = where]

Tell(o, how, g) ==
    /\ told' = [told EXCEPT ![o] = [how |-> how, gen |-> g]]
    /\ Go(o, "over")

\* loadLiveLeaderGeneration: the lease is live and its holder answers.  One that
\* is shutting down may have stopped to.
LeaderIs(g) == lease = g /\ life[g] \in {"leader", "retiring", "stopping"}
NoLeader == \A g \in Generations : lease = g => life[g] \notin {"leader", "retiring"}

\* A generation goes down that the record needs.
Needs(g) == file.status \in Settling /\ g \in {file.current, file.target}

(***************************************************************************)
(* The generations                                                         *)
(***************************************************************************)
\* systemd starts the service when no process of it is left.
Boot(g) ==
    /\ Live = {} /\ life[g] = "none" /\ \A h \in 1..(g - 1) : life[h] # "none"
    /\ life' = [life EXCEPT ![g] = "starting"]
    /\ UNCHANGED <<file, lease, ctl, wanted, settling, cmd, told, led, faults, lost>>

GetReady(g) ==
    /\ life[g] = "starting" /\ life' = [life EXCEPT ![g] = "ready"]
    /\ UNCHANGED <<file, lease, ctl, wanted, settling, cmd, told, led, faults, lost>>

Acquire(g) ==
    /\ life[g] = "ready" /\ \A h \in Generations : lease = h => life[h] = "dead"
    /\ life' = [life EXCEPT ![g] = "leader"]
    /\ lease' = g
    /\ led' = [o \in Ops |-> led[o] \cup {g}]
    /\ UNCHANGED <<file, ctl, wanted, settling, cmd, told, faults, lost>>

\* retire and performShutdown give the lease back, some time after.
Release(g) ==
    /\ life[g] \in {"retiring", "stopping"} /\ lease = g
    /\ lease' = None
    /\ UNCHANGED <<file, life, ctl, wanted, settling, cmd, told, led, faults, lost>>

\* No run is left in a generation that has retired.
Drain(g) ==
    /\ life[g] = "retiring" /\ life' = [life EXCEPT ![g] = "stopping"]
    /\ UNCHANGED <<file, lease, ctl, wanted, settling, cmd, told, led, faults, lost>>

\* A process that has something to wait for does not end.
Exit(g) ==
    /\ life[g] = "stopping" /\ lease # g /\ ctl[g].pc = "idle"
    /\ life' = [life EXCEPT ![g] = "dead"]
    /\ settling' = [settling EXCEPT ![g] = FALSE]
    /\ UNCHANGED <<file, lease, ctl, wanted, cmd, told, led, faults, lost>>

Crash(g) ==
    /\ g \in Live /\ faults < MaxFaults
    /\ faults' = faults + 1
    /\ life' = [life EXCEPT ![g] = "dead"]
    /\ ctl' = [ctl EXCEPT ![g] = Idle]
    /\ settling' = [settling EXCEPT ![g] = FALSE]
    /\ lost' = (lost \/ Needs(g))
    /\ UNCHANGED <<file, lease, wanted, cmd, told, led>>

\* A signal asks the process to stop: what its controller does goes on.
Stop(g) ==
    /\ g \in Live /\ life[g] # "stopping" /\ faults < MaxFaults
    /\ faults' = faults + 1
    /\ life' = [life EXCEPT ![g] = "stopping"]
    /\ lost' = (lost \/ Needs(g))
    /\ UNCHANGED <<file, lease, ctl, wanted, settling, cmd, told, led>>

(***************************************************************************)
(* The controller of a generation                                          *)
(***************************************************************************)
\* maybeStartRollout: of the leader, one at a time.
Begin(g) ==
    /\ life[g] = "leader" /\ wanted[g] /\ ctl[g].pc = "idle"
    /\ ctl' = [ctl EXCEPT ![g] = [Idle EXCEPT !.pc = "request", !.read = file.retiring]]
    /\ UNCHANGED <<file, life, lease, wanted, settling, cmd, told, led, faults, lost>>

\* The request is written again, with the name of the replacement.
RequestByLeader(g) ==
    /\ g \in Live /\ ctl[g].pc = "request"
    /\ \E t \in Generations :
        /\ life[t] = "none" /\ \A h \in 1..(t - 1) : life[h] # "none"
        /\ file' = Request(g, t, ctl[g].read)
        /\ life' = [life EXCEPT ![t] = "named"]
        /\ ctl' = [ctl EXCEPT ![g].pc = "spawn", ![g].target = t]
    /\ UNCHANGED <<lease, wanted, settling, cmd, told, led, faults, lost>>

Spawn(g) ==
    /\ g \in Live /\ ctl[g].pc = "spawn" /\ Step(g, "wait")
    /\ life' = [life EXCEPT ![ctl[g].target] = "starting"]
    /\ UNCHANGED <<file, lease, wanted, settling, cmd, told, led, faults, lost>>

\* The replacement is ready: the sessions are marked, and then it is written.
Ready(g) ==
    /\ g \in Live /\ ctl[g].pc = "wait" /\ Step(g, "start")
    /\ life[ctl[g].target] \in {"ready", "leader"}
    /\ UNCHANGED <<file, life, lease, wanted, settling, cmd, told, led, faults, lost>>

\* It cannot be started, is not ready in time, or its sessions cannot be marked.
NotReady(g) ==
    /\ g \in Live /\ ctl[g].pc \in {"spawn", "wait", "start"} /\ Step(g, "fail")
    /\ life' = [life EXCEPT ![ctl[g].target] =
            IF @ \in {"named", "dead"} THEN @ ELSE "stopping"]
    /\ UNCHANGED <<file, lease, wanted, settling, cmd, told, led, faults, lost>>

Answered(g) ==
    /\ ctl' = [ctl EXCEPT ![g] = Idle]
    /\ wanted' = [wanted EXCEPT ![g] = FALSE]

\* startRollout and retire; a process that is being stopped does not retire.
StartRollout(g) ==
    /\ g \in Live /\ ctl[g].pc = "start" /\ Answered(g)
    /\ file' = Record("in_progress", ctl[g].target, ctl[g].target, g)
    /\ life' = [life EXCEPT ![g] = IF @ = "leader" THEN "retiring" ELSE @]
    /\ lost' = (lost \/ life[g] # "leader" \/ life[ctl[g].target] \notin {"ready", "leader"})
    /\ UNCHANGED <<lease, settling, cmd, told, led, faults>>

NoRecordOfFailure(g) ==
    /\ g \in Live /\ ctl[g].pc = "fail" /\ Answered(g)
    /\ UNCHANGED <<file, life, lease, settling, cmd, told, led, faults, lost>>

FailRollout(g) ==
    /\ g \in Live /\ ctl[g].pc = "fail" /\ Answered(g)
    /\ file' = Record("failed", g, ctl[g].target, g)
    /\ UNCHANGED <<life, lease, settling, cmd, told, led, faults, lost>>

\* reconcileRolloutState: the old generation is gone, or answers no more.
Reconcile(g) ==
    /\ life[g] = "leader" /\ ~settling[g]
    /\ file.status = "in_progress" /\ file.target = g
    /\ life[file.retiring] \in {"stopping", "dead"}
    /\ settling' = [settling EXCEPT ![g] = TRUE]
    /\ UNCHANGED <<file, life, lease, ctl, wanted, cmd, told, led, faults, lost>>

\* completeRollout writes whatever the record says by now, after a request of
\* the same process that has read it.
Complete(g) ==
    /\ g \in Live /\ settling[g] /\ ctl[g].pc # "request"
    /\ settling' = [settling EXCEPT ![g] = FALSE]
    /\ file' = Record("completed", g, None, None)
    /\ UNCHANGED <<life, lease, ctl, wanted, cmd, told, led, faults, lost>>

Generation ==
    \E g \in Generations :
        \/ Boot(g) \/ GetReady(g) \/ Acquire(g) \/ Release(g) \/ Drain(g) \/ Exit(g)
        \/ Crash(g) \/ Stop(g)
        \/ Begin(g) \/ RequestByLeader(g) \/ Spawn(g) \/ Ready(g) \/ NotReady(g)
        \/ StartRollout(g) \/ FailRollout(g) \/ Reconcile(g) \/ Complete(g)

(***************************************************************************)
(* A command                                                               *)
(***************************************************************************)
Look(o) ==
    /\ cmd[o].pc = "idle"
    /\ led' = [led EXCEPT ![o] = {}]
    /\ \/ \E g \in Generations :
            /\ LeaderIs(g)
            /\ cmd' = [cmd EXCEPT ![o].pc = "load", ![o].leader = g, ![o].not = g]
       \/ NoLeader /\ Go(o, "clear")
    /\ UNCHANGED <<file, life, lease, ctl, wanted, settling, told, faults, lost>>

\* No leader: the record is emptied and the service started anew.
Clear(o) ==
    /\ cmd[o].pc = "clear" /\ Go(o, "restart")
    /\ file' = Empty
    /\ UNCHANGED <<life, lease, ctl, wanted, settling, told, led, faults, lost>>

Restart(o) ==
    /\ cmd[o].pc = "restart" /\ Go(o, "leader")
    /\ life' = [g \in Generations |-> IF g \in Live THEN "stopping" ELSE life[g]]
    /\ lost' = (lost \/ \E g \in Live : Needs(g))
    /\ UNCHANGED <<file, lease, ctl, wanted, settling, told, led, faults>>

AnyLeader(o) ==
    /\ cmd[o].pc = "leader"
    /\ \E g \in Generations : LeaderIs(g) /\ Tell(o, "restarted", g)
    /\ UNCHANGED <<file, life, lease, ctl, wanted, settling, led, faults, lost>>

\* What a command that finds leader l makes of the record.
Chains(l) == file.status = "in_progress" /\ file.target = l
Existing(l) == file.status = "requested" /\ file.target = l
Adopts(l) == file.status \in Settling /\ file.target \notin {None, l}
Resumes(l) ==
    file.status = "requested" /\ file.target = None /\ file.current \in {None, l}
\* An "in_progress" names who retires, so a rollout of l itself can be chained.
Starts(l) == file.status \notin Settling \/ Chains(l)

\* Whom the command that adopts a rollout does not take for its target.
Previous(l) ==
    IF file.retiring # None THEN file.retiring
    ELSE IF file.current \notin {None, file.target} THEN file.current ELSE l

Load(o) ==
    LET l == cmd[o].leader IN
    /\ cmd[o].pc = "load"
    /\ \/ Starts(l) /\ Go(o, "read") /\ UNCHANGED told
       \/ Existing(l) /\ Tell(o, "existing", l)
       \/ /\ Adopts(l) /\ UNCHANGED told
          /\ cmd' = [cmd EXCEPT ![o].pc = "adopt", ![o].not = Previous(l)]
       \/ Resumes(l) /\ Go(o, "signal") /\ UNCHANGED told
       \/ /\ ~(Starts(l) \/ Existing(l) \/ Adopts(l) \/ Resumes(l))
          /\ Tell(o, "refused", l)
    /\ UNCHANGED <<file, life, lease, ctl, wanted, settling, led, faults, lost>>

ReadForRequest(o) ==
    /\ cmd[o].pc = "read"
    /\ cmd' = [cmd EXCEPT ![o].pc = "request", ![o].read = file.retiring]
    /\ UNCHANGED <<file, life, lease, ctl, wanted, settling, told, led, faults, lost>>

RequestByCommand(o) ==
    LET l == cmd[o].leader IN
    /\ cmd[o].pc = "request" /\ Go(o, "signal")
    /\ file' = Request(l, None, cmd[o].read)
    /\ lost' = (lost \/ life[l] # "leader")
    /\ UNCHANGED <<life, lease, ctl, wanted, settling, told, led, faults>>

\* SIGUSR2 to the leader found.  A process that stops does not hear it.
Signal(o) ==
    LET l == cmd[o].leader IN
    /\ cmd[o].pc = "signal"
    /\ IF l \in Live THEN Go(o, "wait") ELSE Go(o, "fail")
    /\ wanted' = [wanted EXCEPT ![l] = @ \/ (l \in Live /\ life[l] # "stopping")]
    /\ UNCHANGED <<file, life, lease, ctl, settling, told, led, faults, lost>>

\* waitForRolloutTrafficShift reads the record ...
Peek(o) ==
    /\ cmd[o].pc \in {"wait", "adopt"} /\ file.status # "failed"
    /\ cmd[o].target # file.target
    /\ cmd' = [cmd EXCEPT ![o].target = file.target]
    /\ UNCHANGED <<file, life, lease, ctl, wanted, settling, told, led, faults, lost>>

Target(o) ==
    /\ cmd[o].pc \in {"wait", "adopt"} /\ cmd[o].target \notin {None, cmd[o].not}

\* ... and looks whether the target leads.
ShiftedToTarget(o) ==
    /\ Target(o) /\ life[cmd[o].target] # "named"
    /\ Tell(o, "shifted", cmd[o].target)
    /\ UNCHANGED <<file, life, lease, ctl, wanted, settling, led, faults, lost>>

Shifted(o) ==
    /\ Target(o) /\ LeaderIs(cmd[o].target)
    /\ Tell(o, "shifted", cmd[o].target)
    /\ UNCHANGED <<file, life, lease, ctl, wanted, settling, led, faults, lost>>

\* The rollout has failed, or it takes too long.
GiveUp(o) ==
    /\ cmd[o].pc = "wait" /\ Go(o, "fail")
    /\ UNCHANGED <<file, life, lease, ctl, wanted, settling, told, led, faults, lost>>

FailByCommand(o) ==
    /\ cmd[o].pc = "fail" /\ Tell(o, "failed", cmd[o].leader)
    /\ file' = Record("failed", cmd[o].leader, None, None)
    /\ UNCHANGED <<life, lease, ctl, wanted, settling, led, faults, lost>>

\* A rollout of another command is not written off; nor is a restart.
GiveUpQuietly(o) ==
    /\ cmd[o].pc \in {"adopt", "leader"} /\ Tell(o, "failed", cmd[o].leader)
    /\ UNCHANGED <<file, life, lease, ctl, wanted, settling, led, faults, lost>>

\* The operator stops the command.
Interrupt(o) ==
    /\ cmd[o].pc \notin {"idle", "over"} /\ Go(o, "over")
    /\ UNCHANGED <<file, life, lease, ctl, wanted, settling, told, led, faults, lost>>

Command ==
    \E o \in Ops :
        \/ Look(o) \/ Clear(o) \/ Restart(o) \/ AnyLeader(o) \/ Load(o) \/ ReadForRequest(o)
        \/ RequestByCommand(o) \/ Signal(o) \/ Peek(o) \/ Shifted(o) \/ GiveUp(o)
        \/ FailByCommand(o) \/ GiveUpQuietly(o) \/ Interrupt(o)

Over ==
    /\ \A o \in Ops : cmd[o].pc = "over"
    /\ UNCHANGED vars

Next == Generation \/ Command \/ Over

Init ==
    /\ file = Empty
    /\ life = [g \in Generations |-> IF g = 1 THEN "leader" ELSE "none"]
    /\ lease = 1
    /\ ctl = [g \in Generations |-> Idle]
    /\ wanted = [g \in Generations |-> FALSE]
    /\ settling = [g \in Generations |-> FALSE]
    /\ cmd = [o \in Ops |-> Fresh]
    /\ told = [o \in Ops |-> [how |-> "nothing", gen |-> None]]
    /\ led = [o \in Ops |-> {}]
    /\ faults = 0
    /\ lost = FALSE

Spec == Init /\ [][Next]_vars

(***************************************************************************)
(* Properties                                                              *)
(***************************************************************************)
\* A command that tells of a new leader has seen one take the lead after it
\* looked, though the records it read were written by others in any order.
ToldLeads ==
    \A o \in Ops : told[o].how = "shifted" => told[o].gen \in led[o]

\* Nothing is going on: one generation, which leads, and no command.
Quiet(l) ==
    /\ LeaderIs(l) /\ life[l] = "leader" /\ Live = {l}
    /\ ctl[l].pc = "idle" /\ ~wanted[l]
    /\ \A g \in Generations : ~settling[g]
    /\ \A o \in Ops : cmd[o].pc = "over"

\* When nothing is going on, the next command starts a rollout or resumes one:
\* whatever two commands, replacements that did not start and late writes have
\* left in the record.  A record that a generation left when it went down in the
\* middle is excepted, and a request for a leader that had stepped down: no
\* generation clears those, and every later command waits for a target that is
\* dead, is told of a rollout that never was, or is refused.
NextCommandStarts ==
    lost \/ \A l \in Generations : Quiet(l) => Starts(l) \/ Resumes(l)

RolloutHolds == ToldLeads /\ NextCommandStarts
===============================================================================

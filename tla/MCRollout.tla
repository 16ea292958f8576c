------------------------------ MODULE MCRollout ------------------------------
(***************************************************************************)
(* The safety of what passes from one process to the next, side by side:   *)
(* the lease of Leadership, the updates of UpdateFeed and the record of    *)
(* RolloutCommand.  Each behaviour is one of a single component, the       *)
(* others stay where they start.  The processes of the first two and the   *)
(* commands are interchangeable.                                           *)
(***************************************************************************)
EXTENDS Leadership, TLC

CONSTANTS
    Gens, Nobody,   \* of UpdateFeed
    Ops             \* of RolloutCommand

VARIABLES
    part,       \* the component a behaviour is of
    feedSent, feedLow, feedSaved, feedLease, feedGen, feedSession, feedRuns,
    feedIpc, feedHandled, feedDropped, feedRepeated, feedLeft, cmdFile, cmdLife,
    cmdLease, cmdCtl, cmdWanted, cmdSettling, cmdCmd, cmdTold, cmdLed, cmdFaults,
    cmdLost

Symmetry == Permutations(Gen) \cup Permutations(Gens) \cup Permutations(Ops)

Feed == INSTANCE UpdateFeed WITH
    MaxUpdate <- 2, Status <- {}, Menu <- {}, Faults <- {"crash", "timeout",
    "stuck", "rollout", "refused", "throw", "probe"}, sent <- feedSent, low <- feedLow, saved
    <- feedSaved, lease <- feedLease, gen <- feedGen, session <- feedSession, runs
    <- feedRuns, ipc <- feedIpc, handled <- feedHandled, dropped <- feedDropped,
    repeated <- feedRepeated, left <- feedLeft

Command == INSTANCE RolloutCommand WITH
    MaxGen <- 3, MaxFaults <- 1, None <- 0, file <- cmdFile, life <- cmdLife, lease
    <- cmdLease, ctl <- cmdCtl, wanted <- cmdWanted, settling <- cmdSettling, cmd <-
    cmdCmd, told <- cmdTold, led <- cmdLed, faults <- cmdFaults, lost <- cmdLost

feedVars == <<feedSent, feedLow, feedSaved, feedLease, feedGen, feedSession,
              feedRuns, feedIpc, feedHandled, feedDropped, feedRepeated, feedLeft>>
cmdVars == <<cmdFile, cmdLife, cmdLease, cmdCtl, cmdWanted, cmdSettling, cmdCmd,
             cmdTold, cmdLed, cmdFaults, cmdLost>>
allRollout == <<part, vars, feedVars, cmdVars>>

RolloutInit ==
    /\ part \in {"leadership", "feed", "command"}
    /\ Init
    /\ Feed!Init
    /\ Command!Init

RolloutNext ==
    \/ /\ part = "leadership" /\ Next
       /\ UNCHANGED <<part, feedVars, cmdVars>>
    \/ /\ part = "feed" /\ Feed!Next
       /\ UNCHANGED <<part, vars, cmdVars>>
    \/ /\ part = "command" /\ Command!Next
       /\ UNCHANGED <<part, vars, feedVars>>

RolloutSpec ==
    /\ RolloutInit /\ [][RolloutNext]_allRollout

\* UpdateFeed: a topic runs in one process, or in ones left behind, and the
\* run that a process has is the one of the session.
OneRunner == part = "feed" => Feed!OneRunner /\ Feed!RunIsRecorded

\* RolloutCommand: a command tells of a leader it has seen take the lead, and
\* the record never keeps the next command from starting a rollout, outside
\* the case NextCommandStarts names.
RolloutIsTold == part = "command" => Command!RolloutHolds

==============================================================================

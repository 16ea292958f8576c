------------------------------- MODULE MCChat -------------------------------
(***************************************************************************)
(* What passes between the user and the gateway, side by side: the prompts *)
(* in Intake, the replies in Delivery, whose properties are checked as     *)
(* they stand, and in ReplyChunks, the menus in Panel, the messages of the *)
(* General topic in GeneralLedger.  Each behaviour is one of a single      *)
(* component, the others stay where they start.                            *)
(***************************************************************************)
EXTENDS Delivery, ReplyShapes

VARIABLES
    part,       \* the component a behaviour is of
    intakeSays, intakeEntries, intakeJobs, intakeStrays, intakeWaits, intakeAgain,
    intakePending, intakeTaken, intakeGone, intakeDown, intakeCommands,
    intakeFaults, chunkReply, chunkNext, chunkPieces, chunkChunks, chunkCurrent,
    panelWhere, panelPosts, panelStore, panelOps, panelGoal, panelAgain,
    panelHeard, panelInputs, panelRaced, panelFaults, generalChat, generalMade,
    generalStuck, generalLedger, generalMenu, generalProc, generalExcused,
    generalCleared, generalMoved

Prompts == INSTANCE Intake WITH
    MaxMessages <- 2, MaxCommands <- 2, MaxFaults <- 1, Kinds <- {"short", "long",
    "word", "file", "caption", "album", "titled", "q", "qlong", "qfile"}, says <-
    intakeSays, entries <- intakeEntries, jobs <- intakeJobs, strays <-
    intakeStrays, waits <- intakeWaits, again <- intakeAgain, pending <-
    intakePending, taken <- intakeTaken, gone <- intakeGone, down <- intakeDown,
    commands <- intakeCommands, faults <- intakeFaults

Split == INSTANCE ReplyChunks WITH
    Limit <- 7, Tags <- 1, Shapes <- RepliesToSplit, reply <- chunkReply, next <-
    chunkNext, pieces <- chunkPieces, chunks <- chunkChunks, current <- chunkCurrent

Menu == INSTANCE Panel WITH
    MaxPosts <- 3, MaxUpdates <- 5, MaxFaults <- 2, where <- panelWhere, posts <-
    panelPosts, store <- panelStore, ops <- panelOps, goal <- panelGoal, again <-
    panelAgain, heard <- panelHeard, inputs <- panelInputs, raced <- panelRaced,
    faults <- panelFaults

General == INSTANCE GeneralLedger WITH
    Procs <- {1, 2}, MaxTracked <- 2, ChunkSize <- 2, MaxMessages <- 3, chat <-
    generalChat, made <- generalMade, stuck <- generalStuck, ledger <-
    generalLedger, menu <- generalMenu, proc <- generalProc, excused <-
    generalExcused, cleared <- generalCleared, moved <- generalMoved

intakeVars == <<intakeSays, intakeEntries, intakeJobs, intakeStrays, intakeWaits,
                intakeAgain, intakePending, intakeTaken, intakeGone, intakeDown,
                intakeCommands, intakeFaults>>
chunkVars == <<chunkReply, chunkNext, chunkPieces, chunkChunks, chunkCurrent>>
panelVars == <<panelWhere, panelPosts, panelStore, panelOps, panelGoal, panelAgain,
               panelHeard, panelInputs, panelRaced, panelFaults>>
generalVars == <<generalChat, generalMade, generalStuck, generalLedger, generalMenu,
                 generalProc, generalExcused, generalCleared, generalMoved>>
allChat == <<part, vars, intakeVars, chunkVars, panelVars, generalVars>>

ChatInit ==
    /\ part \in {"intake", "reply", "chunks", "panel", "ledger"}
    /\ Prompts!Init
    /\ Init
    /\ part = "chunks" \/ chunkReply = Split!Lettered(CHOOSE s \in RepliesToSplit : TRUE)
    /\ Split!Init
    /\ part = "panel" \/ panelWhere = "topic"
    /\ Menu!Init
    /\ General!Init

ChatNext ==
    \/ /\ part = "intake" /\ Prompts!Next
       /\ UNCHANGED <<part, vars, chunkVars, panelVars, generalVars>>
    \/ /\ part = "reply" /\ Next
       /\ UNCHANGED <<part, intakeVars, chunkVars, panelVars, generalVars>>
    \/ /\ part = "chunks" /\ Split!Next
       /\ UNCHANGED <<part, vars, intakeVars, panelVars, generalVars>>
    \/ /\ part = "panel" /\ Menu!Next
       /\ UNCHANGED <<part, vars, intakeVars, chunkVars, generalVars>>
    \/ /\ part = "ledger" /\ General!Next
       /\ UNCHANGED <<part, vars, intakeVars, chunkVars, panelVars>>

ChatSpec ==
    /\ ChatInit /\ [][ChatNext]_allChat

\* Intake: whatever the user sent is kept, or gone in a way that was meant.
NothingLost == part = "intake" => Prompts!NothingLost

\* Intake: a message is taken once, and in the order it was sent.
TakenOnceInOrder == part = "intake" => Prompts!TakenOnceInOrder

\* ReplyChunks: chunks fit, in order, and without loss for paragraphs.
ChunksRead == part = "chunks" => Split!ChunksRead

\* Panel: the input waited for is the one of the message that is the panel.
InputFollowsPanel == part = "panel" => Menu!InputFollowsPanel

\* Panel: an input that is over does not come back.
InputStaysOver == part = "panel" => Menu!InputStaysOver

\* GeneralLedger: what is in the General topic is listed, and /clear spares
\* the menu.
LedgerHolds == part = "ledger" => General!LedgerHolds

==============================================================================

---------------------------- MODULE GeneralLedger ----------------------------
(***************************************************************************)
(* The list of the messages of the General topic, kept so that /clear can  *)
(* delete all but the menu.  The gateway notes what it receives before it  *)
(* handles it, and what it sends after it is sent.  A change reads the     *)
(* file and writes it, one at a time in a process; two processes have the  *)
(* file in common while one takes over from the other.                     *)
(*                                                                         *)
(* A message that is deleted is forgotten two or three times in a row,     *)
(* which is one change here.                                               *)
(***************************************************************************)
EXTENDS Naturals, Sequences, FiniteSets, SequencesExt

CONSTANTS
    Procs,        \* the processes that handle General
    MaxTracked,   \* MAX_TRACKED_MESSAGE_IDS
    ChunkSize,    \* messages deleted with one call
    MaxMessages   \* bound on the messages

VARIABLES
    chat,      \* the messages in General
    made,      \* how many there have been
    stuck,     \* those that cannot be deleted
    ledger,    \* tracked_message_ids
    menu,      \* menu_message_id of the control panel
    proc,      \* what a process does
    excused,   \* history: messages whose note was lost
    cleared,   \* history: messages /clear has deleted
    moved      \* history: a menu was entered after a /clear had read which it was, or
               \* had deleted it

vars == <<chat, made, stuck, ledger, menu, proc, excused, cleared, moved>>

Idle == [at |-> "idle", then |-> "idle", add |-> 0, drop |-> {}, copy |-> <<>>,
         keep |-> 0, todo |-> {}, chunk |-> {}]

Do(p, state) == proc' = [proc EXCEPT ![p] = state]

Go(p, at) == Do(p, [proc[p] EXCEPT !.at = at])

\* patchWithCurrent, and where it goes on.
Patch(p, state, add, drop, then) ==
    Do(p, [state EXCEPT !.at = "load", !.add = add, !.drop = drop, !.then = then])

-----------------------------------------------------------------------------
Load(p) ==
    /\ proc[p].at = "load"
    /\ Do(p, [proc[p] EXCEPT !.at = "write", !.copy = ledger])
    /\ UNCHANGED <<chat, made, stuck, ledger, menu, excused, cleared, moved>>

Newest(s) == IF Len(s) > MaxTracked THEN Tail(s) ELSE s

Changed(s, add, drop) ==
    LET kept == SelectSeq(s, LAMBDA m : m \notin drop) IN
    IF add = 0 \/ Contains(kept, add) THEN kept ELSE Newest(Append(kept, add))

Write(p) ==
    LET s == proc[p] IN
    /\ s.at = "write"
    /\ ledger' = Changed(s.copy, s.add, s.drop)
    /\ excused' = excused \cup ((ToSet(ledger) \cup ToSet(s.copy)) \ (ToSet(ledger') \cup s.drop))
    /\ Do(p, IF s.then = "idle" THEN Idle
             ELSE [s EXCEPT !.at = s.then, !.add = 0, !.drop = {}, !.copy = <<>>])
    /\ UNCHANGED <<chat, made, stuck, menu, cleared, moved>>

\* The file cannot be written: what was being done ends with an error.
WriteFails(p) ==
    /\ proc[p].at = "write"
    /\ excused' = excused \cup {proc[p].add}
    /\ Do(p, Idle)
    /\ UNCHANGED <<chat, made, stuck, ledger, menu, cleared, moved>>

Crash(p) ==
    /\ proc[p].at # "gone"
    /\ excused' = excused \cup {proc[p].add}
    /\ Do(p, [Idle EXCEPT !.at = "gone"])
    /\ UNCHANGED <<chat, made, stuck, ledger, menu, cleared, moved>>

-----------------------------------------------------------------------------
Post ==
    /\ made < MaxMessages /\ made' = made + 1 /\ chat' = chat \cup {made'}
    /\ \/ UNCHANGED stuck
       \/ stuck' = stuck \cup {made'}

Receive(p) ==
    /\ proc[p] = Idle /\ Post
    /\ Patch(p, Idle, made', {}, "work")
    /\ UNCHANGED <<ledger, menu, excused, cleared, moved>>

\* A button of the menu, which is no message.
Click(p) ==
    /\ proc[p] = Idle /\ menu # 0 /\ Go(p, "work")
    /\ UNCHANGED <<chat, made, stuck, ledger, menu, excused, cleared, moved>>

\* trackedGeneralSend
Send(p, then) ==
    /\ Post /\ Patch(p, [proc[p] EXCEPT !.keep = made'], made', {}, then)
    /\ UNCHANGED <<ledger, menu, excused, cleared, moved>>

Answer(p) == proc[p].at = "work" /\ Send(p, "idle")

\* Nothing to answer, or an error that ends it.
Finish(p) ==
    /\ proc[p].at = "work" /\ Do(p, Idle)
    /\ UNCHANGED <<chat, made, stuck, ledger, menu, excused, cleared, moved>>

\* The panel is edited, or sent anew when it cannot be.
EditMenu(p) ==
    /\ proc[p].at = "work" /\ menu \in chat
    /\ Go(p, "keep")
    /\ UNCHANGED <<chat, made, stuck, ledger, menu, excused, cleared, moved>>

SendMenu(p) == proc[p].at = "work" /\ Send(p, "menu")

ReadTheMenu(p) ==
    LET at == IF proc[p].at \in {"load", "write"} THEN proc[p].then ELSE proc[p].at IN
    at \in {"list", "chunk", "bulk", "single"}

\* keep is the message that was sent.
SaveMenu(p) ==
    /\ proc[p].at = "menu"
    /\ menu' = proc[p].keep
    /\ moved' = (moved \/ menu' \in cleared \/ \E q \in Procs : ReadTheMenu(q))
    /\ Go(p, "keep")
    /\ UNCHANGED <<chat, made, stuck, ledger, excused, cleared>>

-----------------------------------------------------------------------------
(* /clear *)

Keep(p) ==
    /\ proc[p].at = "keep"
    /\ Do(p, [proc[p] EXCEPT !.keep = menu, !.at = "list"])
    /\ UNCHANGED <<chat, made, stuck, ledger, menu, excused, cleared, moved>>

\* Mutant: the menu is not spared.
AllOf(ids, keep) == ids

\* collectGeneralCleanupDeleteIds
Deletable(ids, keep) == ids \ {keep}

List(p) ==
    /\ proc[p].at = "list"
    /\ Do(p, [proc[p] EXCEPT !.todo = Deletable(ToSet(ledger), proc[p].keep), !.at = "chunk"])
    /\ UNCHANGED <<chat, made, stuck, ledger, menu, excused, cleared, moved>>

Oldest(ids) == {m \in ids : Cardinality({k \in ids : k < m}) < ChunkSize}

Chunk(p) ==
    /\ proc[p].at = "chunk"
    /\ LET c == Oldest(proc[p].todo) IN
       Do(p, IF c = {} THEN Idle
             ELSE [proc[p] EXCEPT !.chunk = c, !.todo = @ \ c,
                                  !.at = IF Cardinality(c) > 1 THEN "bulk" ELSE "single"])
    /\ UNCHANGED <<chat, made, stuck, ledger, menu, excused, cleared, moved>>

Removed(ids) == chat' = chat \ ids /\ cleared' = cleared \cup ids

Bulk(p) ==
    LET c == proc[p].chunk IN
    /\ proc[p].at = "bulk"
    /\ c \cap stuck = {} /\ Removed(c)
    /\ Patch(p, [proc[p] EXCEPT !.chunk = {}], 0, c, "chunk")
    /\ UNCHANGED <<made, stuck, ledger, menu, excused, moved>>

\* The call fails, before or after it did its work.
BulkFails(p) ==
    LET c == proc[p].chunk IN
    /\ proc[p].at = "bulk"
    /\ Removed({}) \/ (c \cap stuck = {} /\ Removed(c))
    /\ Go(p, "single")
    /\ UNCHANGED <<made, stuck, ledger, menu, excused, moved>>

\* Deleted, or gone before.
Single(p) ==
    /\ proc[p].at = "single"
    /\ \E m \in proc[p].chunk :
          /\ m \notin stuck /\ Removed({m})
          /\ Patch(p, [proc[p] EXCEPT !.chunk = @ \ {m}], 0, {m}, "single")
    /\ UNCHANGED <<made, stuck, ledger, menu, excused, moved>>

SingleFails(p) ==
    /\ proc[p].at = "single"
    /\ \E m \in proc[p].chunk : Do(p, [proc[p] EXCEPT !.chunk = @ \ {m}])
    /\ UNCHANGED <<chat, made, stuck, ledger, menu, excused, cleared, moved>>

ChunkDone(p) ==
    /\ proc[p].at = "single" /\ proc[p].chunk = {}
    /\ Go(p, "chunk")
    /\ UNCHANGED <<chat, made, stuck, ledger, menu, excused, cleared, moved>>

Over == UNCHANGED vars

Init ==
    /\ chat = {} /\ made = 0 /\ stuck = {} /\ ledger = <<>> /\ menu = 0
    /\ proc = [p \in Procs |-> Idle]
    /\ excused = {} /\ cleared = {} /\ moved = FALSE

Step(p) ==
    \/ Load(p) \/ Write(p) \/ WriteFails(p) \/ Crash(p)
    \/ Receive(p) \/ Click(p) \/ Answer(p) \/ Finish(p)
    \/ EditMenu(p) \/ SendMenu(p) \/ SaveMenu(p) \/ Keep(p) \/ List(p) \/ Chunk(p) \/ Bulk(p) \/ BulkFails(p)
    \/ Single(p) \/ SingleFails(p) \/ ChunkDone(p)

Next == (\E p \in Procs : Step(p)) \/ Over

Spec == Init /\ [][Next]_vars

(***************************************************************************)
(* Properties                                                              *)
(***************************************************************************)
\* A message that is there is listed or about to be: not so when its note was lost
\* with the process that sent it, in a change of another process, by an error or
\* because there were too many.
AllTracked ==
    \A m \in chat : m \in ToSet(ledger) \cup excused \/ \E p \in Procs : proc[p].add = m

\* /clear does not delete the menu that is in use, unless another process puts a new
\* one in its place meanwhile.
MenuStays == menu \in cleared => moved

\* What is in General is listed until it is deleted, and the menu stays
\* (GeneralMessageLedgerStore, clearTrackedGeneralMessages).
LedgerHolds == AllTracked /\ MenuStays
===============================================================================

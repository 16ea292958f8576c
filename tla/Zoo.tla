--------------------------------- MODULE Zoo ---------------------------------
(***************************************************************************)
(* The Project Catalog: a topic in which a project is described, looked up *)
(* by a Codex run in the background, offered, and added when the user says *)
(* yes; pets are removed and refreshed, the latter in the background too.  *)
(*                                                                         *)
(* The state of the topic is one file.  patchTopic reads it and writes the *)
(* whole of it some time later, and nothing keeps two patches apart: the   *)
(* handler of updates, which does one thing after the other, the lookups,  *)
(* the refresh and the timer that redraws a pet may each have one under    *)
(* way.  What is shown, and which screen it is on, are left out.           *)
(***************************************************************************)
EXTENDS Naturals, FiniteSets

CONSTANTS
    Projects,   \* projects of one base name
    None,       \* a value that is not a project
    MaxTexts,   \* bound on descriptions
    MaxOrders,  \* bound on what the user asks for
    MaxTicks,   \* bound on redraws by the timer
    MaxCrashes  \* bound on restarts of the process

VARIABLES
    pets,     \* pet.json of a project: its display name, or none
    topic,    \* topic.json: pending_add and refreshing_pet_id
    doing,    \* what an actor does
    writing,  \* the file a patch of the actor is about to write, if any
    saving,   \* the pets, and their names, that an actor has still to save
    active,   \* the pet in activeRefreshByPetId
    bound,    \* the pending addition for which a lookup makes an offer
    texts,    \* descriptions sent
    restored, \* history: the file has an older description than the last, again or still
    found,    \* history: the project found for a description
    wanted,   \* history: projects confirmed and not removed
    revived,  \* history: pets saved again after their removal
    orders, ticks, crashes

vars == <<pets, topic, doing, writing, saving, active, bound, texts, restored, found, wanted,
          revived, orders, ticks, crashes>>

quiet == <<texts, restored, found, ticks, crashes>>

counts == <<quiet, orders>>

Lookups == 1 .. MaxTexts  \* by their descriptions

Main == 0
Refresher == MaxTexts + 1
Ticker == MaxTexts + 2

Actors == Lookups \cup {Main, Refresher, Ticker}

NoPending == [stage |-> "none", busy |-> FALSE, text |-> 0, request |-> 0, offer |-> None]

(***************************************************************************)
(* The store                                                               *)
(***************************************************************************)
Idle(a) == doing[a] = "idle"

\* An actor has no file left to write.
Settled(a) == writing[a] = {} /\ saving[a] = {}

\* The handler of updates takes the next one.
Update == Idle(Main) /\ Settled(Main) /\ orders < MaxOrders /\ orders' = orders + 1

To(a, what) == doing' = [doing EXCEPT ![a] = what] /\ UNCHANGED <<topic, writing, saving>>

\* patchTopic: the file as it is now, with the patch, is written later.
Patch(a, next, what) ==
    /\ doing' = [doing EXCEPT ![a] = what]
    /\ writing' = [writing EXCEPT ![a] = {next}]
    /\ UNCHANGED <<topic, saving>>

PatchPending(a, pending, what) == Patch(a, [topic EXCEPT !.pending = pending], what)

\* The last description is about to be written.
Given == doing[Main] = "look up" /\ writing[Main] # {}

\* A patch may have read the file, or a lookup the pending addition, before the
\* last description was written.
Write(a) ==
    /\ writing[a] # {}
    /\ topic' \in writing[a]
    /\ writing' = [writing EXCEPT ![a] = {}]
    /\ restored' = \/ restored
                   \/ /\ a # Main /\ ~Given
                      /\ topic'.pending.text \notin {0, texts, topic.pending.text}
    /\ UNCHANGED <<pets, doing, saving, active, bound, wanted, revived, texts, found, orders,
                   ticks, crashes>>

Pets == {p \in Projects : pets[p] # None}

\* Projects of one base name are told apart by a mark.
NameAmong(ps) == IF Cardinality(ps) > 1 THEN "marked" ELSE "plain"

\* reconcilePetDisplayNames, with a candidate or without: the pets to save.
Misnamed(extra) ==
    LET name == NameAmong(Pets \cup extra) IN
      {<<p, name>> : p \in {q \in Pets : pets[q] # name}}

Candidate == IF topic.pending.stage = "confirm" THEN {topic.pending.offer} ELSE {}

\* savePet makes the directory of a pet again if it is gone.
SavePet(a) ==
    /\ writing[a] = {}
    /\ \E s \in saving[a] :
          /\ saving' = [saving EXCEPT ![a] = @ \ {s}]
          /\ pets' = [pets EXCEPT ![s[1]] = s[2]]
          /\ revived' = IF s[1] \in wanted THEN revived ELSE revived \cup {s[1]}
    /\ UNCHANGED <<topic, doing, writing, active, bound, wanted, counts>>

\* ensureZooMenu: on the first screen the names are put right; then the menu is
\* edited, or sent again, and its message recorded, unless Telegram refuses.
Menu(a) ==
    /\ Settled(a) /\ doing[a] = "menu"
    /\ \/ /\ doing' = [doing EXCEPT ![a] = "record"]
          /\ saving' = [saving EXCEPT ![a] = Misnamed(Candidate)]
          /\ UNCHANGED <<topic, writing>>
       \/ To(a, "idle")
    /\ UNCHANGED <<pets, active, bound, wanted, revived, counts>>

Record(a) ==
    /\ Settled(a) /\ doing[a] \in {"menu", "record"}
    /\ Patch(a, topic, "idle")
    /\ UNCHANGED <<pets, active, bound, wanted, revived, counts>>

(***************************************************************************)
(* Adding a project                                                        *)
(***************************************************************************)
same == <<pets, active, wanted, revived>>

\* The button "add": a lookup under way is not disturbed.
AddStart ==
    /\ Update
    /\ IF topic.pending.busy THEN To(Main, "menu")
       ELSE PatchPending(Main, [NoPending EXCEPT !.stage = "describe"], "menu")
    /\ UNCHANGED <<same, bound, quiet>>

\* beginLookup, for a description or for a better one instead of a yes.
Describe ==
    /\ Update /\ ~topic.pending.busy /\ topic.pending.stage # "none" /\ texts < MaxTexts
    /\ texts' = texts + 1
    /\ PatchPending(Main, [topic.pending EXCEPT !.stage = "describe", !.busy = TRUE,
                                                  !.text = texts + 1, !.request = texts + 1],
                    "look up")
    /\ UNCHANGED <<same, bound, restored, found, ticks, crashes>>

\* The lookup starts when the menu is redrawn; if that fails it never does.
LookUp ==
    /\ Settled(Main) /\ doing[Main] = "look up"
    /\ \/ /\ doing' = [doing EXCEPT ![Main] = "menu", ![texts] = "run"]
          /\ UNCHANGED <<topic, writing, saving>>
       \/ To(Main, "idle")
    /\ UNCHANGED <<same, bound, counts>>

Asked == Update /\ ~topic.pending.busy /\ topic.pending.stage = "confirm"

Again(pending) == [pending EXCEPT !.stage = "describe", !.busy = FALSE, !.offer = None]

\* "No", or a path that is gone when the project is to be added.
No ==
    /\ Asked
    /\ PatchPending(Main, [Again(topic.pending) EXCEPT !.request = 0], "menu")
    /\ UNCHANGED <<same, bound, quiet>>

\* Mutant: any lookup that waits takes the answer.
IsWaited(l) == topic.pending.busy

\* The answer of the run still concerns what is waited for.
IsCurrent(l) == topic.pending.busy /\ topic.pending.request = l

LookupDone(l) ==
    /\ doing[l] = "run"
    /\ \/ /\ found' \in {[found EXCEPT ![l] = p] : p \in Projects}
          /\ To(l, IF IsCurrent(l) THEN "bind" ELSE "idle")
       \/ /\ UNCHANGED found
          /\ IF IsCurrent(l) THEN PatchPending(l, Again(topic.pending), "menu")
             ELSE To(l, "idle")
    /\ UNCHANGED <<same, bound, texts, restored, orders, ticks, crashes>>

\* The path is resolved, and the names are put right for the candidate; what is
\* written then is the pending addition as it is now.
Bind(l) ==
    /\ doing[l] = "bind"
    /\ IF IsCurrent(l)
         THEN /\ bound' = [bound EXCEPT ![l] = {topic.pending}]
              /\ saving' = [saving EXCEPT ![l] = Misnamed({found[l]})]
              /\ doing' = [doing EXCEPT ![l] = "offer"]
              /\ UNCHANGED <<topic, writing>>
         ELSE To(l, "idle") /\ UNCHANGED bound
    /\ UNCHANGED <<same, counts>>

Offer(l) ==
    /\ Settled(l) /\ doing[l] = "offer"
    /\ \E pending \in bound[l] :
          PatchPending(l, [pending EXCEPT !.stage = "confirm", !.busy = FALSE, !.offer = found[l]],
                       "menu")
    /\ bound' = [bound EXCEPT ![l] = {}]
    /\ UNCHANGED <<same, counts>>

\* Yes: the project is a pet already, or it is saved with the pets whose names
\* it changes.
Yes ==
    /\ Asked
    /\ LET p == topic.pending.offer
           name == NameAmong(Pets \cup {p}) IN
         IF p \in Pets
           THEN PatchPending(Main, NoPending, "menu") /\ UNCHANGED wanted
           ELSE /\ wanted' = wanted \cup {p}
                /\ saving' = [saving EXCEPT ![Main] = Misnamed({p}) \cup {<<p, name>>}]
                /\ doing' = [doing EXCEPT ![Main] = "added"]
                /\ UNCHANGED <<topic, writing>>
    /\ UNCHANGED <<pets, active, revived, bound, quiet>>

Added ==
    /\ Settled(Main) /\ doing[Main] = "added"
    /\ PatchPending(Main, NoPending, "menu")
    /\ UNCHANGED <<same, bound, counts>>

(***************************************************************************)
(* Removing and refreshing a pet                                           *)
(***************************************************************************)
Remove(p) ==
    /\ Update /\ p \in Pets /\ active # p
    /\ pets' = [pets EXCEPT ![p] = None]
    /\ wanted' = wanted \ {p}
    /\ Patch(Main, topic, "menu")
    /\ UNCHANGED <<active, revived, bound, quiet>>

\* One refresh at a time: the code has one for each pet.
Refresh(p) ==
    /\ Update /\ p \in Pets /\ active = None
    /\ Patch(Main, [topic EXCEPT !.refreshing = p], p)
    /\ UNCHANGED <<same, bound, quiet>>

\* The pet's own screen is shown, and no name put right.
RefreshStart ==
    /\ Settled(Main) /\ doing[Main] \in Projects
    /\ \/ /\ active' = doing[Main]
          /\ doing' = [doing EXCEPT ![Main] = "record", ![Refresher] = "run"]
          /\ UNCHANGED <<topic, writing, saving>>
       \/ To(Main, "idle") /\ UNCHANGED active
    /\ UNCHANGED <<pets, wanted, revived, bound, counts>>

\* The analysis ends, with a snapshot or without.
RefreshDone ==
    /\ doing[Refresher] = "run"
    /\ Patch(Refresher, [topic EXCEPT !.refreshing = None], "menu")
    /\ UNCHANGED <<same, bound, counts>>

RefreshOver ==
    /\ active # None /\ Idle(Refresher) /\ Settled(Refresher)
    /\ active' = None
    /\ UNCHANGED <<pets, topic, doing, writing, saving, bound, wanted, revived, counts>>

\* The timer of the pet shown.
Tick ==
    /\ Idle(Ticker) /\ Settled(Ticker) /\ ticks < MaxTicks
    /\ ticks' = ticks + 1
    /\ To(Ticker, "record")
    /\ UNCHANGED <<same, bound, texts, restored, found, orders, crashes>>

Crash ==
    /\ crashes < MaxCrashes
    /\ crashes' = crashes + 1
    /\ doing' = [a \in Actors |-> "idle"]
    /\ writing' = [a \in Actors |-> {}]
    /\ saving' = [a \in Actors |-> {}]
    /\ bound' = [l \in Lookups |-> {}]
    /\ active' = None
    /\ restored' = (restored \/ Given)
    /\ UNCHANGED <<pets, topic, wanted, revived, texts, found, orders, ticks>>

(***************************************************************************)
(* Specification                                                           *)
(***************************************************************************)
Init ==
    /\ wanted \in {{}, {CHOOSE p \in Projects : TRUE}}
    /\ pets = [p \in Projects |-> IF p \in wanted THEN "plain" ELSE None]
    /\ topic \in {[pending |-> [NoPending EXCEPT !.stage = stage], refreshing |-> None] :
                    stage \in {"none", "describe"}}
    /\ doing = [a \in Actors |-> "idle"]
    /\ writing = [a \in Actors |-> {}]
    /\ saving = [a \in Actors |-> {}]
    /\ active = None /\ bound = [l \in Lookups |-> {}]
    /\ texts = 0 /\ restored = FALSE /\ found = [l \in Lookups |-> None]
    /\ revived = {}
    /\ orders = 0 /\ ticks = 0 /\ crashes = 0

\* The bound on what the user asks for is reached.
Over == orders = MaxOrders /\ UNCHANGED vars

Next ==
    \/ \E a \in Actors : Write(a) \/ SavePet(a) \/ Menu(a) \/ Record(a)
    \/ AddStart \/ Describe \/ LookUp \/ No \/ Yes \/ Added
    \/ \E l \in Lookups : LookupDone(l) \/ Bind(l) \/ Offer(l)
    \/ \E p \in Projects : Remove(p) \/ Refresh(p)
    \/ RefreshStart \/ RefreshDone \/ RefreshOver \/ Tick \/ Crash
    \/ Over

Spec == Init /\ [][Next]_vars

(***************************************************************************)
(* Properties                                                              *)
(***************************************************************************)
\* What the user is asked to confirm is what was found for the last text given,
\* and the catalog holds what was confirmed and not removed.  Excepted is what the
\* code gets wrong: a patch that had read an older file brings its description
\* back, or a crash comes before the last one is written, and then the offer is
\* what was found for the older one; and a pet removed while its new name was on
\* its way comes back.
CatalogIsAsked ==
    /\ topic.pending.stage = "confirm" /\ ~Given =>
          topic.pending.offer = found[IF restored THEN topic.pending.text ELSE texts]
    /\ Pets \subseteq wanted \cup revived
=============================================================================

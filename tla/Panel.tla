-------------------------------- MODULE Panel --------------------------------
(***************************************************************************)
(* A control panel: one message with a keyboard that is edited from screen *)
(* to screen, of a topic or of the General topic, and the input it may ask *)
(* the user for.  Its state is a small file; every operation loads it,     *)
(* works on what it loaded, edits or sends the message and writes back.    *)
(* The loop of updates runs one operation at a time; beside it the timer   *)
(* of a collected goal text runs another in a topic.                       *)
(***************************************************************************)
EXTENDS Naturals, Sequences, FiniteSets

CONSTANTS
    MaxPosts,      \* bound on the messages the panel has been
    MaxUpdates,    \* bound on clicks, commands and texts
    MaxFaults      \* bound on the calls of the Bot API that fail

VARIABLES
    where,      \* "topic" or "general"
    posts,      \* the panel messages in the chat: [up, screen, shows]
    store,      \* control-panel.json: [menu, screen, input]
    ops,        \* the operations: of the loop, and of the goal's timer
    goal,       \* the goal text in the PromptFragmentAssembler, or 0
    again,      \* the update that is handled again after an error
    heard,      \* history: number of updates
    inputs,     \* history: [asked, over], numbers of inputs
    raced,      \* history: two operations overlapped
    faults      \* history

vars == <<where, posts, store, ops, goal, again, heard, inputs, raced, faults>>

Screens == {"root", "input"}
NoInput == [id |-> 0, goal |-> FALSE, menu |-> 0, bad |-> FALSE]
NoUpdate == [kind |-> "none"]
NoOp == [pc |-> "idle", input |-> NoInput, screen |-> "root",
         menu |-> 0, old |-> 0, ends |-> 0, update |-> NoUpdate]

\* syncPendingInputMessageId
Sync(input, menu) == IF input.id = 0 THEN NoInput ELSE [input EXCEPT !.menu = menu]

Shown(op) == [up |-> TRUE, screen |-> op.screen, shows |-> <<op.input.id, op.input.bad>>]
Others(w) == {v \in DOMAIN ops : v # w /\ ops[v].pc # "idle"}

\* An operation starts with what it loaded; it writes first what it was asked for
\* unless it only shows a screen.
Begin(w, op) ==
    /\ ops' = [ops EXCEPT ![w] = op]
    /\ raced' = (raced \/ Others(w) # {})

Op(pc, input, screen, menu, update) ==
    [NoOp EXCEPT !.pc = pc, !.input = input,
                 !.screen = screen, !.menu = menu, !.old = menu, !.update = update]

-----------------------------------------------------------------------------
(* What the loop hears *)

\* /menu: in a topic a new message takes the place of the panel, in General the
\* panel is edited.
Menu(u) ==
    /\ u.kind = "menu"
    /\ Begin("loop", Op(IF where = "topic" \/ store.menu = 0 THEN "send" ELSE "edit",
                        store.input, "root", store.menu, u))
    /\ UNCHANGED <<goal, inputs>>

\* A click on another message than the panel is answered as out of date; only a
\* refresh of the status of a topic is not.
Current(u) == u.post = store.menu \/ (where = "topic" /\ u.kind = "status")

Expired(u) ==
    /\ u.kind \in {"status", "navigate", "act", "ask", "askgoal", "cancel"} /\ ~Current(u)
    /\ UNCHANGED <<ops, raced, goal, inputs>>

Navigate(u) ==
    /\ u.kind \in {"status", "navigate"} /\ Current(u)
    /\ \E screen \in Screens : Begin("loop", Op("edit", store.input, screen, u.post, u))
    /\ UNCHANGED <<goal, inputs>>

\* A setting is changed; the input that was loaded is written with the new screen.
Act(u) ==
    /\ u.kind = "act" /\ Current(u)
    /\ Begin("loop", Op("write", store.input, "root", u.post, u))
    /\ UNCHANGED <<goal, inputs>>

AskInput(u) ==
    /\ u.kind \in {"ask", "askgoal"} /\ Current(u)
    /\ u.kind = "askgoal" => where = "topic"
    /\ inputs' = [inputs EXCEPT !.asked = @ + 1]
    /\ Begin("loop", Op("write", [id |-> inputs.asked + 1, goal |-> u.kind = "askgoal",
                                  menu |-> u.post, bad |-> FALSE], "input", u.post, u))
    /\ UNCHANGED goal

\* pending_clear, and in General the choice of another host for a new topic.
CancelInput(u) ==
    /\ u.kind = "cancel" /\ Current(u)
    /\ Begin("loop", [Op("write", NoInput, store.screen, u.post, u)
                        EXCEPT !.ends = store.input.id])
    /\ UNCHANGED <<goal, inputs>>

\* The text is for the panel when it replies to it or comes from who was asked;
\* anything else goes on as a prompt, and so does a text after the input is over.
ForPanel(u) == store.input.id # 0 /\ (u.asker \/ u.post = store.input.menu)

NotForPanel(u) ==
    /\ u.kind = "text" /\ (~ForPanel(u) \/ ~u.asker)
    /\ UNCHANGED <<ops, raced, goal, inputs>>

ReplyBad(u) ==
    /\ u.kind = "text" /\ ForPanel(u) /\ u.asker /\ ~u.good
    /\ Begin("loop", Op("write", [store.input EXCEPT !.bad = TRUE], "input",
                        store.input.menu, u))
    /\ UNCHANGED <<goal, inputs>>

\* Mutant: the panel is drawn with the input as it was loaded.
ReplyGoodStale(u) ==
    /\ u.kind = "text" /\ ForPanel(u) /\ u.asker /\ u.good
    /\ ~(store.input.goal /\ u.long)
    /\ Begin("loop", [Op("apply", store.input, "input", store.input.menu, u)
                        EXCEPT !.ends = store.input.id])
    /\ UNCHANGED <<goal, inputs>>

ReplyGood(u) ==
    /\ u.kind = "text" /\ ForPanel(u) /\ u.asker /\ u.good
    /\ ~(store.input.goal /\ u.long)
    /\ Begin("loop", [Op("apply", NoInput, "input", store.input.menu, u)
                        EXCEPT !.ends = store.input.id])
    /\ UNCHANGED <<goal, inputs>>

\* A long goal is collected and applied by the timer of its buffer.
CollectGoal(u) ==
    /\ u.kind = "text" /\ ForPanel(u) /\ u.asker /\ u.good
    /\ store.input.goal /\ u.long
    /\ goal' = 1
    /\ UNCHANGED <<ops, raced, inputs>>

Handle(u) ==
    \/ Menu(u) \/ Expired(u) \/ Navigate(u) \/ Act(u) \/ AskInput(u) \/ CancelInput(u)
    \/ NotForPanel(u) \/ ReplyBad(u) \/ ReplyGood(u) \/ CollectGoal(u)

\* A user clicks on a panel that is there and writes what he likes.
Updates ==
    [kind : {"menu"}]
    \cup [kind : {"status", "navigate", "act", "ask", "askgoal", "cancel"},
          post : {p \in DOMAIN posts : posts[p].up}]
    \cup [kind : {"text"}, asker : BOOLEAN, good : BOOLEAN, long : BOOLEAN,
          post : {0} \cup {p \in DOMAIN posts : posts[p].up}]

Hear ==
    /\ ops["loop"].pc = "idle" /\ again = NoUpdate /\ heard < MaxUpdates
    /\ heard' = heard + 1
    /\ \E u \in Updates : Handle(u)
    /\ UNCHANGED <<where, posts, store, again, faults>>

HearAgain ==
    /\ ops["loop"].pc = "idle" /\ again # NoUpdate
    /\ Handle(again)
    /\ again' = NoUpdate
    /\ UNCHANGED <<where, posts, store, heard, faults>>

\* buildGoalPendingFlush reads the state once more.
FlushGoal ==
    /\ goal # 0 /\ ops["goal"].pc = "idle"
    /\ goal' = 0
    /\ IF store.input.goal
       THEN Begin("goal", [Op("apply", NoInput, "input", store.input.menu, NoUpdate)
                             EXCEPT !.ends = store.input.id])
       ELSE UNCHANGED <<ops, raced>>
    /\ UNCHANGED <<where, posts, store, again, heard, inputs, faults>>

-----------------------------------------------------------------------------
(* The steps of an operation *)

Go(w, pc) == ops' = [ops EXCEPT ![w].pc = pc]

\* The loop polls again and handles the update anew; the buffer keeps the goal.
Fail(w) ==
    /\ faults < MaxFaults
    /\ faults' = faults + 1
    /\ ops' = [ops EXCEPT ![w] = NoOp]
    /\ again' = IF w = "loop" THEN ops[w].update ELSE again
    /\ goal' = IF w = "goal" THEN 1 ELSE goal
    /\ UNCHANGED <<where, store, heard, inputs, raced>>

\* The goal, the suffix, the wait or the new topic takes effect.
Apply(w) ==
    /\ ops[w].pc = "apply"
    /\ Go(w, "write")
    /\ UNCHANGED <<where, posts, store, goal, again, heard, inputs, raced, faults>>

Write(w) ==
    /\ ops[w].pc = "write"
    /\ store' = [menu |-> ops[w].menu, screen |-> ops[w].screen, input |-> ops[w].input]
    /\ inputs' = [inputs EXCEPT !.over = @ \cup ({ops[w].ends} \ {0})]
    /\ Go(w, "edit")
    /\ UNCHANGED <<where, posts, goal, again, heard, raced, faults>>

\* An edit that changes nothing counts as made; one of a message that is gone
\* makes the panel send a new one.
Edit(w) ==
    /\ ops[w].pc = "edit"
    /\ IF posts[ops[w].menu].up
       THEN /\ posts' = [posts EXCEPT ![ops[w].menu] = Shown(ops[w])]
            /\ Go(w, "patch")
       ELSE Go(w, "send") /\ UNCHANGED posts
    /\ UNCHANGED <<where, store, goal, again, heard, inputs, raced, faults>>

EditFails(w) ==
    /\ ops[w].pc = "edit" /\ posts[ops[w].menu].up
    /\ \E done \in BOOLEAN :
          posts' = IF done THEN [posts EXCEPT ![ops[w].menu] = Shown(ops[w])] ELSE posts
    /\ Fail(w)

Send(w) ==
    /\ ops[w].pc = "send" /\ Len(posts) < MaxPosts
    /\ posts' = Append(posts, Shown(ops[w]))
    /\ ops' = [ops EXCEPT ![w].pc = "patch", ![w].menu = Len(posts) + 1]
    /\ UNCHANGED <<where, store, goal, again, heard, inputs, raced, faults>>

SendFails(w) ==
    /\ ops[w].pc = "send" /\ Len(posts) < MaxPosts
    /\ \E done \in BOOLEAN : posts' = IF done THEN Append(posts, Shown(ops[w])) ELSE posts
    /\ Fail(w)

\* Mutant: the input keeps the message it was asked in.
PatchUnsynced(w) ==
    /\ ops[w].pc = "patch"
    /\ store' = [menu |-> ops[w].menu, screen |-> ops[w].screen, input |-> ops[w].input]
    /\ IF where = "topic" /\ ops[w].old \notin {0, ops[w].menu}
       THEN Go(w, "delete") ELSE ops' = [ops EXCEPT ![w] = NoOp]
    /\ UNCHANGED <<where, posts, goal, again, heard, inputs, raced, faults>>

Patch(w) ==
    /\ ops[w].pc = "patch"
    /\ store' = [menu |-> ops[w].menu, screen |-> ops[w].screen,
                 input |-> Sync(ops[w].input, ops[w].menu)]
    /\ IF where = "topic" /\ ops[w].old \notin {0, ops[w].menu}
       THEN Go(w, "delete") ELSE ops' = [ops EXCEPT ![w] = NoOp]
    /\ UNCHANGED <<where, posts, goal, again, heard, inputs, raced, faults>>

\* deleteTopicControlMessagesBestEffort, of the message that was replaced.
DeleteOld(w) ==
    /\ ops[w].pc = "delete"
    /\ \E done \in {TRUE} \cup {faults >= MaxFaults} :
          posts' = IF done THEN [posts EXCEPT ![ops[w].old].up = FALSE] ELSE posts
    /\ ops' = [ops EXCEPT ![w] = NoOp]
    /\ UNCHANGED <<where, store, goal, again, heard, inputs, raced, faults>>

\* A user deletes a panel.
UserDeletes ==
    /\ heard < MaxUpdates
    /\ heard' = heard + 1
    /\ \E p \in DOMAIN posts : posts[p].up /\ posts' = [posts EXCEPT ![p].up = FALSE]
    /\ UNCHANGED <<where, store, ops, goal, again, inputs, raced, faults>>

Init ==
    /\ where \in {"topic", "general"}
    /\ posts = <<>> /\ goal = 0 /\ again = NoUpdate /\ heard = 0 /\ faults = 0
    /\ store = [menu |-> 0, screen |-> "root", input |-> NoInput]
    /\ ops = [w \in {"loop", "goal"} |-> NoOp]
    /\ inputs = [asked |-> 0, over |-> {}] /\ raced = FALSE

\* The user has nothing more to say, and nothing is to be done below the bound.
Stop ==
    /\ heard = MaxUpdates
    /\ \A w \in DOMAIN ops :
          \/ ops[w].pc = "send" /\ Len(posts) = MaxPosts
          \/ ops[w].pc = "idle" /\ IF w = "loop" THEN again = NoUpdate ELSE goal = 0
    /\ UNCHANGED vars

Next ==
    \/ Hear \/ HearAgain \/ FlushGoal \/ UserDeletes \/ Stop
    \/ \E w \in DOMAIN ops :
          \/ Apply(w) \/ Write(w) \/ Edit(w) \/ EditFails(w) \/ Send(w) \/ SendFails(w)
          \/ Patch(w) \/ DeleteOld(w)

Spec == Init /\ [][Next]_vars

-----------------------------------------------------------------------------
(* Properties *)

TypeOK ==
    /\ where \in {"topic", "general"}
    /\ store.menu \in 0 .. Len(posts) /\ store.screen \in Screens
    /\ \A w \in DOMAIN ops : ops[w].menu \in 0 .. Len(posts)
    /\ Len(posts) <= MaxPosts /\ inputs.over \subseteq 1 .. inputs.asked

\* The input that is waited for belongs to the message that is the panel, so that
\* a reply to the panel is taken for it, however operations overlap, fail half
\* way, and send the panel anew.
InputFollowsPanel == store.input.id # 0 => store.input.menu = store.menu

\* An input that was given or called off does not come back, to swallow the next
\* message of the user, from the state some operation loaded before; unless the
\* goal's timer and the loop worked on the panel at the same time.
InputStaysOver == ~raced => store.input.id \notin inputs.over
=============================================================================

--------------------------- MODULE DeliveryProofs ---------------------------
(***************************************************************************)
(* A run implements the mailbox, for any number of progress texts, chunks, *)
(* attempts, faults and waits.                                             *)
(*                                                                         *)
(* What a reader sees of a run is what Telegram was told by two parties at *)
(* once, the chain of the progress message and the end of the run.  The    *)
(* invariant keeps them apart: the chain only ever edits and deletes       *)
(* progress messages, so a chunk that was sent stays as it was; the chunks *)
(* are sent from one place, in order, and before the final event; the      *)
(* event is written once, by the run at its end or by the recovery of a    *)
(* run that never wrote its result.                                        *)
(***************************************************************************)
EXTENDS Delivery, TLAPS

-----------------------------------------------------------------------------
(* The inductive invariant *)

\* The states a run ends in, and where its end may be
Final == {"completed", "interrupted", "failed"}
Ended == {"dismiss", "over", "dead"}
Pc == {"start", "work", "docs", "patch", "log", "finalize", "reply", "fallback", "event"}
      \cup Ended
\* Types
Message == [kind : {"progress", "chunk", "document"}, text : Nat, up : BOOLEAN]
Op == {"flush", "finalize", "dismiss"}
ApiCall == [method : {"none", "edit", "send", "delete", "chunk", "document"},
            text : Nat, post : Nat, over : BOOLEAN, waits : Nat]
ProgressState ==
    [id : Nat, current : Nat, pending : Nat, timer : BOOLEAN, closed : BOOLEAN,
     terminal : Nat, append : BOOLEAN]
RunState ==
    [pc : Pc, status : Final \cup {"none"}, document : {"none", "bad", "local", "remote"},
     total : 1 .. MaxChunks, chunk : Nat \ {0}, try : Nat, target : BOOLEAN, ids : Seq(Nat),
     mute : BOOLEAN, failing : BOOLEAN, viaProgress : BOOLEAN, delivered : BOOLEAN,
     skipped : BOOLEAN]
FinalEvent == [status : Final \cup {"none"}, ids : Seq(Nat)]
DiskState ==
    [status : Final \cup {"none", "running"}, event : FinalEvent, parked : BOOLEAN,
     staged : BOOLEAN]
WorldState == [alive : BOOLEAN, open : BOOLEAN, superseded : BOOLEAN, faults : Int]

Typed ==
    /\ posts \in Seq(Message)
    /\ progress \in ProgressState
    /\ chain \in Seq(Op)
    /\ call \in ApiCall
    /\ run \in RunState
    /\ send \in ApiCall
    /\ disk \in DiskState
    /\ world \in WorldState
    /\ steps \in Nat

\* The message id is one of the progress message.
IsProgress(id) == id \in DOMAIN posts /\ posts[id].kind = "progress"

\* Until the run starts nothing is there; the chain edits and deletes progress
\* messages only; before the end of a run there is no dismissal in it.
ChainHolds ==
    /\ run.pc = "start" => posts = <<>> /\ chain = <<>> /\ call = Idle /\ ~progress.timer
    /\ progress.id # Null => IsProgress(progress.id)
    /\ call # Idle => chain # <<>> /\ IsProgress(call.post)
    /\ run.pc \notin Ended => \A k \in DOMAIN chain : chain[k] # "dismiss"
    /\ run.pc = "fallback" => progress.id # Null

\* A call of the run is about what it is sending.
SendHolds ==
    send # Idle =>
        \/ run.pc = "start"
        \/ run.pc = "docs" /\ run.document = "local"
        \/ run.pc = "reply" /\ ~run.mute /\ run.chunk <= run.total

\* Chunks were sent up to the present one, and none is taken back.
ChunksHold ==
    \A i \in DOMAIN posts : posts[i].kind = "chunk" => posts[i].up /\ posts[i].text <= run.chunk

\* The ids of a run, and those its event claims, are ids of messages.
IdsHold ==
    /\ ToSet(run.ids) \subseteq DOMAIN posts
    /\ ToSet(disk.event.ids) \subseteq DOMAIN posts

\* The event is written at the end only, once there is a result; the status on
\* disk is one of a run that goes on until then.
Result == {"log", "finalize", "reply", "fallback", "event"}
EventHolds ==
    /\ disk.event.status # "none" => run.pc \in Ended /\ disk.status # "running"
    /\ run.pc \in Result => disk.status # "running"
    /\ run.pc \in Result \cup {"docs", "patch"} => run.status # "none"
    /\ ~world.alive => run.pc \in Ended

MailInv == Typed /\ ChainHolds /\ SendHolds /\ ChunksHold /\ IdsHold /\ EventHolds

-----------------------------------------------------------------------------
(* Sequences *)

\* What Append and Tail do, position by position
LEMMA AppendIs ==
    ASSUME NEW S, NEW s \in Seq(S), NEW e \in S
    PROVE  /\ Append(s, e) \in Seq(S)
           /\ DOMAIN Append(s, e) = 1 .. Len(s) + 1 /\ DOMAIN s = 1 .. Len(s) /\ Len(s) \in Nat
           /\ DOMAIN s \subseteq DOMAIN Append(s, e)
           /\ \A k \in DOMAIN s : Append(s, e)[k] = s[k]
           /\ Append(s, e)[Len(s) + 1] = e
           /\ \A k \in DOMAIN Append(s, e) : k \in DOMAIN s \/ k = Len(s) + 1
  OBVIOUS

\* What Tail and Head do
LEMMA TailIs ==
    ASSUME NEW S, NEW s \in Seq(S), s # <<>>
    PROVE  /\ Tail(s) \in Seq(S) /\ DOMAIN Tail(s) = 1 .. Len(s) - 1 /\ DOMAIN s = 1 .. Len(s)
           /\ \A k \in DOMAIN Tail(s) : k + 1 \in DOMAIN s /\ Tail(s)[k] = s[k + 1]
           /\ Head(s) = s[1] /\ 1 \in DOMAIN s /\ Head(s) \in S
  OBVIOUS

\* The set of the elements grows by the element that is appended.
LEMMA AppendToSet ==
    ASSUME NEW S, NEW s \in Seq(S), NEW e \in S
    PROVE  ToSet(Append(s, e)) = ToSet(s) \cup {e}
<1>1. DOMAIN s \subseteq DOMAIN Append(s, e) /\ Len(s) + 1 \in DOMAIN Append(s, e)
  BY AppendIs
<1>2. \A k \in DOMAIN s : Append(s, e)[k] = s[k]
  BY AppendIs
<1>3. \A k \in DOMAIN Append(s, e) : Append(s, e)[k] = e \/ k \in DOMAIN s
  BY AppendIs
<1>4. Append(s, e)[Len(s) + 1] = e
  BY AppendIs
<1> QED
  BY <1>1, <1>2, <1>3, <1>4 DEF ToSet

\* Positions are not 0.
LEMMA ElementIs ==
    ASSUME NEW S, NEW s \in Seq(S), NEW k \in DOMAIN s
    PROVE  k \in Nat \ {0} /\ s[k] \in S
  OBVIOUS

\* The sets of the smallest sequences
LEMMA SmallSets == /\ \A x : ToSet(<<x>>) = {x}
                   /\ ToSet(<<>>) = {}
  BY DEF ToSet

-----------------------------------------------------------------------------
(* Types *)

\* A change of one message leaves a sequence of messages.
LEMMA PostEdited ==
    ASSUME posts \in Seq(Message), NEW i \in DOMAIN posts, NEW m \in Message
    PROVE  /\ [posts EXCEPT ![i] = m] \in Seq(Message)
           /\ DOMAIN [posts EXCEPT ![i] = m] = DOMAIN posts
           /\ [posts EXCEPT ![i] = m][i] = m
           /\ \A k \in DOMAIN posts : k # i => [posts EXCEPT ![i] = m][k] = posts[k]
  OBVIOUS

\* What a step that sends no chunk does to the messages
SameChunks ==
    /\ posts' \in Seq(Message) /\ DOMAIN posts \subseteq DOMAIN posts'
    /\ \A i \in DOMAIN posts :
          /\ posts'[i].kind = posts[i].kind
          /\ posts[i].kind = "chunk" => posts'[i] = posts[i]
    /\ \A i \in DOMAIN posts' : posts'[i].kind = "chunk" => i \in DOMAIN posts

\* A progress message is edited or goes, or a message of another kind comes.
LEMMA EditKeeps ==
    ASSUME posts \in Seq(Message), NEW i, IsProgress(i), NEW t \in Nat,
           posts' = [posts EXCEPT ![i].text = t] \/ posts' = Without(i)
    PROVE  SameChunks
<1>1. posts[i] \in Message /\ i \in DOMAIN posts
  BY DEF IsProgress
<1>2. CASE posts' = [posts EXCEPT ![i].text = t]
  <2> DEFINE m == [posts[i] EXCEPT !.text = t]
  <2>1. m \in Message /\ m.kind = "progress"
    BY <1>1 DEF Message, IsProgress
  <2>2. posts' = [posts EXCEPT ![i] = m]
    BY <1>2
  <2> HIDE DEF m
  <2> QED BY <1>1, <2>1, <2>2, PostEdited DEF SameChunks, IsProgress
<1>3. CASE posts' = Without(i)
  <2> DEFINE m == [posts[i] EXCEPT !.up = FALSE]
  <2>1. m \in Message /\ m.kind = "progress"
    BY <1>1 DEF Message, IsProgress
  <2>2. posts' = [posts EXCEPT ![i] = m]
    BY <1>3 DEF Without
  <2> HIDE DEF m
  <2> QED BY <1>1, <2>1, <2>2, PostEdited DEF SameChunks, IsProgress
<1> QED BY <1>2, <1>3

\* A message that is no chunk is added.
LEMMA PostKeeps ==
    ASSUME posts \in Seq(Message), NEW m \in Message, m.kind # "chunk", posts' = Append(posts, m)
    PROVE  SameChunks
<1>1. /\ posts' \in Seq(Message) /\ DOMAIN posts \subseteq DOMAIN posts'
      /\ \A k \in DOMAIN posts : posts'[k] = posts[k]
      /\ \A k \in DOMAIN posts' : k \in DOMAIN posts \/ posts'[k] = m
  BY AppendIs
<1> QED BY <1>1 DEF SameChunks

\* No message comes, goes or changes.
LEMMA NothingKeeps ==
    ASSUME posts \in Seq(Message), posts' = posts
    PROVE  SameChunks
  BY DEF SameChunks

\* Messages
LEMMA PostIs ==
    /\ \A t \in Nat : Post("progress", t) \in Message /\ Post("progress", t).kind = "progress"
    /\ \A t \in Nat : Post("chunk", t) \in Message
    /\ Post("document", Null) \in Message /\ Post("document", Null).kind = "document"
    /\ \A t : Post("chunk", t).kind = "chunk" /\ Post("chunk", t).up /\ Post("chunk", t).text = t
  BY DEF Post, Message, Null

\* Calls
LEMMA AskIs ==
    /\ Idle \in ApiCall /\ Idle.method = "none"
    /\ \A m \in {"edit", "send", "delete", "chunk", "document"}, t \in Nat, p \in Nat :
          /\ Ask(m, t, p) \in ApiCall /\ Ask(m, t, p).method = m /\ Ask(m, t, p).post = p
          /\ Ask(m, t, p) # Idle
          /\ [Ask(m, t, p) EXCEPT !.over = TRUE] \in ApiCall
          /\ [Ask(m, t, p) EXCEPT !.over = TRUE].post = p
<1>1. Idle \in ApiCall /\ Idle.method = "none"
  BY DEF Idle, ApiCall, Null
<1>2. ASSUME NEW m \in {"edit", "send", "delete", "chunk", "document"}, NEW t \in Nat, NEW p \in Nat
      PROVE  /\ Ask(m, t, p) \in ApiCall /\ Ask(m, t, p).method = m /\ Ask(m, t, p).post = p
             /\ Ask(m, t, p) # Idle
  BY DEF Ask, Idle, ApiCall, Null
<1>3. ASSUME NEW c \in ApiCall
      PROVE  [c EXCEPT !.over = TRUE] \in ApiCall /\ [c EXCEPT !.over = TRUE].post = c.post
  BY DEF ApiCall
<1> QED BY <1>1, <1>2, <1>3

\* Where the run goes with an operation of the chain
LEMMA AfterIs ==
    ASSUME run \in RunState, progress' \in ProgressState, NEW k \in Op
    PROVE  /\ After(k) \in RunState
           /\ After(k).chunk = run.chunk /\ After(k).total = run.total /\ After(k).status = run.status
           /\ After(k).document = run.document
           /\ \/ After(k) = run
              \/ /\ run.pc = "finalize" /\ k = "finalize" /\ After(k).pc = "reply"
                 /\ After(k).ids = run.ids
              \/ /\ run.pc = "fallback" /\ k = "finalize" /\ After(k).pc = "event"
                 /\ After(k).ids = <<progress'.id>>
              \/ k = "dismiss" /\ After(k).pc = "over" /\ After(k).ids = run.ids
<1> DEFINE a == [run EXCEPT !.pc = "reply"]
           b == [run EXCEPT !.pc = "event", !.viaProgress = TRUE, !.delivered = TRUE,
                            !.ids = <<progress'.id>>]
           c == [run EXCEPT !.pc = "over"]
<1>1. a \in RunState /\ a.pc = "reply" /\ a.ids = run.ids /\ a.chunk = run.chunk
      /\ a.total = run.total /\ a.status = run.status /\ a.document = run.document
  BY DEF RunState, Pc
<1>2. b \in RunState /\ b.pc = "event" /\ b.ids = <<progress'.id>> /\ b.chunk = run.chunk
      /\ b.total = run.total /\ b.status = run.status /\ b.document = run.document
  <2>1. <<progress'.id>> \in Seq(Nat)
    BY DEF ProgressState
  <2> QED BY <2>1 DEF RunState, Pc
<1>3. c \in RunState /\ c.pc = "over" /\ c.ids = run.ids /\ c.chunk = run.chunk
      /\ c.total = run.total /\ c.status = run.status /\ c.document = run.document
  BY DEF RunState, Pc, Ended
<1>4. \/ k = "finalize" /\ run.pc = "finalize" /\ After(k) = a
      \/ k = "finalize" /\ run.pc = "fallback" /\ After(k) = b
      \/ k = "dismiss" /\ After(k) = c
      \/ After(k) = run
  BY DEF After, Op
<1> HIDE DEF a, b, c
<1> QED BY <1>1, <1>2, <1>3, <1>4

\* The operation at the head of the chain is over.
LEMMA PopTypes ==
    ASSUME Typed, progress' \in ProgressState, chain # <<>>, Pop
    PROVE  chain' \in Seq(Op) /\ call' \in ApiCall /\ run' \in RunState
<1>1. chain \in Seq(Op) /\ run \in RunState
  BY DEF Typed
<1>2. Tail(chain) \in Seq(Op) /\ Head(chain) \in Op
  BY <1>1, TailIs
<1> QED BY <1>1, <1>2, AfterIs, AskIs DEF Pop

\* A text that could not be shown is kept.
LEMMA KeepPendingIs ==
    ASSUME NEW p \in ProgressState, NEW text \in Nat, NEW retry \in BOOLEAN
    PROVE  KeepPending(p, text, retry) \in ProgressState /\ KeepPending(p, text, retry).id = p.id
  BY DEF KeepPending, ProgressState, Null

\* Faults do not end a process.
LEMMA SpentIs ==
    ASSUME world \in WorldState, NEW out
    PROVE  Spent(out) \in WorldState /\ Spent(out).alive = world.alive
  BY DEF Spent, WorldState

\* The types after a step of the chain
LEMMA ChainTypes ==
    ASSUME MailInv, ChainStep
    PROVE  Typed'
<1> USE DEF MailInv
<1>0. /\ posts \in Seq(Message) /\ progress \in ProgressState /\ chain \in Seq(Op)
      /\ call \in ApiCall /\ run \in RunState /\ send \in ApiCall /\ disk \in DiskState
      /\ world \in WorldState /\ steps \in Nat
  BY DEF Typed
<1>c. /\ call.text \in Nat /\ call.post \in Nat
      /\ progress.id \in Nat /\ progress.terminal \in Nat /\ progress.pending \in Nat
      /\ run.pc \in Pc
  BY <1>0 DEF ApiCall, ProgressState, RunState
<1>h. chain # <<>> => Head(chain) \in Op
  BY <1>0, TailIs
<1>b. call.method # "none" => call # Idle
  BY AskIs
<1>k. call # Idle => chain # <<>> /\ IsProgress(call.post)
  BY DEF ChainHolds
<1>d. \A b : b \in BOOLEAN => [disk EXCEPT !.parked = @ \/ b] \in DiskState
  BY <1>0 DEF DiskState
<1>1. CASE TimerFires
  <2>1. progress' \in ProgressState
    BY <1>0, <1>1 DEF TimerFires, ProgressState
  <2>2. chain' \in Seq(Op)
    BY <1>0, <1>1, AppendIs DEF TimerFires, Op
  <2> QED BY <1>0, <1>1, <2>1, <2>2 DEF TimerFires, Typed
<1>2. CASE BeginFlush
  <2> DEFINE text == IF progress.closed THEN progress.terminal ELSE progress.pending
             ends == text \in {Null, progress.current} \/ progress.id = Null
             left == IF progress.id = Null THEN text ELSE Null
  <2>1. text \in Nat /\ left \in Nat
    BY <1>c DEF Null
  <2>2. /\ chain # <<>> /\ progress' = [progress EXCEPT !.pending = left]
        /\ IF ends THEN Pop
           ELSE /\ call' = Ask(IF progress.append THEN "send" ELSE "edit", text, progress.id)
                /\ UNCHANGED <<chain, run>>
        /\ UNCHANGED <<posts, send, disk, world, steps, orphans>>
    BY <1>2 DEF BeginFlush
  <2> HIDE DEF text, left, ends
  <2>3. progress' \in ProgressState
    BY <1>0, <2>1, <2>2 DEF ProgressState
  <2>4. CASE ends
    <3>1. chain' \in Seq(Op) /\ call' \in ApiCall /\ run' \in RunState
      BY <2>2, <2>3, <2>4, PopTypes
    <3> QED BY <1>0, <2>2, <2>3, <3>1 DEF Typed
  <2>5. CASE ~ends
    <3> DEFINE method == IF progress.append THEN "send" ELSE "edit"
    <3>0. method \in {"edit", "send", "delete", "chunk", "document"}
      OBVIOUS
    <3>2. call' = Ask(method, text, progress.id)
      BY <2>2, <2>5
    <3> HIDE DEF method
    <3>1. call' \in ApiCall
      BY <1>c, <2>1, <3>0, <3>2, AskIs
    <3> QED BY <1>0, <2>2, <2>3, <2>5, <3>1 DEF Typed
  <2> QED BY <2>4, <2>5
<1>3. CASE Edited
  <2>1. PICK out \in Outcomes(call) :
        /\ world' = Spent(out)
        /\ posts' = IF Done(out) THEN [posts EXCEPT ![call.post].text = call.text] ELSE posts
        /\ disk' = [disk EXCEPT !.parked = @ \/ out = "gone"]
        /\ \/ /\ out = "ok"
              /\ progress' = [progress EXCEPT !.current = call.text]
              /\ Pop
           \/ /\ out \in {"lost", "down", "refused", "gone"}
              /\ progress' = KeepPending(progress, call.text, out # "gone")
              /\ Pop
           \/ /\ out = "replace"
              /\ progress' = [progress EXCEPT !.append = TRUE, !.pending = call.text]
              /\ call' = [Ask("send", call.text, call.post) EXCEPT !.over = TRUE]
              /\ UNCHANGED <<chain, run>>
    BY <1>3 DEF Edited
  <2>2. call # Idle /\ UNCHANGED <<send, steps, orphans>>
    BY <1>3, <1>b DEF Edited
  <2>3. posts' \in Seq(Message)
    BY <1>0, <1>c, <1>k, <2>1, <2>2, EditKeeps, NothingKeeps DEF SameChunks
  <2>4. disk' \in DiskState /\ world' \in WorldState
    BY <1>0, <1>d, <2>1, SpentIs
  <2>5. progress' \in ProgressState
    <3>1. [progress EXCEPT !.current = call.text] \in ProgressState
      BY <1>0, <1>c DEF ProgressState
    <3>2. [progress EXCEPT !.append = TRUE, !.pending = call.text] \in ProgressState
      BY <1>0, <1>c DEF ProgressState
    <3>3. KeepPending(progress, call.text, out # "gone") \in ProgressState
      BY <1>0, <1>c, KeepPendingIs
    <3> QED BY <2>1, <3>1, <3>2, <3>3
  <2>6. chain' \in Seq(Op) /\ call' \in ApiCall /\ run' \in RunState
    <3>1. CASE Pop
      BY <1>k, <2>2, <2>5, <3>1, PopTypes
    <3>2. CASE call' = [Ask("send", call.text, call.post) EXCEPT !.over = TRUE] /\ UNCHANGED <<chain, run>>
      BY <1>0, <1>c, <3>2, AskIs
    <3> QED BY <2>1, <3>1, <3>2
  <2> QED BY <1>0, <2>2, <2>3, <2>4, <2>5, <2>6 DEF Typed
<1>4. CASE Appended
  <2>1. PICK out \in Outcomes(call) :
        /\ world' = Spent(out)
        /\ posts' = IF Done(out) THEN Append(posts, Post("progress", call.text)) ELSE posts
        /\ disk' = [disk EXCEPT !.parked = @ \/ out = "gone"]
        /\ IF out = "ok"
           THEN /\ progress' = [progress EXCEPT !.id = Len(posts) + 1, !.current = call.text]
                /\ call' = [call EXCEPT !.method = "delete", !.waits = 0]
                /\ UNCHANGED <<chain, run>>
           ELSE /\ progress' = KeepPending(progress, call.text, TRUE)
                /\ Pop
    BY <1>4 DEF Appended
  <2>2. call # Idle /\ UNCHANGED <<send, steps>>
    BY <1>4, <1>b DEF Appended
  <2>3. posts' \in Seq(Message)
    BY <1>0, <1>c, <2>1, PostIs, PostKeeps, NothingKeeps DEF SameChunks
  <2>4. disk' \in DiskState /\ world' \in WorldState
    BY <1>0, <1>d, <2>1, SpentIs
  <2>5. CASE out = "ok"
    <3>1. progress' \in ProgressState
      <4>1. Len(posts) + 1 \in Nat
        BY <1>0, AppendIs, PostIs
      <4>2. \A n \in Nat : [progress EXCEPT !.id = n, !.current = call.text] \in ProgressState
        BY <1>0, <1>c DEF ProgressState
      <4> QED BY <2>1, <2>5, <4>1, <4>2
    <3>2. call' \in ApiCall
      <4>1. [call EXCEPT !.method = "delete", !.waits = 0] \in ApiCall
        BY <1>0 DEF ApiCall
      <4> QED BY <2>1, <2>5, <4>1
    <3> QED BY <1>0, <2>1, <2>2, <2>3, <2>4, <2>5, <3>1, <3>2 DEF Typed
  <2>6. CASE out # "ok"
    <3>1. progress' \in ProgressState
      BY <1>0, <1>c, <2>1, <2>6, KeepPendingIs
    <3>2. chain' \in Seq(Op) /\ call' \in ApiCall /\ run' \in RunState
      BY <1>k, <2>1, <2>2, <2>6, <3>1, PopTypes
    <3> QED BY <1>0, <2>2, <2>3, <2>4, <3>1, <3>2 DEF Typed
  <2> QED BY <2>5, <2>6
<1>5. CASE Deleted \/ Dismissed
  <2>1. PICK out \in Outcomes(call) :
        /\ world' = Spent(out)
        /\ posts' = IF Done(out) THEN Without(call.post) ELSE posts
        /\ progress' \in {progress, [progress EXCEPT !.pending = Null],
                         [progress EXCEPT !.id = Null, !.current = Null]}
        /\ Pop
    BY <1>5 DEF Deleted, Dismissed
  <2>2. call # Idle /\ UNCHANGED <<send, disk, steps>>
    BY <1>5, <1>b DEF Deleted, Dismissed
  <2>3. posts' \in Seq(Message)
    BY <1>0, <1>c, <1>k, <2>1, <2>2, EditKeeps, NothingKeeps DEF SameChunks
  <2>4. world' \in WorldState
    BY <1>0, <2>1, SpentIs
  <2>5. progress' \in ProgressState
    <3>1. [progress EXCEPT !.pending = Null] \in ProgressState
      BY <1>0 DEF ProgressState, Null
    <3>2. [progress EXCEPT !.id = Null, !.current = Null] \in ProgressState
      BY <1>0 DEF ProgressState, Null
    <3> QED BY <1>0, <2>1, <3>1, <3>2
  <2>6. chain' \in Seq(Op) /\ call' \in ApiCall /\ run' \in RunState
    BY <1>k, <2>1, <2>2, <2>5, PopTypes
  <2> QED BY <1>0, <2>2, <2>3, <2>4, <2>5, <2>6 DEF Typed
<1>6. CASE BeginDismiss
  <2>1. progress' \in ProgressState
    BY <1>0, <1>6 DEF BeginDismiss, ProgressState, Null
  <2>2. chain' \in Seq(Op) /\ call' \in ApiCall /\ run' \in RunState
    <3>1. CASE progress.id = Null
      BY <1>6, <2>1, <3>1, PopTypes DEF BeginDismiss
    <3>2. CASE progress.id # Null
      <4>1. Null \in Nat
        BY DEF Null
      <4>2. /\ chain' = chain /\ run' = run
            /\ call' = Ask("delete", Null, progress.id)
        BY <1>6, <3>2 DEF BeginDismiss
      <4> QED BY <1>0, <1>c, <4>1, <4>2, AskIs
    <3> QED BY <3>1, <3>2
  <2> QED BY <1>0, <1>6, <2>1, <2>2 DEF BeginDismiss, Typed
<1> QED BY <1>1, <1>2, <1>3, <1>4, <1>5, <1>6 DEF ChainStep

\* The end of the run begins to close the progress message.
LEMMA FinalizeTypes ==
    ASSUME progress \in ProgressState, chain \in Seq(Op)
    PROVE  /\ \A t \in Nat : Finalize(t) => progress' \in ProgressState /\ chain' \in Seq(Op)
           /\ \A t \in Nat : Finalize(t) =>
                 chain' = Append(chain, "finalize") /\ progress'.id = progress.id
           /\ Dismiss => progress' \in ProgressState /\ chain' \in Seq(Op)
           /\ Dismiss => chain' = Append(chain, "dismiss") /\ progress'.id = progress.id
<1>1. Append(chain, "finalize") \in Seq(Op) /\ Append(chain, "dismiss") \in Seq(Op)
  BY AppendIs DEF Op
<1>2. \A t \in Nat : [progress EXCEPT !.closed = TRUE, !.terminal = t, !.timer = FALSE] \in ProgressState
  BY DEF ProgressState
<1>3. Null \in Nat
  BY DEF Null
<1>4. \A t : [progress EXCEPT !.closed = TRUE, !.terminal = t, !.timer = FALSE].id = progress.id
  BY DEF ProgressState
<1> QED BY <1>1, <1>2, <1>3, <1>4 DEF Finalize, Dismiss

\* What the loop over the chunks makes of the run
LEMMA ChunkLoop ==
    ASSUME NEW r \in RunState
    PROVE  /\ NextChunk(r) \in RunState /\ NextChunk(r).pc \in {"event", "reply"}
           /\ NextChunk(r).ids = r.ids /\ NextChunk(r).chunk = r.chunk + 1
           /\ NextChunk(r).status = r.status
           /\ ReplyThrows(r) \in RunState /\ ReplyThrows(r).pc \in {"event", "over"}
           /\ ReplyThrows(r).ids = r.ids /\ ReplyThrows(r).chunk = r.chunk
           /\ ReplyThrows(r).status = r.status
           /\ Retried(r) \in RunState /\ Retried(r).pc \in {"event", r.pc, "reply"}
           /\ Retried(r).ids = r.ids /\ Retried(r).chunk \in {r.chunk, r.chunk + 1}
           /\ Retried(r).status = r.status
<1>1. ASSUME NEW s \in RunState
      PROVE  /\ NextChunk(s) \in RunState /\ NextChunk(s).pc \in {"event", "reply"}
             /\ NextChunk(s).ids = s.ids /\ NextChunk(s).chunk = s.chunk + 1
             /\ NextChunk(s).status = s.status
  <2> DEFINE a == [s EXCEPT !.chunk = s.chunk + 1]
             b == [a EXCEPT !.try = 1]
             c == [b EXCEPT !.target = FALSE]
             d(x) == [c EXCEPT !.delivered = x]
             e(x, q) == [d(x) EXCEPT !.pc = q]
  <2>1. a \in RunState /\ a.chunk = s.chunk + 1 /\ a.ids = s.ids /\ a.status = s.status
    <3>1. s.chunk + 1 \in Nat \ {0}
      BY DEF RunState
    <3>2. ASSUME NEW n \in Nat \ {0} PROVE [s EXCEPT !.chunk = n] \in RunState
      BY DEF RunState
    <3>3. a \in RunState
      BY <3>1, <3>2
    <3> QED BY <3>3 DEF RunState
  <2>2. b \in RunState /\ b.chunk = a.chunk /\ b.ids = a.ids /\ b.status = a.status
    <3> HIDE DEF a
    <3> QED BY <2>1 DEF RunState
  <2>3. c \in RunState /\ c.chunk = b.chunk /\ c.ids = b.ids /\ c.status = b.status
    <3> HIDE DEF a, b
    <3> QED BY <2>2 DEF RunState
  <2>4. ASSUME NEW x \in BOOLEAN
        PROVE  /\ d(x) \in RunState /\ d(x).chunk = c.chunk /\ d(x).ids = c.ids
               /\ d(x).status = c.status
    <3> HIDE DEF a, b, c
    <3> QED BY <2>3 DEF RunState
  <2>5. ASSUME NEW x \in BOOLEAN, NEW q \in {"event", "reply"}
        PROVE  /\ e(x, q) \in RunState /\ e(x, q).chunk = d(x).chunk /\ e(x, q).ids = d(x).ids
               /\ e(x, q).status = d(x).status /\ e(x, q).pc = q
    <3> HIDE DEF a, b, c, d
    <3>1. d(x) \in RunState /\ q \in Pc
      BY <2>4 DEF Pc
    <3>2. e(x, q) \in RunState
      BY <3>1 DEF RunState
    <3> QED BY <3>1, <3>2 DEF RunState
  <2>6. NextChunk(s) = e(TRUE, "event") \/ NextChunk(s) = e(FALSE, "reply")
    BY DEF NextChunk
  <2> HIDE DEF a, b, c, d, e
  <2> QED BY <2>1, <2>2, <2>3, <2>4, <2>5, <2>6
<1>2. /\ ReplyThrows(r) \in RunState /\ ReplyThrows(r).pc \in {"event", "over"}
      /\ ReplyThrows(r).ids = r.ids /\ ReplyThrows(r).chunk = r.chunk
      /\ ReplyThrows(r).status = r.status
  BY DEF ReplyThrows, RunState, Pc, Ended
<1>3. /\ Retried(r) \in RunState /\ Retried(r).pc \in {"event", r.pc, "reply"}
      /\ Retried(r).ids = r.ids /\ Retried(r).chunk \in {r.chunk, r.chunk + 1}
      /\ Retried(r).status = r.status
  <2>1. CASE r.try = Attempts
    <3> DEFINE s == [r EXCEPT !.skipped = TRUE]
    <3>1. /\ s \in RunState /\ s.ids = r.ids /\ s.chunk = r.chunk /\ s.status = r.status
      BY DEF RunState
    <3>2. Retried(r) = NextChunk(s)
      BY <2>1 DEF Retried
    <3> HIDE DEF s
    <3> QED BY <1>1, <3>1, <3>2
  <2>2. CASE r.try # Attempts
    <3>1. Retried(r) = [r EXCEPT !.try = r.try + 1]
      BY <2>2 DEF Retried
    <3>2. \A t \in Nat : [r EXCEPT !.try = t] \in RunState
      BY DEF RunState
    <3>3. r.try + 1 \in Nat
      BY DEF RunState
    <3>4. Retried(r) \in RunState
      BY <3>1, <3>2, <3>3
    <3> QED BY <3>1, <3>4 DEF RunState
  <2> QED BY <2>1, <2>2
<1> QED BY <1>1, <1>2, <1>3

\* The answer to a chunk: what it does to the run, whichever answer it is
ChunkAnswered ==
    /\ run' \in RunState
    /\ run'.chunk \in {run.chunk, run.chunk + 1} /\ run'.status = run.status
    /\ \/ run'.pc \in {"reply", "event", "over"} /\ progress' = progress /\ chain' = chain
       \/ run'.pc = "fallback" /\ progress.id # Null /\ Finalize(Reply)

\* The answer to a chunk, whichever it is: the chunk was posted or was not.
LEMMA ChunkSentIs ==
    ASSUME MailInv, ChunkSent
    PROVE  /\ ChunkAnswered
           /\ run.pc = "reply" /\ send # Idle /\ send' = Idle /\ call' = call /\ steps' = steps
           /\ disk' \in DiskState /\ disk'.event = disk.event /\ disk'.status = disk.status
           /\ world' \in WorldState /\ world'.alive = world.alive
           /\ \/ posts' = posts /\ run'.ids = run.ids
              \/ /\ posts' = Append(posts, Post("chunk", run.chunk))
                 /\ run'.ids \in {run.ids, Append(run.ids, Len(posts) + 1)}
<1> USE DEF MailInv
<1>0. /\ run \in RunState /\ world \in WorldState /\ disk \in DiskState /\ posts \in Seq(Message)
  BY DEF Typed
<1> DEFINE sent == [run EXCEPT !.ids = Append(@, Len(posts) + 1)]
           bare == [run EXCEPT !.target = FALSE]
           gone == [run EXCEPT !.pc = "event"]
           more == [run EXCEPT !.try = @ + 1]
           back == [run EXCEPT !.pc = "fallback"]
<1>1. PICK out \in Outcomes(send) :
        /\ world' = Spent(out)
        /\ posts' = IF Done(out) THEN Append(posts, Post("chunk", run.chunk)) ELSE posts
        /\ disk' = [disk EXCEPT !.parked = @ \/ out = "gone"]
        /\ \/ out = "ok" /\ run' = NextChunk(sent) /\ UNCHANGED <<progress, chain>>
           \/ out # "ok" /\ run' = Retried(bare) /\ UNCHANGED <<progress, chain>>
           \/ out # "ok" /\ run' = gone /\ UNCHANGED <<progress, chain>>
           \/ out # "ok" /\ run' = more /\ UNCHANGED <<progress, chain>>
           \/ out # "ok" /\ run' = back /\ progress.id # Null /\ Finalize(Reply)
           \/ out # "ok" /\ run' = ReplyThrows(run) /\ UNCHANGED <<progress, chain>>
  BY DEF ChunkSent, Transient
<1>2. run.pc = "reply" /\ send # Idle /\ send' = Idle /\ call' = call /\ steps' = steps
  BY DEF ChunkSent
<1>3. disk' \in DiskState /\ disk'.event = disk.event /\ disk'.status = disk.status
  BY <1>0, <1>1 DEF DiskState
<1>4. world' \in WorldState /\ world'.alive = world.alive
  BY <1>0, <1>1, SpentIs
<1>5. /\ sent \in RunState /\ sent.ids = Append(run.ids, Len(posts) + 1)
      /\ sent.chunk = run.chunk /\ sent.status = run.status
  <2>1. Len(posts) + 1 \in Nat
    BY <1>0, AppendIs, PostIs
  <2>2. run.ids \in Seq(Nat)
    BY <1>0 DEF RunState
  <2>3. Append(run.ids, Len(posts) + 1) \in Seq(Nat)
    BY <2>1, <2>2, AppendIs
  <2> QED BY <1>0, <2>3 DEF RunState
<1>6. /\ bare \in RunState /\ bare.ids = run.ids /\ bare.chunk = run.chunk
      /\ bare.status = run.status /\ bare.pc = run.pc
  BY <1>0 DEF RunState
<1>7. /\ gone \in RunState /\ gone.ids = run.ids /\ gone.chunk = run.chunk
      /\ gone.status = run.status /\ gone.pc = "event"
  BY <1>0 DEF RunState, Pc
<1>8. /\ more \in RunState /\ more.ids = run.ids /\ more.chunk = run.chunk
      /\ more.status = run.status /\ more.pc = run.pc
  <2>1. ASSUME NEW n \in Nat PROVE [run EXCEPT !.try = n] \in RunState
    BY <1>0 DEF RunState
  <2>2. run.try + 1 \in Nat
    BY <1>0 DEF RunState
  <2>3. more \in RunState
    BY <2>1, <2>2
  <2> QED BY <1>0, <2>3 DEF RunState
<1>9. /\ back \in RunState /\ back.ids = run.ids /\ back.chunk = run.chunk
      /\ back.status = run.status /\ back.pc = "fallback"
  BY <1>0 DEF RunState, Pc
<1> HIDE DEF sent, bare, gone, more, back
<1>a. LET r == NextChunk(sent)
      IN  /\ r \in RunState /\ r.pc \in {"event", "reply"} /\ r.ids = sent.ids
          /\ r.chunk = run.chunk + 1 /\ r.status = run.status
  BY <1>5, ChunkLoop
<1>b. LET r == Retried(bare)
      IN  /\ r \in RunState /\ r.pc \in {"event", "reply"} /\ r.ids = run.ids
          /\ r.chunk \in {run.chunk, run.chunk + 1} /\ r.status = run.status
  BY <1>2, <1>6, ChunkLoop
<1>c. LET r == ReplyThrows(run)
      IN  /\ r \in RunState /\ r.pc \in {"event", "over"} /\ r.ids = run.ids
          /\ r.chunk = run.chunk /\ r.status = run.status
  BY <1>0, ChunkLoop
<1>10. ChunkAnswered
  BY <1>0, <1>1, <1>2, <1>7, <1>8, <1>9, <1>a, <1>b, <1>c DEF ChunkAnswered
<1>11. out = "ok" => Done(out)
  BY DEF Done
<1>12. out # "ok" => run'.ids = run.ids
  BY <1>1, <1>7, <1>8, <1>9, <1>b, <1>c
<1>13. out = "ok" => run'.ids = Append(run.ids, Len(posts) + 1)
  BY <1>1, <1>5, <1>a
<1> QED BY <1>1, <1>2, <1>3, <1>4, <1>10, <1>11, <1>12, <1>13

\* The steps of the run that send or write, but for a chunk's answer
LEMMA EndTypes ==
    ASSUME MailInv, EndStep
    PROVE  Typed'
<1> USE DEF MailInv
<1>0. /\ posts \in Seq(Message) /\ progress \in ProgressState /\ chain \in Seq(Op)
      /\ call \in ApiCall /\ run \in RunState /\ send \in ApiCall /\ disk \in DiskState
      /\ world \in WorldState /\ steps \in Nat
  BY DEF Typed
<1>n. Null \in Nat /\ Stopping \in Nat /\ Reply \in Nat /\ run.chunk \in Nat
  BY <1>0, DeliveryAssumption DEF Null, Stopping, Reply, DeliveryAssumption, RunState
<1>p. ASSUME NEW q \in Pc PROVE [run EXCEPT !.pc = q] \in RunState
  BY <1>0 DEF RunState
<1>d. ASSUME NEW b \in BOOLEAN
      PROVE  /\ [disk EXCEPT !.parked = @ \/ b] \in DiskState
             /\ [disk EXCEPT !.parked = @ \/ b, !.staged = FALSE] \in DiskState
             /\ [disk EXCEPT !.staged = TRUE] \in DiskState
  BY <1>0 DEF DiskState
<1>s. ASSUME NEW q \in Final \cup {"none", "running"} PROVE [disk EXCEPT !.status = q] \in DiskState
  BY <1>0 DEF DiskState
<1>e. ASSUME NEW q \in {"none", "local"}, NEW pc \in Pc, NEW b \in BOOLEAN
      PROVE  /\ [run EXCEPT !.document = q] \in RunState
             /\ [run EXCEPT !.pc = pc, !.document = q] \in RunState
             /\ [run EXCEPT !.pc = pc, !.document = q, !.mute = b] \in RunState
  BY <1>0 DEF RunState
<1>v. [disk EXCEPT !.event = Event] \in DiskState
  <2>1. Event \in FinalEvent
    BY <1>0 DEF Event, FinalEvent, RunState
  <2> QED BY <1>0, <2>1 DEF DiskState
<1>w. Pc = {"start", "work", "docs", "patch", "log", "finalize", "reply", "fallback", "event",
            "dismiss", "over", "dead"}
  BY DEF Pc, Ended
<1>1. CASE Start
  <2>1. send' \in ApiCall
    BY <1>n, <1>1, AskIs DEF Start
  <2> QED BY <1>0, <1>1, <2>1 DEF Start, Typed
<1>2. CASE Started
  <2>1. PICK out \in Outcomes(send) :
        /\ world' = Spent(out)
        /\ posts' = IF Done(out) THEN Append(posts, Post("progress", 1)) ELSE posts
        /\ progress' = IF out = "ok" THEN [progress EXCEPT !.id = 1, !.current = 1] ELSE progress
        /\ \/ run' = [run EXCEPT !.pc = "work"] /\ disk' = [disk EXCEPT !.status = "running"]
           \/ run' = [run EXCEPT !.pc = "over"] /\ disk' = [disk EXCEPT !.parked = @ \/ out = "gone"]
    BY <1>2 DEF Started
  <2>2. send' = Idle /\ UNCHANGED <<chain, call, steps>>
    BY <1>2 DEF Started
  <2>3. posts' \in Seq(Message)
    BY <1>0, <2>1, PostIs, PostKeeps, NothingKeeps DEF SameChunks
  <2>4. progress' \in ProgressState
    BY <1>0, <2>1 DEF ProgressState
  <2>5. disk' \in DiskState
    BY <1>d, <1>s, <2>1
  <2>6. run' \in RunState
    BY <1>p, <1>w, <2>1
  <2> QED BY <1>0, <2>1, <2>2, <2>3, <2>4, <2>5, <2>6, AskIs, SpentIs DEF Typed
<1>3. CASE RefuseDocument
  <2>1. run' \in RunState
    BY <1>e, <1>w, <1>3 DEF RefuseDocument
  <2> QED BY <1>0, <1>3, <2>1 DEF RefuseDocument, Typed
<1>4. CASE StageDocument
  <2>1. run' \in RunState
    BY <1>e, <1>w, <1>4 DEF StageDocument
  <2>2. disk' \in DiskState
    BY <1>0, <1>d, <1>4 DEF StageDocument
  <2>3. world' \in WorldState
    BY <1>0, <1>4 DEF StageDocument, WorldState
  <2> QED BY <1>0, <1>4, <2>1, <2>2, <2>3 DEF StageDocument, Typed
<1>5. CASE SendDocument
  <2>1. send' \in ApiCall
    BY <1>n, <1>5, AskIs DEF SendDocument
  <2> QED BY <1>0, <1>5, <2>1 DEF SendDocument, Typed
<1>6. CASE DocumentSent
  <2>1. PICK out \in Outcomes(send) :
        /\ world' = Spent(out)
        /\ posts' = IF Done(out) THEN Append(posts, Post("document", Null)) ELSE posts
        /\ disk' = [disk EXCEPT !.parked = @ \/ out = "gone", !.staged = FALSE]
        /\ run' = [run EXCEPT !.pc = "patch", !.document = "none", !.mute = out = "gone"]
    BY <1>6 DEF DocumentSent
  <2>2. send' = Idle /\ UNCHANGED <<progress, chain, call, steps>>
    BY <1>6 DEF DocumentSent
  <2>3. posts' \in Seq(Message)
    BY <1>0, <2>1, PostIs, PostKeeps, NothingKeeps DEF SameChunks
  <2>4. disk' \in DiskState /\ run' \in RunState
    BY <1>d, <1>e, <1>w, <2>1
  <2> QED BY <1>0, <2>1, <2>2, <2>3, <2>4, AskIs, SpentIs DEF Typed
<1>7. CASE Persist
  <2>1. CASE run.pc = "patch"
    <3>1. run.status \in Final \cup {"none", "running"}
      BY <1>0 DEF RunState
    <3>2. disk' \in DiskState /\ run' \in RunState
      BY <1>p, <1>s, <1>w, <1>7, <2>1, <3>1 DEF Persist
    <3> QED BY <1>0, <1>7, <2>1, <3>2 DEF Persist, Typed
  <2>2. CASE run.pc # "patch"
    <3>1. run' \in RunState
      BY <1>p, <1>w, <1>7, <2>2 DEF Persist
    <3>2. (IF run.status = "interrupted" THEN Stopping ELSE steps) \in Nat
      BY <1>0, <1>n
    <3>3. progress' \in ProgressState /\ chain' \in Seq(Op)
      BY <1>0, <1>7, <2>2, <3>2, FinalizeTypes DEF Persist
    <3> QED BY <1>0, <1>7, <2>2, <3>1, <3>3 DEF Persist, Typed
  <2> QED BY <2>1, <2>2
<1>8. CASE SkipReply
  <2>1. run' \in RunState
    BY <1>p, <1>w, <1>8 DEF SkipReply
  <2> QED BY <1>0, <1>8, <2>1 DEF SkipReply, Typed
<1>9. CASE SendChunk
  <2>1. send' \in ApiCall
    BY <1>n, <1>9, AskIs DEF SendChunk
  <2> QED BY <1>0, <1>9, <2>1 DEF SendChunk, Typed
<1>10. CASE ChunkSent
  <2>1. progress' \in ProgressState /\ chain' \in Seq(Op)
    BY <1>0, <1>n, <1>10, ChunkSentIs, FinalizeTypes DEF ChunkAnswered
  <2>2. posts' \in Seq(Message)
    <3>1. Post("chunk", run.chunk) \in Message
      BY <1>n, PostIs
    <3>2. Append(posts, Post("chunk", run.chunk)) \in Seq(Message)
      BY <1>0, <3>1, AppendIs
    <3> QED BY <1>0, <1>10, <3>2, ChunkSentIs
  <2> QED BY <1>0, <1>10, <2>1, <2>2, ChunkSentIs, AskIs DEF ChunkAnswered, Typed
<1>11. CASE Emit
  <2>1. run' \in RunState
    BY <1>p, <1>w, <1>11 DEF Emit
  <2>2. progress' \in ProgressState /\ chain' \in Seq(Op)
    BY <1>0, <1>11, FinalizeTypes DEF Emit
  <2> QED BY <1>0, <1>v, <1>11, <2>1, <2>2 DEF Emit, Typed
<1> QED BY <1>1, <1>2, <1>3, <1>4, <1>5, <1>6, <1>7, <1>8, <1>9, <1>10, <1>11 DEF EndStep

\* The steps around the run
OtherStep ==
    \/ WaitForCall \/ WaitForSend
    \/ StartThrows \/ Update \/ WorkThrows \/ PersistThrows \/ EmitThrows
    \/ \E status \in Final, document \in {"none", "bad", "local", "remote"}, chunks \in 1 .. MaxChunks :
          Finish(status, document, chunks)
    \/ Supersede \/ CloseTopic \/ Crash \/ Recover

\* What Throw does, and Finish of a run that was superseded
LEMMA ThrowIs ==
    ASSUME Typed, Throw \/ Suppressed
    PROVE  /\ progress' \in ProgressState /\ chain' \in Seq(Op) /\ run' \in RunState
           /\ run'.ids = run.ids /\ run'.chunk = run.chunk
           /\ \/ run'.pc = "dismiss" /\ Dismiss
              \/ /\ run'.pc = "patch" /\ run'.status = "failed"
                 /\ progress' = progress /\ chain' = chain
<1>0. progress \in ProgressState /\ chain \in Seq(Op) /\ run \in RunState
  BY DEF Typed
<1>1. CASE Suppressed
  <2>1. run' = [run EXCEPT !.pc = "dismiss"] /\ Dismiss
    BY <1>1 DEF Suppressed
  <2>2. run' \in RunState /\ run'.ids = run.ids /\ run'.chunk = run.chunk /\ run'.pc = "dismiss"
    BY <1>0, <2>1 DEF RunState, Pc, Ended
  <2> QED BY <1>0, <2>1, <2>2, FinalizeTypes
<1>2. CASE ~Suppressed
  <2>1. /\ run' = [run EXCEPT !.pc = "patch", !.status = "failed", !.failing = TRUE, !.total = 1]
        /\ UNCHANGED <<progress, chain>>
    BY <1>2 DEF Throw
  <2>2. 1 \in 1 .. MaxChunks
    BY DeliveryAssumption DEF DeliveryAssumption
  <2>3. run' \in RunState
    BY <1>0, <2>1, <2>2 DEF RunState, Pc, Final
  <2>4. /\ run'.ids = run.ids /\ run'.chunk = run.chunk
        /\ run'.pc = "patch" /\ run'.status = "failed"
    BY <1>0, <2>1 DEF RunState
  <2> QED BY <1>0, <2>1, <2>3, <2>4
<1> QED BY <1>1, <1>2

\* A run that was not superseded ends with a final status.
LEMMA FinishIs ==
    ASSUME Typed, NEW status \in Final, NEW document \in {"none", "bad", "local", "remote"},
           NEW chunks \in 1 .. MaxChunks, Finish(status, document, chunks), ~Suppressed
    PROVE  /\ run' \in RunState /\ run'.ids = run.ids /\ run'.chunk = run.chunk
           /\ run'.pc \in {"patch", "docs"} /\ run'.status = status
           /\ progress' = progress /\ chain' = chain
<1>0. run \in RunState
  BY DEF Typed
<1> DEFINE pc == IF document = "none" THEN "patch" ELSE "docs"
<1>1. /\ run' = [run EXCEPT !.pc = pc, !.status = status, !.document = document, !.total = chunks]
      /\ UNCHANGED <<progress, chain>>
  BY DEF Finish
<1>2. pc \in {"patch", "docs"} /\ pc \in Pc
  BY DEF Pc
<1> HIDE DEF pc
<1>3. run' \in RunState
  BY <1>0, <1>1, <1>2 DEF RunState
<1>4. /\ run'.ids = run.ids /\ run'.chunk = run.chunk
      /\ run'.pc = pc /\ run'.status = status
  BY <1>0, <1>1 DEF RunState
<1> QED BY <1>1, <1>2, <1>3, <1>4

\* The steps around the run
LEMMA OtherTypes ==
    ASSUME MailInv, OtherStep
    PROVE  Typed'
<1> USE DEF MailInv
<1>0. /\ posts \in Seq(Message) /\ progress \in ProgressState /\ chain \in Seq(Op)
      /\ call \in ApiCall /\ run \in RunState /\ send \in ApiCall /\ disk \in DiskState
      /\ world \in WorldState /\ steps \in Nat
  BY DEF Typed
<1>f. world.faults - 1 \in Int
  BY <1>0 DEF WorldState
<1>u. ASSUME NEW n \in Int
      PROVE  /\ [world EXCEPT !.faults = n] \in WorldState
             /\ [world EXCEPT !.alive = FALSE, !.faults = n] \in WorldState
  BY <1>0 DEF WorldState
<1>w. /\ [world EXCEPT !.faults = @ - 1] \in WorldState
      /\ [world EXCEPT !.alive = FALSE, !.faults = @ - 1] \in WorldState
      /\ [world EXCEPT !.superseded = TRUE] \in WorldState
      /\ [world EXCEPT !.open = FALSE] \in WorldState
  <2>1. [world EXCEPT !.superseded = TRUE] \in WorldState
    BY <1>0 DEF WorldState
  <2>2. [world EXCEPT !.open = FALSE] \in WorldState
    BY <1>0 DEF WorldState
  <2> QED BY <1>f, <1>u, <2>1, <2>2
<1>p. ASSUME NEW q \in {"over", "dismiss", "dead"} PROVE [run EXCEPT !.pc = q] \in RunState
  BY <1>0 DEF RunState, Pc, Ended
<1>v. ASSUME NEW s \in Final \cup {"none"}
      PROVE  /\ [disk EXCEPT !.event = [status |-> s, ids |-> <<>>]] \in DiskState
             /\ [disk EXCEPT !.status = s, !.event = [status |-> s, ids |-> <<>>]] \in DiskState
  <2>1. [status |-> s, ids |-> <<>>] \in FinalEvent
    BY DEF FinalEvent
  <2> QED BY <1>0, <2>1 DEF DiskState
<1>1. CASE WaitForCall
  <2>1. call' \in ApiCall
    <3>1. call.waits + 1 \in Nat
      BY <1>0 DEF ApiCall
    <3>2. ASSUME NEW n \in Nat PROVE [call EXCEPT !.waits = n] \in ApiCall
      BY <1>0 DEF ApiCall
    <3>3. call' = [call EXCEPT !.waits = call.waits + 1]
      BY <1>1 DEF WaitForCall
    <3> QED BY <3>1, <3>2, <3>3
  <2> QED BY <1>0, <1>w, <1>1, <2>1 DEF WaitForCall, TooMany, Typed
<1>2. CASE WaitForSend
  <2>1. send' \in ApiCall
    <3>1. send.waits + 1 \in Nat
      BY <1>0 DEF ApiCall
    <3>2. ASSUME NEW n \in Nat PROVE [send EXCEPT !.waits = n] \in ApiCall
      BY <1>0 DEF ApiCall
    <3>3. send' = [send EXCEPT !.waits = send.waits + 1]
      BY <1>2 DEF WaitForSend
    <3> QED BY <3>1, <3>2, <3>3
  <2> QED BY <1>0, <1>w, <1>2, <2>1 DEF WaitForSend, TooMany, Typed
<1>3. CASE StartThrows
  <2>1. run' \in RunState /\ progress' \in ProgressState /\ chain' \in Seq(Op)
    BY <1>0, <1>p, <1>3, FinalizeTypes DEF StartThrows
  <2> QED BY <1>0, <1>w, <1>3, <2>1 DEF StartThrows, Typed
<1>4. CASE Update
  <2>1. steps' \in Nat
    BY <1>0, <1>4 DEF Update
  <2>2. progress' \in ProgressState
    BY <1>0, <1>4, <2>1 DEF Update, QueueUpdate, ProgressState
  <2> QED BY <1>0, <1>4, <2>1, <2>2 DEF Update, Typed
<1>5. CASE WorkThrows
  BY <1>0, <1>w, <1>5, ThrowIs DEF WorkThrows, Typed
<1>6. CASE PersistThrows
  <2>1. CASE run.failing
    BY <1>0, <1>w, <1>p, <1>6, <2>1 DEF PersistThrows, Typed
  <2>2. CASE ~run.failing
    BY <1>0, <1>w, <1>6, <2>2, ThrowIs DEF PersistThrows, Typed
  <2> QED BY <2>1, <2>2
<1>7. CASE EmitThrows
  <2>1. disk' \in DiskState
    <3>1. run.status \in Final \cup {"none"}
      BY <1>0 DEF RunState
    <3> QED BY <1>0, <1>v, <1>7, <3>1 DEF EmitThrows
  <2>2. run' \in RunState /\ progress' \in ProgressState /\ chain' \in Seq(Op)
    BY <1>0, <1>p, <1>7, FinalizeTypes DEF EmitThrows
  <2> QED BY <1>0, <1>w, <1>7, <2>1, <2>2 DEF EmitThrows, Typed
<1>8. ASSUME NEW status \in Final, NEW document \in {"none", "bad", "local", "remote"},
             NEW chunks \in 1 .. MaxChunks, Finish(status, document, chunks)
      PROVE  Typed'
  <2>1. run' \in RunState /\ progress' \in ProgressState /\ chain' \in Seq(Op)
    BY <1>0, <1>8, ThrowIs, FinishIs
  <2> QED BY <1>0, <1>8, <2>1 DEF Finish, Typed
<1>9. CASE Supersede \/ CloseTopic
  BY <1>0, <1>w, <1>9 DEF Supersede, CloseTopic, Typed
<1>10. CASE Crash
  <2>1. progress' \in ProgressState
    BY <1>0, <1>10 DEF Crash, ProgressState
  <2>2. chain' \in Seq(Op)
    BY <1>10 DEF Crash
  <2> QED BY <1>0, <1>w, <1>p, <1>10, <2>1, <2>2, AskIs DEF Crash, Typed
<1>11. CASE Recover
  <2>1. disk' \in DiskState
    BY <1>v, <1>11 DEF Recover, Final
  <2> QED BY <1>0, <1>11, <2>1 DEF Recover, Typed
<1> QED BY <1>1, <1>2, <1>3, <1>4, <1>5, <1>6, <1>7, <1>8, <1>9, <1>10, <1>11 DEF OtherStep

\* Next is one of the three kinds of steps, or nothing happens.
LEMMA StepKinds == Next => ChainStep \/ EndStep \/ OtherStep \/ UNCHANGED vars
  BY DEF Next, OtherStep, Over, Final

-----------------------------------------------------------------------------
(* The chain of the progress message *)

StillProgress(id) == id \in DOMAIN posts' /\ posts'[id].kind = "progress"

\* What a step leaves of the posts, whichever it is
Grows ==
    /\ posts' \in Seq(Message) /\ DOMAIN posts \subseteq DOMAIN posts'
    /\ \A i : IsProgress(i) => StillProgress(i)

\* Progress messages stay progress messages while no chunk is sent.
LEMMA SameGrows ==
    ASSUME SameChunks
    PROVE  Grows
  BY DEF SameChunks, Grows, IsProgress, StillProgress

\* The head of the chain is taken off it, and the run goes on.
RunPops ==
    /\ chain # <<>> /\ call' = Idle
    /\ \A k \in DOMAIN chain' : k + 1 \in DOMAIN chain /\ chain'[k] = chain[k + 1]
    /\ run'.chunk = run.chunk /\ run'.total = run.total /\ run'.status = run.status
    /\ run'.document = run.document
    /\ \/ run' = run
       \/ run.pc = "finalize" /\ run'.pc = "reply" /\ run'.ids = run.ids
       \/ run.pc = "fallback" /\ run'.pc = "event" /\ run'.ids = <<progress'.id>>
          /\ Head(chain) # "dismiss"
       \/ Head(chain) = "dismiss" /\ run'.pc = "over" /\ run'.ids = run.ids

\* What taking the head off the chain does to the run
LEMMA PopIs ==
    ASSUME Typed, progress' \in ProgressState, chain # <<>>, Pop
    PROVE  RunPops
<1>1. chain \in Seq(Op) /\ run \in RunState
  BY DEF Typed
<1>2. /\ Head(chain) \in Op
      /\ \A k \in DOMAIN Tail(chain) : k + 1 \in DOMAIN chain /\ Tail(chain)[k] = chain[k + 1]
  BY <1>1, TailIs
<1>3. call' = Idle /\ chain' = Tail(chain) /\ run' = After(Head(chain))
  BY DEF Pop
<1> QED BY <1>1, <1>2, <1>3, AfterIs DEF RunPops

\* What a step of the chain does: the message of the progress may change, the
\* call is one about a progress message, and the head of the chain is done or
\* the chain is as it was.
ChainGoes ==
    /\ SameChunks
    /\ send' = send /\ disk'.event = disk.event /\ disk'.status = disk.status
    /\ world'.alive = world.alive
    /\ \/ progress'.id = progress.id
       \/ progress'.id = Null /\ chain # <<>> /\ Head(chain) = "dismiss"
       \/ StillProgress(progress'.id)
    /\ \/ RunPops
       \/ run' = run /\ chain' = chain /\ StillProgress(call'.post)
       \/ run' = run /\ chain' = Append(chain, "flush") /\ call' = call

\* Each step of the chain takes its head off, asks something about a progress
\* message, or queues a flush; it touches no chunk and no result.
LEMMA ChainStepGoes ==
    ASSUME MailInv, ChainStep
    PROVE  ChainGoes /\ (chain' = Append(chain, "flush") \/ chain # <<>>)
           /\ run.pc # "start"
<1> USE DEF MailInv
<1>0. /\ posts \in Seq(Message) /\ progress \in ProgressState /\ chain \in Seq(Op)
      /\ call \in ApiCall /\ run \in RunState /\ send \in ApiCall /\ disk \in DiskState
      /\ world \in WorldState /\ steps \in Nat
  BY DEF Typed
<1>c. /\ call.text \in Nat /\ call.post \in Nat /\ progress.id \in Nat
      /\ progress.terminal \in Nat /\ progress.pending \in Nat
  BY <1>0 DEF ApiCall, ProgressState
<1>t. Typed' /\ progress' \in ProgressState
  <2>1. Typed'
    BY ChainTypes
  <2> QED BY <2>1 DEF Typed
<1>b. call.method # "none" => call # Idle
  BY AskIs
<1>k. call # Idle => chain # <<>> /\ IsProgress(call.post)
  BY DEF ChainHolds
<1>s. run.pc # "start"
  BY <1>b DEF ChainStep, ChainHolds, TimerFires, BeginFlush, Edited, Appended, Deleted,
              BeginDismiss, Dismissed
<1>d. \A b : /\ [disk EXCEPT !.parked = @ \/ b].event = disk.event
             /\ [disk EXCEPT !.parked = @ \/ b].status = disk.status
  BY <1>0 DEF DiskState
<1>n. posts' = posts => SameChunks
  BY <1>0, NothingKeeps
<1>1. CASE TimerFires
  <2>1. progress'.id = progress.id
    BY <1>0, <1>1 DEF TimerFires, ProgressState
  <2> QED BY <1>s, <1>n, <1>1, <2>1 DEF TimerFires, ChainGoes
<1>2. CASE BeginFlush \/ BeginDismiss
  <2>1. /\ chain # <<>> /\ UNCHANGED <<posts, send, disk, world, steps, orphans>>
        /\ \E t : progress' = [progress EXCEPT !.pending = t]
        /\ \/ Pop
           \/ /\ \E t : \E m \in {"send", "edit", "delete"} : call' = Ask(m, t, progress.id)
              /\ progress.id # Null /\ UNCHANGED <<chain, run>>
    BY <1>2 DEF BeginFlush, BeginDismiss
  <2>2. progress'.id = progress.id
    BY <1>0, <2>1 DEF ProgressState
  <2>3. CASE Pop
    <3>1. RunPops
      BY <1>t, <2>1, <2>3, PopIs
    <3> QED BY <1>s, <1>n, <2>1, <2>2, <3>1 DEF ChainGoes
  <2>4. CASE progress.id # Null /\ UNCHANGED <<chain, run>> /\ ~Pop
    <3>1. IsProgress(progress.id)
      BY <2>4 DEF ChainHolds
    <3>2. call'.post = progress.id
      BY <2>1, <2>4 DEF Ask, Idle
    <3>3. StillProgress(call'.post)
      BY <2>1, <3>1, <3>2 DEF IsProgress, StillProgress
    <3> QED BY <1>s, <1>n, <2>1, <2>2, <2>4, <3>3 DEF ChainGoes
  <2> QED BY <2>1, <2>3, <2>4
<1>3. CASE Edited
  <2>1. PICK out \in Outcomes(call) :
        /\ world' = Spent(out)
        /\ posts' = IF Done(out) THEN [posts EXCEPT ![call.post].text = call.text] ELSE posts
        /\ disk' = [disk EXCEPT !.parked = @ \/ out = "gone"]
        /\ \/ /\ out = "ok"
              /\ progress' = [progress EXCEPT !.current = call.text]
              /\ Pop
           \/ /\ out \in {"lost", "down", "refused", "gone"}
              /\ progress' = KeepPending(progress, call.text, out # "gone")
              /\ Pop
           \/ /\ out = "replace"
              /\ progress' = [progress EXCEPT !.append = TRUE, !.pending = call.text]
              /\ call' = [Ask("send", call.text, call.post) EXCEPT !.over = TRUE]
              /\ UNCHANGED <<chain, run>>
    BY <1>3 DEF Edited
  <2>2. call # Idle /\ send' = send
    BY <1>3, <1>b DEF Edited
  <2>3. SameChunks
    BY <1>0, <1>c, <1>k, <1>n, <2>1, <2>2, EditKeeps
  <2>4. progress'.id = progress.id
    <3>1. \A t : [progress EXCEPT !.current = t].id = progress.id
      BY <1>0 DEF ProgressState
    <3>2. \A t : [progress EXCEPT !.append = TRUE, !.pending = t].id = progress.id
      BY <1>0 DEF ProgressState
    <3>3. KeepPending(progress, call.text, out # "gone").id = progress.id
      BY <1>0, <1>c, KeepPendingIs
    <3> QED BY <2>1, <3>1, <3>2, <3>3
  <2>5. RunPops \/ (run' = run /\ chain' = chain /\ StillProgress(call'.post))
    <3>1. CASE Pop
      BY <1>k, <1>t, <2>2, <3>1, PopIs
    <3>2. CASE out = "replace" /\ ~Pop
      <4>1. call'.post = call.post
        BY <2>1, <3>2 DEF Ask, Idle
      <4>2. StillProgress(call.post)
        BY <1>k, <2>2, <2>3, SameGrows DEF Grows
      <4>3. run' = run /\ chain' = chain
        BY <2>1, <3>2
      <4>4. StillProgress(call'.post)
        BY <4>1, <4>2
      <4> QED BY <4>3, <4>4
    <3> QED BY <2>1, <3>1, <3>2
  <2> QED BY <1>0, <1>d, <1>k, <1>s, <2>1, <2>2, <2>3, <2>4, <2>5, SpentIs DEF ChainGoes
<1>4. CASE Appended
  <2>1. PICK out \in Outcomes(call) :
        /\ world' = Spent(out)
        /\ posts' = IF Done(out) THEN Append(posts, Post("progress", call.text)) ELSE posts
        /\ disk' = [disk EXCEPT !.parked = @ \/ out = "gone"]
        /\ IF out = "ok"
           THEN /\ progress' = [progress EXCEPT !.id = Len(posts) + 1, !.current = call.text]
                /\ call' = [call EXCEPT !.method = "delete", !.waits = 0]
                /\ UNCHANGED <<chain, run>>
           ELSE /\ progress' = KeepPending(progress, call.text, TRUE)
                /\ Pop
    BY <1>4 DEF Appended
  <2>2. call # Idle /\ send' = send
    BY <1>4, <1>b DEF Appended
  <2>3. SameChunks
    BY <1>0, <1>c, <1>n, <2>1, PostIs, PostKeeps
  <2>4. CASE out = "ok"
    <3>1. progress'.id = Len(posts) + 1
      BY <1>0, <2>1, <2>4 DEF ProgressState
    <3>2. posts' = Append(posts, Post("progress", call.text))
      BY <2>1, <2>4 DEF Done
    <3>3. Len(posts) + 1 \in DOMAIN posts' /\ posts'[Len(posts) + 1].kind = "progress"
      BY <1>0, <1>c, <3>2, PostIs, AppendIs
    <3>4. StillProgress(progress'.id)
      BY <3>1, <3>3 DEF StillProgress
    <3>5. call'.post = call.post
      BY <1>0, <2>1, <2>4 DEF ApiCall
    <3>6. StillProgress(call.post)
      BY <1>k, <2>2, <2>3, SameGrows DEF Grows
    <3>7. StillProgress(call'.post)
      BY <3>5, <3>6
    <3> QED BY <1>0, <1>d, <1>k, <1>s, <2>1, <2>2, <2>3, <2>4, <3>4, <3>7, SpentIs DEF ChainGoes
  <2>5. CASE out # "ok"
    <3>1. progress'.id = progress.id
      BY <1>0, <1>c, <2>1, <2>5, KeepPendingIs
    <3>2. RunPops
      BY <1>k, <1>t, <2>1, <2>2, <2>5, PopIs
    <3> QED BY <1>0, <1>d, <1>k, <1>s, <2>1, <2>2, <2>3, <3>1, <3>2, SpentIs DEF ChainGoes
  <2> QED BY <2>4, <2>5
<1>5. CASE Deleted \/ Dismissed
  <2>1. PICK out \in Outcomes(call) :
        /\ world' = Spent(out)
        /\ posts' = IF Done(out) THEN Without(call.post) ELSE posts
        /\ \/ progress' \in {progress, [progress EXCEPT !.pending = Null]}
           \/ /\ progress' = [progress EXCEPT !.id = Null, !.current = Null]
              /\ Head(chain) = "dismiss"
        /\ Pop
    BY <1>5 DEF Deleted, Dismissed
  <2>2. call # Idle /\ UNCHANGED <<send, disk>>
    BY <1>5, <1>b DEF Deleted, Dismissed
  <2>3. SameChunks
    BY <1>0, <1>c, <1>k, <1>n, <2>1, <2>2, EditKeeps
  <2>4. progress'.id = progress.id \/ (progress'.id = Null /\ Head(chain) = "dismiss")
    BY <1>0, <2>1 DEF ProgressState
  <2>5. RunPops
    BY <1>k, <1>t, <2>1, <2>2, PopIs
  <2> QED BY <1>0, <1>k, <1>s, <2>1, <2>2, <2>3, <2>4, <2>5, SpentIs DEF ChainGoes
<1> QED BY <1>1, <1>2, <1>3, <1>4, <1>5 DEF ChainStep

\* What a run claims stays in the topic when messages are added.
LEMMA IdsStay ==
    ASSUME Grows, NEW s, ToSet(s) \subseteq DOMAIN posts
    PROVE  ToSet(s) \subseteq DOMAIN posts'
  BY DEF Grows

\* Without a chunk sent the chunks of the topic are those of before.
LEMMA ChunksStay ==
    ASSUME ChunksHold, SameChunks, run'.chunk = run.chunk
    PROVE  ChunksHold'
  BY DEF ChunksHold, SameChunks

\* The steps of the chain
LEMMA ChainInv ==
    ASSUME MailInv, ChainStep
    PROVE  MailInv'
<1> USE DEF MailInv
<1>0. /\ posts \in Seq(Message) /\ progress \in ProgressState /\ chain \in Seq(Op)
      /\ run \in RunState
  BY DEF Typed
<1>g. ChainGoes /\ Grows /\ run.pc # "start" /\ (chain' = Append(chain, "flush") \/ chain # <<>>)
  BY ChainStepGoes, SameGrows DEF ChainGoes
<1>t. Typed'
  BY ChainTypes
<1>h. chain # <<>> => Head(chain) = chain[1] /\ 1 \in DOMAIN chain
  BY <1>0, TailIs
<1>a. /\ \A k \in DOMAIN Append(chain, "flush") :
           Append(chain, "flush")[k] = "flush" \/ (k \in DOMAIN chain /\ Append(chain, "flush")[k] = chain[k])
      /\ Append(chain, "flush") # <<>>
  <2>1. "flush" \in Op
    BY DEF Op
  <2>2. Len(chain) + 1 \in DOMAIN Append(chain, "flush")
    BY <1>0, <2>1, AppendIs
  <2> QED BY <1>0, <2>1, <2>2, AppendIs
\* Before the end no dismissal is at the head.
<1>n. run.pc \notin Ended /\ chain # <<>> => Head(chain) # "dismiss"
  BY <1>h DEF ChainHolds
<1>e. /\ run'.pc = run.pc \/ run'.pc \in {"reply", "event", "over"}
      /\ run.pc \in Ended => run'.pc \in Ended
      /\ run'.pc \in Ended => run.pc \in Ended
      /\ run'.pc = run.pc => run'.ids = run.ids
  BY <1>g, <1>n DEF ChainGoes, RunPops, Ended
<1>1. ChainHolds'
  <2>1. run'.pc # "start"
    BY <1>g, <1>e
  <2>2. progress'.id # Null => StillProgress(progress'.id)
    BY <1>g DEF ChainGoes, ChainHolds, Grows
  <2>3. call' # Idle => chain' # <<>> /\ StillProgress(call'.post)
    <3>1. CASE RunPops
      BY <3>1 DEF RunPops
    <3>2. CASE run' = run /\ chain' = chain /\ StillProgress(call'.post) /\ chain # <<>>
      BY <3>2
    <3>3. CASE run' = run /\ chain' = Append(chain, "flush") /\ call' = call
      BY <1>a, <1>g, <3>3 DEF ChainHolds, Grows
    <3>4. CASE chain' = Append(chain, "flush") /\ StillProgress(call'.post)
      BY <1>a, <3>4
    <3> QED BY <1>g, <3>1, <3>2, <3>3, <3>4 DEF ChainGoes
  <2>4. run'.pc \notin Ended => \A k \in DOMAIN chain' : chain'[k] # "dismiss"
    <3>1. CASE chain' = Append(chain, "flush")
      BY <1>a, <1>e, <3>1 DEF ChainHolds
    <3>2. CASE RunPops
      BY <1>e, <3>2 DEF ChainHolds, RunPops
    <3>3. CASE chain' = chain
      BY <1>e, <3>3 DEF ChainHolds
    <3> QED BY <1>g, <3>1, <3>2, <3>3 DEF ChainGoes
  <2>5. run'.pc = "fallback" => progress'.id # Null
    <3> SUFFICES ASSUME run'.pc = "fallback" PROVE progress'.id # Null
      OBVIOUS
    <3>1. run.pc = "fallback" /\ progress.id # Null /\ run.pc \notin Ended
      BY <1>e DEF ChainHolds, Ended
    <3>2. StillProgress(progress'.id) => progress'.id # Null
      BY <1>g, ElementIs DEF StillProgress, Grows, Null
    <3> QED BY <1>g, <1>n, <3>1, <3>2 DEF ChainGoes
  <2>6. \A i : IsProgress(i)' = StillProgress(i)
    BY DEF IsProgress, StillProgress
  <2> QED BY <2>1, <2>2, <2>3, <2>4, <2>5 DEF ChainHolds, StillProgress, IsProgress
<1>2. SendHolds'
  <2> SUFFICES ASSUME send' # Idle
               PROVE  \/ run'.pc = "start"
                      \/ run'.pc = "docs" /\ run'.document = "local"
                      \/ run'.pc = "reply" /\ ~run'.mute /\ run'.chunk <= run'.total
    BY DEF SendHolds
  <2>1. send = send' /\ run.pc \in {"start", "docs", "reply"} /\ run.pc \notin Ended
    BY <1>g DEF ChainGoes, SendHolds, Ended
  <2>2. run' = run
    BY <1>g, <1>n, <2>1 DEF ChainGoes, RunPops
  <2> QED BY <2>1, <2>2 DEF SendHolds
<1>3. ChunksHold'
  BY <1>g, ChunksStay DEF ChainGoes, RunPops
<1>4. IdsHold'
  <2>1. ToSet(disk'.event.ids) \subseteq DOMAIN posts'
    BY <1>g, IdsStay DEF ChainGoes, IdsHold
  <2>2. ToSet(run'.ids) \subseteq DOMAIN posts'
    <3>1. run'.ids = run.ids \/ (run'.ids = <<progress'.id>> /\ StillProgress(progress'.id))
      BY <1>g, <1>n DEF ChainGoes, RunPops, ChainHolds, Grows, Ended
    <3>2. CASE run'.ids = run.ids
      BY <1>g, <3>2, IdsStay DEF IdsHold
    <3>3. CASE run'.ids = <<progress'.id>> /\ StillProgress(progress'.id)
      BY <3>3, SmallSets DEF StillProgress
    <3> QED BY <3>1, <3>2, <3>3
  <2> QED BY <2>1, <2>2 DEF IdsHold
<1>5. EventHolds'
  BY <1>g, <1>e DEF EventHolds, ChainGoes, RunPops, Result
<1> QED BY <1>t, <1>1, <1>2, <1>3, <1>4, <1>5

-----------------------------------------------------------------------------
(* The run itself *)

\* Nothing of the chain moves, or the run asks for its end.
ChainWaits ==
    /\ call' = call
    /\ \/ progress'.id = progress.id /\ chain' = chain
       \/ progress'.id = progress.id /\ chain' = Append(chain, "finalize")
       \/ progress'.id = progress.id /\ chain' = Append(chain, "dismiss") /\ run'.pc = "dismiss"

\* The chain is as well off after a step of the run as before it.
LEMMA WaitingChain ==
    ASSUME MailInv, Grows, ChainWaits, run'.pc # "start", run.pc \in Ended => run'.pc \in Ended,
           run'.pc = "fallback" => progress'.id # Null
    PROVE  ChainHolds'
<1> USE DEF MailInv
<1>0. chain \in Seq(Op) /\ "finalize" \in Op /\ "dismiss" \in Op
  BY DEF Typed, Op
<1>a. ASSUME NEW o \in Op
      PROVE  /\ \A k \in DOMAIN Append(chain, o) :
                  Append(chain, o)[k] = o \/ (k \in DOMAIN chain /\ Append(chain, o)[k] = chain[k])
             /\ Append(chain, o) # <<>>
  <2>1. Len(chain) + 1 \in DOMAIN Append(chain, o)
    BY <1>0, AppendIs
  <2> QED BY <1>0, <2>1, AppendIs
<1>1. progress'.id # Null => StillProgress(progress'.id)
  BY DEF ChainWaits, ChainHolds, Grows
<1>2. call' # Idle => chain' # <<>> /\ StillProgress(call'.post)
  BY <1>0, <1>a DEF ChainWaits, ChainHolds, Grows
<1>3. run'.pc \notin Ended => \A k \in DOMAIN chain' : chain'[k] # "dismiss"
  <2>1. CASE chain' = chain
    BY <2>1 DEF ChainHolds
  <2>2. CASE chain' = Append(chain, "finalize")
    BY <1>0, <1>a, <2>2 DEF ChainHolds
  <2>3. CASE run'.pc = "dismiss"
    BY <2>3 DEF Ended
  <2> QED BY <2>1, <2>2, <2>3 DEF ChainWaits
<1> QED BY <1>1, <1>2, <1>3 DEF ChainHolds, StillProgress, IsProgress

\* The steps of the run that leave the topic as it is, but for the answers to
\* its own calls
RunGoes ==
    /\ SameChunks /\ ChainWaits /\ run'.chunk = run.chunk /\ run'.ids = run.ids
    /\ run'.pc # "start" /\ (run.pc \in Ended => run'.pc \in Ended)
    /\ run'.pc # "fallback"

\* Its results are kept and its event is written in their turn.
EventGoes ==
    \/ /\ disk'.event = disk.event /\ world'.alive = world.alive
       /\ disk'.status = disk.status \/ (disk'.status = run.status /\ run.pc \notin Ended)
          \/ (run.pc = "start" /\ run'.pc = "work")
       /\ run'.pc \in Result => run.pc \in Result \/ disk'.status = run.status
       /\ run'.pc \in Result \cup {"docs", "patch"} =>
             \/ run.pc \in Result \cup {"docs", "patch"} /\ run'.status = run.status
             \/ run'.status \in Final
    \/ /\ run.pc = "event" /\ run'.pc \in Ended /\ disk'.status = disk.status
       /\ disk'.event \in {disk.event, Event, [status |-> run.status, ids |-> <<>>]}

\* What was written stays in step with where the run is.
LEMMA EventKept ==
    ASSUME MailInv, EventGoes, run.pc \in Ended => run'.pc \in Ended
    PROVE  EventHolds'
<1> USE DEF MailInv
<1>0. run \in RunState /\ disk \in DiskState
  BY DEF Typed
<1>1. run.status # "running" /\ run.status \in Final \cup {"none"}
  BY <1>0 DEF RunState, Final
<1>2. CASE disk'.event = disk.event /\ world'.alive = world.alive
  BY <1>1, <1>2 DEF EventHolds, EventGoes, Result, Ended, Final
<1>3. CASE run.pc = "event" /\ run'.pc \in Ended /\ disk'.status = disk.status
  BY <1>3 DEF EventHolds, Result, Ended
<1> QED BY <1>2, <1>3 DEF EventGoes

\* Steps that only call, or only change the world around
LEMMA AskInv ==
    ASSUME MailInv,
           Start \/ SendDocument \/ SendChunk \/ WaitForSend \/ Supersede \/ CloseTopic
    PROVE  MailInv'
<1> USE DEF MailInv
<1>1. Typed'
  BY EndTypes, OtherTypes DEF EndStep, OtherStep
<1>2. /\ UNCHANGED <<posts, progress, chain, call, run, disk>>
      /\ world'.alive = world.alive
  BY DEF Start, SendDocument, SendChunk, WaitForSend, TooMany, Supersede, CloseTopic, Typed, WorldState
<1>3. send' = Idle \/ SendHolds'
  <2>1. CASE Start
    BY <1>2, <2>1 DEF Start, SendHolds
  <2>2. CASE SendDocument
    BY <1>2, <2>2 DEF SendDocument, SendHolds
  <2>3. CASE SendChunk
    BY <1>2, <2>3 DEF SendChunk, SendHolds
  <2>4. CASE WaitForSend
    <3>1. send # Idle
      BY <2>4, AskIs DEF WaitForSend, TooMany
    <3> QED BY <1>2, <3>1 DEF SendHolds
  <2>5. CASE Supersede \/ CloseTopic
    <3>1. send' = send
      BY <2>5 DEF Supersede, CloseTopic
    <3> QED BY <1>2, <3>1 DEF SendHolds
  <2> QED BY <2>1, <2>2, <2>3, <2>4, <2>5
<1>4. SendHolds'
  BY <1>3 DEF SendHolds
<1>5. ChainHolds' /\ ChunksHold' /\ IdsHold' /\ EventHolds'
  BY <1>2 DEF ChainHolds, IsProgress, ChunksHold, IdsHold, EventHolds
<1> QED BY <1>1, <1>4, <1>5

\* Steps of the run, but for the answers it waits for
PlainStep ==
    \/ RefuseDocument \/ StageDocument \/ DocumentSent \/ Persist \/ SkipReply \/ Emit
    \/ StartThrows \/ Update \/ WorkThrows \/ PersistThrows \/ EmitThrows
    \/ \E status \in Final, document \in {"none", "bad", "local", "remote"}, chunks \in 1 .. MaxChunks :
          Finish(status, document, chunks)

\* Each of the plain steps is one that leaves the topic alone.
LEMMA PlainGoes ==
    ASSUME MailInv, PlainStep
    PROVE  RunGoes /\ EventGoes /\ SendHolds'
<1> USE DEF MailInv
<1>0. /\ posts \in Seq(Message) /\ progress \in ProgressState /\ chain \in Seq(Op)
      /\ run \in RunState /\ disk \in DiskState /\ world \in WorldState /\ steps \in Nat
  BY DEF Typed
<1>n. posts' = posts => SameChunks
  BY <1>0, NothingKeeps
<1>r. ASSUME NEW q
      PROVE  LET r == [run EXCEPT !.pc = q]
             IN  /\ r.pc = q /\ r.ids = run.ids /\ r.chunk = run.chunk /\ r.status = run.status
                 /\ r.document = run.document
  BY <1>0 DEF RunState
<1>w. [world EXCEPT !.faults = @ - 1].alive = world.alive
  BY <1>0 DEF WorldState
<1>s. send # Idle => run.pc \in {"start", "docs", "reply"}
  BY DEF SendHolds
<1>i. run.pc \notin {"start", "docs", "reply"} /\ send' = send => SendHolds'
  BY <1>s DEF SendHolds
<1>1. CASE RefuseDocument
  <2>1. /\ run'.pc = "patch" /\ run'.ids = run.ids /\ run'.chunk = run.chunk
        /\ run'.status = run.status
    BY <1>0, <1>1 DEF RefuseDocument, RunState
  <2>2. /\ UNCHANGED <<posts, progress, chain, call, send, disk, world>>
        /\ run.pc = "docs" /\ run.document = "bad"
    BY <1>1 DEF RefuseDocument
  <2> QED BY <1>n, <2>1, <2>2 DEF RunGoes, ChainWaits, EventGoes, SendHolds, Ended, Result
<1>2. CASE StageDocument
  <2>1. /\ run'.pc \in {"docs", "patch"} /\ run'.ids = run.ids /\ run'.chunk = run.chunk
        /\ run'.status = run.status
    BY <1>0, <1>2 DEF StageDocument, RunState
  <2>2. /\ UNCHANGED <<posts, progress, chain, call, send>>
        /\ run.pc = "docs" /\ run.document = "remote"
    BY <1>2 DEF StageDocument
  <2>3. disk'.event = disk.event /\ disk'.status = disk.status /\ world'.alive = world.alive
    BY <1>0, <1>w, <1>2 DEF StageDocument, DiskState
  <2> QED BY <1>n, <2>1, <2>2, <2>3 DEF RunGoes, ChainWaits, EventGoes, SendHolds, Ended, Result
<1>3. CASE DocumentSent
  <2>1. PICK out \in Outcomes(send) :
        /\ world' = Spent(out)
        /\ posts' = IF Done(out) THEN Append(posts, Post("document", Null)) ELSE posts
        /\ disk' = [disk EXCEPT !.parked = @ \/ out = "gone", !.staged = FALSE]
        /\ run' = [run EXCEPT !.pc = "patch", !.document = "none", !.mute = out = "gone"]
    BY <1>3 DEF DocumentSent
  <2>2. send' = Idle /\ UNCHANGED <<progress, chain, call, steps>> /\ run.pc = "docs"
    BY <1>3 DEF DocumentSent
  <2>3. SameChunks
    BY <1>0, <1>n, <2>1, PostIs, PostKeeps
  <2>4. /\ run'.pc = "patch" /\ run'.ids = run.ids /\ run'.chunk = run.chunk
        /\ run'.status = run.status
    BY <1>0, <2>1 DEF RunState
  <2>5. disk'.event = disk.event /\ disk'.status = disk.status /\ world'.alive = world.alive
    BY <1>0, <2>1, SpentIs DEF DiskState
  <2> QED BY <2>2, <2>3, <2>4, <2>5 DEF RunGoes, ChainWaits, EventGoes, SendHolds, Ended, Result
<1>4. CASE Persist
  <2>1. CASE run.pc = "patch"
    <3>1. /\ run' = [run EXCEPT !.pc = "log"] /\ disk' = [disk EXCEPT !.status = run.status]
          /\ UNCHANGED <<posts, progress, chain, call, send, world>>
      BY <1>4, <2>1 DEF Persist
    <3>2. disk'.event = disk.event /\ disk'.status = run.status
      BY <1>0, <3>1 DEF DiskState
    <3> QED BY <1>n, <1>r, <1>i, <2>1, <3>1, <3>2 DEF RunGoes, ChainWaits, EventGoes, Ended, Result
  <2>2. CASE run.pc # "patch"
    <3>1. /\ run.pc = "log" /\ run' = [run EXCEPT !.pc = "finalize"]
          /\ Finalize(IF run.status = "interrupted" THEN Stopping ELSE steps)
          /\ UNCHANGED <<posts, call, send, disk, world>>
      BY <1>4, <2>2 DEF Persist
    <3>2. chain' = Append(chain, "finalize") /\ progress'.id = progress.id
      BY <1>0, <3>1 DEF Finalize, ProgressState
    <3> QED BY <1>n, <1>r, <1>i, <3>1, <3>2 DEF RunGoes, ChainWaits, EventGoes, Ended, Result
  <2> QED BY <2>1, <2>2
<1>5. CASE SkipReply
  <2>1. /\ run.pc = "reply" /\ run.mute /\ run' = [run EXCEPT !.pc = "event"]
        /\ UNCHANGED <<posts, progress, chain, call, send, disk, world>>
    BY <1>5 DEF SkipReply
  <2>2. SendHolds'
    BY <2>1 DEF SendHolds
  <2> QED BY <1>n, <1>r, <2>1, <2>2 DEF RunGoes, ChainWaits, EventGoes, Ended, Result
<1>6. CASE Emit \/ EmitThrows
  <2>1. /\ run.pc = "event" /\ UNCHANGED <<posts, call, send>>
        /\ \/ run' = [run EXCEPT !.pc = "over"] /\ UNCHANGED <<progress, chain>>
           \/ run' = [run EXCEPT !.pc = "dismiss"] /\ Dismiss
    BY <1>6 DEF Emit, EmitThrows
  <2>2. /\ disk'.status = disk.status
        /\ disk'.event \in {disk.event, Event, [status |-> run.status, ids |-> <<>>]}
    BY <1>0, <1>6 DEF Emit, EmitThrows, DiskState
  <2>3. ChainWaits
    BY <1>0, <1>r, <2>1, FinalizeTypes DEF ChainWaits
  <2>4. run'.pc \in {"over", "dismiss"} /\ run'.ids = run.ids /\ run'.chunk = run.chunk
    <3>1. PICK q \in {"over", "dismiss"} : run' = [run EXCEPT !.pc = q]
      BY <2>1
    <3> QED BY <1>r, <3>1
  <2> QED BY <1>n, <1>i, <2>1, <2>2, <2>3, <2>4 DEF RunGoes, EventGoes, Ended
<1>7. CASE StartThrows
  <2>1. /\ run.pc = "work" /\ run' = [run EXCEPT !.pc = "dismiss"] /\ Dismiss
        /\ world'.alive = world.alive /\ UNCHANGED <<posts, call, send, disk>>
    BY <1>w, <1>7 DEF StartThrows
  <2>2. ChainWaits
    BY <1>0, <1>r, <2>1, FinalizeTypes DEF ChainWaits
  <2> QED BY <1>n, <1>r, <1>i, <2>1, <2>2 DEF RunGoes, EventGoes, Ended, Result
<1>8. CASE Update
  <2>1. run.pc = "work" /\ UNCHANGED <<posts, chain, call, run, send, disk, world>>
    BY <1>8 DEF Update
  <2>2. progress'.id = progress.id
    BY <1>0, <1>8 DEF Update, QueueUpdate, ProgressState
  <2> QED BY <1>n, <1>i, <2>1, <2>2 DEF RunGoes, ChainWaits, EventGoes, Ended, Result
<1>9. CASE WorkThrows \/ PersistThrows
  <2>1. /\ run.pc \in {"work", "patch", "log"} /\ world'.alive = world.alive
        /\ UNCHANGED <<posts, call, send, disk>>
        /\ Throw \/ (run' = [run EXCEPT !.pc = "over"] /\ UNCHANGED <<progress, chain>>)
    BY <1>w, <1>9 DEF WorkThrows, PersistThrows
  <2>2. CASE Throw
    BY <1>0, <1>n, <1>i, <2>1, <2>2, ThrowIs, FinalizeTypes
    DEF RunGoes, ChainWaits, EventGoes, Ended, Result, Final
  <2>3. CASE run' = [run EXCEPT !.pc = "over"] /\ UNCHANGED <<progress, chain>>
    BY <1>n, <1>r, <1>i, <2>1, <2>3 DEF RunGoes, ChainWaits, EventGoes, Ended, Result
  <2> QED BY <2>1, <2>2, <2>3
<1>10. ASSUME NEW status \in Final, NEW document \in {"none", "bad", "local", "remote"},
              NEW chunks \in 1 .. MaxChunks, Finish(status, document, chunks)
       PROVE  RunGoes /\ EventGoes /\ SendHolds'
  <2>1. run.pc = "work" /\ UNCHANGED <<posts, call, send, disk, world>>
    BY <1>10 DEF Finish
  <2>2. CASE Suppressed
    BY <1>0, <1>n, <1>i, <2>1, <2>2, ThrowIs, FinalizeTypes
    DEF RunGoes, ChainWaits, EventGoes, Ended, Result, Final
  <2>3. CASE ~Suppressed
    BY <1>n, <1>i, <1>10, <2>1, <2>3, FinishIs DEF RunGoes, ChainWaits, EventGoes, Ended, Result
  <2> QED BY <2>2, <2>3
<1> QED BY <1>1, <1>2, <1>3, <1>4, <1>5, <1>6, <1>7, <1>8, <1>9, <1>10 DEF PlainStep

\* So the plain steps keep the invariant.
LEMMA PlainInv ==
    ASSUME MailInv, PlainStep
    PROVE  MailInv'
<1> USE DEF MailInv
<1>1. Typed'
  BY EndTypes, OtherTypes DEF PlainStep, EndStep, OtherStep
<1>2. RunGoes /\ EventGoes /\ SendHolds'
  BY PlainGoes
<1>3. Grows
  BY <1>2, SameGrows DEF RunGoes
<1>4. ChainHolds'
  BY <1>2, <1>3, WaitingChain DEF RunGoes
<1>5. ChunksHold'
  BY <1>2, ChunksStay DEF RunGoes
<1>6. EventHolds'
  BY <1>2, EventKept DEF RunGoes
<1>7. ToSet(run'.ids) \subseteq DOMAIN posts'
  BY <1>2, <1>3, IdsStay DEF RunGoes, IdsHold
<1>8. ToSet(disk'.event.ids) \subseteq DOMAIN posts'
  <2>1. disk'.event.ids \in {disk.event.ids, run.ids, <<>>}
    BY <1>2 DEF EventGoes, Event
  <2> QED BY <1>3, <2>1, IdsStay, SmallSets DEF IdsHold
<1>9. IdsHold'
  BY <1>7, <1>8 DEF IdsHold
<1> QED BY <1>1, <1>2, <1>4, <1>5, <1>6, <1>9

\* The first progress message is posted, or is not.
LEMMA StartedInv ==
    ASSUME MailInv, Started
    PROVE  MailInv' /\ SameChunks /\ disk'.event = disk.event
<1> USE DEF MailInv
<1>0. /\ posts \in Seq(Message) /\ progress \in ProgressState /\ run \in RunState
      /\ disk \in DiskState /\ world \in WorldState
  BY DEF Typed
<1>t. Typed'
  BY EndTypes DEF EndStep
<1>1. PICK out \in Outcomes(send) :
        /\ world' = Spent(out)
        /\ posts' = IF Done(out) THEN Append(posts, Post("progress", 1)) ELSE posts
        /\ progress' = IF out = "ok" THEN [progress EXCEPT !.id = 1, !.current = 1] ELSE progress
        /\ \/ run' = [run EXCEPT !.pc = "work"] /\ disk' = [disk EXCEPT !.status = "running"]
           \/ run' = [run EXCEPT !.pc = "over"] /\ disk' = [disk EXCEPT !.parked = @ \/ out = "gone"]
  BY DEF Started
<1>2. send' = Idle /\ UNCHANGED <<chain, call, steps>> /\ run.pc = "start"
  BY DEF Started
<1>3. SameChunks /\ Grows
  BY <1>0, <1>1, PostIs, PostKeeps, NothingKeeps, SameGrows
<1>4. posts = <<>> /\ chain = <<>> /\ call = Idle
  BY <1>2 DEF ChainHolds
<1>5. /\ run'.pc \in {"work", "over"} /\ run'.ids = run.ids /\ run'.chunk = run.chunk
      /\ run'.status = run.status
  BY <1>0, <1>1 DEF RunState
<1>6. /\ disk'.event = disk.event /\ world'.alive = world.alive
      /\ disk'.status = disk.status \/ run'.pc = "work"
  BY <1>0, <1>1, SpentIs DEF DiskState, RunState
<1>7. progress'.id # Null => StillProgress(progress'.id)
  <2>1. CASE out = "ok"
    <3>1. posts' = Append(posts, Post("progress", 1)) /\ Post("progress", 1) \in Message
          /\ Post("progress", 1).kind = "progress"
      BY <1>1, <2>1, PostIs DEF Done
    <3>2. 1 \in DOMAIN posts' /\ posts'[1] = Post("progress", 1)
      BY <1>4, <3>1
    <3>3. progress'.id = 1
      BY <1>0, <1>1, <2>1 DEF ProgressState
    <3> QED BY <3>1, <3>2, <3>3 DEF StillProgress
  <2>2. CASE out # "ok"
    BY <1>1, <1>3, <2>2 DEF ChainHolds, Grows
  <2> QED BY <2>1, <2>2
<1>8. ChainHolds'
  BY <1>2, <1>4, <1>5, <1>7 DEF ChainHolds, StillProgress, IsProgress
<1>9. SendHolds'
  BY <1>2 DEF SendHolds
<1>10. ChunksHold'
  BY <1>3, <1>5, ChunksStay
<1>11. IdsHold'
  BY <1>3, <1>5, <1>6, IdsStay DEF IdsHold
<1>12. EventHolds'
  BY <1>2, <1>5, <1>6 DEF EventHolds, Ended, Result
<1> QED BY <1>t, <1>3, <1>6, <1>8, <1>9, <1>10, <1>11, <1>12

\* A chunk is sent while there is one, and no event is written yet.
LEMMA ChunkSentInv ==
    ASSUME MailInv, ChunkSent
    PROVE  MailInv'
<1> USE DEF MailInv
<1>0. /\ posts \in Seq(Message) /\ progress \in ProgressState /\ run \in RunState /\ chain \in Seq(Op)
  BY DEF Typed
<1>t. Typed'
  BY EndTypes DEF EndStep
<1>1. /\ ChunkAnswered
      /\ run.pc = "reply" /\ send' = Idle /\ call' = call
      /\ disk'.event = disk.event /\ disk'.status = disk.status /\ world'.alive = world.alive
  BY ChunkSentIs
<1>2. \/ posts' = posts /\ run'.ids = run.ids
      \/ /\ posts' = Append(posts, Post("chunk", run.chunk))
         /\ run'.ids \in {run.ids, Append(run.ids, Len(posts) + 1)}
  BY ChunkSentIs
<1>3. run.chunk \in Nat /\ run'.chunk \in {run.chunk, run.chunk + 1} /\ run.ids \in Seq(Nat)
  BY <1>0, <1>1 DEF RunState, ChunkAnswered
<1>4. Post("chunk", run.chunk) \in Message
  BY <1>3, PostIs
<1>5. /\ posts' \in Seq(Message) /\ DOMAIN posts \subseteq DOMAIN posts'
      /\ \A k \in DOMAIN posts : posts'[k] = posts[k]
      /\ \A k \in DOMAIN posts' : k \in DOMAIN posts \/ posts'[k] = Post("chunk", run.chunk)
  <2>1. CASE posts' = posts
    BY <1>0, <2>1
  <2>2. CASE posts' = Append(posts, Post("chunk", run.chunk))
    BY <1>0, <1>4, <2>2, AppendIs
  <2> QED BY <1>2, <2>1, <2>2
<1>6. Grows
  BY <1>5 DEF Grows, IsProgress, StillProgress
<1>7. /\ ChainWaits /\ run'.pc \in {"reply", "event", "over", "fallback"}
      /\ run'.pc = "fallback" => progress'.id # Null
  <2>1. Reply \in Nat
    BY DeliveryAssumption DEF DeliveryAssumption, Reply
  <2> QED BY <1>0, <1>1, <2>1, FinalizeTypes DEF ChunkAnswered, ChainWaits
<1>8. ChainHolds'
  BY <1>1, <1>6, <1>7, WaitingChain DEF Ended
<1>9. SendHolds'
  BY <1>1 DEF SendHolds
<1>10. ChunksHold'
  <2>1. ASSUME NEW i \in DOMAIN posts', posts'[i].kind = "chunk"
        PROVE  posts'[i].up /\ posts'[i].text <= run'.chunk
    <3>1. CASE i \in DOMAIN posts
      <4>1. posts[i].up /\ posts[i].text <= run.chunk
        BY <1>5, <2>1, <3>1 DEF ChunksHold
      <4>2. posts[i].text \in Nat
        <5>1. posts[i] \in Message
          BY <1>0, <3>1, ElementIs
        <5> QED BY <5>1 DEF Message
      <4> QED BY <1>3, <1>5, <3>1, <4>1, <4>2
    <3>2. CASE i \notin DOMAIN posts
      BY <1>3, <1>5, <3>2, PostIs
    <3> QED BY <3>1, <3>2
  <2> QED BY <2>1 DEF ChunksHold
<1>11. IdsHold'
  <2>1. ToSet(disk'.event.ids) \subseteq DOMAIN posts'
    BY <1>1, <1>6, IdsStay DEF IdsHold
  <2>2. CASE run'.ids = run.ids
    BY <1>6, <2>1, <2>2, IdsStay DEF IdsHold
  <2>3. CASE run'.ids # run.ids
    <3>1. run'.ids = Append(run.ids, Len(posts) + 1) /\ posts' = Append(posts, Post("chunk", run.chunk))
      BY <1>2, <2>3
    <3>2. Len(posts) + 1 \in DOMAIN posts' /\ Len(posts) + 1 \in Nat
      BY <1>0, <1>4, <3>1, AppendIs
    <3>3. ToSet(run'.ids) = ToSet(run.ids) \cup {Len(posts) + 1}
      BY <1>3, <3>1, <3>2, AppendToSet
    <3>4. ToSet(run.ids) \subseteq DOMAIN posts'
      BY <1>6, IdsStay DEF IdsHold
    <3> QED BY <2>1, <3>2, <3>3, <3>4 DEF IdsHold
  <2> QED BY <2>2, <2>3
<1>12. EventHolds'
  <2>1. run'.status = run.status
    BY <1>1 DEF ChunkAnswered
  <2> QED BY <1>1, <1>7, <2>1 DEF EventHolds, Ended, Result
<1> QED BY <1>t, <1>8, <1>9, <1>10, <1>11, <1>12

\* A call is repeated, a process dies, and the next one writes its event.
LEMMA WorldInv ==
    ASSUME MailInv, WaitForCall \/ Crash \/ Recover
    PROVE  MailInv'
<1> USE DEF MailInv
<1>0. /\ posts \in Seq(Message) /\ progress \in ProgressState /\ run \in RunState
      /\ disk \in DiskState /\ world \in WorldState /\ call \in ApiCall
  BY DEF Typed
<1>t. Typed'
  BY OtherTypes DEF OtherStep
<1>1. CASE WaitForCall
  <2>1. /\ call # Idle /\ call'.post = call.post /\ world'.alive = world.alive
        /\ UNCHANGED <<posts, progress, chain, run, send, disk>>
    <3>1. call # Idle
      BY <1>1, AskIs DEF WaitForCall, TooMany
    <3>2. call'.post = call.post
      BY <1>0, <1>1 DEF WaitForCall, ApiCall
    <3>3. world'.alive = world.alive
      BY <1>0, <1>1 DEF WaitForCall, TooMany, WorldState
    <3> QED BY <1>1, <3>1, <3>2, <3>3 DEF WaitForCall
  <2>2. ChainHolds'
    BY <2>1 DEF ChainHolds, IsProgress
  <2>3. SendHolds' /\ ChunksHold' /\ IdsHold' /\ EventHolds'
    BY <2>1 DEF SendHolds, ChunksHold, IdsHold, EventHolds
  <2> QED BY <1>t, <2>2, <2>3
<1>2. CASE Crash
  <2>1. /\ run'.pc = "dead" /\ run'.chunk = run.chunk /\ run'.ids = run.ids
    BY <1>0, <1>2 DEF Crash, RunState
  <2>2. progress'.id = progress.id
    BY <1>0, <1>2 DEF Crash, ProgressState
  <2>3. /\ chain' = <<>> /\ call' = Idle /\ send' = Idle /\ UNCHANGED <<posts, disk, steps, orphans>>
    BY <1>2 DEF Crash
  <2>4. ChainHolds'
    BY <2>1, <2>2, <2>3 DEF ChainHolds, IsProgress, Ended
  <2>5. SendHolds' /\ ChunksHold' /\ IdsHold'
    BY <2>1, <2>3 DEF SendHolds, ChunksHold, IdsHold
  <2>6. EventHolds'
    BY <2>1, <2>3 DEF EventHolds, Ended, Result
  <2> QED BY <1>t, <2>4, <2>5, <2>6
<1>3. CASE Recover
  <2>1. /\ UNCHANGED <<posts, progress, chain, call, run, send, world>>
        /\ ~world.alive /\ disk'.event.ids = <<>> /\ disk'.status # "running"
    BY <1>0, <1>3 DEF Recover, DiskState
  <2>2. ChainHolds' /\ SendHolds' /\ ChunksHold'
    BY <2>1 DEF ChainHolds, IsProgress, SendHolds, ChunksHold
  <2>3. IdsHold'
    BY <2>1, SmallSets DEF IdsHold
  <2>4. EventHolds'
    BY <2>1 DEF EventHolds, Ended, Result
  <2> QED BY <1>t, <2>2, <2>3, <2>4
<1> QED BY <1>1, <1>2, <1>3

-----------------------------------------------------------------------------
(* The inductive invariant *)

\* Nothing is there at the start.
LEMMA MailInit == Init => MailInv
<1> SUFFICES ASSUME Init PROVE MailInv
  OBVIOUS
<1> USE DEF Init
<1>1. Typed
  <2>1. posts \in Seq(Message) /\ chain \in Seq(Op)
    OBVIOUS
  <2>2. progress \in ProgressState
    BY DEF ProgressState, Null
  <2>3. call \in ApiCall /\ send \in ApiCall
    BY AskIs
  <2>4. run \in RunState
    <3>1. 1 \in 1 .. MaxChunks /\ <<>> \in Seq(Nat)
      BY DeliveryAssumption DEF DeliveryAssumption
    <3> QED BY <3>1 DEF RunState, Pc
  <2>5. disk \in DiskState
    <3>1. [status |-> "none", ids |-> <<>>] \in FinalEvent
      BY DEF FinalEvent
    <3> QED BY <3>1 DEF DiskState
  <2>6. world \in WorldState /\ steps \in Nat
    BY DeliveryAssumption DEF DeliveryAssumption, WorldState
  <2> QED BY <2>1, <2>2, <2>3, <2>4, <2>5, <2>6 DEF Typed
<1>2. ChainHolds /\ SendHolds /\ ChunksHold /\ EventHolds
  BY DEF ChainHolds, SendHolds, ChunksHold, EventHolds, Ended, Result, Null
<1>3. IdsHold
  BY SmallSets DEF IdsHold
<1> QED BY <1>1, <1>2, <1>3 DEF MailInv

\* Every step keeps the invariant.
LEMMA MailStep == MailInv /\ [Next]_vars => MailInv'
<1> SUFFICES ASSUME MailInv, [Next]_vars PROVE MailInv'
  OBVIOUS
<1>1. CASE ChainStep
  BY <1>1, ChainInv
<1>2. CASE EndStep
  BY <1>2, AskInv, PlainInv, StartedInv, ChunkSentInv DEF EndStep, PlainStep
<1>3. CASE OtherStep
  BY <1>3, AskInv, PlainInv, WorldInv DEF OtherStep, PlainStep
<1>4. CASE UNCHANGED vars
  BY <1>4 DEF vars, MailInv, Typed, ChainHolds, IsProgress, SendHolds, ChunksHold, IdsHold, EventHolds
<1> QED BY <1>1, <1>2, <1>3, <1>4, StepKinds

\* What the run may rely on while it shows its progress and its reply
THEOREM InductiveInvariant == Spec => []MailInv
<1>1. MailInv /\ [Next]_vars => MailInv'
  BY MailStep
<1> QED BY MailInit, <1>1, PTL DEF Spec

-----------------------------------------------------------------------------
(* Delivery implements Mailbox *)

Mail == <<Chunks, disk.event.status # "none", Claimed>>

\* Without a chunk or an event the reader sees no difference.
LEMMA SameMail ==
    ASSUME MailInv, SameChunks, disk'.event = disk.event
    PROVE  UNCHANGED Mail
<1>1. Chunks' = Chunks
  BY DEF Chunks, Up, SameChunks
<1>2. Claimed' = Claimed
  BY DEF Claimed, SameChunks, MailInv, IdsHold
<1> QED BY <1>1, <1>2 DEF Mail

\* An event claims chunks that are shown.
LEMMA EventSeals ==
    ASSUME MailInv, MailInv', posts' = posts, disk.event.status = "none",
           disk'.event.status # "none"
    PROVE  Letter!Next
<1>1. Chunks' = Chunks
  BY DEF Chunks, Up
<1>2. Claimed' \subseteq Chunks
  BY DEF Claimed, Chunks, Up, MailInv, IdsHold, ChunksHold
<1> QED BY <1>1, <1>2 DEF Letter!Next, Letter!Seal

\* A chunk that is posted comes after those shown so far, or was shown already.
LEMMA ChunkShows ==
    ASSUME MailInv, ChunkSent
    PROVE  Letter!Next \/ UNCHANGED Mail
<1> USE DEF MailInv
<1>0. posts \in Seq(Message) /\ run \in RunState
  BY DEF Typed
<1>1. /\ run.pc = "reply" /\ send # Idle /\ disk'.event = disk.event
      /\ posts' = posts \/ posts' = Append(posts, Post("chunk", run.chunk))
  BY ChunkSentIs
<1>2. disk.event.status = "none" /\ disk'.event.status = "none"
  BY <1>1 DEF EventHolds, Ended
<1>3. run.chunk \in 1 .. MaxChunks
  BY <1>0, <1>1, DeliveryAssumption DEF SendHolds, RunState, DeliveryAssumption
<1>4. CASE posts' = posts
  BY <1>0, <1>1, <1>4, NothingKeeps, SameMail
<1>5. CASE posts' = Append(posts, Post("chunk", run.chunk))
  <2>1. Post("chunk", run.chunk) \in Message
    BY <1>3, PostIs
  <2>2. /\ DOMAIN posts \subseteq DOMAIN posts' /\ Len(posts) + 1 \in DOMAIN posts'
        /\ \A k \in DOMAIN posts : posts'[k] = posts[k]
        /\ posts'[Len(posts) + 1] = Post("chunk", run.chunk)
        /\ \A k \in DOMAIN posts' : k \in DOMAIN posts \/ k = Len(posts) + 1
    BY <1>0, <1>5, <2>1, AppendIs
  <2>3. Chunks' = Chunks \cup {run.chunk}
    BY <2>2, PostIs DEF Chunks, Up
  <2>4. Claimed' = Claimed
    BY <1>1, <2>2 DEF Claimed, IdsHold
  <2>5. \A m \in Chunks : m <= run.chunk /\ m \in Nat
    <3>1. ASSUME NEW i \in DOMAIN posts PROVE posts[i].text \in Nat
      <4>1. posts[i] \in Message
        BY <1>0, ElementIs
      <4> QED BY <4>1 DEF Message
    <3> QED BY <3>1 DEF Chunks, Up, ChunksHold
  <2>6. CASE run.chunk \in Chunks
    BY <1>1, <2>3, <2>4, <2>6 DEF Mail
  <2>7. CASE run.chunk \notin Chunks
    <3>1. \A m \in Chunks : m < run.chunk
      BY <1>3, <2>5, <2>7
    <3> QED BY <1>2, <1>3, <2>3, <2>4, <3>1 DEF Letter!Next, Letter!Show
  <2> QED BY <2>6, <2>7
<1> QED BY <1>1, <1>4, <1>5

\* Every step is one of the mailbox, or the reader does not see it.
LEMMA MailboxStep ==
    ASSUME MailInv, MailInv', [Next]_vars
    PROVE  Letter!Next \/ UNCHANGED Mail
<1>0. posts \in Seq(Message) /\ run \in RunState /\ disk \in DiskState
  BY DEF MailInv, Typed
<1>n. posts' = posts /\ disk'.event = disk.event => UNCHANGED Mail
  BY <1>0, NothingKeeps, SameMail
<1>1. CASE ChainStep
  BY <1>1, ChainStepGoes, SameMail DEF ChainGoes
<1>2. CASE ChunkSent
  BY <1>2, ChunkShows
<1>3. CASE Started
  BY <1>3, StartedInv, SameMail
<1>4. CASE PlainStep
  <2>1. SameChunks /\ EventGoes
    BY <1>4, PlainGoes DEF RunGoes
  <2>2. CASE disk'.event = disk.event
    BY <2>1, <2>2, SameMail
  <2>3. CASE disk'.event # disk.event
    <3>1. Emit \/ EmitThrows
      <4>1. run.pc = "event" /\ run'.pc \in Ended
        BY <2>1, <2>3 DEF EventGoes
      <4> QED BY <1>4, <4>1 DEF PlainStep, RefuseDocument, StageDocument, DocumentSent, Persist,
               SkipReply, StartThrows, Update, WorkThrows, PersistThrows, Finish
    <3>2. posts' = posts
      BY <3>1 DEF Emit, EmitThrows
    <3>3. disk.event.status = "none" /\ run.status # "none"
      BY <2>1, <2>3 DEF EventGoes, MailInv, EventHolds, Ended, Result
    <3>4. disk'.event.status = run.status
      BY <2>1, <2>3 DEF EventGoes, Event
    <3> QED BY <3>2, <3>3, <3>4, EventSeals
  <2> QED BY <2>2, <2>3
<1>5. CASE Start \/ SendDocument \/ SendChunk \/ WaitForSend \/ Supersede \/ CloseTopic
  BY <1>5, <1>n DEF Start, SendDocument, SendChunk, WaitForSend, Supersede, CloseTopic
<1>6. CASE WaitForCall \/ Crash
  BY <1>6, <1>n DEF WaitForCall, Crash
<1>7. CASE Recover
  <2>1. posts' = posts /\ disk.status = "running" /\ disk'.event.status # "none"
    BY <1>0, <1>7 DEF Recover, DiskState
  <2>2. disk.event.status = "none"
    BY <2>1 DEF MailInv, EventHolds
  <2> QED BY <2>1, <2>2, EventSeals
<1>8. CASE UNCHANGED vars
  BY <1>8, <1>n DEF vars
<1> QED BY <1>1, <1>2, <1>3, <1>4, <1>5, <1>6, <1>7, <1>8, StepKinds DEF EndStep, OtherStep, PlainStep

\* The run implements the mailbox: whatever Telegram, the process and the user
\* do, chunks appear in order, none after the final event, and the event
\* claims no chunk that is not in the topic.
THEOREM DeliveryImplementsMailbox == Spec => ImplementsMailbox
<1>1. Init => Letter!Init
  <2> SUFFICES ASSUME Init PROVE Letter!Init
    OBVIOUS
  <2>1. Chunks = {}
    BY DEF Init, Chunks, Up
  <2>2. Claimed = {} /\ disk.event.status = "none"
    BY SmallSets DEF Init, Claimed
  <2> QED BY <2>1, <2>2 DEF Letter!Init
<1>2. MailInv /\ MailInv' /\ [Next]_vars => [Letter!Next]_Mail
  BY MailboxStep
<1> QED BY InductiveInvariant, <1>1, <1>2, PTL DEF Spec, ImplementsMailbox, Letter!Spec, Mail

-----------------------------------------------------------------------------
(* What is delivered is shown, and the progress message goes *)

\* Where the run waits for an operation of its own
Waits == {"finalize", "fallback", "dismiss"}

\* Of the operations in the chain one at most is the run's own, and it is there
\* while the run waits for it; nothing comes after a dismissal.
OwnOpHolds ==
    /\ run.pc \notin Waits => \A k \in DOMAIN chain : chain[k] = "flush"
    /\ \A j, k \in DOMAIN chain : chain[j] # "flush" /\ chain[k] # "flush" => j = k
    /\ run.pc \in {"finalize", "fallback"} => \E k \in DOMAIN chain : chain[k] = "finalize"
    /\ run.pc = "dismiss" =>
          /\ chain # <<>> /\ chain[Len(chain)] = "dismiss"
          /\ progress.closed /\ progress.terminal = Null /\ ~progress.timer

\* A call is about the message known now, but for the deletion of one that was
\* replaced.
CallHolds ==
    /\ run.pc = "dead" => ~world.alive /\ chain = <<>> /\ ~progress.timer
    /\ call.method \in {"edit", "send"} => call.post = progress.id /\ Head(chain) # "dismiss"
    /\ call.method = "delete" /\ Head(chain) = "dismiss" => call.post = progress.id
    /\ call.method = "delete" /\ Head(chain) # "dismiss" =>
          call.post # progress.id /\ call.text = progress.current

\* A progress message that is shown is known, or is about to be deleted.
KnownHolds ==
    run.pc # "dead" =>
        \A i \in Up("progress") :
            i \in orphans \/ i = progress.id \/ (call.method = "delete" /\ i = call.post)

\* The reply was given to the progress message.
Entrusted == run.pc = "fallback" \/ (run.viaProgress /\ run.pc \in {"event", "over"})

\* Its text is the reply then and only then.
ReplyHolds ==
    /\ run.viaProgress => run.pc \in {"event", "over", "dead"}
    /\ steps \in 1 .. MaxSteps
    /\ ~progress.closed => progress.pending # Reply
    /\ run.pc # "dead" /\ Reply \in {progress.terminal, progress.current} => Entrusted
    /\ call.text = Reply => Entrusted
    /\ Entrusted => progress.closed /\ progress.terminal = Reply /\ progress.id # Null

\* The message known is shown until it is dismissed.  A reply entrusted to it is
\* its text, or there is a flush or a timer that will try again.
EntrustedHolds ==
    /\ (run.pc \notin Ended \/ Entrusted) /\ progress.id # Null => posts[progress.id].up
    /\ progress.current = Reply /\ run.pc # "dead" =>
          posts[progress.id].text = Reply /\ call.method \notin {"edit", "send"}
    /\ run.pc = "fallback" /\ call # Idle /\ Head(chain) = "finalize" => call.text = Reply
    /\ run.viaProgress /\ run.pc # "dead" =>
          /\ call # Idle => call.text = Reply
          /\ world.open => progress.current = Reply \/ progress.timer \/ chain # <<>>

\* The chunks before the present one are there, unless one was given up.
PartsHold ==
    /\ run.pc \notin {"event", "dismiss", "over", "dead"} => ~run.delivered
    /\ ~run.skipped => 1 .. run.chunk - 1 \subseteq Chunks
    /\ run.delivered /\ ~run.viaProgress => run.chunk = run.total + 1

\* Together they are inductive, relative to MailInv.
ReplyInv == OwnOpHolds /\ CallHolds /\ KnownHolds /\ ReplyHolds /\ EntrustedHolds /\ PartsHold
            /\ ProgressGone

\* Both ways between a sequence and its tail
LEMMA TailBack ==
    ASSUME NEW S, NEW s \in Seq(S), s # <<>>
    PROVE  /\ \A k \in DOMAIN s : k = 1 \/ (k - 1 \in DOMAIN Tail(s) /\ Tail(s)[k - 1] = s[k])
           /\ Len(s) \in DOMAIN s
           /\ Len(s) = 1 => Tail(s) = <<>>
           /\ Len(s) # 1 => /\ Tail(s) # <<>> /\ Len(Tail(s)) = Len(s) - 1
                            /\ Tail(s)[Len(s) - 1] = s[Len(s)]
<1>1. Len(s) \in DOMAIN s /\ Len(s) \in Nat /\ Len(s) # 0
  OBVIOUS
<1>2. Tail(s) \in Seq(S) /\ Len(Tail(s)) = Len(s) - 1
  OBVIOUS
<1>3. \A k \in 1 .. Len(s) - 1 : Tail(s)[k] = s[k + 1]
  OBVIOUS
<1>4. ASSUME NEW k \in DOMAIN s, k # 1
      PROVE  k - 1 \in DOMAIN Tail(s) /\ Tail(s)[k - 1] = s[k]
  <2>1. k \in 1 .. Len(s)
    OBVIOUS
  <2>2. k - 1 \in 1 .. Len(s) - 1 /\ (k - 1) + 1 = k
    BY <1>1, <1>4, <2>1
  <2> QED BY <1>2, <1>3, <2>2
<1>5. Len(s) = 1 => Tail(s) = <<>>
  <2> DEFINE t == Tail(s)
  <2>1. t \in Seq(S) /\ (Len(s) = 1 => Len(t) = 0)
    BY <1>2
  <2> HIDE DEF t
  <2>2. Len(t) = 0 => t = <<>>
    BY <2>1
  <2>3. Len(s) = 1 => t = <<>>
    BY <2>1, <2>2
  <2> QED BY <2>3 DEF t
<1>6. Len(s) # 1 => Tail(s) # <<>>
  BY <1>1, <1>2
<1>7. Len(s) # 1 => Tail(s)[Len(s) - 1] = s[Len(s)]
  BY <1>1, <1>4
<1> QED BY <1>1, <1>2, <1>4, <1>5, <1>6, <1>7

\* The head of a chain that grows stays.
LEMMA AppendLast ==
    ASSUME NEW S, NEW s \in Seq(S), NEW e \in S
    PROVE  /\ Append(s, e) # <<>> /\ Append(s, e)[Len(Append(s, e))] = e
           /\ s # <<>> => Head(Append(s, e)) = Head(s)
<1>1. /\ Append(s, e) \in Seq(S) /\ Len(Append(s, e)) = Len(s) + 1 /\ Len(s) \in Nat
      /\ Append(s, e)[Len(s) + 1] = e /\ \A k \in 1 .. Len(s) : Append(s, e)[k] = s[k]
  OBVIOUS
<1>2. Append(s, e) # <<>>
  BY <1>1
<1>3. s # <<>> => Len(s) # 0 /\ Head(s) = s[1]
  OBVIOUS
<1>4. Head(Append(s, e)) = Append(s, e)[1]
  BY <1>1, <1>2
<1> QED BY <1>1, <1>2, <1>3, <1>4

\* What becomes of the run when the operation at the head is over
PopCase ==
    /\ run'.chunk = run.chunk /\ run'.total = run.total /\ run'.skipped = run.skipped
    /\ run'.failing = run.failing
    /\ \/ Head(chain) = "flush" /\ run' = run
       \/ /\ Head(chain) = "finalize" /\ run.pc = "finalize" /\ run'.pc = "reply"
          /\ run'.viaProgress = run.viaProgress /\ run'.delivered = run.delivered
       \/ /\ Head(chain) = "finalize" /\ run.pc = "fallback" /\ run'.pc = "event"
          /\ run'.viaProgress /\ run'.delivered
       \/ /\ Head(chain) = "dismiss" /\ run.pc = "dismiss" /\ run'.pc = "over" /\ chain' = <<>>
          /\ run'.viaProgress = run.viaProgress /\ run'.delivered = run.delivered

\* The run waits for the operation of its own that is in the chain.
LEMMA HeadIs ==
    ASSUME MailInv, OwnOpHolds, chain # <<>>
    PROVE  /\ Head(chain) \in Op
           /\ Head(chain) = "finalize" => run.pc \in {"finalize", "fallback"}
           /\ Head(chain) = "dismiss" => run.pc = "dismiss" /\ Len(chain) = 1
           /\ \A k \in DOMAIN chain : Head(chain) # "flush" /\ k # 1 => chain[k] = "flush"
<1>0. chain \in Seq(Op) /\ run \in RunState
  BY DEF MailInv, Typed
<1>1. Head(chain) = chain[1] /\ 1 \in DOMAIN chain /\ Head(chain) \in Op /\ Len(chain) \in DOMAIN chain
  BY <1>0, TailIs, TailBack
<1>2. \A k \in DOMAIN chain : Head(chain) # "flush" /\ k # 1 => chain[k] = "flush"
  BY <1>1 DEF OwnOpHolds
<1>3. Head(chain) # "flush" => run.pc \in Waits
  BY <1>1 DEF OwnOpHolds
<1>4. Head(chain) = "finalize" => run.pc # "dismiss"
  BY <1>1, <1>2 DEF OwnOpHolds
<1>5. Head(chain) = "dismiss" => run.pc \notin {"finalize", "fallback"}
  BY <1>1, <1>2 DEF OwnOpHolds
<1>6. Head(chain) = "dismiss" => Len(chain) = 1
  BY <1>1, <1>2, <1>3, <1>5 DEF OwnOpHolds, Waits
<1> QED BY <1>1, <1>2, <1>3, <1>4, <1>5, <1>6 DEF Waits

\* The run goes on as its operation is taken off the chain.
LEMMA PopIsCase ==
    ASSUME MailInv, OwnOpHolds, chain # <<>>, Pop
    PROVE  PopCase
<1>0. run \in RunState /\ chain \in Seq(Op)
  BY DEF MailInv, Typed
<1>1. chain' = Tail(chain) /\ run' = After(Head(chain))
  BY DEF Pop
<1>2. CASE Head(chain) = "flush"
  BY <1>1, <1>2 DEF After, PopCase
<1>3. CASE Head(chain) = "finalize"
  <2>1. CASE run.pc = "finalize"
    <3>1. run' = [run EXCEPT !.pc = "reply"]
      BY <1>1, <1>3, <2>1 DEF After
    <3> QED BY <1>0, <1>3, <2>1, <3>1 DEF RunState, PopCase
  <2>2. CASE run.pc = "fallback"
    <3>1. run' = [run EXCEPT !.pc = "event", !.viaProgress = TRUE, !.delivered = TRUE,
                             !.ids = <<progress'.id>>]
      BY <1>1, <1>3, <2>2 DEF After
    <3> QED BY <1>0, <1>3, <2>2, <3>1 DEF RunState, PopCase
  <2> QED BY <1>3, <2>1, <2>2, HeadIs
<1>4. CASE Head(chain) = "dismiss"
  <2>1. run' = [run EXCEPT !.pc = "over"]
    BY <1>1, <1>4 DEF After
  <2>2. run.pc = "dismiss" /\ chain' = <<>>
    BY <1>0, <1>1, <1>4, HeadIs, TailBack
  <2> QED BY <1>0, <1>4, <2>1, <2>2 DEF RunState, PopCase
<1> QED BY <1>2, <1>3, <1>4, HeadIs DEF Op

\* The operations left in the chain
LEMMA PopOwn ==
    ASSUME MailInv, OwnOpHolds, chain # <<>>, Pop,
           progress'.closed = progress.closed, progress'.terminal = progress.terminal,
           progress.closed /\ progress.terminal = Null /\ ~progress.timer => ~progress'.timer
    PROVE  OwnOpHolds'
<1>0. chain \in Seq(Op)
  BY DEF MailInv, Typed
<1>1. /\ \A k \in DOMAIN chain' : k + 1 \in DOMAIN chain /\ chain'[k] = chain[k + 1] /\ k \in Nat \ {0}
      /\ \A k \in DOMAIN chain : k = 1 \/ (k - 1 \in DOMAIN chain' /\ chain'[k - 1] = chain[k])
      /\ 1 \in DOMAIN chain /\ Head(chain) = chain[1]
  <2>1. chain' = Tail(chain) /\ Tail(chain) \in Seq(Op)
    BY <1>0, TailIs DEF Pop
  <2> QED BY <1>0, <2>1, TailIs, TailBack, ElementIs
<1>2. PopCase
  BY PopIsCase
<1>3. run'.pc \notin Waits => \A k \in DOMAIN chain' : chain'[k] = "flush"
  <2>1. CASE Head(chain) = "flush"
    BY <1>1, <1>2, <2>1 DEF PopCase, OwnOpHolds
  <2>2. CASE Head(chain) # "flush"
    BY <1>1, <2>2, HeadIs
  <2> QED BY <2>1, <2>2
<1>4. \A j, k \in DOMAIN chain' : chain'[j] # "flush" /\ chain'[k] # "flush" => j = k
  <2> SUFFICES ASSUME NEW j \in DOMAIN chain', NEW k \in DOMAIN chain',
                      chain'[j] # "flush", chain'[k] # "flush"
               PROVE  j = k
    OBVIOUS
  <2>1. j + 1 = k + 1
    BY <1>1 DEF OwnOpHolds
  <2> QED BY <1>1, <2>1
<1>5. run'.pc \in {"finalize", "fallback"} => \E k \in DOMAIN chain' : chain'[k] = "finalize"
  <2> SUFFICES ASSUME run'.pc \in {"finalize", "fallback"}
               PROVE  \E k \in DOMAIN chain' : chain'[k] = "finalize"
    OBVIOUS
  <2>1. Head(chain) = "flush" /\ run.pc \in {"finalize", "fallback"}
    BY <1>2 DEF PopCase
  <2>2. PICK k \in DOMAIN chain : chain[k] = "finalize"
    BY <2>1 DEF OwnOpHolds
  <2>3. k # 1
    BY <1>1, <2>1, <2>2
  <2> QED BY <1>1, <2>2, <2>3
<1>6. run'.pc = "dismiss" => chain' # <<>> /\ chain'[Len(chain')] = "dismiss"
  <2> SUFFICES ASSUME run'.pc = "dismiss"
               PROVE  chain' # <<>> /\ chain'[Len(chain')] = "dismiss"
    OBVIOUS
  <2>1. Head(chain) = "flush" /\ run.pc = "dismiss"
    BY <1>2 DEF PopCase
  <2>2. chain[Len(chain)] = "dismiss"
    BY <2>1 DEF OwnOpHolds
  <2>3. Len(chain) # 1
    BY <1>1, <2>1, <2>2
  <2> QED BY <1>0, <2>2, <2>3, TailBack DEF Pop
<1>7. run'.pc = "dismiss" => progress'.closed /\ progress'.terminal = Null /\ ~progress'.timer
  BY <1>2 DEF PopCase, OwnOpHolds
<1> QED BY <1>3, <1>4, <1>5, <1>6, <1>7 DEF OwnOpHolds

\* What a step that takes the head off the chain does to the progress message
PopKeeps ==
    /\ progress'.closed = progress.closed /\ progress'.terminal = progress.terminal
    /\ progress.closed /\ progress.terminal = Null /\ ~progress.timer => ~progress'.timer
    /\ ~progress.closed => progress'.pending # Reply
    /\ progress'.id \in {progress.id, Null}
    /\ progress'.id = Null => progress.id = Null \/ Head(chain) = "dismiss"
    /\ progress'.current = Reply => progress.current = Reply \/ call.text = Reply
    /\ \A i \in Up("progress")' : i \in orphans' \/ (i = progress'.id /\ Head(chain) # "dismiss")
    /\ Head(chain) # "dismiss" /\ progress'.id # Null /\ posts[progress.id].up => posts'[progress'.id].up
    /\ progress'.current = Reply => posts'[progress'.id].text = Reply
    /\ world'.open /\ Entrusted /\ (run.viaProgress \/ Head(chain) = "finalize") =>
          progress'.current = Reply \/ progress'.timer
    /\ steps' = steps /\ Chunks' = Chunks

\* The chunks shown and the place of the run agree after a step that is not
\* about chunks.
LEMMA PopParts ==
    ASSUME MailInv, ReplyInv, chain # <<>>, PopCase, Chunks' = Chunks
    PROVE  PartsHold'
<1> QED BY DEF ReplyInv, PartsHold, PopCase, ReplyHolds

\* An operation that is over leaves the progress message and the reply in order.
LEMMA PopInv ==
    ASSUME MailInv, ReplyInv, chain # <<>>, Pop, PopKeeps
    PROVE  ReplyInv'
<1> USE DEF ReplyInv
<1>1. PopCase /\ call' = Idle /\ run.pc # "dead" /\ run'.pc # "dead"
  <2>1. PopCase
    BY PopIsCase
  <2> QED BY <2>1 DEF Pop, CallHolds, PopCase
<1>2. OwnOpHolds'
  BY PopOwn DEF PopKeeps
<1>3. CallHolds'
  BY <1>1, AskIs DEF CallHolds
<1>4. KnownHolds'
  BY DEF KnownHolds, PopKeeps
<1>5. Entrusted' <=> Entrusted
  <2>1. Head(chain) = "dismiss" => ~Entrusted
    BY HeadIs DEF Entrusted
  <2> QED BY <1>1, <2>1 DEF Entrusted, PopCase, ReplyHolds
<1>6. ReplyHolds'
  <2>1. run'.viaProgress => run'.pc \in {"event", "over", "dead"}
    BY <1>1 DEF PopCase, ReplyHolds
  <2>2. call'.text # Reply
    BY <1>1, DeliveryAssumption DEF Idle, Null, Reply, DeliveryAssumption
  <2>3. Entrusted => Head(chain) # "dismiss"
    BY HeadIs DEF Entrusted
  <2> QED BY <1>1, <1>5, <2>1, <2>2, <2>3 DEF ReplyHolds, PopKeeps
<1>7. EntrustedHolds'
  <2>1. run'.pc \notin Ended \/ Entrusted' =>
          (run.pc \notin Ended \/ Entrusted) /\ Head(chain) # "dismiss"
    <3>1. Head(chain) = "dismiss" => run'.pc = "over" /\ ~Entrusted
      BY <1>1, HeadIs DEF PopCase, Entrusted
    <3> QED BY <1>1, <1>5, <3>1 DEF PopCase, Ended
  <2>2. (run'.pc \notin Ended \/ Entrusted') /\ progress'.id # Null => posts'[progress'.id].up
    BY <2>1 DEF EntrustedHolds, PopKeeps
  <2>3. progress'.current = Reply => posts'[progress'.id].text = Reply /\ call'.method = "none"
    BY <1>1, AskIs DEF PopKeeps
  <2>4. run'.viaProgress /\ run'.pc # "dead" /\ world'.open =>
            progress'.current = Reply \/ progress'.timer
    <3> SUFFICES ASSUME run'.viaProgress, world'.open
                 PROVE  progress'.current = Reply \/ progress'.timer
      OBVIOUS
    <3>1. Head(chain) # "dismiss"
      BY <1>1, HeadIs DEF PopCase, ReplyHolds
    <3>2. Entrusted'
      BY <1>1, <1>6 DEF Entrusted, ReplyHolds
    <3>3. run.viaProgress \/ Head(chain) = "finalize"
      BY <1>1 DEF PopCase
    <3> QED BY <1>5, <3>2, <3>3 DEF PopKeeps
  <2> QED BY <1>1, <2>2, <2>3, <2>4 DEF EntrustedHolds
<1>8. PartsHold'
  BY <1>1, PopParts DEF PopKeeps
<1>9. ProgressGone'
  <2> SUFFICES ASSUME run'.pc = "over", ~run'.viaProgress, ~run'.failing
               PROVE  Quiet' /\ Up("progress")' \subseteq orphans'
    BY DEF ProgressGone
  <2>1. Head(chain) = "dismiss" /\ run.pc = "dismiss" /\ chain' = <<>>
    BY <1>1 DEF PopCase, ProgressGone, Quiet
  <2>2. ~progress'.timer
    BY <2>1 DEF OwnOpHolds, PopKeeps
  <2>3. Up("progress")' \subseteq orphans'
    BY <2>1 DEF PopKeeps
  <2> QED BY <2>1, <2>2, <2>3 DEF Quiet
<1> QED BY <1>2, <1>3, <1>4, <1>6, <1>7, <1>8, <1>9

\* The facts every step of the chain starts from
ChainFacts ==
    /\ posts \in Seq(Message) /\ progress \in ProgressState /\ chain \in Seq(Op)
    /\ call \in ApiCall /\ run \in RunState /\ world \in WorldState
    /\ call.text \in Nat /\ call.post \in Nat
    /\ call.method # "none" => call # Idle /\ chain # <<>> /\ IsProgress(call.post)
    /\ progress.id \in Nat /\ (progress.id # Null => IsProgress(progress.id))

\* They follow from the invariant.
LEMMA ChainFactsHold ==
    ASSUME MailInv
    PROVE  ChainFacts
<1>1. /\ posts \in Seq(Message) /\ progress \in ProgressState /\ chain \in Seq(Op)
      /\ call \in ApiCall /\ run \in RunState /\ world \in WorldState
  BY DEF MailInv, Typed
<1>2. call.text \in Nat /\ call.post \in Nat /\ progress.id \in Nat
  BY <1>1 DEF ApiCall, ProgressState
<1>3. call.method # "none" => call # Idle
  BY AskIs
<1> QED BY <1>1, <1>2, <1>3 DEF ChainFacts, MailInv, ChainHolds

\* A fault does not close the topic.
LEMMA SpentOpen ==
    ASSUME MailInv, NEW out
    PROVE  Spent(out).open = world.open
  BY DEF MailInv, Typed, Spent, WorldState

\* An answer of an edit or of a sending says that the topic is closed.
LEMMA GoneIsClosed ==
    ASSUME NEW c, NEW out \in Outcomes(c), out = "gone"
    PROVE  ~world.open
  BY DEF Outcomes

\* Texts the run gives to the progress message before its reply
LEMMA TextsDiffer ==
    /\ Reply \in Nat /\ Reply # Null /\ Reply # 1 /\ Stopping # Reply /\ Stopping \in Nat
    /\ Stopping # Null /\ \A s \in 1 .. MaxSteps : s # Reply /\ s # Null
  BY DeliveryAssumption DEF DeliveryAssumption, Reply, Stopping, Null

\* A step of the chain shows no chunk.
LEMMA ChainChunks ==
    ASSUME MailInv, ChainStep
    PROVE  Chunks' = Chunks
<1>1. SameChunks
  BY ChainStepGoes DEF ChainGoes
<1> QED BY <1>1 DEF Chunks, Up, SameChunks

\* A timer adds a flush to the chain.
LEMMA TimerReply ==
    ASSUME MailInv, ReplyInv, TimerFires
    PROVE  ReplyInv'
<1> USE DEF ReplyInv
<1>0. ChainFacts
  BY ChainFactsHold
<1> USE DEF ChainFacts
<1>1. /\ progress.timer /\ ~progress'.timer /\ progress'.id = progress.id
      /\ progress'.closed = progress.closed /\ progress'.terminal = progress.terminal
      /\ progress'.current = progress.current /\ progress'.pending = progress.pending
  BY <1>0 DEF TimerFires, ProgressState
<1>2. /\ UNCHANGED <<posts, call, run, send, disk, world, steps, orphans>>
      /\ chain' = Append(chain, "flush")
  BY DEF TimerFires
<1>3. /\ chain' # <<>> /\ (chain # <<>> => Head(chain') = Head(chain))
      /\ \A k \in DOMAIN chain : k \in DOMAIN chain' /\ chain'[k] = chain[k]
      /\ \A k \in DOMAIN chain' : k \in DOMAIN chain \/ chain'[k] = "flush"
  <2>1. "flush" \in Op
    BY DEF Op
  <2> QED BY <1>0, <1>2, <2>1, AppendIs, AppendLast
<1>4. OwnOpHolds'
  <2>1. run.pc # "dismiss"
    BY <1>1 DEF OwnOpHolds
  <2>2. \A k \in DOMAIN chain' : chain'[k] # "flush" => k \in DOMAIN chain /\ chain[k] = chain'[k]
    BY <1>3
  <2>3. \A j, k \in DOMAIN chain' : chain'[j] # "flush" /\ chain'[k] # "flush" => j = k
    BY <2>2 DEF OwnOpHolds
  <2> QED BY <1>2, <1>3, <2>1, <2>2, <2>3 DEF OwnOpHolds
<1>5. CallHolds'
  BY <1>0, <1>1, <1>2, <1>3 DEF CallHolds
<1>6. KnownHolds' /\ PartsHold'
  BY <1>1, <1>2 DEF KnownHolds, PartsHold, Up, Chunks
<1>7. ReplyHolds'
  BY <1>1, <1>2 DEF ReplyHolds, Entrusted
<1>8. EntrustedHolds'
  <2>1. run.pc = "fallback" => chain # <<>>
    BY DEF OwnOpHolds
  <2> QED BY <1>1, <1>2, <1>3, <2>1 DEF EntrustedHolds, Entrusted
<1>9. ProgressGone'
  BY <1>1, <1>2 DEF ProgressGone, Quiet
<1> QED BY <1>4, <1>5, <1>6, <1>7, <1>8, <1>9

\* What a call that is asked leaves alone
AskKeeps ==
    /\ chain # <<>> /\ UNCHANGED <<chain, run, steps>>
    /\ progress'.closed = progress.closed /\ progress'.terminal = progress.terminal
    /\ progress'.timer = progress.timer /\ (~progress.closed => progress'.pending # Reply)
    /\ world'.alive = world.alive

\* A call that is asked shows nothing yet.
LEMMA AskReply ==
    ASSUME MailInv, ReplyInv, AskKeeps, Chunks' = Chunks, CallHolds', KnownHolds',
           progress.id # Null => progress'.id # Null,
           progress'.current = Reply => progress.current = Reply \/ call.text = Reply,
           call'.text = Reply => Entrusted, EntrustedHolds'
    PROVE  ReplyInv'
<1> USE DEF ReplyInv
<1>1. OwnOpHolds'
  BY DEF OwnOpHolds, AskKeeps
<1>2. ReplyHolds'
  BY DEF ReplyHolds, AskKeeps, Entrusted
<1>3. PartsHold'
  BY DEF PartsHold, AskKeeps
<1>4. ProgressGone'
  BY DEF ProgressGone, Quiet, AskKeeps
<1> QED BY <1>1, <1>2, <1>3, <1>4

\* A flush begins: there is nothing to show, or the text is sent or edited.
LEMMA BeginFlushReply ==
    ASSUME MailInv, ReplyInv, BeginFlush
    PROVE  ReplyInv'
<1> USE DEF ReplyInv
<1>0. ChainFacts
  BY ChainFactsHold
<1> USE DEF ChainFacts
<1> DEFINE text == IF progress.closed THEN progress.terminal ELSE progress.pending
           ends == text \in {Null, progress.current} \/ progress.id = Null
           left == IF progress.id = Null THEN text ELSE Null
           m == IF progress.append THEN "send" ELSE "edit"
<1>1. /\ chain # <<>> /\ Head(chain) # "dismiss" /\ call = Idle
      /\ progress' = [progress EXCEPT !.pending = left]
      /\ \/ ends /\ Pop
         \/ ~ends /\ call' = Ask(m, text, progress.id) /\ UNCHANGED <<chain, run>>
      /\ UNCHANGED <<posts, send, disk, world, steps, orphans>>
  BY DEF BeginFlush
<1>2. /\ ~progress.closed => text # Reply
      /\ Entrusted => text = Reply /\ progress.id # Null
      /\ text = Reply => Entrusted
  <2>1. run.pc # "dead"
    BY <1>1 DEF CallHolds
  <2> QED BY <2>1 DEF ReplyHolds
<1>3. text \in Nat
  BY <1>0 DEF ProgressState
<1>4. Chunks' = Chunks
  BY <1>1 DEF Chunks, Up
<1> HIDE DEF text, m
<1>5. /\ progress'.id = progress.id /\ progress'.closed = progress.closed
      /\ progress'.terminal = progress.terminal /\ progress'.current = progress.current
      /\ progress'.timer = progress.timer /\ progress'.pending \in {text, Null}
  BY <1>0, <1>1 DEF ProgressState
<1>6. \A i \in Up("progress")' : i \in orphans' \/ i = progress'.id
  <2>1. run.pc # "dead" /\ call.method = "none"
    BY <1>1, AskIs DEF CallHolds
  <2>2. Up("progress")' = Up("progress")
    BY <1>1 DEF Up
  <2> QED BY <1>1, <1>5, <2>1, <2>2 DEF KnownHolds
<1>7. CASE ends /\ Pop
  <2>1. Entrusted => progress'.current = Reply
    BY <1>2, <1>5, <1>7, TextsDiffer
  <2>2. progress'.current = Reply => posts'[progress'.id].text = Reply
    <3>1. run.pc # "dead"
      BY <1>1 DEF CallHolds
    <3> QED BY <1>1, <1>5, <3>1 DEF EntrustedHolds
  <2>3. PopKeeps
    BY <1>1, <1>2, <1>4, <1>5, <1>6, <2>1, <2>2, TextsDiffer DEF PopKeeps
  <2> QED BY <1>1, <1>7, <2>3, PopInv
<1>8. CASE ~ends /\ call' = Ask(m, text, progress.id) /\ UNCHANGED <<chain, run>>
  <2>1. /\ call'.method \in {"send", "edit"} /\ call'.text = text /\ call'.post = progress.id
        /\ call' # Idle
    BY <1>8, TextsDiffer DEF m, Ask, Idle
  <2>2. AskKeeps
    BY <1>1, <1>2, <1>5, <1>8, TextsDiffer DEF AskKeeps
  <2>3. CallHolds'
    BY <1>1, <1>5, <1>8, <2>1 DEF CallHolds
  <2>4. KnownHolds'
    BY <1>6 DEF KnownHolds
  <2>5. progress.current # Reply
    <3>1. progress.current = Reply => Entrusted
      BY <1>1 DEF ReplyHolds, CallHolds
    <3> QED BY <1>2, <1>8, <3>1
  <2>6. EntrustedHolds'
    BY <1>1, <1>2, <1>5, <1>8, <2>1, <2>5 DEF EntrustedHolds, Entrusted, ReplyHolds
  <2> QED BY <1>2, <1>4, <1>5, <2>1, <2>2, <2>3, <2>4, <2>6, AskReply
<1> QED BY <1>1, <1>7, <1>8

\* A dismissal begins: there is nothing to delete, or the message is.
LEMMA BeginDismissReply ==
    ASSUME MailInv, ReplyInv, BeginDismiss
    PROVE  ReplyInv'
<1> USE DEF ReplyInv
<1>0. ChainFacts
  BY ChainFactsHold
<1> USE DEF ChainFacts
<1>1. /\ chain # <<>> /\ Head(chain) = "dismiss" /\ call = Idle
      /\ progress' = [progress EXCEPT !.pending = Null]
      /\ \/ progress.id = Null /\ Pop
         \/ /\ progress.id # Null /\ call' = Ask("delete", Null, progress.id)
            /\ UNCHANGED <<chain, run>>
      /\ UNCHANGED <<posts, send, disk, world, steps, orphans>>
  BY DEF BeginDismiss
<1>2. run.pc = "dismiss" /\ ~Entrusted
  BY <1>1, HeadIs DEF Entrusted
<1>3. Chunks' = Chunks /\ Up("progress")' = Up("progress")
  BY <1>1 DEF Chunks, Up
<1>4. /\ progress'.id = progress.id /\ progress'.closed = progress.closed
      /\ progress'.terminal = progress.terminal /\ progress'.current = progress.current
      /\ progress'.timer = progress.timer /\ progress'.pending = Null
  BY <1>0, <1>1 DEF ProgressState
<1>5. progress.current # Reply
  BY <1>2 DEF ReplyHolds
<1>6. \A i \in Up("progress")' : i \in orphans' \/ i = progress'.id
  BY <1>1, <1>2, <1>3, <1>4, AskIs DEF KnownHolds
<1>7. CASE progress.id = Null /\ Pop
  <2>1. \A i \in Up("progress") : i # Null
    BY <1>0, ElementIs DEF Up, Null
  <2>2. PopKeeps
    BY <1>1, <1>2, <1>3, <1>4, <1>5, <1>6, <1>7, <2>1, TextsDiffer DEF PopKeeps
  <2> QED BY <1>1, <1>7, <2>2, PopInv
<1>8. CASE call' = Ask("delete", Null, progress.id) /\ UNCHANGED <<chain, run>>
  <2>1. call'.method = "delete" /\ call'.text = Null /\ call'.post = progress.id
    BY <1>8 DEF Ask, Idle
  <2>2. AskKeeps
    BY <1>1, <1>4, <1>8, TextsDiffer DEF AskKeeps
  <2>3. CallHolds'
    BY <1>1, <1>2, <1>4, <1>8, <2>1 DEF CallHolds
  <2>4. KnownHolds'
    BY <1>6 DEF KnownHolds
  <2>5. EntrustedHolds'
    BY <1>1, <1>2, <1>4, <1>5, <1>8 DEF EntrustedHolds, Entrusted, ReplyHolds, Ended
  <2> QED BY <1>3, <1>4, <1>5, <2>1, <2>2, <2>3, <2>4, <2>5, AskReply, TextsDiffer
<1> QED BY <1>1, <1>7, <1>8

\* The text of a message is edited; which ones are shown stays.
LEMMA EditShows ==
    ASSUME posts \in Seq(Message), NEW i \in DOMAIN posts, NEW t,
           posts' = [posts EXCEPT ![i].text = t]
    PROVE  /\ Up("progress")' = Up("progress") /\ posts'[i].text = t
           /\ DOMAIN posts' = DOMAIN posts
           /\ \A k \in DOMAIN posts : posts'[k].up = posts[k].up
<1>1. DOMAIN posts' = DOMAIN posts
  OBVIOUS
<1>2. \A k \in DOMAIN posts : posts[k] \in Message
  BY ElementIs
<1>3. \A k \in DOMAIN posts : k # i => posts'[k] = posts[k]
  OBVIOUS
<1>4. posts'[i] = [posts[i] EXCEPT !.text = t]
  OBVIOUS
<1>5. posts'[i].text = t /\ posts'[i].up = posts[i].up /\ posts'[i].kind = posts[i].kind
  BY <1>2, <1>4 DEF Message
<1> QED BY <1>1, <1>3, <1>5 DEF Up

\* What keeping a text for another try does
LEMMA KeepPendingDoes ==
    ASSUME NEW p \in ProgressState, NEW text \in Nat, NEW retry \in BOOLEAN
    PROVE  LET q == KeepPending(p, text, retry)
           IN  /\ q.id = p.id /\ q.closed = p.closed /\ q.terminal = p.terminal /\ q.current = p.current
               /\ ~p.closed => q.pending = text
               /\ p.closed /\ p.terminal = Null => q.timer = p.timer
               /\ p.closed /\ p.terminal # Null /\ retry => q.timer
  BY DEF KeepPending, ProgressState

\* An edit is answered: the text is shown, is kept, or the message is replaced.
LEMMA EditedReply ==
    ASSUME MailInv, ReplyInv, Edited
    PROVE  ReplyInv'
<1> USE DEF ReplyInv
<1>0. ChainFacts
  BY ChainFactsHold
<1> USE DEF ChainFacts
<1>1. PICK out \in Outcomes(call) :
        /\ world' = Spent(out)
        /\ posts' = IF Done(out) THEN [posts EXCEPT ![call.post].text = call.text] ELSE posts
        /\ \/ /\ out = "ok"
              /\ progress' = [progress EXCEPT !.current = call.text]
              /\ Pop
           \/ /\ out \in {"lost", "down", "refused", "gone"}
              /\ progress' = KeepPending(progress, call.text, out # "gone")
              /\ Pop
           \/ /\ out = "replace"
              /\ progress' = [progress EXCEPT !.append = TRUE, !.pending = call.text]
              /\ call' = [Ask("send", call.text, call.post) EXCEPT !.over = TRUE]
              /\ UNCHANGED <<chain, run>>
  BY DEF Edited
<1>2. /\ call.method = "edit" /\ chain # <<>> /\ UNCHANGED <<send, steps, orphans>>
      /\ run.pc # "dead" /\ Head(chain) # "dismiss" /\ call.post = progress.id
      /\ call.post \in DOMAIN posts /\ progress.id # Null
  <2>1. call.method = "edit" /\ UNCHANGED <<send, steps, orphans>>
    BY DEF Edited
  <2>2. call.post \in DOMAIN posts
    BY <1>0, <2>1 DEF IsProgress
  <2> QED BY <1>0, <2>1, <2>2, ElementIs DEF CallHolds, Null
<1>3. Chunks' = Chunks
  BY ChainChunks DEF ChainStep
<1>4. /\ Up("progress")' = Up("progress") /\ posts'[progress.id].up = posts[progress.id].up
      /\ Done(out) => posts'[progress.id].text = call.text
  <2>1. CASE Done(out)
    <3>1. posts' = [posts EXCEPT ![progress.id].text = call.text] /\ progress.id \in DOMAIN posts
      BY <1>1, <1>2, <2>1
    <3>2. posts \in Seq(Message)
      BY <1>0
    <3> HIDE DEF ChainFacts
    <3> QED BY <3>1, <3>2, EditShows
  <2>2. CASE ~Done(out)
    <3>1. posts' = posts
      BY <1>1, <2>2
    <3> QED BY <2>2, <3>1 DEF Up
  <2> QED BY <2>1, <2>2
<1>5. \A i \in Up("progress")' : i \in orphans' \/ i = progress.id
  BY <1>2, <1>4 DEF KnownHolds
<1>6. world'.open => world.open /\ out # "gone"
  BY <1>1, SpentOpen, GoneIsClosed
<1>7. progress.current # Reply
  BY <1>2 DEF EntrustedHolds
<1>8. ~progress.closed => call.text # Reply
  BY DEF ReplyHolds
<1>9. CASE out = "ok" /\ Pop
  <2>1. /\ progress'.id = progress.id /\ progress'.closed = progress.closed
        /\ progress'.terminal = progress.terminal /\ progress'.current = call.text
        /\ progress'.timer = progress.timer /\ progress'.pending = progress.pending
    BY <1>0, <1>1, <1>9 DEF ProgressState
  <2>2. Entrusted /\ (run.viaProgress \/ Head(chain) = "finalize") => call.text = Reply
    BY <1>2, AskIs DEF EntrustedHolds, Entrusted
  <2>3. ~progress.closed => progress'.pending # Reply
    BY <2>1 DEF ReplyHolds
  <2>4. PopKeeps
    BY <1>2, <1>3, <1>4, <1>5, <1>9, <2>1, <2>2, <2>3 DEF PopKeeps, Done
  <2> QED BY <1>2, <1>9, <2>4, PopInv
<1>10. CASE out \in {"lost", "down", "refused", "gone"} /\ Pop
  <2>1. /\ progress'.id = progress.id /\ progress'.closed = progress.closed
        /\ progress'.terminal = progress.terminal /\ progress'.current = progress.current
        /\ ~progress.closed => progress'.pending = call.text
        /\ progress.closed /\ progress.terminal = Null => progress'.timer = progress.timer
        /\ progress.closed /\ progress.terminal # Null /\ out # "gone" => progress'.timer
    <3>1. PICK retry \in BOOLEAN : /\ retry = (out # "gone")
                                  /\ progress' = KeepPending(progress, call.text, retry)
      BY <1>1, <1>10
    <3>2. progress \in ProgressState /\ call.text \in Nat
      BY <1>0
    <3> QED BY <3>1, <3>2, KeepPendingDoes
  <2>2. Entrusted /\ world'.open => progress'.timer
    BY <1>6, <2>1, TextsDiffer DEF ReplyHolds
  <2>3. PopKeeps
    BY <1>2, <1>3, <1>4, <1>5, <1>7, <1>8, <2>1, <2>2 DEF PopKeeps
  <2> QED BY <1>2, <1>10, <2>3, PopInv
<1>11. CASE /\ out = "replace"
            /\ progress' = [progress EXCEPT !.append = TRUE, !.pending = call.text]
            /\ call' = [Ask("send", call.text, call.post) EXCEPT !.over = TRUE]
            /\ UNCHANGED <<chain, run>>
  <2>1. /\ progress' = [progress EXCEPT !.append = TRUE, !.pending = call.text]
        /\ call' = [Ask("send", call.text, call.post) EXCEPT !.over = TRUE]
        /\ UNCHANGED <<chain, run>> /\ posts' = posts
    BY <1>1, <1>11 DEF Done
  <2>2. /\ progress'.id = progress.id /\ progress'.closed = progress.closed
        /\ progress'.terminal = progress.terminal /\ progress'.current = progress.current
        /\ progress'.timer = progress.timer /\ progress'.pending = call.text
    BY <1>0, <2>1 DEF ProgressState
  <2>3. call'.method = "send" /\ call'.text = call.text /\ call'.post = call.post
    BY <2>1 DEF Ask, Idle
  <2>4. AskKeeps
    BY <1>0, <1>1, <1>2, <1>8, <2>1, <2>2, SpentIs DEF AskKeeps
  <2>5. CallHolds'
    BY <1>2, <2>1, <2>2, <2>3 DEF CallHolds
  <2>6. KnownHolds'
    BY <1>5, <2>2 DEF KnownHolds
  <2>7. call # Idle
    BY <1>2, AskIs
  <2>8. EntrustedHolds'
    BY <1>2, <1>6, <1>7, <2>1, <2>2, <2>3, <2>7 DEF EntrustedHolds, Entrusted
  <2>9. call'.text = Reply => Entrusted
    BY <2>3 DEF ReplyHolds
  <2>10. progress'.id # Null /\ progress'.current # Reply
    BY <1>2, <1>7, <2>2
  <2> QED BY <1>3, <2>4, <2>5, <2>6, <2>8, <2>9, <2>10, AskReply
<1> QED BY <1>1, <1>9, <1>10, <1>11

\* A new message is sent in place of the one known, or its text is kept.
LEMMA AppendedReply ==
    ASSUME MailInv, ReplyInv, Appended
    PROVE  ReplyInv'
<1> USE DEF ReplyInv
<1>0. ChainFacts
  BY ChainFactsHold
<1> USE DEF ChainFacts
<1>1. PICK out \in Outcomes(call) :
        /\ world' = Spent(out)
        /\ posts' = IF Done(out) THEN Append(posts, Post("progress", call.text)) ELSE posts
        /\ orphans' = IF out = "lost" THEN orphans \cup {Len(posts) + 1} ELSE orphans
        /\ IF out = "ok"
           THEN /\ progress' = [progress EXCEPT !.id = Len(posts) + 1, !.current = call.text]
                /\ call' = [call EXCEPT !.method = "delete", !.waits = 0]
                /\ UNCHANGED <<chain, run>>
           ELSE /\ progress' = KeepPending(progress, call.text, TRUE)
                /\ Pop
  BY DEF Appended
<1>2. /\ call.method = "send" /\ chain # <<>> /\ UNCHANGED <<send, steps>>
      /\ run.pc # "dead" /\ Head(chain) # "dismiss" /\ call.post = progress.id
      /\ progress.id \in DOMAIN posts /\ progress.id # Null
  <2>1. call.method = "send" /\ UNCHANGED <<send, steps>>
    BY DEF Appended
  <2>2. call.post \in DOMAIN posts
    BY <1>0, <2>1 DEF IsProgress
  <2> QED BY <1>0, <2>1, <2>2, ElementIs DEF CallHolds, Null
<1>3. Chunks' = Chunks
  BY ChainChunks DEF ChainStep
<1>4. /\ \A k \in DOMAIN posts : k \in DOMAIN posts' /\ posts'[k] = posts[k]
      /\ \A k \in DOMAIN posts' : k \in DOMAIN posts \/ (Done(out) /\ k = Len(posts) + 1)
      /\ Done(out) => posts'[Len(posts) + 1] = Post("progress", call.text)
      /\ Len(posts) + 1 \notin DOMAIN posts /\ Len(posts) + 1 # Null
  <2>1. Post("progress", call.text) \in Message
    BY <1>0, PostIs
  <2>2. Len(posts) + 1 \notin DOMAIN posts /\ Len(posts) + 1 # Null
    BY <1>0, <2>1, AppendIs DEF Null
  <2>3. CASE Done(out)
    BY <1>0, <1>1, <2>1, <2>2, <2>3, AppendIs
  <2>4. CASE ~Done(out)
    BY <1>1, <2>2, <2>4
  <2> QED BY <2>3, <2>4
<1>5. \A i \in Up("progress")' : i \in Up("progress") \/ (Done(out) /\ i = Len(posts) + 1)
  BY <1>4 DEF Up
<1>6. \A i \in Up("progress") : i \in orphans \/ i = progress.id
  BY <1>2 DEF KnownHolds
<1>7. progress.current # Reply
  BY <1>2 DEF EntrustedHolds
<1>8. ~progress.closed => call.text # Reply
  BY DEF ReplyHolds
<1>9. CASE out = "ok"
  <2>1. /\ progress' = [progress EXCEPT !.id = Len(posts) + 1, !.current = call.text]
        /\ call' = [call EXCEPT !.method = "delete", !.waits = 0]
        /\ UNCHANGED <<chain, run, orphans>>
    BY <1>1, <1>9
  <2>2. /\ progress'.id = Len(posts) + 1 /\ progress'.closed = progress.closed
        /\ progress'.terminal = progress.terminal /\ progress'.current = call.text
        /\ progress'.timer = progress.timer /\ progress'.pending = progress.pending
    BY <1>0, <2>1 DEF ProgressState
  <2>3. call'.method = "delete" /\ call'.text = call.text /\ call'.post = progress.id
    BY <1>0, <1>2, <2>1 DEF ApiCall
  <2>4. AskKeeps
    <3>1. world'.alive = world.alive
      BY <1>0, <1>1, SpentIs
    <3>2. ~progress.closed => progress'.pending # Reply
      BY <2>2 DEF ReplyHolds
    <3> QED BY <1>2, <2>1, <2>2, <3>1, <3>2 DEF AskKeeps
  <2>5. CallHolds'
    BY <1>2, <1>4, <2>1, <2>2, <2>3 DEF CallHolds
  <2>6. KnownHolds'
    BY <1>2, <1>5, <1>6, <2>1, <2>2, <2>3 DEF KnownHolds
  <2>7. /\ posts'[progress'.id].up /\ posts'[progress'.id].text = call.text
    BY <1>4, <1>9, <2>2 DEF Done, Post
  <2>8. call # Idle
    BY <1>2, AskIs
  <2>9. EntrustedHolds'
    <3>1. run.pc = "fallback" /\ Head(chain) = "finalize" => call'.text = Reply
      BY <2>3, <2>8 DEF EntrustedHolds
    <3>2. run.viaProgress /\ run.pc # "dead" => call'.text = Reply
      BY <2>3, <2>8 DEF EntrustedHolds
    <3> QED BY <1>2, <2>1, <2>2, <2>3, <2>7, <3>1, <3>2 DEF EntrustedHolds
  <2>10. /\ progress'.id # Null /\ (progress'.current = Reply => call.text = Reply)
         /\ (call'.text = Reply => Entrusted)
    BY <1>4, <2>2, <2>3 DEF ReplyHolds
  <2> QED BY <1>3, <2>4, <2>5, <2>6, <2>9, <2>10, AskReply
<1>10. CASE out # "ok"
  <2>1. progress' = KeepPending(progress, call.text, TRUE) /\ Pop
    BY <1>1, <1>10
  <2>2. /\ progress'.id = progress.id /\ progress'.closed = progress.closed
        /\ progress'.terminal = progress.terminal /\ progress'.current = progress.current
        /\ ~progress.closed => progress'.pending = call.text
        /\ progress.closed /\ progress.terminal = Null => progress'.timer = progress.timer
        /\ progress.closed /\ progress.terminal # Null => progress'.timer
    <3>1. progress \in ProgressState /\ call.text \in Nat
      BY <1>0
    <3> QED BY <2>1, <3>1, KeepPendingDoes
  <2>3. Entrusted => progress'.timer
    BY <2>2, TextsDiffer DEF ReplyHolds
  <2>4. \A i \in Up("progress")' : i \in orphans' \/ i = progress'.id
    BY <1>1, <1>5, <1>6, <1>10, <2>2 DEF Done
  <2>5. posts'[progress.id] = posts[progress.id]
    BY <1>2, <1>4
  <2>6. PopKeeps
    BY <1>2, <1>3, <1>7, <1>8, <2>2, <2>3, <2>4, <2>5 DEF PopKeeps
  <2> QED BY <1>2, <2>1, <2>6, PopInv
<1> QED BY <1>9, <1>10

\* A message goes: the one of the call, or nobody could delete it.
LEMMA DeleteShows ==
    ASSUME posts \in Seq(Message), NEW i \in DOMAIN posts, NEW out,
           posts' = IF Done(out) THEN Without(i) ELSE posts,
           orphans' = IF Done(out) THEN orphans ELSE orphans \cup {i}
    PROVE  /\ \A k \in Up("progress")' : k \in Up("progress") /\ (k # i \/ k \in orphans')
           /\ \A k \in DOMAIN posts : k # i => posts'[k] = posts[k]
           /\ orphans \subseteq orphans'
<1>1. \A k \in DOMAIN posts : posts[k] \in Message
  BY ElementIs
<1>2. CASE Done(out)
  <2>1. posts' = [posts EXCEPT ![i].up = FALSE]
    BY <1>2 DEF Without
  <2>2. DOMAIN posts' = DOMAIN posts /\ \A k \in DOMAIN posts : k # i => posts'[k] = posts[k]
    BY <2>1
  <2>3. posts'[i] = [posts[i] EXCEPT !.up = FALSE]
    BY <2>1
  <2>4. ~posts'[i].up
    BY <1>1, <2>3 DEF Message
  <2> QED BY <1>2, <2>2, <2>4 DEF Up
<1>3. CASE ~Done(out)
  BY <1>3 DEF Up
<1> QED BY <1>2, <1>3

\* The message that was replaced goes.
LEMMA DeletedReply ==
    ASSUME MailInv, ReplyInv, Deleted
    PROVE  ReplyInv'
<1> USE DEF ReplyInv
<1>0. ChainFacts
  BY ChainFactsHold
<1> USE DEF ChainFacts
<1>1. PICK out \in Outcomes(call) :
        /\ world' = Spent(out)
        /\ posts' = IF Done(out) THEN Without(call.post) ELSE posts
        /\ orphans' = IF Done(out) THEN orphans ELSE orphans \cup {call.post}
        /\ progress' = IF call.over THEN [progress EXCEPT !.pending = Null] ELSE progress
        /\ Pop
  BY DEF Deleted
<1>2. /\ call.method = "delete" /\ Head(chain) # "dismiss" /\ chain # <<>> /\ steps' = steps
      /\ run.pc # "dead" /\ call.post \in DOMAIN posts
      /\ call.post # progress.id /\ call.text = progress.current
  <2>1. call.method = "delete" /\ Head(chain) # "dismiss" /\ steps' = steps
    BY DEF Deleted
  <2> QED BY <1>0, <2>1 DEF CallHolds, IsProgress
<1>3. Chunks' = Chunks
  BY ChainChunks DEF ChainStep
<1>4. /\ \A k \in Up("progress")' : k \in Up("progress") /\ (k # call.post \/ k \in orphans')
      /\ \A k \in DOMAIN posts : k # call.post => posts'[k] = posts[k]
      /\ orphans \subseteq orphans'
  <2>1. posts \in Seq(Message)
    BY <1>0
  <2> HIDE DEF ChainFacts
  <2> QED BY <1>1, <1>2, <2>1, DeleteShows
<1>5. /\ progress'.id = progress.id /\ progress'.closed = progress.closed
      /\ progress'.terminal = progress.terminal /\ progress'.current = progress.current
      /\ progress'.timer = progress.timer /\ progress'.pending \in {progress.pending, Null}
  BY <1>0, <1>1 DEF ProgressState
<1>6. \A k \in Up("progress")' : k \in orphans' \/ k = progress'.id
  BY <1>2, <1>4, <1>5 DEF KnownHolds
<1>7. progress.id # Null => posts'[progress.id] = posts[progress.id]
  BY <1>0, <1>2, <1>4 DEF IsProgress
<1>8. progress.current = Reply => posts'[progress.id].text = Reply
  <2>1. progress.current = Reply => progress.id # Null
    BY <1>2 DEF ReplyHolds
  <2> QED BY <1>2, <1>7, <2>1 DEF EntrustedHolds
<1>9. Entrusted /\ (run.viaProgress \/ Head(chain) = "finalize") => progress.current = Reply
  <2>1. call # Idle
    BY <1>2, AskIs
  <2> QED BY <1>2, <2>1 DEF EntrustedHolds, Entrusted
<1>10. ~progress.closed => progress'.pending # Reply
  BY <1>5, TextsDiffer DEF ReplyHolds
<1>11. PopKeeps
  BY <1>2, <1>3, <1>5, <1>6, <1>7, <1>8, <1>9, <1>10 DEF PopKeeps
<1> QED BY <1>1, <1>2, <1>11, PopInv

\* The progress message goes.
LEMMA DismissedReply ==
    ASSUME MailInv, ReplyInv, Dismissed
    PROVE  ReplyInv'
<1> USE DEF ReplyInv
<1>0. ChainFacts
  BY ChainFactsHold
<1> USE DEF ChainFacts
<1>1. PICK out \in Outcomes(call) :
        /\ world' = Spent(out)
        /\ posts' = IF Done(out) THEN Without(call.post) ELSE posts
        /\ orphans' = IF Done(out) THEN orphans ELSE orphans \cup {call.post}
        /\ progress' = IF out = "ok" THEN [progress EXCEPT !.id = Null, !.current = Null]
                       ELSE progress
        /\ Pop
  BY DEF Dismissed
<1>2. /\ call.method = "delete" /\ Head(chain) = "dismiss" /\ chain # <<>> /\ steps' = steps
      /\ call.post \in DOMAIN posts /\ call.post = progress.id
  <2>1. call.method = "delete" /\ Head(chain) = "dismiss" /\ steps' = steps
    BY DEF Dismissed
  <2> QED BY <1>0, <2>1 DEF CallHolds, IsProgress
<1>3. Chunks' = Chunks
  BY ChainChunks DEF ChainStep
<1>4. /\ \A k \in Up("progress")' : k \in Up("progress") /\ (k # call.post \/ k \in orphans')
      /\ orphans \subseteq orphans'
  <2>1. posts \in Seq(Message)
    BY <1>0
  <2> HIDE DEF ChainFacts
  <2> QED BY <1>1, <1>2, <2>1, DeleteShows
<1>5. /\ progress'.id \in {progress.id, Null} /\ progress'.closed = progress.closed
      /\ progress'.terminal = progress.terminal /\ progress'.current \in {progress.current, Null}
      /\ progress'.timer = progress.timer /\ progress'.pending = progress.pending
  BY <1>0, <1>1 DEF ProgressState
<1>6. run.pc = "dismiss" /\ ~Entrusted
  BY <1>2, HeadIs DEF Entrusted
<1>7. \A k \in Up("progress")' : k \in orphans'
  BY <1>2, <1>4, <1>6 DEF KnownHolds
<1>8. progress'.current # Reply
  BY <1>5, <1>6, TextsDiffer DEF ReplyHolds
<1>9. ~progress.closed => progress'.pending # Reply
  BY <1>5 DEF ReplyHolds
<1>10. PopKeeps
  BY <1>2, <1>3, <1>5, <1>6, <1>7, <1>8, <1>9 DEF PopKeeps
<1> QED BY <1>1, <1>2, <1>10, PopInv

\* The steps of the chain
LEMMA ChainReply ==
    ASSUME MailInv, ReplyInv, ChainStep
    PROVE  ReplyInv'
  BY TimerReply, BeginFlushReply, EditedReply, AppendedReply, DeletedReply, BeginDismissReply,
     DismissedReply DEF ChainStep

\* What a step of the run leaves of the topic and of the call of the chain
TopicKept ==
    /\ orphans' = orphans /\ steps' \in 1 .. MaxSteps
    /\ call'.method = call.method /\ call'.text = call.text /\ call'.post = call.post
    /\ call' # Idle => call # Idle
    /\ \A i \in DOMAIN posts : i \in DOMAIN posts' /\ posts'[i] = posts[i]
    /\ \A i \in DOMAIN posts' : i \in DOMAIN posts \/ posts'[i].kind # "progress"
    /\ world'.alive = world.alive /\ (world'.open => world.open)
    /\ run'.viaProgress = run.viaProgress

\* The run goes on without the progress message, but perhaps with a new text for it.
GoesOn ==
    /\ chain' = chain
    /\ \/ progress' = progress
       \/ run.pc = "work" /\ progress' = QueueUpdate(progress, steps')
    /\ \/ run' = run
       \/ /\ run.pc \notin Waits \cup Ended /\ run'.pc \notin Waits \cup {"dead"}
          /\ run.viaProgress => run'.pc \in {"event", "over"}
          /\ run'.pc = "over" => run.viaProgress \/ run'.failing

\* It closes the progress message with a text of its own or with the reply,
Finalizes ==
    \/ run.pc = "log" /\ run'.pc = "finalize" /\ \E t \in Nat \ {Reply} : Finalize(t)
    \/ run.pc = "reply" /\ run'.pc = "fallback" /\ progress.id # Null /\ Finalize(Reply)

\* or it dismisses it.
Dismisses ==
    /\ run.pc \in {"work", "patch", "log", "event"} /\ ~run.viaProgress
    /\ run'.pc = "dismiss" /\ Dismiss

\* Where the run is in the chunks of its reply
Late == {"event", "dismiss", "over", "dead"}
PartsGo ==
    \/ /\ run'.chunk = run.chunk /\ run'.skipped = run.skipped /\ run'.delivered = run.delivered
       /\ run.pc \in Late => run'.pc \in Late /\ run'.total = run.total
    \/ /\ run'.chunk = run.chunk + 1 /\ run'.total = run.total
       /\ run'.delivered => run'.pc = "event" /\ run.chunk = run.total
       /\ run'.skipped \/ (~run.skipped /\ run.chunk \in Chunks')

\* The messages of the topic that are left alone
LEMMA TopicShows ==
    ASSUME TopicKept
    PROVE  Up("progress")' = Up("progress") /\ Chunks \subseteq Chunks'
<1>1. \A i \in Up("progress")' : i \in Up("progress")
  BY DEF TopicKept, Up
<1>2. \A i \in Up("progress") : i \in Up("progress")'
  BY DEF TopicKept, Up
<1>3. \A i \in Up("chunk") : i \in Up("chunk")' /\ posts'[i].text = posts[i].text
  BY DEF TopicKept, Up
<1>4. Chunks \subseteq Chunks'
  BY <1>3 DEF Chunks
<1> QED BY <1>1, <1>2, <1>4

\* The chunks behind the run stay in the topic, the one it leaves too.
LEMMA PartsKept ==
    ASSUME run \in RunState, PartsHold, PartsGo, Chunks \subseteq Chunks',
           run'.viaProgress = run.viaProgress
    PROVE  PartsHold'
<1>0. run.chunk \in Nat \ {0}
  BY DEF RunState
<1>1. CASE /\ run'.chunk = run.chunk /\ run'.skipped = run.skipped /\ run'.delivered = run.delivered
           /\ run.pc \in Late => run'.pc \in Late /\ run'.total = run.total
  BY <1>1 DEF PartsHold, Late
<1>2. CASE /\ run'.chunk = run.chunk + 1 /\ run'.total = run.total
           /\ run'.delivered => run'.pc = "event" /\ run.chunk = run.total
           /\ run'.skipped \/ (~run.skipped /\ run.chunk \in Chunks')
  <2>1. \A n \in 1 .. run'.chunk - 1 : n \in 1 .. run.chunk - 1 \/ n = run.chunk
    BY <1>0, <1>2
  <2>2. ~run'.skipped => 1 .. run'.chunk - 1 \subseteq Chunks'
    BY <1>2, <2>1 DEF PartsHold
  <2> QED BY <1>0, <1>2, <2>2 DEF PartsHold
<1> QED BY <1>1, <1>2 DEF PartsGo

\* What the end of the run sees of an operation it adds to the chain
LEMMA ChainGrows ==
    ASSUME chain \in Seq(Op), NEW o \in Op, o # "flush", chain' = Append(chain, o),
           \A k \in DOMAIN chain : chain[k] = "flush"
    PROVE  /\ \A k \in DOMAIN chain' : chain'[k] # "flush" => k = Len(chain) + 1
           /\ Len(chain) + 1 \in DOMAIN chain' /\ chain'[Len(chain) + 1] = o
           /\ chain' # <<>> /\ chain'[Len(chain')] = o
           /\ chain # <<>> => Head(chain') = "flush" /\ Head(chain) = "flush"
<1>1. /\ \A k \in DOMAIN chain' : k \in DOMAIN chain \/ k = Len(chain) + 1
      /\ \A k \in DOMAIN chain : chain'[k] = chain[k]
      /\ Len(chain) + 1 \in DOMAIN chain' /\ chain'[Len(chain) + 1] = o
  <2>1. Len(chain) + 1 \in 1 .. Len(chain) + 1
    OBVIOUS
  <2> QED BY <2>1, AppendIs
<1>2. /\ chain' # <<>> /\ chain'[Len(chain')] = o
      /\ chain # <<>> => Head(chain') = Head(chain)
  BY AppendLast
<1>3. chain # <<>> => Head(chain) = "flush"
  BY TailIs
<1> QED BY <1>1, <1>2, <1>3

\* What a closed message is like
LEMMA CloseIs ==
    ASSUME progress \in ProgressState, NEW t,
           progress' = [progress EXCEPT !.closed = TRUE, !.terminal = t, !.timer = FALSE]
    PROVE  /\ progress'.closed /\ progress'.terminal = t /\ ~progress'.timer
           /\ progress'.id = progress.id /\ progress'.current = progress.current
           /\ progress'.pending = progress.pending
  BY DEF ProgressState

\* The run goes on.
LEMMA GoesOnReply ==
    ASSUME MailInv, ReplyInv, TopicKept, PartsGo, GoesOn
    PROVE  ReplyInv'
<1> USE DEF ReplyInv
<1>0. ChainFacts
  BY ChainFactsHold
<1>1. /\ progress'.id = progress.id /\ progress'.current = progress.current
      /\ progress'.closed = progress.closed /\ progress'.terminal = progress.terminal
      /\ run.pc # "work" => progress'.timer = progress.timer
      /\ progress'.pending = progress.pending \/ progress'.pending = steps'
  BY <1>0 DEF GoesOn, QueueUpdate, ProgressState, ChainFacts
<1>2. steps' # Reply
  BY TextsDiffer DEF TopicKept
<1>3. /\ run'.pc \in Waits \cup {"dead"} => run'.pc = run.pc
      /\ run'.pc \notin Waits \cup {"dead"} => run.pc \notin Waits \cup {"dead"}
      /\ run'.pc \notin Ended => run.pc \notin Ended
      /\ run'.pc = "work" \/ run.pc # "work" \/ run'.pc \notin Ended \/ run'.failing
      /\ run'.viaProgress => run'.pc \in {"event", "over", "dead"}
  BY DEF GoesOn, ReplyHolds, TopicKept, Ended, Waits
<1>4. Entrusted' <=> Entrusted
  BY DEF GoesOn, Entrusted, ReplyHolds, TopicKept, Ended, Waits
<1>5. Up("progress")' = Up("progress") /\ Chunks \subseteq Chunks'
  BY TopicShows
<1>6. progress.id # Null => posts'[progress.id] = posts[progress.id]
  BY <1>0 DEF TopicKept, ChainFacts, IsProgress
<1>7. OwnOpHolds'
  BY <1>1, <1>3 DEF OwnOpHolds, GoesOn, Waits
<1>8. CallHolds'
  BY <1>1, <1>3 DEF CallHolds, GoesOn, TopicKept
<1>9. KnownHolds'
  BY <1>1, <1>3, <1>5 DEF KnownHolds, TopicKept
<1>10. ReplyHolds'
  BY <1>1, <1>2, <1>3, <1>4 DEF ReplyHolds, TopicKept
<1>11. EntrustedHolds'
  <2>1. /\ (run'.pc \notin Ended \/ Entrusted') /\ progress'.id # Null => posts'[progress'.id].up
        /\ run'.pc = "fallback" /\ call' # Idle /\ Head(chain') = "finalize" => call'.text = Reply
    BY <1>1, <1>3, <1>4, <1>6 DEF EntrustedHolds, GoesOn, TopicKept, Waits
  <2>2. progress'.current = Reply /\ run'.pc # "dead" =>
            posts'[progress'.id].text = Reply /\ call'.method \notin {"edit", "send"}
    <3>1. progress.current = Reply /\ run.pc # "dead" => progress.id # Null
      BY DEF ReplyHolds
    <3> QED BY <1>1, <1>3, <1>6, <3>1 DEF EntrustedHolds, TopicKept, Waits
  <2>3. run'.viaProgress /\ run'.pc # "dead" =>
            /\ call' # Idle => call'.text = Reply
            /\ world'.open => progress'.current = Reply \/ progress'.timer \/ chain' # <<>>
    <3>1. run.viaProgress => run.pc # "work"
      BY DEF ReplyHolds
    <3> QED BY <1>1, <1>3, <3>1 DEF EntrustedHolds, GoesOn, TopicKept, Waits
  <2> QED BY <2>1, <2>2, <2>3 DEF EntrustedHolds
<1>12. PartsHold'
  <2>1. run \in RunState
    BY <1>0 DEF ChainFacts
  <2> QED BY <1>5, <2>1, PartsKept DEF TopicKept
<1>13. ProgressGone'
  <2> SUFFICES ASSUME run'.pc = "over", ~run'.viaProgress, ~run'.failing
               PROVE  Quiet' /\ Up("progress")' \subseteq orphans'
    BY DEF ProgressGone
  <2>1. run' = run
    BY DEF GoesOn, TopicKept
  <2> QED BY <1>1, <1>5, <2>1 DEF ProgressGone, Quiet, GoesOn, TopicKept
<1> QED BY <1>7, <1>8, <1>9, <1>10, <1>11, <1>12, <1>13

\* The run closes the progress message.
LEMMA ClosesReply ==
    ASSUME MailInv, ReplyInv, TopicKept, PartsGo, Finalizes \/ Dismisses
    PROVE  ReplyInv'
<1> USE DEF ReplyInv
<1>0. ChainFacts
  BY ChainFactsHold
<1>1. PICK t \in Nat, o \in {"finalize", "dismiss"} :
        /\ progress' = [progress EXCEPT !.closed = TRUE, !.terminal = t, !.timer = FALSE]
        /\ chain' = Append(chain, o)
        /\ \/ run.pc = "log" /\ run'.pc = "finalize" /\ t # Reply /\ o = "finalize"
           \/ /\ run.pc = "reply" /\ run'.pc = "fallback" /\ progress.id # Null
              /\ t = Reply /\ o = "finalize"
           \/ /\ run.pc \in {"work", "patch", "log", "event"} /\ ~run.viaProgress
              /\ run'.pc = "dismiss" /\ t = Null /\ o = "dismiss"
  <2>1. Null \in Nat
    BY DEF Null
  <2> QED BY <2>1, TextsDiffer DEF Finalizes, Dismisses, Finalize, Dismiss
<1>2. /\ progress'.closed /\ progress'.terminal = t /\ ~progress'.timer
      /\ progress'.id = progress.id /\ progress'.current = progress.current
  BY <1>0, <1>1, CloseIs DEF ChainFacts
<1>3. /\ ~run.viaProgress /\ ~run'.viaProgress /\ ~Entrusted
      /\ run.pc \notin Ended \cup Waits /\ run'.pc \notin {"dead", "over"}
      /\ run'.pc = "fallback" <=> t = Reply
      /\ t = Reply => progress.id # Null
  BY <1>1, TextsDiffer DEF ReplyHolds, Entrusted, Ended, Waits, TopicKept
<1>4. Entrusted' <=> t = Reply
  BY <1>3 DEF Entrusted
<1>5. progress.current # Reply /\ call.text # Reply
  BY <1>3 DEF ReplyHolds, Ended
<1>6. Up("progress")' = Up("progress") /\ Chunks \subseteq Chunks'
  BY TopicShows
<1>7. progress.id # Null => posts'[progress.id] = posts[progress.id]
  BY <1>0 DEF TopicKept, ChainFacts, IsProgress
<1>8. /\ \A k \in DOMAIN chain' : chain'[k] # "flush" => k = Len(chain) + 1
      /\ Len(chain) + 1 \in DOMAIN chain' /\ chain'[Len(chain) + 1] = o
      /\ chain' # <<>> /\ chain'[Len(chain')] = o
      /\ chain # <<>> => Head(chain') = "flush" /\ Head(chain) = "flush"
  <2>1. chain \in Seq(Op) /\ o \in Op /\ o # "flush" /\ chain' = Append(chain, o)
    BY <1>0, <1>1 DEF ChainFacts, Op
  <2>2. \A k \in DOMAIN chain : chain[k] = "flush"
    BY <1>3 DEF OwnOpHolds
  <2> QED BY <2>1, <2>2, ChainGrows
<1>9. OwnOpHolds'
  <2>1. run'.pc \in {"finalize", "fallback"} => o = "finalize"
    BY <1>1
  <2>2. run'.pc = "dismiss" => o = "dismiss" /\ t = Null
    BY <1>1
  <2>3. run'.pc \in Waits
    BY <1>1 DEF Waits
  <2> QED BY <1>2, <1>8, <2>1, <2>2, <2>3 DEF OwnOpHolds
<1>10. call.method # "none" => chain # <<>> /\ call # Idle
  BY <1>0 DEF ChainFacts
<1>11. CallHolds'
  BY <1>2, <1>3, <1>8, <1>10 DEF CallHolds, TopicKept
<1>12. KnownHolds'
  BY <1>2, <1>3, <1>6 DEF KnownHolds, TopicKept, Ended
<1>13. ReplyHolds'
  BY <1>2, <1>3, <1>4, <1>5 DEF ReplyHolds, TopicKept
<1>14. EntrustedHolds'
  <2>1. run'.pc = "fallback" /\ call' # Idle => Head(chain') = "flush"
    <3>1. call' # Idle => chain # <<>>
      BY DEF TopicKept, MailInv, ChainHolds
    <3> QED BY <1>8, <3>1
  <2>2. progress.id # Null => posts[progress.id].up
    BY <1>3 DEF EntrustedHolds
  <2>3. progress'.current # Reply
    BY <1>2, <1>5
  <2> QED BY <1>2, <1>3, <1>7, <2>1, <2>2, <2>3 DEF EntrustedHolds
<1>15. PartsHold'
  <2>1. run \in RunState
    BY <1>0 DEF ChainFacts
  <2> QED BY <1>6, <2>1, PartsKept DEF TopicKept
<1>16. ProgressGone'
  BY <1>3 DEF ProgressGone
<1> QED BY <1>9, <1>11, <1>12, <1>13, <1>14, <1>15, <1>16

\* The messages and the call are left as they are.
LEMMA NothingPosted ==
    ASSUME UNCHANGED <<posts, orphans, call>>, steps' \in 1 .. MaxSteps,
           world'.alive = world.alive, world'.open => world.open,
           run'.viaProgress = run.viaProgress
    PROVE  TopicKept
  BY DEF TopicKept

\* A document or a chunk is added.
LEMMA OtherPosted ==
    ASSUME posts \in Seq(Message), NEW m \in Message, m.kind # "progress",
           posts' = posts \/ posts' = Append(posts, m),
           UNCHANGED <<orphans, call>>, steps' \in 1 .. MaxSteps,
           world'.alive = world.alive, world'.open => world.open,
           run'.viaProgress = run.viaProgress
    PROVE  TopicKept
<1>1. /\ \A i \in DOMAIN posts : i \in DOMAIN posts' /\ posts'[i] = posts[i]
      /\ \A i \in DOMAIN posts' : i \in DOMAIN posts \/ posts'[i].kind # "progress"
  <2>1. CASE posts' = posts
    BY <2>1
  <2>2. CASE posts' = Append(posts, m)
    BY <2>2, AppendIs
  <2> QED BY <2>1, <2>2
<1> QED BY <1>1 DEF TopicKept

\* Where the run may go without the progress message
Turns == GoesOn \/ Finalizes \/ Dismisses

\* What a change of the place of the run leaves
LEMMA MoveIs ==
    ASSUME run \in RunState, NEW q, run' = [run EXCEPT !.pc = q]
    PROVE  /\ run'.pc = q /\ run'.chunk = run.chunk /\ run'.total = run.total
           /\ run'.skipped = run.skipped /\ run'.delivered = run.delivered
           /\ run'.viaProgress = run.viaProgress /\ run'.failing = run.failing
  BY DEF RunState

\* What Throw does to the run, and Finish of a run that was superseded
LEMMA ThrowTurns ==
    ASSUME MailInv, ReplyInv, Throw \/ Suppressed, run.pc \in {"work", "patch", "log"},
           steps' = steps
    PROVE  Turns /\ PartsGo /\ run'.viaProgress = run.viaProgress
<1>0. run \in RunState /\ ~run.viaProgress
  BY DEF MailInv, Typed, ReplyInv, ReplyHolds
<1>1. CASE Suppressed
  <2>1. run' = [run EXCEPT !.pc = "dismiss"] /\ Dismiss
    BY <1>1 DEF Suppressed
  <2>2. /\ run'.pc = "dismiss" /\ run'.chunk = run.chunk /\ run'.skipped = run.skipped
        /\ run'.delivered = run.delivered /\ run'.viaProgress = run.viaProgress
    BY <1>0, <2>1, MoveIs
  <2> QED BY <1>0, <2>1, <2>2 DEF Turns, Dismisses, PartsGo, Late
<1>2. CASE ~Suppressed
  <2>1. /\ run' = [run EXCEPT !.pc = "patch", !.status = "failed", !.failing = TRUE, !.total = 1]
        /\ UNCHANGED <<progress, chain>>
    BY <1>2 DEF Throw
  <2>2. /\ run'.pc = "patch" /\ run'.chunk = run.chunk /\ run'.skipped = run.skipped
        /\ run'.delivered = run.delivered /\ run'.viaProgress = run.viaProgress
    BY <1>0, <2>1 DEF RunState
  <2> QED BY <1>0, <2>1, <2>2 DEF Turns, GoesOn, PartsGo, Late, Waits, Ended
<1> QED BY <1>1, <1>2

\* The plain steps
LEMMA PlainTurns ==
    ASSUME MailInv, ReplyInv, PlainStep
    PROVE  TopicKept /\ Turns /\ PartsGo
<1> USE DEF ReplyInv
<1>0. /\ posts \in Seq(Message) /\ progress \in ProgressState /\ chain \in Seq(Op)
      /\ run \in RunState /\ world \in WorldState
  BY DEF MailInv, Typed
<1>v. run.viaProgress => run.pc \in {"event", "over", "dead"}
  BY DEF ReplyHolds
<1>s. steps \in 1 .. MaxSteps
  BY DEF ReplyHolds
<1>w. LET w == [world EXCEPT !.faults = @ - 1]
      IN  w.alive = world.alive /\ w.open = world.open
  BY <1>0 DEF WorldState
<1>1. CASE RefuseDocument
  <2>1. /\ run.pc = "docs" /\ run' = [run EXCEPT !.pc = "patch", !.document = "none"]
        /\ UNCHANGED <<posts, progress, chain, call, world, steps, orphans>>
    BY <1>1 DEF RefuseDocument
  <2>2. /\ run'.pc = "patch" /\ run'.chunk = run.chunk /\ run'.skipped = run.skipped
        /\ run'.delivered = run.delivered /\ run'.viaProgress = run.viaProgress
    BY <1>0, <2>1 DEF RunState
  <2> QED BY <1>s, <1>v, <2>1, <2>2, NothingPosted DEF Turns, GoesOn, PartsGo, Late, Waits, Ended
<1>2. CASE StageDocument
  <2>1. /\ run.pc = "docs" /\ UNCHANGED <<posts, progress, chain, call, steps, orphans>>
        /\ \/ run' = [run EXCEPT !.document = "local"]
           \/ run' = [run EXCEPT !.pc = "patch", !.document = "none"]
        /\ world'.alive = world.alive /\ world'.open = world.open
    BY <1>w, <1>2 DEF StageDocument
  <2>2. /\ run'.pc \in {"docs", "patch"} /\ run'.chunk = run.chunk /\ run'.skipped = run.skipped
        /\ run'.delivered = run.delivered /\ run'.viaProgress = run.viaProgress
    BY <1>0, <2>1 DEF RunState
  <2> QED BY <1>s, <1>v, <2>1, <2>2, NothingPosted DEF Turns, GoesOn, PartsGo, Late, Waits, Ended
<1>3. CASE DocumentSent
  <2>1. PICK out \in Outcomes(send) :
        /\ world' = Spent(out)
        /\ posts' = IF Done(out) THEN Append(posts, Post("document", Null)) ELSE posts
        /\ run' = [run EXCEPT !.pc = "patch", !.document = "none", !.mute = out = "gone"]
    BY <1>3 DEF DocumentSent
  <2>2. run.pc = "docs" /\ UNCHANGED <<progress, chain, call, steps, orphans>>
    BY <1>3 DEF DocumentSent
  <2>3. /\ run'.pc = "patch" /\ run'.chunk = run.chunk /\ run'.skipped = run.skipped
        /\ run'.delivered = run.delivered /\ run'.viaProgress = run.viaProgress
    BY <1>0, <2>1 DEF RunState
  <2>4. world'.alive = world.alive /\ world'.open = world.open
    BY <1>0, <2>1, SpentIs, SpentOpen
  <2>5. TopicKept
    BY <1>0, <1>s, <2>1, <2>2, <2>3, <2>4, PostIs, OtherPosted
  <2> QED BY <1>v, <2>2, <2>3, <2>5 DEF Turns, GoesOn, PartsGo, Late, Waits, Ended
<1>4. CASE Persist
  <2>1. /\ run.pc \in {"patch", "log"} /\ UNCHANGED <<posts, call, world, steps, orphans>>
    BY <1>4 DEF Persist
  <2>2. CASE run.pc = "patch"
    <3>1. run' = [run EXCEPT !.pc = "log"] /\ UNCHANGED <<progress, chain>>
      BY <1>4, <2>2 DEF Persist
    <3> QED BY <1>0, <1>s, <1>v, <2>1, <2>2, <3>1, MoveIs, NothingPosted
            DEF Turns, GoesOn, PartsGo, Late, Waits, Ended
  <2>3. CASE run.pc = "log"
    <3>1. /\ run' = [run EXCEPT !.pc = "finalize"]
          /\ Finalize(IF run.status = "interrupted" THEN Stopping ELSE steps)
      BY <1>4, <2>3 DEF Persist
    <3>2. (IF run.status = "interrupted" THEN Stopping ELSE steps) \in Nat \ {Reply}
      BY <1>s, TextsDiffer
    <3>3. Finalizes
      BY <1>0, <2>3, <3>1, <3>2, MoveIs DEF Finalizes
    <3> QED BY <1>0, <1>s, <2>1, <2>3, <3>1, <3>3, MoveIs, NothingPosted DEF Turns, PartsGo, Late
  <2> QED BY <2>1, <2>2, <2>3
<1>5. CASE SkipReply
  <2>1. /\ run.pc = "reply" /\ run' = [run EXCEPT !.pc = "event"]
        /\ UNCHANGED <<posts, progress, chain, call, world, steps, orphans>>
    BY <1>5 DEF SkipReply
  <2> QED BY <1>0, <1>s, <1>v, <2>1, MoveIs, NothingPosted
          DEF Turns, GoesOn, PartsGo, Late, Waits, Ended
<1>6. CASE Emit \/ EmitThrows
  <2>1. /\ run.pc = "event" /\ UNCHANGED <<posts, call, steps, orphans>>
        /\ world'.alive = world.alive /\ world'.open = world.open
        /\ \/ /\ run' = [run EXCEPT !.pc = "over"] /\ UNCHANGED <<progress, chain>>
              /\ run.viaProgress \/ run.failing
           \/ run' = [run EXCEPT !.pc = "dismiss"] /\ Dismiss /\ ~run.viaProgress
    BY <1>w, <1>6 DEF Emit, EmitThrows
  <2>2. TopicKept /\ PartsGo
    BY <1>0, <1>s, <2>1, MoveIs, NothingPosted DEF PartsGo, Late
  <2>3. GoesOn \/ Dismisses
    BY <1>0, <2>1, MoveIs DEF GoesOn, Dismisses, Waits, Ended
  <2> QED BY <2>2, <2>3 DEF Turns
<1>7. CASE StartThrows
  <2>1. /\ run.pc = "work" /\ run' = [run EXCEPT !.pc = "dismiss"] /\ Dismiss
        /\ world'.alive = world.alive /\ world'.open = world.open
        /\ UNCHANGED <<posts, call, steps, orphans>>
    BY <1>w, <1>7 DEF StartThrows
  <2>2. TopicKept /\ PartsGo
    BY <1>0, <1>s, <2>1, MoveIs, NothingPosted DEF PartsGo, Late
  <2>3. Dismisses
    BY <1>0, <1>v, <2>1, MoveIs DEF Dismisses
  <2> QED BY <2>2, <2>3 DEF Turns
<1>8. CASE Update
  <2>1. /\ run.pc = "work" /\ UNCHANGED <<posts, chain, call, run, world, orphans>>
        /\ steps' \in 1 .. MaxSteps /\ progress' = QueueUpdate(progress, steps')
    BY <1>s, <1>8, DeliveryAssumption DEF Update, DeliveryAssumption
  <2> QED BY <2>1, NothingPosted DEF Turns, GoesOn, PartsGo
<1>9. CASE WorkThrows \/ PersistThrows
  <2>1. /\ run.pc \in {"work", "patch", "log"}
        /\ world'.alive = world.alive /\ world'.open = world.open
        /\ UNCHANGED <<posts, call, steps, orphans>>
        /\ \/ Throw
           \/ run.failing /\ run' = [run EXCEPT !.pc = "over"] /\ UNCHANGED <<progress, chain>>
    BY <1>w, <1>9 DEF WorkThrows, PersistThrows
  <2>2. CASE Throw
    BY <1>s, <2>1, <2>2, ThrowTurns, NothingPosted
  <2>3. CASE run.failing /\ run' = [run EXCEPT !.pc = "over"] /\ UNCHANGED <<progress, chain>>
    BY <1>0, <1>s, <1>v, <2>1, <2>3, MoveIs, NothingPosted
    DEF Turns, GoesOn, PartsGo, Late, Waits, Ended
  <2> QED BY <2>1, <2>2, <2>3
<1>10. ASSUME NEW status \in Final, NEW document \in {"none", "bad", "local", "remote"},
              NEW chunks \in 1 .. MaxChunks, Finish(status, document, chunks)
       PROVE  TopicKept /\ Turns /\ PartsGo
  <2>1. run.pc = "work" /\ UNCHANGED <<posts, call, world, steps, orphans>>
    BY <1>10 DEF Finish
  <2>2. CASE Suppressed
    BY <1>s, <2>1, <2>2, ThrowTurns, NothingPosted
  <2>3. CASE ~Suppressed
    <3>1. /\ run' = [run EXCEPT !.pc = IF document = "none" THEN "patch" ELSE "docs",
                                !.status = status, !.document = document, !.total = chunks]
          /\ UNCHANGED <<progress, chain>>
      BY <1>10, <2>3 DEF Finish
    <3>2. /\ run'.pc \in {"patch", "docs"} /\ run'.chunk = run.chunk /\ run'.skipped = run.skipped
          /\ run'.delivered = run.delivered /\ run'.viaProgress = run.viaProgress
      BY <1>0, <3>1 DEF RunState
    <3> QED BY <1>s, <1>v, <2>1, <3>1, <3>2, NothingPosted
            DEF Turns, GoesOn, PartsGo, Late, Waits, Ended
  <2> QED BY <2>2, <2>3
<1> QED BY <1>1, <1>2, <1>3, <1>4, <1>5, <1>6, <1>7, <1>8, <1>9, <1>10 DEF PlainStep

\* What the loop over the chunks does with the chunk it leaves
LEMMA LoopIs ==
    ASSUME NEW r \in RunState
    PROVE  /\ LET n == NextChunk(r)
              IN  /\ n.chunk = r.chunk + 1 /\ n.total = r.total /\ n.skipped = r.skipped
                  /\ n.pc \in {"event", "reply"} /\ n.viaProgress = r.viaProgress
                  /\ n.delivered => n.pc = "event" /\ r.chunk = r.total
           /\ LET n == ReplyThrows(r)
              IN  /\ n.chunk = r.chunk /\ n.total = r.total /\ n.skipped = r.skipped
                  /\ n.delivered = r.delivered /\ n.viaProgress = r.viaProgress
                  /\ n.failing = r.failing /\ n.pc \in {"event", "over"}
                  /\ n.pc = "over" => n.failing
<1>1. /\ r.chunk \in Nat \ {0} /\ r.total \in Nat
  BY DEF RunState
<1>2. LET n == NextChunk(r)
      IN  /\ n.chunk = r.chunk + 1 /\ n.total = r.total /\ n.skipped = r.skipped
          /\ n.pc \in {"event", "reply"} /\ n.viaProgress = r.viaProgress
          /\ n.delivered => n.pc = "event" /\ r.chunk = r.total
  BY <1>1 DEF NextChunk, RunState
<1>3. LET n == ReplyThrows(r)
      IN  /\ n.chunk = r.chunk /\ n.total = r.total /\ n.skipped = r.skipped
          /\ n.delivered = r.delivered /\ n.viaProgress = r.viaProgress
          /\ n.failing = r.failing /\ n.pc \in {"event", "over"}
          /\ n.pc = "over" => n.failing
  BY DEF ReplyThrows, RunState
<1> QED BY <1>2, <1>3

\* The answer to a chunk
LEMMA ChunkTurns ==
    ASSUME MailInv, ReplyInv, ChunkSent
    PROVE  TopicKept /\ Turns /\ PartsGo
<1> USE DEF ReplyInv
<1>0. /\ posts \in Seq(Message) /\ run \in RunState /\ world \in WorldState
  BY DEF MailInv, Typed
<1> DEFINE sent == [run EXCEPT !.ids = Append(@, Len(posts) + 1)]
           bare == [run EXCEPT !.target = FALSE]
           last == [bare EXCEPT !.skipped = TRUE]
           Same(r) == /\ r.chunk = run.chunk /\ r.total = run.total /\ r.skipped = run.skipped
                      /\ r.delivered = run.delivered /\ r.viaProgress = run.viaProgress
                      /\ r.failing = run.failing
<1>1. PICK out \in Outcomes(send) :
        /\ world' = Spent(out)
        /\ posts' = IF Done(out) THEN Append(posts, Post("chunk", run.chunk)) ELSE posts
        /\ \/ out = "ok" /\ run' = NextChunk(sent) /\ UNCHANGED <<progress, chain>>
           \/ run' = Retried(bare) /\ UNCHANGED <<progress, chain>>
           \/ run' = [run EXCEPT !.pc = "event"] /\ UNCHANGED <<progress, chain>>
           \/ run' = [run EXCEPT !.try = @ + 1] /\ UNCHANGED <<progress, chain>>
           \/ /\ run' = [run EXCEPT !.pc = "fallback"] /\ progress.id # Null
              /\ Finalize(Reply)
           \/ run' = ReplyThrows(run) /\ UNCHANGED <<progress, chain>>
  BY DEF ChunkSent, Transient
<1>2. /\ run.pc = "reply" /\ UNCHANGED <<call, steps, orphans>> /\ ~run.viaProgress
      /\ steps \in 1 .. MaxSteps
  BY DEF ChunkSent, ReplyHolds
<1>3. world'.alive = world.alive /\ world'.open = world.open
  BY <1>0, <1>1, SpentIs, SpentOpen
<1>4. run.chunk \in Nat /\ run.ids \in Seq(Nat) /\ Len(posts) + 1 \in Nat
  <2>1. Len(posts) \in Nat
    BY <1>0
  <2> QED BY <1>0, <2>1 DEF RunState
<1>5. Post("chunk", run.chunk) \in Message /\ Post("chunk", run.chunk).kind = "chunk"
  BY <1>4, PostIs
<1>6. run'.viaProgress = run.viaProgress => TopicKept
  <2> HIDE DEF sent, bare
  <2>1. posts' = posts \/ posts' = Append(posts, Post("chunk", run.chunk))
    BY <1>1
  <2>2. Post("chunk", run.chunk).kind # "progress"
    BY <1>5
  <2> QED BY <1>0, <1>2, <1>3, <1>5, <2>1, <2>2, OtherPosted
<1>7. /\ sent \in RunState /\ Same(sent)
      /\ bare \in RunState /\ Same(bare) /\ bare.pc = run.pc
      /\ last \in RunState /\ last.chunk = run.chunk /\ last.total = run.total
      /\ last.skipped /\ last.viaProgress = run.viaProgress
  <2>1. Append(run.ids, Len(posts) + 1) \in Seq(Nat)
    BY <1>4, AppendIs
  <2>2. sent \in RunState /\ Same(sent)
    BY <1>0, <2>1 DEF RunState
  <2>3. bare \in RunState /\ Same(bare) /\ bare.pc = run.pc
    BY <1>0 DEF RunState
  <2>4. /\ last \in RunState /\ last.chunk = bare.chunk /\ last.total = bare.total
        /\ last.skipped /\ last.viaProgress = bare.viaProgress
    <3> HIDE DEF bare
    <3> QED BY <2>3 DEF RunState
  <2> QED BY <2>2, <2>3, <2>4
<1>8. out = "ok" => run.chunk \in Chunks'
  <2> SUFFICES ASSUME out = "ok" PROVE run.chunk \in Chunks'
    OBVIOUS
  <2>1. posts' = Append(posts, Post("chunk", run.chunk))
    BY <1>1 DEF Done
  <2>2. Len(posts) + 1 \in DOMAIN posts' /\ posts'[Len(posts) + 1] = Post("chunk", run.chunk)
    <3>1. Len(posts) + 1 \in 1 .. Len(posts) + 1
      BY <1>0
    <3> QED BY <1>0, <1>5, <2>1, <3>1, AppendIs
  <2> QED BY <2>2, PostIs DEF Chunks, Up
<1>9. ASSUME NEW r \in RunState, run' = NextChunk(r), UNCHANGED <<progress, chain>>,
             r.chunk = run.chunk, r.total = run.total, r.viaProgress = run.viaProgress,
             r.skipped \/ (~run.skipped /\ run.chunk \in Chunks')
      PROVE  TopicKept /\ Turns /\ PartsGo
  <2>1. /\ run'.chunk = run.chunk + 1 /\ run'.total = run.total /\ run'.skipped = r.skipped
        /\ run'.pc \in {"event", "reply"} /\ run'.viaProgress = run.viaProgress
        /\ run'.delivered => run'.pc = "event" /\ run.chunk = run.total
    BY <1>9, LoopIs
  <2> QED BY <1>2, <1>6, <1>9, <2>1 DEF Turns, GoesOn, PartsGo, Waits, Ended
<1>10. ASSUME Same(run'), run'.pc \in {"reply", "event", "over"}, run'.pc = "over" => run'.failing,
              UNCHANGED <<progress, chain>>
       PROVE  TopicKept /\ Turns /\ PartsGo
  BY <1>2, <1>6, <1>10 DEF Turns, GoesOn, PartsGo, Waits, Ended, Late
<1>11. CASE out = "ok" /\ run' = NextChunk(sent) /\ UNCHANGED <<progress, chain>>
  <2> HIDE DEF sent
  <2>1. CASE run.skipped
    BY <1>7, <1>9, <1>11, <2>1
  <2>2. CASE ~run.skipped
    BY <1>7, <1>8, <1>9, <1>11, <2>2
  <2> QED BY <2>1, <2>2
<1>12. CASE run' = Retried(bare) /\ UNCHANGED <<progress, chain>>
  <2>1. CASE bare.try = Attempts
    <3>1. run' = NextChunk(last)
      BY <1>12, <2>1 DEF Retried
    <3> HIDE DEF bare, last
    <3> QED BY <1>7, <1>9, <1>12, <3>1
  <2>2. CASE bare.try # Attempts
    <3>1. run' = [bare EXCEPT !.try = @ + 1]
      BY <1>12, <2>2 DEF Retried
    <3>2. Same(run') /\ run'.pc = run.pc
      <4> HIDE DEF bare
      <4>1. bare \in RunState /\ Same(bare) /\ bare.pc = run.pc
        BY <1>7
      <4>2. /\ run'.chunk = bare.chunk /\ run'.total = bare.total /\ run'.skipped = bare.skipped
            /\ run'.delivered = bare.delivered /\ run'.viaProgress = bare.viaProgress
            /\ run'.failing = bare.failing /\ run'.pc = bare.pc
        BY <3>1, <4>1 DEF RunState
      <4> QED BY <4>1, <4>2
    <3> QED BY <1>2, <1>10, <1>12, <3>2
  <2> QED BY <2>1, <2>2
<1>13. CASE run' = [run EXCEPT !.pc = "event"] /\ UNCHANGED <<progress, chain>>
  <2>1. Same(run') /\ run'.pc = "event"
    BY <1>0, <1>13, MoveIs
  <2> QED BY <1>10, <1>13, <2>1
<1>14. CASE run' = [run EXCEPT !.try = @ + 1] /\ UNCHANGED <<progress, chain>>
  <2>1. Same(run') /\ run'.pc = run.pc
    BY <1>0, <1>14 DEF RunState
  <2> QED BY <1>2, <1>10, <1>14, <2>1
<1>15. CASE run' = [run EXCEPT !.pc = "fallback"] /\ progress.id # Null /\ Finalize(Reply)
  <2>1. Same(run') /\ run'.pc = "fallback"
    BY <1>0, <1>15, MoveIs
  <2> QED BY <1>2, <1>6, <1>15, <2>1 DEF Turns, Finalizes, PartsGo, Late
<1>16. CASE run' = ReplyThrows(run) /\ UNCHANGED <<progress, chain>>
  <2>1. Same(run') /\ run'.pc \in {"event", "over"} /\ (run'.pc = "over" => run'.failing)
    BY <1>0, <1>16, LoopIs
  <2> QED BY <1>10, <1>16, <2>1
<1> QED BY <1>1, <1>11, <1>12, <1>13, <1>14, <1>15, <1>16

\* Steps that only call, or wait, or change the world around
LEMMA AskTurns ==
    ASSUME MailInv, ReplyInv,
           \/ Start \/ SendDocument \/ SendChunk \/ WaitForSend \/ Supersede \/ CloseTopic
           \/ WaitForCall \/ Recover \/ UNCHANGED vars
    PROVE  TopicKept /\ Turns /\ PartsGo
<1>0. world \in WorldState /\ call \in ApiCall /\ steps \in 1 .. MaxSteps
  BY DEF MailInv, Typed, ReplyInv, ReplyHolds
<1>1. world'.alive = world.alive /\ (world'.open => world.open)
  <2>1. LET w == [world EXCEPT !.faults = @ - 1]
        IN  w.alive = world.alive /\ w.open = world.open
    BY <1>0 DEF WorldState
  <2>2. LET w == [world EXCEPT !.superseded = TRUE]
        IN  w.alive = world.alive /\ w.open = world.open
    BY <1>0 DEF WorldState
  <2>3. LET w == [world EXCEPT !.open = FALSE] IN w.alive = world.alive /\ ~w.open
    BY <1>0 DEF WorldState
  <2> QED BY <2>1, <2>2, <2>3 DEF Start, SendDocument, SendChunk, WaitForSend, TooMany, Supersede,
          CloseTopic, WaitForCall, Recover, vars
<1>2. UNCHANGED <<posts, progress, chain, run, steps, orphans>>
  BY DEF Start, SendDocument, SendChunk, WaitForSend, Supersede, CloseTopic, WaitForCall, Recover,
         vars
<1>3. /\ call'.method = call.method /\ call'.text = call.text /\ call'.post = call.post
      /\ call' # Idle => call # Idle
  <2>1. CASE WaitForCall
    <3>1. call # Idle
      BY <2>1, AskIs DEF WaitForCall, TooMany
    <3> QED BY <1>0, <2>1, <3>1 DEF WaitForCall, ApiCall
  <2>2. CASE ~WaitForCall
    BY <2>2 DEF Start, SendDocument, SendChunk, WaitForSend, Supersede, CloseTopic, Recover, vars
  <2> QED BY <2>1, <2>2
<1>4. Turns /\ PartsGo
  BY <1>2 DEF Turns, GoesOn, PartsGo
<1>5. TopicKept
  BY <1>0, <1>1, <1>2, <1>3 DEF TopicKept
<1> QED BY <1>4, <1>5

\* The first progress message is posted, or is not.
LEMMA StartedReply ==
    ASSUME MailInv, ReplyInv, Started
    PROVE  ReplyInv'
<1> USE DEF ReplyInv
<1>0. /\ posts \in Seq(Message) /\ progress \in ProgressState /\ run \in RunState
      /\ world \in WorldState
  BY DEF MailInv, Typed
<1>1. PICK out \in Outcomes(send) :
        /\ world' = Spent(out)
        /\ posts' = IF Done(out) THEN Append(posts, Post("progress", 1)) ELSE posts
        /\ orphans' = IF out = "lost" THEN orphans \cup {1} ELSE orphans
        /\ progress' = IF out = "ok" THEN [progress EXCEPT !.id = 1, !.current = 1] ELSE progress
        /\ \/ (out = "ok" \/ Transient(out)) /\ run' = [run EXCEPT !.pc = "work"]
           \/ ~(out = "ok" \/ Transient(out)) /\ run' = [run EXCEPT !.pc = "over"]
  BY DEF Started
<1>2. run.pc = "start" /\ UNCHANGED <<chain, call, steps>>
  BY DEF Started
<1>3. /\ posts = <<>> /\ chain = <<>> /\ call = Idle /\ ~progress.timer
      /\ progress.id = Null
  BY <1>2 DEF MailInv, ChainHolds, IsProgress
<1>4. /\ run'.pc = IF out = "ok" \/ Transient(out) THEN "work" ELSE "over"
      /\ run'.chunk = run.chunk /\ run'.total = run.total /\ run'.skipped = run.skipped
      /\ run'.delivered = run.delivered /\ run'.viaProgress = run.viaProgress
  BY <1>0, <1>1, MoveIs
<1>5. ~run.viaProgress /\ ~run'.viaProgress /\ ~Entrusted /\ ~Entrusted'
  BY <1>2, <1>4 DEF ReplyHolds, Entrusted
<1>6. /\ progress'.closed = progress.closed /\ progress'.terminal = progress.terminal
      /\ progress'.pending = progress.pending /\ ~progress'.timer
      /\ progress'.current \in {progress.current, 1}
      /\ out # "ok" => progress' = progress
      /\ out = "ok" => progress'.id = 1
  BY <1>0, <1>1, <1>3 DEF ProgressState
<1>7. /\ Done(out) => DOMAIN posts' = {1} /\ posts'[1] = Post("progress", 1)
      /\ ~Done(out) => posts' = <<>>
  <2>1. Append(<<>>, Post("progress", 1)) = <<Post("progress", 1)>>
    OBVIOUS
  <2> QED BY <1>1, <1>3, <2>1
<1>8. Chunks \subseteq Chunks'
  BY <1>3 DEF Chunks, Up
<1>9. Up("progress")' \subseteq {1} /\ (~Done(out) => Up("progress")' = {})
  BY <1>7 DEF Up
<1>10. OwnOpHolds'
  BY <1>2, <1>3, <1>4 DEF OwnOpHolds, Waits
<1>11. CallHolds'
  BY <1>2, <1>3, <1>4, AskIs DEF CallHolds
<1>12. KnownHolds'
  BY <1>1, <1>6, <1>9 DEF KnownHolds, Done
<1>13. progress'.current # Reply /\ call'.text # Reply
  BY <1>2, <1>5, <1>6, TextsDiffer DEF ReplyHolds
<1>14. ReplyHolds'
  BY <1>2, <1>5, <1>6, <1>13 DEF ReplyHolds
<1>15. EntrustedHolds'
  <2>1. progress'.id # Null => posts'[progress'.id].up
    <3>1. out = "ok" => Done(out) /\ Post("progress", 1).up
      BY DEF Done, Post
    <3> QED BY <1>3, <1>6, <1>7, <3>1
  <2> QED BY <1>4, <1>5, <1>13, <2>1 DEF EntrustedHolds
<1>16. PartsHold'
  <2>1. PartsGo
    BY <1>2, <1>4 DEF PartsGo, Late
  <2> QED BY <1>0, <1>4, <1>8, <2>1, PartsKept
<1>17. ProgressGone'
  <2>1. run'.pc = "over" => ~Done(out)
    BY <1>4 DEF Done, Transient
  <2> QED BY <1>2, <1>3, <1>6, <1>9, <2>1 DEF ProgressGone, Quiet
<1> QED BY <1>10, <1>11, <1>12, <1>14, <1>15, <1>16, <1>17

\* The process dies.
LEMMA CrashReply ==
    ASSUME MailInv, ReplyInv, Crash
    PROVE  ReplyInv'
<1> USE DEF ReplyInv
<1>0. progress \in ProgressState /\ run \in RunState /\ world \in WorldState
  BY DEF MailInv, Typed
<1>1. /\ run' = [run EXCEPT !.pc = "dead"] /\ chain' = <<>> /\ call' = Idle
      /\ progress' = [progress EXCEPT !.timer = FALSE]
      /\ world' = [world EXCEPT !.alive = FALSE, !.faults = @ - 1]
      /\ UNCHANGED <<posts, steps, orphans>>
  BY DEF Crash
<1>2. /\ run'.pc = "dead" /\ run'.chunk = run.chunk /\ run'.total = run.total
      /\ run'.skipped = run.skipped /\ run'.delivered = run.delivered
      /\ run'.viaProgress = run.viaProgress
  BY <1>0, <1>1, MoveIs
<1>3. ~progress'.timer /\ progress'.closed = progress.closed /\ progress'.pending = progress.pending
  BY <1>0, <1>1 DEF ProgressState
<1>4. ~world'.alive
  BY <1>0, <1>1 DEF WorldState
<1>5. ~Entrusted' /\ call'.text # Reply
  BY <1>1, <1>2, TextsDiffer DEF Entrusted, Idle
<1>6. OwnOpHolds' /\ KnownHolds' /\ ProgressGone'
  BY <1>1, <1>2 DEF OwnOpHolds, KnownHolds, ProgressGone, Waits
<1>7. CallHolds'
  BY <1>1, <1>2, <1>3, <1>4, AskIs DEF CallHolds
<1>8. ReplyHolds'
  BY <1>1, <1>2, <1>3, <1>5 DEF ReplyHolds
<1>9. EntrustedHolds'
  BY <1>2, <1>5 DEF EntrustedHolds, Ended
<1>10. PartsHold'
  <2>1. PartsGo /\ Chunks \subseteq Chunks'
    BY <1>1, <1>2 DEF PartsGo, Late, Chunks, Up
  <2> QED BY <1>0, <1>2, <2>1, PartsKept
<1> QED BY <1>6, <1>7, <1>8, <1>9, <1>10

\* There is no progress message yet.
LEMMA ReplyInit == Init => ReplyInv
<1> SUFFICES ASSUME Init PROVE ReplyInv
  OBVIOUS
<1> USE DEF Init
<1>1. OwnOpHolds /\ CallHolds /\ KnownHolds /\ ProgressGone
  BY AskIs DEF OwnOpHolds, CallHolds, KnownHolds, ProgressGone, Waits, Up
<1>2. ReplyHolds
  BY TextsDiffer, DeliveryAssumption DEF ReplyHolds, Entrusted, DeliveryAssumption, Idle
<1>3. EntrustedHolds /\ PartsHold
  BY TextsDiffer DEF EntrustedHolds, PartsHold, Entrusted
<1> QED BY <1>1, <1>2, <1>3 DEF ReplyInv

\* Every step keeps what is known of the progress message and the reply.
LEMMA ReplyStep == MailInv /\ ReplyInv /\ [Next]_vars => ReplyInv'
<1> SUFFICES ASSUME MailInv, ReplyInv, [Next]_vars PROVE ReplyInv'
  OBVIOUS
<1>t. TopicKept /\ Turns /\ PartsGo => ReplyInv'
  BY GoesOnReply, ClosesReply DEF Turns
<1>1. CASE ChainStep
  BY <1>1, ChainReply
<1>2. CASE EndStep
  BY <1>2, <1>t, AskTurns, PlainTurns, StartedReply, ChunkTurns DEF EndStep, PlainStep
<1>3. CASE OtherStep
  BY <1>3, <1>t, AskTurns, PlainTurns, CrashReply DEF OtherStep, PlainStep
<1>4. CASE UNCHANGED vars
  BY <1>4, <1>t, AskTurns
<1> QED BY <1>1, <1>2, <1>3, <1>4, StepKinds

\* Both invariants hold together.
LEMMA ReplyInvariant == Spec => [](MailInv /\ ReplyInv)
<1>1. Init => MailInv /\ ReplyInv
  BY MailInit, ReplyInit
<1>2. (MailInv /\ ReplyInv) /\ [Next]_vars => (MailInv /\ ReplyInv)'
  BY MailStep, ReplyStep
<1> QED BY <1>1, <1>2, PTL DEF Spec

\* A run that is over leaves no progress message behind and will post none,
\* whatever timers, retries and replacements were under way when it was
\* dismissed, but for one nobody knows of or could delete.
THEOREM ProgressIsGone == Spec => []ProgressGone
  BY ReplyInvariant, PTL DEF ReplyInv

\* What deliverRunReply calls delivered is in the topic, in all its chunks, or
\* is the text of the progress message, or is still being tried there.
THEOREM DeliveredReplyIsShown == Spec => []DeliveredIsShown
<1>1. MailInv /\ ReplyInv => DeliveredIsShown
  <2> SUFFICES ASSUME MailInv, ReplyInv, run.delivered, world.alive, ~run.skipped, world.open
               PROVE  \/ ~run.viaProgress /\ 1 .. run.total \subseteq Chunks
                      \/ run.viaProgress /\ (Shown(Reply) \/ progress.timer \/ chain # <<>>)
    BY DEF DeliveredIsShown
  <2> USE DEF ReplyInv
  <2>0. run \in RunState
    BY DEF MailInv, Typed
  <2>1. CASE ~run.viaProgress
    <3>1. run.chunk = run.total + 1 /\ 1 .. run.chunk - 1 \subseteq Chunks
      BY <2>1 DEF PartsHold
    <3>2. run.chunk - 1 = run.total
      BY <2>0, <3>1 DEF RunState
    <3> QED BY <2>1, <3>1, <3>2
  <2>2. CASE run.viaProgress
    <3>1. run.pc # "dead" /\ Entrusted /\ progress.id # Null
      <4>1. run.pc # "dead"
        BY DEF CallHolds
      <4> QED BY <2>2, <4>1 DEF ReplyHolds, Entrusted
    <3>2. progress.current = Reply \/ progress.timer \/ chain # <<>>
      BY <2>2, <3>1 DEF EntrustedHolds
    <3>3. posts[progress.id].up /\ IsProgress(progress.id)
      BY <3>1 DEF EntrustedHolds, MailInv, ChainHolds
    <3>4. progress.current = Reply => Shown(Reply)
      BY <3>1, <3>3 DEF EntrustedHolds, Shown, Up, IsProgress
    <3> QED BY <2>2, <3>2, <3>4
  <2> QED BY <2>1, <2>2
<1> QED BY ReplyInvariant, <1>1, PTL

=============================================================================

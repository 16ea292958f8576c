-------------------------- MODULE UpdateFeedProofs --------------------------
(***************************************************************************)
(* The feed of updates, for any number of generations and of updates: that *)
(* no offset is ahead of the handling, that an update which no listed case *)
(* hands out again is handled once, and that a topic has one runner, whom  *)
(* its session names.                                                      *)
(*                                                                         *)
(* NothingSkipped needs to know that the offsets a process may yet poll    *)
(* from or save are covered as well, and that a request that was served,   *)
(* or a place that counts as handled, left its update handled. HandledOnce *)
(* needs the other side: nothing at or after the offset of the poller has  *)
(* been handled, but for what it has in its hands. This holds of one       *)
(* process at a time, so the roles come first: whoever polls has the       *)
(* lease. A process that retires with a batch may handle what the next     *)
(* leader handles too, and so may a request nobody awaits any more; theirs *)
(* is in repeated.                                                         *)
(*                                                                         *)
(* OneRunner needs to know where a run may begin: a starting run has its   *)
(* update in the hands of the poller, who dispatches it or waits for the   *)
(* owner it saw in the session; and while the poller has an update in its  *)
(* hands, nobody runs but where the update goes. The owner that was seen   *)
(* is the one of the session until the update is handled, since a topic    *)
(* that runs is recorded there. All this is while no process is left       *)
(* behind with work of the topic.                                          *)
(*                                                                         *)
(* The effect of each operation on the record of a process is stated once, *)
(* field by field, and the invariants are then proved one after the other, *)
(* each from those before it.                                              *)
(***************************************************************************)
EXTENDS UpdateFeed, FiniteSetTheorems, WellFoundedInduction, TLAPS

-----------------------------------------------------------------------------
(* The inductive invariant *)

\* Where a process has an update of its batch in its hands: before its
\* handling, while it is forwarded, and when it was handled.
Before == {"route", "target", "recover", "clear", "dispatch"}
Handled == {"started", "save"}
Batch == Before \cup {"wait"} \cup Handled

\* A process that polls, or is about to.
Polls(g) == ~gen[g].retiring /\ gen[g].at \notin {"off", "standby", "dead"}

\* u was handled and is not to be handled again.
Spent(u) == handled[u] > 0 /\ u \notin repeated

\* Everything below n was handled, or dropped at the first start.
Covered(n) == \A u \in Updates : u < n => handled[u] > 0 \/ u \in dropped

\* Nothing from n on is spent.
Untouched(n) == \A u \in Updates : Spent(u) => u < n

\* The poller holds the lease, and a replacement stands by until its parent
\* retires; what a batch has in its hands is an update of it, and an owner
\* that is asked or taken over from is another process.
RoleHolds(g) ==
    /\ Polls(g) => lease = g
    /\ gen[g].child # Nobody => Polls(g) /\ gen[gen[g].child].at \in {"standby", "dead"}
    /\ gen[g].at \in Batch => gen[g].next \in Updates /\ gen[g].next <= gen[g].last
    /\ gen[g].at \in {"target", "wait", "recover", "clear"} => gen[g].seen.owner \in Gens \ {g}

RolesHold ==
    /\ \E b \in Nat : \A g \in Gens : runs[g].began <= b
    /\ \A g \in Gens : RoleHolds(g)

\* A request that is awaited is the one its sender waits with; one that was
\* served left its update handled.
RequestsHold ==
    /\ \A r \in ipc :
          /\ r.awaited => gen[r.from].at = "wait" /\ gen[r.from].next = r.update
          /\ r.served => handled[r.update] > 0
    /\ \A r, s \in ipc : r.awaited /\ s.awaited /\ r.from = s.from => r = s

\* Every offset that a process may poll from or save is covered.
OffsetHolds(g) ==
    /\ Covered(gen[g].offset)
    /\ gen[g].at \in Batch => Covered(gen[g].next)
    /\ gen[g].at \in Handled => handled[gen[g].next] > 0

OffsetsCovered == Covered(low) /\ Covered(saved) /\ \A g \in Gens : OffsetHolds(g)

\* What is spent is behind the saved offset or in the hands of the poller.
Busy == Handled \cup {"wait"}
InHand(u) == \E g \in Gens : Polls(g) /\ gen[g].at \in Busy /\ gen[g].next = u

\* A poller has spent nothing that it would handle again from where it is;
\* what a retiring process still handles may be handled again.
PollerBehind(g) ==
    /\ Polls(g) /\ gen[g].at = "poll" => Untouched(gen[g].offset)
    /\ Polls(g) /\ gen[g].at \in Before => Untouched(gen[g].next)
    /\ Polls(g) /\ gen[g].at \in Busy => Untouched(gen[g].next + 1)
    /\ gen[g].retiring /\ gen[g].at \in Batch =>
          \A u \in Updates : gen[g].next <= u /\ u <= gen[g].last => u \in repeated

\* A request not yet served brings nothing that is spent, nor one that is not
\* awaited.
RequestBehind(r) ==
    /\ ~r.awaited => r.update \in repeated
    /\ ~r.served => ~Spent(r.update)

SpentIsBehind ==
    /\ HandledOnce
    /\ \A u \in Updates : Spent(u) => u < saved \/ InHand(u)
    /\ \A r \in ipc : RequestBehind(r)
    /\ \A g \in Gens : PollerBehind(g)

FeedInv ==
    /\ TypeOK
    /\ RolesHold
    /\ RequestsHold
    /\ OffsetsCovered
    /\ SpentIsBehind

-----------------------------------------------------------------------------
(* Types *)

\* A set of numbers with a bound has a largest one.
LEMMA BoundedMax ==
    ASSUME NEW S \in SUBSET Nat, S # {}, NEW b \in Nat, \A x \in S : x <= b
    PROVE  Max(S) \in S /\ \A x \in S : x <= Max(S)
<1> DEFINE U == {n \in Nat : \A x \in S : x <= n}
<1>1. U \subseteq Nat /\ U # {}
  OBVIOUS
<1>2. PICK m \in U : \A k \in U : ~(<<k, m>> \in OpToRel(<, Nat))
  BY <1>1, WFMin, NatLessThanWellFounded, Zenon
<1>3. \A k \in U : m <= k
  <2> SUFFICES ASSUME NEW k \in U, k < m PROVE FALSE
    OBVIOUS
  <2>1. <<k, m>> \in OpToRel(<, Nat)
    BY DEF OpToRel
  <2> QED
    BY <1>2, <2>1
<1>4. m \in S
  <2> SUFFICES ASSUME m \notin S PROVE FALSE
    OBVIOUS
  <2>1. m \in Nat /\ \A x \in S : x <= m /\ x # m
    OBVIOUS
  <2>2. PICK x \in S : TRUE
    OBVIOUS
  <2>3. m - 1 \in U
    BY <2>1, <2>2
  <2> QED
    BY <1>3, <2>1, <2>3
<1>5. \E x \in S : \A y \in S : x >= y
  BY <1>4
<1> QED
  BY <1>5 DEF Max

\* The records a process, a session and a run start from have their types.
LEMMA NoProcess == NewProcess \in Process /\ Gone \in Process /\ NoSession \in Session /\ NoRun \in Run
<1>1. NoSession \in Session /\ NoRun \in Run
  BY DEF NoSession, Session, NoRun, Run
<1>2. NewProcess \in Process
  BY <1>1, UpdateFeedAssumption DEF NewProcess, Process, Place
<1>3. Gone \in Process
  BY <1>2 DEF Gone, Process, Place
<1> QED
  BY <1>1, <1>2, <1>3

\* The program starts in typed states.
LEMMA TypeInit == Init => TypeOK
  BY NoProcess, UpdateFeedAssumption
  DEF Init, TypeOK, Updates, NoSession

\* The places by name, for the steps that go to one
LEMMA Places ==
    /\ {"off", "standby", "leading", "boot", "poll", "route", "target", "wait"} \subseteq Place
    /\ {"recover", "clear", "dispatch", "started", "save", "dead"} \subseteq Place
  BY DEF Place

-----------------------------------------------------------------------------
(* What a step does to a process, field by field *)

Others(S) == \A h \in Gens \ S : gen'[h] = gen[h]

SameBatch(g) ==
    /\ gen'[g].offset = gen[g].offset /\ gen'[g].next = gen[g].next
    /\ gen'[g].last = gen[g].last

SameRole(g) == gen'[g].retiring = gen[g].retiring /\ gen'[g].child = gen[g].child

\* The types of the fields of a process and of its run
LEMMA Fields ==
    ASSUME TypeOK, NEW g \in Gens
    PROVE  /\ gen[g] \in Process /\ gen[g].at \in Place /\ gen[g].retiring \in BOOLEAN
           /\ gen[g].offset \in 0 .. MaxUpdate + 1 /\ gen[g].next \in 0 .. MaxUpdate + 1
           /\ gen[g].last \in 0 .. MaxUpdate /\ gen[g].child \in Gens \cup {Nobody}
           /\ gen[g].seen \in Session /\ gen[g].seen.owner \in Gens \cup {Nobody}
           /\ runs[g] \in Run /\ runs[g].began \in Nat
  BY DEF TypeOK, Process, Session, Run

\* The types of the fields of a request
LEMMA RequestFields ==
    ASSUME TypeOK, NEW r \in ipc
    PROVE  /\ r \in Request /\ r.from \in Gens /\ r.to \in Gens /\ r.update \in Updates
           /\ r.served \in BOOLEAN /\ r.awaited \in BOOLEAN
  BY DEF TypeOK, Request

\* One process is replaced by another record.
LEMMA PutProcess ==
    ASSUME TypeOK, NEW g \in Gens, NEW p \in Process, gen' = [gen EXCEPT ![g] = p]
    PROVE  gen' \in [Gens -> Process] /\ Others({g}) /\ gen'[g] = p
  BY DEF TypeOK, Others

\* Go moves a process and changes nothing else of it.
LEMMA GoEffect ==
    ASSUME TypeOK, NEW g \in Gens, NEW p \in Place, Go(g, p)
    PROVE  /\ gen' \in [Gens -> Process] /\ Others({g})
           /\ gen'[g].at = p /\ gen'[g].seen = gen[g].seen /\ SameBatch(g) /\ SameRole(g)
  BY DEF TypeOK, Go, Process, Others, SameBatch, SameRole

\* GoUnseen moves a process and forgets the session it had read.
LEMMA GoUnseenEffect ==
    ASSUME TypeOK, NEW g \in Gens, NEW p \in Place, GoUnseen(g, p)
    PROVE  /\ gen' \in [Gens -> Process] /\ Others({g})
           /\ gen'[g].at = p /\ SameBatch(g) /\ SameRole(g)
  BY NoProcess DEF TypeOK, GoUnseen, Process, Others, SameBatch, SameRole

\* GiveUp is back at the poll with the old offset, which hands the batch out again.
LEMMA GiveUpEffect ==
    ASSUME TypeOK, NEW g \in Gens, GiveUp(g)
    PROVE  /\ gen' \in [Gens -> Process] /\ Others({g})
           /\ gen'[g].at = "poll" /\ gen'[g].offset = gen[g].offset /\ SameRole(g)
           /\ repeated' \subseteq Updates /\ repeated \subseteq repeated'
           /\ \A u \in Updates : gen[g].offset <= u /\ u <= gen[g].next => u \in repeated'
<1> DEFINE p == [gen[g] EXCEPT !.at = "poll", !.next = 0, !.last = 0, !.seen = NoSession]
<1>1. gen[g] \in Process
  BY Fields
<1>2. p \in Process /\ p.at = "poll" /\ p.offset = gen[g].offset
      /\ p.retiring = gen[g].retiring /\ p.child = gen[g].child
  <2>1. 0 \in 0 .. MaxUpdate + 1 /\ 0 \in 0 .. MaxUpdate /\ NoSession \in Session /\ "poll" \in Place
    BY NoProcess, UpdateFeedAssumption DEF Place
  <2> QED
    BY <1>1, <2>1 DEF Process
<1>3. gen' = [gen EXCEPT ![g] = p]
  BY DEF GiveUp, Idle
<1> HIDE DEF p
<1>4. gen'[g] = p /\ gen' \in [Gens -> Process] /\ Others({g})
  BY <1>2, <1>3 DEF TypeOK, Others
<1>5. /\ repeated' \subseteq Updates /\ repeated \subseteq repeated'
      /\ \A u \in Updates : gen[g].offset <= u /\ u <= gen[g].next => u \in repeated'
  BY DEF TypeOK, GiveUp
<1> QED
  BY <1>2, <1>4, <1>5 DEF SameRole

\* A dead process has no batch and no replacement.
LEMMA GoneIs ==
    /\ Gone.at = "dead" /\ Gone.offset = 0 /\ Gone.next = 0 /\ Gone.last = 0
    /\ Gone.child = Nobody /\ Gone.retiring = FALSE
  BY DEF Gone, NewProcess

\* A process is killed.
LEMMA KillEffect ==
    ASSUME TypeOK, NEW g \in Gens, gen' = [gen EXCEPT ![g] = Gone]
    PROVE  gen' \in [Gens -> Process] /\ Others({g}) /\ gen'[g] = Gone
  BY NoProcess DEF TypeOK, Others

\* A process polls from offset n.
LEMMA BootstrapEffect ==
    ASSUME TypeOK, NEW g \in Gens, NEW n \in 0 .. MaxUpdate + 1,
           gen' = [gen EXCEPT ![g].at = "poll", ![g].offset = n]
    PROVE  /\ gen' \in [Gens -> Process] /\ Others({g})
           /\ gen'[g].at = "poll" /\ gen'[g].offset = n /\ SameRole(g)
<1> DEFINE p == [gen[g] EXCEPT !.at = "poll", !.offset = n]
<1>1. gen[g] \in Process
  BY Fields
<1>2. /\ p \in Process /\ p.at = "poll" /\ p.offset = n
      /\ p.retiring = gen[g].retiring /\ p.child = gen[g].child
  BY <1>1, Places DEF Process
<1>3. gen' = [gen EXCEPT ![g] = p]
  BY DEF TypeOK
<1> HIDE DEF p
<1> QED
  BY <1>2, <1>3, PutProcess DEF SameRole

\* A process has a batch from n to hi.
LEMMA PollEffect ==
    ASSUME TypeOK, NEW g \in Gens, NEW n \in Updates, NEW hi \in Updates,
           gen' = [gen EXCEPT ![g].at = "route", ![g].next = n, ![g].last = hi]
    PROVE  /\ gen' \in [Gens -> Process] /\ Others({g})
           /\ gen'[g].at = "route" /\ gen'[g].next = n /\ gen'[g].last = hi
           /\ gen'[g].offset = gen[g].offset /\ SameRole(g)
<1> DEFINE p == [gen[g] EXCEPT !.at = "route", !.next = n, !.last = hi]
<1>1. gen[g] \in Process /\ n \in 0 .. MaxUpdate + 1 /\ hi \in 0 .. MaxUpdate
  BY Fields, UpdateFeedAssumption DEF Updates
<1>2. /\ p \in Process /\ p.at = "route" /\ p.next = n /\ p.last = hi
      /\ p.offset = gen[g].offset /\ p.retiring = gen[g].retiring /\ p.child = gen[g].child
  BY <1>1, Places DEF Process
<1>3. gen' = [gen EXCEPT ![g] = p]
  BY DEF TypeOK
<1> HIDE DEF p
<1> QED
  BY <1>2, <1>3, PutProcess DEF SameRole

\* A process has read the session.
LEMMA RouteEffect ==
    ASSUME TypeOK, NEW g \in Gens,
           gen' = [gen EXCEPT ![g].at = "target", ![g].seen = session]
    PROVE  /\ gen' \in [Gens -> Process] /\ Others({g})
           /\ gen'[g].at = "target" /\ gen'[g].seen = session /\ SameBatch(g) /\ SameRole(g)
<1> DEFINE p == [gen[g] EXCEPT !.at = "target", !.seen = session]
<1>1. gen[g] \in Process /\ session \in Session
  BY Fields DEF TypeOK
<1>2. /\ p \in Process /\ p.at = "target" /\ p.seen = session /\ p.offset = gen[g].offset
      /\ p.next = gen[g].next /\ p.last = gen[g].last
      /\ p.retiring = gen[g].retiring /\ p.child = gen[g].child
  BY <1>1, Places DEF Process
<1>3. gen' = [gen EXCEPT ![g] = p]
  BY DEF TypeOK
<1> HIDE DEF p
<1> QED
  BY <1>2, <1>3, PutProcess DEF SameBatch, SameRole

\* A process goes on to clear the ownership of one it has killed.
LEMMA TerminateEffect ==
    ASSUME TypeOK, NEW g \in Gens, NEW o \in Gens \ {g},
           gen' = [gen EXCEPT ![g].at = "clear", ![o] = Gone]
    PROVE  /\ gen' \in [Gens -> Process] /\ Others({g, o}) /\ gen'[o] = Gone
           /\ gen'[g].at = "clear" /\ gen'[g].seen = gen[g].seen /\ SameBatch(g) /\ SameRole(g)
<1> DEFINE p == [gen[g] EXCEPT !.at = "clear"]
<1>1. gen[g] \in Process
  BY Fields
<1>2. p \in Process /\ p.at = "clear" /\ p.seen = gen[g].seen /\ p.offset = gen[g].offset
      /\ p.next = gen[g].next /\ p.last = gen[g].last
      /\ p.retiring = gen[g].retiring /\ p.child = gen[g].child
  BY <1>1, Places DEF Process
<1>3. gen' = [gen EXCEPT ![g] = p, ![o] = Gone]
  BY DEF TypeOK
<1> HIDE DEF p
<1>4. gen'[g] = p /\ gen'[o] = Gone /\ gen' \in [Gens -> Process] /\ Others({g, o})
  BY <1>2, <1>3, NoProcess DEF TypeOK, Others
<1> QED
  BY <1>2, <1>4 DEF SameBatch, SameRole

\* Save stores the offset after the update and goes on with the batch, or to the poll.
LEMMA SaveEffect ==
    ASSUME TypeOK, NEW g \in Gens, Save(g), gen[g].next \in Updates, gen[g].next <= gen[g].last
    PROVE  /\ gen' \in [Gens -> Process] /\ Others({g}) /\ SameRole(g)
           /\ saved' = gen[g].next + 1 /\ saved' \in 1 .. MaxUpdate + 1
           /\ \/ gen'[g].at = "poll" /\ gen'[g].offset = gen[g].next + 1
              \/ /\ gen'[g].at = "route" /\ gen'[g].next = gen[g].next + 1
                 /\ gen'[g].next \in Updates /\ gen'[g].next <= gen'[g].last
                 /\ gen'[g].last = gen[g].last /\ gen'[g].offset = gen[g].offset
           /\ repeated' \subseteq Updates /\ repeated \subseteq repeated'
           /\ \A u \in Updates : gen[g].next < u /\ u < saved => u \in repeated'
<1> DEFINE p == [gen[g] EXCEPT !.at = "poll", !.next = 0, !.last = 0, !.seen = NoSession,
                               !.offset = gen[g].last + 1]
<1> DEFINE q == [gen[g] EXCEPT !.at = "route", !.next = gen[g].next + 1]
<1>1. /\ gen[g] \in Process /\ gen[g].last \in 0 .. MaxUpdate
      /\ gen[g].last + 1 \in 0 .. MaxUpdate + 1 /\ gen[g].next \in 0 .. MaxUpdate + 1
      /\ 0 \in 0 .. MaxUpdate + 1 /\ 0 \in 0 .. MaxUpdate /\ MaxUpdate \in Nat
  BY Fields, UpdateFeedAssumption
<1>2. /\ p \in Process /\ p.at = "poll" /\ p.offset = gen[g].last + 1
      /\ p.retiring = gen[g].retiring /\ p.child = gen[g].child
  BY <1>1, NoProcess, Places DEF Process
<1>3. /\ gen[g].next # gen[g].last => gen[g].next + 1 \in Updates
      /\ gen[g].next + 1 \in 1 .. MaxUpdate + 1 /\ gen[g].next + 1 \in 0 .. MaxUpdate + 1
  BY <1>1 DEF Updates
<1>4. /\ q \in Process /\ q.at = "route" /\ q.next = gen[g].next + 1 /\ q.last = gen[g].last
      /\ q.offset = gen[g].offset /\ q.retiring = gen[g].retiring /\ q.child = gen[g].child
  BY <1>1, <1>3, Places DEF Process
<1>5. gen' = IF gen[g].next = gen[g].last THEN [gen EXCEPT ![g] = p] ELSE [gen EXCEPT ![g] = q]
  BY DEF Save, Idle, TypeOK
<1> HIDE DEF p, q
<1>6. /\ gen' \in [Gens -> Process] /\ Others({g})
      /\ gen'[g] = IF gen[g].next = gen[g].last THEN p ELSE q
  BY <1>2, <1>4, <1>5 DEF TypeOK, Others
<1>7. /\ saved' = gen[g].next + 1 /\ repeated' \subseteq Updates /\ repeated \subseteq repeated'
      /\ \A u \in Updates : gen[g].next < u /\ u < saved => u \in repeated'
  BY DEF Save, TypeOK
<1>8. CASE gen[g].next = gen[g].last
  BY <1>2, <1>3, <1>6, <1>7, <1>8 DEF SameRole
<1>9. CASE gen[g].next # gen[g].last
  <2>1. gen[g].next + 1 <= gen[g].last
    BY <1>1, <1>9
  <2> QED
    BY <1>3, <1>4, <1>6, <1>7, <1>9, <2>1 DEF SameRole
<1> QED
  BY <1>8, <1>9

\* Spawn gives a process a replacement that stands by.
LEMMA SpawnEffect ==
    ASSUME TypeOK, NEW g \in Gens, NEW h \in Gens, Spawn(g, h)
    PROVE  /\ gen' \in [Gens -> Process] /\ Others({g, h}) /\ g # h
           /\ gen'[g].child = h /\ gen'[g].at = gen[g].at /\ gen'[g].retiring = gen[g].retiring
           /\ gen'[g].seen = gen[g].seen /\ SameBatch(g)
           /\ gen'[h].at = "standby" /\ gen'[h].offset = gen[h].offset
           /\ gen'[h].retiring = gen[h].retiring /\ gen'[h].child = gen[h].child
<1> DEFINE p == [gen[g] EXCEPT !.child = h]
           q == [gen[h] EXCEPT !.at = "standby"]
<1>1. gen[g] \in Process /\ gen[h] \in Process /\ g # h
  BY Fields DEF Spawn, Leader
<1>2. p \in Process /\ p.at = gen[g].at /\ p.child = h /\ p.retiring = gen[g].retiring
      /\ p.seen = gen[g].seen /\ p.offset = gen[g].offset /\ p.next = gen[g].next
      /\ p.last = gen[g].last
  BY <1>1 DEF Process
<1>3. q \in Process /\ q.at = "standby" /\ q.offset = gen[h].offset
      /\ q.retiring = gen[h].retiring /\ q.child = gen[h].child
  BY <1>1, Places DEF Process
<1>4. gen' = [gen EXCEPT ![g] = p, ![h] = q]
  BY <1>1 DEF Spawn, TypeOK
<1> HIDE DEF p, q
<1>5. gen'[g] = p /\ gen'[h] = q /\ gen' \in [Gens -> Process] /\ Others({g, h})
  BY <1>1, <1>2, <1>3, <1>4 DEF TypeOK, Others
<1> QED
  BY <1>1, <1>2, <1>3, <1>5 DEF SameBatch

\* Mark changes nothing of a process that offsets or roles are about.
LEMMA MarkEffect ==
    ASSUME TypeOK, NEW g \in Gens, Mark(g)
    PROVE  /\ gen' \in [Gens -> Process] /\ Others({g})
           /\ gen'[g].at = gen[g].at /\ gen'[g].seen = gen[g].seen /\ SameBatch(g) /\ SameRole(g)
  BY DEF Mark, TypeOK, Process, Others, SameBatch, SameRole

\* A failed rollout kills the replacement.
LEMMA RolloutFailsEffect ==
    ASSUME TypeOK, NEW g \in Gens, RolloutFails(g), gen[g].child # g
    PROVE  /\ gen[g].child \in Gens \ {g} /\ gen' \in [Gens -> Process]
           /\ Others({g, gen[g].child}) /\ gen'[gen[g].child] = Gone
           /\ gen'[g].at = gen[g].at /\ gen'[g].seen = gen[g].seen /\ SameBatch(g)
           /\ gen'[g].child = Nobody /\ gen'[g].retiring = gen[g].retiring
<1> DEFINE p == [gen[g] EXCEPT !.child = Nobody, !.marked = FALSE]
<1>1. gen[g] \in Process /\ gen[g].child \in Gens \ {g}
  BY Fields DEF RolloutFails
<1>2. p \in Process /\ p.at = gen[g].at /\ p.child = Nobody /\ p.retiring = gen[g].retiring
      /\ p.seen = gen[g].seen /\ p.offset = gen[g].offset /\ p.next = gen[g].next
      /\ p.last = gen[g].last
  BY <1>1 DEF Process
<1>3. gen' = [gen EXCEPT ![g] = p, ![gen[g].child] = Gone]
  BY DEF RolloutFails, TypeOK
<1> HIDE DEF p
<1>4. gen'[g] = p /\ gen'[gen[g].child] = Gone /\ gen' \in [Gens -> Process]
      /\ Others({g, gen[g].child})
  BY <1>1, <1>2, <1>3, NoProcess DEF TypeOK, Others
<1> QED
  BY <1>1, <1>2, <1>4 DEF SameBatch

\* Retire hands the replacement the lead; the rest of the batch may come again.
LEMMA RetireEffect ==
    ASSUME TypeOK, NEW g \in Gens, Retire(g)
    PROVE  /\ gen' \in [Gens -> Process] /\ Others({g})
           /\ gen'[g].at = gen[g].at /\ gen'[g].seen = gen[g].seen /\ SameBatch(g)
           /\ gen'[g].child = Nobody /\ gen'[g].retiring
           /\ repeated' \subseteq Updates /\ repeated \subseteq repeated'
           /\ gen[g].at = "poll"
              \/ \A u \in Updates : gen[g].next <= u /\ u <= gen[g].last => u \in repeated'
<1> DEFINE p == [gen[g] EXCEPT !.retiring = TRUE, !.child = Nobody, !.marked = FALSE]
<1>1. gen[g] \in Process
  BY Fields
<1>2. p \in Process /\ p.at = gen[g].at /\ p.child = Nobody /\ p.retiring
      /\ p.seen = gen[g].seen /\ p.offset = gen[g].offset /\ p.next = gen[g].next
      /\ p.last = gen[g].last
  BY <1>1 DEF Process
<1>3. gen' = [gen EXCEPT ![g] = p]
  BY DEF Retire, TypeOK
<1> HIDE DEF p
<1>4. gen'[g] = p /\ gen' \in [Gens -> Process] /\ Others({g})
  BY <1>2, <1>3 DEF TypeOK, Others
<1>5. /\ repeated' \subseteq Updates /\ repeated \subseteq repeated'
      /\ gen[g].at = "poll"
         \/ \A u \in Updates : gen[g].next <= u /\ u <= gen[g].last => u \in repeated'
  BY DEF Retire, TypeOK
<1> QED
  BY <1>2, <1>4, <1>5 DEF SameBatch

\* Handle counts one update and may begin a run.
LEMMA HandleEffect ==
    ASSUME TypeOK, NEW g \in Gens, NEW u \in Updates, Handle(g, u)
    PROVE  /\ handled' \in [Updates -> 0 .. 2] /\ runs' \in [Gens -> Run]
           /\ handled'[u] > 0 /\ (handled[u] = 0 => handled'[u] = 1)
           /\ \A v \in Updates \ {u} : handled'[v] = handled[v]
           /\ \A h \in Gens : runs'[h].began = runs[h].began
<1>1. [runs[g] EXCEPT !.state = "starting"] \in Run
      /\ [runs[g] EXCEPT !.state = "starting"].began = runs[g].began
  BY DEF TypeOK, Run
<1>2. /\ runs' \in [Gens -> Run] /\ \A h \in Gens : runs'[h].began = runs[h].began
  BY <1>1 DEF TypeOK, Handle
<1>3. handled' = [handled EXCEPT ![u] = IF handled[u] = 2 THEN 2 ELSE handled[u] + 1]
      /\ handled[u] \in 0 .. 2
  BY DEF TypeOK, Handle
<1> QED
  BY <1>2, <1>3 DEF TypeOK

\* A session whose owner is cleared has no owner, in both of its forms.
LEMMA UnownedIs ==
    ASSUME TypeOK
    PROVE  /\ Unowned \in Session /\ Unowned.owner = Nobody /\ Unowned.mode = "none"
           /\ [Unowned EXCEPT !.status = "interrupted"] \in Session
           /\ [Unowned EXCEPT !.status = "interrupted"].owner = Nobody
           /\ [Unowned EXCEPT !.status = "interrupted"].mode = "none"
  BY DEF TypeOK, Unowned, Session, Final

\* A run that turns active keeps the types, and the begin counts a bound.
LEMMA ActivateEffect ==
    ASSUME TypeOK, RolesHold, NEW g \in Gens, Activate(g)
    PROVE  /\ runs' \in [Gens -> Run] /\ session' \in Session
           /\ (session'.owner = Nobody <=> session'.mode = "none")
           /\ \E b \in Nat : \A h \in Gens : runs'[h].began <= b
<1> DEFINE S == {runs[h].began : h \in Gens}
           now == 1 + Max(S)
<1>1. S \in SUBSET Nat /\ S # {}
  BY Fields
<1>2. PICK b \in Nat : \A h \in Gens : runs[h].began <= b
  BY DEF RolesHold
<1>3. \A x \in S : x <= b
  BY <1>2
<1>4. Max(S) \in S /\ \A x \in S : x <= Max(S)
  <2> HIDE DEF S
  <2> QED
    BY <1>1, <1>2, <1>3, BoundedMax
<1>5. now \in Nat /\ \A h \in Gens : runs[h].began \in Nat /\ runs[h].began <= now
  <2>1. Max(S) \in Nat /\ \A h \in Gens : runs[h].began \in Nat /\ runs[h].began <= Max(S)
    BY <1>1, <1>4, Fields
  <2> HIDE DEF S
  <2> QED
    BY <2>1
<1>6. runs' = [runs EXCEPT ![g] = [state |-> "active", began |-> now]]
      /\ session' = [owner |-> g, status |-> "running", began |-> now,
                     mode |-> IF session.owner = Nobody THEN "active" ELSE session.mode]
  BY DEF Activate
<1> HIDE DEF now
<1>7. /\ runs' \in [Gens -> Run] /\ \A h \in Gens : runs'[h].began <= now
  BY <1>5, <1>6 DEF TypeOK, Run
<1>8. session' \in Session /\ (session'.owner = Nobody <=> session'.mode = "none")
  BY <1>5, <1>6, UpdateFeedAssumption DEF TypeOK, Session
<1> QED
  BY <1>5, <1>7, <1>8

\* A run that ends keeps the types and lets no begin count grow.
LEMMA RunEndEffect ==
    ASSUME TypeOK, NEW g \in Gens
    PROVE  /\ runs' = [runs EXCEPT ![g] = NoRun] =>
                 runs' \in [Gens -> Run] /\ \A h \in Gens : runs'[h].began <= runs[h].began
           /\ Finish(g) =>
                 runs' \in [Gens -> Run] /\ \A h \in Gens : runs'[h].began <= runs[h].began
<1>1. NoRun \in Run /\ NoRun.began = 0 /\ \A h \in Gens : runs[h].began \in Nat
  BY NoProcess, Fields DEF NoRun
<1>2. [runs[g] EXCEPT !.state = "ending"] \in Run
      /\ [runs[g] EXCEPT !.state = "ending"].began = runs[g].began
  BY DEF TypeOK, Run
<1>3. ASSUME NEW q \in Run, q.began <= runs[g].began, runs' = [runs EXCEPT ![g] = q]
      PROVE  runs' \in [Gens -> Run] /\ \A h \in Gens : runs'[h].began <= runs[h].began
  <2>1. runs' \in [Gens -> Run] /\ \A h \in Gens : runs'[h] = IF h = g THEN q ELSE runs[h]
    BY <1>3 DEF TypeOK
  <2> QED
    BY <1>1, <1>3, <2>1
<1>4. ASSUME runs' = [runs EXCEPT ![g] = NoRun]
      PROVE  runs' \in [Gens -> Run] /\ \A h \in Gens : runs'[h].began <= runs[h].began
  <2>1. NoRun.began <= runs[g].began
    BY <1>1
  <2> QED
    BY <1>1, <1>3, <1>4, <2>1
<1>5. ASSUME Finish(g)
      PROVE  runs' \in [Gens -> Run] /\ \A h \in Gens : runs'[h].began <= runs[h].began
  <2> DEFINE q == IF Superseded(g) THEN NoRun ELSE [runs[g] EXCEPT !.state = "ending"]
  <2>1. q \in Run /\ q.began <= runs[g].began
    BY <1>1, <1>2
  <2>2. runs' = [runs EXCEPT ![g] = q]
    BY <1>5 DEF Finish, TypeOK
  <2> HIDE DEF q
  <2> QED
    BY <1>3, <2>1, <2>2
<1> QED
  BY <1>4, <1>5

\* A run that settles clears the owner of its session.
LEMMA SettleEffect ==
    ASSUME TypeOK, NEW g \in Gens, Settle(g)
    PROVE  session' \in Session /\ session'.owner = Nobody /\ session'.mode = "none"
  BY Fields DEF Settle, Session, Final

\* The mark of a retiring owner keeps the type of the session.
LEMMA MarkSession ==
    ASSUME TypeOK, NEW g \in Gens, Mark(g)
    PROVE  session' \in Session /\ (session'.owner = Nobody <=> session'.mode = "none")
<1> DEFINE s == [session EXCEPT !.owner = g, !.mode = "retiring"]
<1>1. s \in Session /\ s.owner = g /\ s.mode = "retiring" /\ g # Nobody
  BY UpdateFeedAssumption DEF TypeOK, Session
<1> QED
  BY <1>1 DEF Mark, TypeOK

\* When a process dies its requests stay, but none awaits an answer for it.
LEMMA DeadEffect ==
    ASSUME TypeOK, NEW g \in Gens, Dead(g)
    PROVE  /\ ipc' \subseteq Request
           /\ \A r \in ipc' : \E s \in ipc :
                 /\ r.from = s.from /\ r.to = s.to /\ r.update = s.update /\ r.served = s.served
                 /\ (r.awaited <=> s.awaited /\ s.from # g)
                 /\ (s.from # g => r = s)
<1>1. \A r \in Request :
         LET q == [r EXCEPT !.awaited = FALSE] IN
         /\ q \in Request /\ q.from = r.from /\ q.to = r.to /\ q.update = r.update
         /\ q.served = r.served /\ ~q.awaited
  BY DEF Request
<1>2. ASSUME NEW r \in ipc'
      PROVE  \E s \in ipc : r = IF s.from = g THEN [s EXCEPT !.awaited = FALSE] ELSE s
  BY DEF Dead
<1>3. ipc \subseteq Request
  BY DEF TypeOK
<1>4. ASSUME NEW r \in ipc', NEW s \in ipc,
             r = IF s.from = g THEN [s EXCEPT !.awaited = FALSE] ELSE s
      PROVE  /\ r \in Request
             /\ r.from = s.from /\ r.to = s.to /\ r.update = s.update /\ r.served = s.served
             /\ (r.awaited <=> s.awaited /\ s.from # g)
             /\ (s.from # g => r = s)
  <2>1. CASE s.from = g
    BY <1>1, <1>3, <1>4, <2>1
  <2>2. CASE s.from # g
    BY <1>3, <1>4, <2>2
  <2> QED
    BY <2>1, <2>2
<1> QED
  BY <1>2, <1>4

\* What a dying process leaves is a set of updates and of processes.
LEMMA LeftTypes ==
    ASSUME TypeOK, NEW g \in Gens
    PROVE  /\ Orphans(g) \subseteq Gens /\ Living \subseteq Gens
           /\ (gen[g].next \in Updates \/ gen[g].at \notin Batch) => Unsaved(g) \subseteq Updates
  BY DEF Orphans, Living, Unsaved, Batch, Handled

\* The request of a process for its update is a request.
LEMMA AddRequest ==
    ASSUME TypeOK, NEW g \in Gens, gen[g].seen.owner \in Gens, gen[g].next \in Updates
    PROVE  [from |-> g, to |-> gen[g].seen.owner, update |-> gen[g].next,
            served |-> FALSE, awaited |-> TRUE] \in Request
  BY DEF Request

\* The two ends of the probe of an owner: it gets the update, or loses the
\* session.
Forwards(g) ==
    /\ Alive(gen[g].seen.owner) /\ Go(g, "wait") /\ UNCHANGED <<session, left>>
    /\ ipc' = ipc \cup {[from |-> g, to |-> gen[g].seen.owner, update |-> gen[g].next,
                         served |-> FALSE, awaited |-> TRUE]}
Disowns(g) ==
    /\ GoUnseen(g, "dispatch") /\ session' = Unowned /\ UNCHANGED ipc
    /\ left' = left \cup Deserted(gen[g].seen.owner)

\* A step of Target is one of the two.
LEMMA TargetCases == ASSUME NEW g \in Gens, Target(g) PROVE Forwards(g) \/ Disowns(g)
  BY DEF Target, Forwards, Disowns

\* A request that is served, or not awaited any more, is a request.
LEMMA EditRequest ==
    ASSUME TypeOK, NEW r \in ipc
    PROVE  [r EXCEPT !.served = TRUE] \in Request /\ [r EXCEPT !.awaited = FALSE] \in Request
  BY DEF TypeOK, Request

\* RolesHold for one process: the parts the types of its steps need
LEMMA RolesFields ==
    ASSUME TypeOK, RolesHold, NEW g \in Gens
    PROVE  /\ gen[g].child # Nobody => gen[g].child \in Gens \ {g}
           /\ gen[g].at \in Batch => gen[g].next \in Updates /\ gen[g].next <= gen[g].last
           /\ gen[g].at \in {"target", "wait", "recover", "clear"}
                => gen[g].seen.owner \in Gens \ {g}
<1>1. gen[g].child # Nobody => gen[g].child \in Gens /\ gen[g].at # "standby" /\ gen[g].at # "dead"
  BY Fields DEF RolesHold, RoleHolds, Polls
<1>2. gen[g].child # Nobody => gen[gen[g].child].at \in {"standby", "dead"}
  BY DEF RolesHold, RoleHolds
<1> QED
  BY <1>1, <1>2 DEF RolesHold, RoleHolds

\* Bootstrap, as the invariants see it
LEMMA BootstrapStep ==
    ASSUME TypeOK, NEW g \in Gens, Bootstrap(g)
    PROVE  /\ gen[g].at = "boot" /\ UNCHANGED <<sent, lease, session, runs, ipc, handled, repeated, left>>
           /\ gen' \in [Gens -> Process] /\ Others({g})
           /\ gen'[g].at = "poll" /\ SameRole(g)
           /\ \/ gen'[g].offset = saved /\ UNCHANGED <<low, saved, dropped>>
              \/ /\ saved = 0 /\ gen'[g].offset = sent + 1 /\ saved' = sent + 1
                 /\ low' = sent /\ sent \in Updates
                 /\ dropped' = dropped \cup low .. sent /\ low .. sent \subseteq Updates
<1>1. CASE saved # 0 \/ sent < low
  <2>1. /\ gen' = [gen EXCEPT ![g].at = "poll", ![g].offset = saved]
        /\ UNCHANGED <<sent, low, saved, dropped, lease, session, runs, ipc, handled, repeated, left>>
        /\ gen[g].at = "boot" /\ saved \in 0 .. MaxUpdate + 1
    BY <1>1 DEF Bootstrap, TypeOK, feed
  <2> QED
    BY <2>1, BootstrapEffect
<1>2. CASE ~(saved # 0 \/ sent < low)
  <2>1. saved = 0 /\ sent \in Updates /\ sent + 1 \in 0 .. MaxUpdate + 1 /\ low .. sent \subseteq Updates
    BY <1>2, UpdateFeedAssumption DEF TypeOK, Updates
  <2>2. /\ gen' = [gen EXCEPT ![g].at = "poll", ![g].offset = sent + 1]
        /\ low' = sent /\ saved' = sent + 1 /\ dropped' = dropped \cup low .. sent
        /\ UNCHANGED <<sent, lease, session, runs, ipc, handled, repeated, left>>
        /\ gen[g].at = "boot"
    BY <1>2 DEF Bootstrap
  <2> QED
    BY <2>1, <2>2, BootstrapEffect
<1> QED
  BY <1>1, <1>2

\* Poll, as the invariants see it: Telegram forgets what the offset has passed.
LEMMA PollStep ==
    ASSUME TypeOK, NEW g \in Gens, Poll(g)
    PROVE  /\ gen[g].at = "poll" /\ ~gen[g].retiring /\ low' \in 1 .. MaxUpdate + 1
           /\ UNCHANGED <<sent, saved, dropped, lease, session, runs, ipc, handled, repeated, left>>
           /\ low' = gen[g].offset \/ low' = low
           /\ low' >= gen[g].offset /\ low' >= low
           /\ \/ UNCHANGED gen
              \/ /\ gen' \in [Gens -> Process] /\ Others({g})
                 /\ gen'[g].at = "route" /\ gen'[g].next = low' /\ gen'[g].next \in Updates
                 /\ gen'[g].next <= gen'[g].last /\ gen'[g].offset = gen[g].offset /\ SameRole(g)
<1> DEFINE first == IF gen[g].offset > low THEN gen[g].offset ELSE low
<1>1. gen[g].offset \in 0 .. MaxUpdate + 1 /\ low \in 1 .. MaxUpdate + 1 /\ sent \in 0 .. MaxUpdate
  BY Fields DEF TypeOK
<1>2. /\ first \in 1 .. MaxUpdate + 1 /\ (first = gen[g].offset \/ first = low)
      /\ first >= gen[g].offset /\ first >= low
      /\ \A hi \in first .. sent : first \in Updates /\ hi \in Updates /\ first <= hi
  BY <1>1, UpdateFeedAssumption DEF Updates
<1>3. /\ low' = first /\ gen[g].at = "poll" /\ ~gen[g].retiring
      /\ UNCHANGED <<sent, saved, dropped, lease, session, runs, ipc, handled, repeated, left>>
      /\ \/ UNCHANGED gen
         \/ \E hi \in first .. sent :
               gen' = [gen EXCEPT ![g].at = "route", ![g].next = first, ![g].last = hi]
  BY DEF Poll
<1> HIDE DEF first
<1>4. ASSUME NEW hi \in first .. sent,
             gen' = [gen EXCEPT ![g].at = "route", ![g].next = first, ![g].last = hi]
      PROVE  /\ gen' \in [Gens -> Process] /\ Others({g})
             /\ gen'[g].at = "route" /\ gen'[g].next = low' /\ gen'[g].next \in Updates
             /\ gen'[g].next <= gen'[g].last /\ gen'[g].offset = gen[g].offset /\ SameRole(g)
  <2>1. first \in Updates /\ hi \in Updates /\ first <= hi
    BY <1>2, <1>4
  <2>2. /\ gen' \in [Gens -> Process] /\ Others({g})
        /\ gen'[g].at = "route" /\ gen'[g].next = first /\ gen'[g].last = hi
        /\ gen'[g].offset = gen[g].offset /\ SameRole(g)
    BY <1>4, <2>1, PollEffect
  <2> QED
    BY <1>3, <2>1, <2>2
<1> QED
  BY <1>2, <1>3, <1>4

\* The steps of the update loop keep the types.
LEMMA LoopTyped ==
    ASSUME TypeOK, RolesHold, NEW g \in Gens, LoopStep(g)
    PROVE  TypeOK'
<1> USE UpdateFeedAssumption, Places, RolesFields, Fields
<1>1. CASE StartService(g)
  BY <1>1, GoEffect DEF StartService, TypeOK, feed, Batch, Before, Handled
<1>2. CASE Acquire(g)
  BY <1>2, GoEffect DEF Acquire, TypeOK, feed, Batch, Before, Handled
<1>3. CASE RecoverStale(g)
  <2>1. gen' \in [Gens -> Process]
    BY <1>3, GoEffect DEF RecoverStale
  <2>2. session' \in Session /\ (session'.owner = Nobody <=> session'.mode = "none")
    BY <1>3, UnownedIs DEF RecoverStale, TypeOK
  <2>3. left' \subseteq Gens
    BY <1>3 DEF RecoverStale, Deserted, TypeOK
  <2> QED
    BY <1>3, <2>1, <2>2, <2>3 DEF RecoverStale, TypeOK, feed
<1>4. CASE Bootstrap(g)
  <2>1. sent + 1 \in 0 .. MaxUpdate + 1
    BY DEF TypeOK
  <2>2. /\ gen' \in [Gens -> Process] /\ low' \in 1 .. MaxUpdate + 1 /\ saved' \in 0 .. MaxUpdate + 1
        /\ dropped' \subseteq Updates
        /\ UNCHANGED <<sent, lease, session, runs, ipc, handled, repeated, left>>
    <3>1. gen' \in [Gens -> Process]
          /\ UNCHANGED <<sent, lease, session, runs, ipc, handled, repeated, left>>
      BY <1>4, BootstrapStep
    <3>2. CASE UNCHANGED <<low, saved, dropped>>
      BY <3>1, <3>2 DEF TypeOK
    <3>3. CASE /\ low' = sent /\ saved' = sent + 1 /\ sent \in Updates
               /\ dropped' = dropped \cup low .. sent /\ low .. sent \subseteq Updates
      <4>1. low' \in 1 .. MaxUpdate + 1
        BY <3>3 DEF Updates
      <4>2. saved' \in 0 .. MaxUpdate + 1
        BY <2>1, <3>3
      <4>3. dropped' \subseteq Updates
        BY <3>3 DEF TypeOK
      <4> QED
        BY <3>1, <4>1, <4>2, <4>3
    <3> QED
      BY <1>4, <3>2, <3>3, <3>1, BootstrapStep
  <2> QED
    BY <2>2 DEF TypeOK
<1>5. CASE Poll(g)
  BY <1>5, PollStep DEF TypeOK
<1>6. CASE Route(g)
  BY <1>6, GoEffect, RouteEffect DEF Route, TypeOK, feed, Batch, Before, Handled
<1>7. CASE Target(g)
  <2>1. gen' \in [Gens -> Process]
    BY <1>7, GoEffect, GoUnseenEffect DEF Target
  <2>2. ipc' \subseteq Request
    BY <1>7, AddRequest DEF Target, TypeOK, Batch, Before
  <2>3. session' \in Session /\ (session'.owner = Nobody <=> session'.mode = "none")
    BY <1>7, UnownedIs DEF Target, TypeOK
  <2>4. left' \subseteq Gens
    BY <1>7 DEF Target, Deserted, TypeOK
  <2> QED
    BY <1>7, <2>1, <2>2, <2>3, <2>4 DEF Target, TypeOK, feed
<1>8. CASE RecoverNot(g)
  BY <1>8, GiveUpEffect, LeftTypes DEF RecoverNot, TypeOK, feed, Batch, Before, Handled
<1>9. CASE RecoverIdle(g)
  BY <1>9, GoEffect, LeftTypes DEF RecoverIdle, TypeOK, feed, Batch, Before, Handled
<1>10. CASE Terminate(g)
  <2> DEFINE o == gen[g].seen.owner
  <2>1. o \in Gens \ {g} /\ (gen[o].at \in Batch => gen[o].next \in Updates)
    BY <1>10 DEF Terminate
  <2> HIDE DEF o
  <2>2. /\ gen' = [gen EXCEPT ![g].at = "clear", ![o] = Gone]
        /\ runs' = [runs EXCEPT ![o] = NoRun]
        /\ repeated' = repeated \cup Unsaved(o) /\ left' = left \cup Orphans(o) /\ Dead(o)
        /\ UNCHANGED <<feed, lease, session, handled>>
    BY <1>10 DEF Terminate, o
  <2> QED
    BY <2>1, <2>2, TerminateEffect, RunEndEffect, LeftTypes, DeadEffect DEF TypeOK, feed
<1>11. CASE Clear(g)
  BY <1>11, GoUnseenEffect, UnownedIs DEF Clear, TypeOK, feed, Batch, Before, Handled
<1>12. CASE Dispatch(g)
  BY <1>12, GoEffect, HandleEffect DEF Dispatch, TypeOK, feed, Batch, Before, Handled
<1>13. CASE Started(g)
  BY <1>13, GoEffect DEF Started, TypeOK, feed, Batch, Before, Handled
<1>14. CASE Save(g)
  <2>1. gen[g].next \in Updates /\ gen[g].next <= gen[g].last
    BY <1>14 DEF Save, Batch, Handled
  <2>2. UNCHANGED <<sent, low, dropped, lease, session, runs, ipc, handled, left>>
    BY <1>14 DEF Save
  <2>3. gen' \in [Gens -> Process] /\ saved' \in 0 .. MaxUpdate + 1 /\ repeated' \subseteq Updates
    <3>1. saved' \in 1 .. MaxUpdate + 1 => saved' \in 0 .. MaxUpdate + 1
      OBVIOUS
    <3> QED
      BY <1>14, <2>1, <3>1, SaveEffect
  <2> QED
    BY <2>2, <2>3 DEF TypeOK
<1>15. CASE Exit(g)
  BY <1>15, KillEffect DEF Exit, TypeOK, feed, Batch, Before, Handled
<1>16. CASE Activate(g)
  BY <1>16, ActivateEffect DEF Activate, TypeOK, feed, Batch, Before, Handled
<1> QED
  BY <1>1, <1>2, <1>3, <1>4, <1>5, <1>6, <1>7, <1>8, <1>9, <1>10, <1>11, <1>12, <1>13, <1>14, <1>15, <1>16 DEF LoopStep

\* The steps of runs, of rollouts and of faults keep the types.
LEMMA RunTyped ==
    ASSUME TypeOK, RolesHold, NEW g \in Gens,
           \/ Refuse(g) \/ Finish(g) \/ Settle(g) \/ Mark(g) \/ RolloutFails(g) \/ Retire(g)
           \/ Die(g) \/ Throw(g) \/ TerminateFails(g) \/ \E h \in Gens : Spawn(g, h)
    PROVE  TypeOK'
<1> USE UpdateFeedAssumption, Places, RolesFields, Fields
<1>1. CASE Refuse(g)
  BY <1>1, RunEndEffect DEF Refuse, TypeOK, feed, Batch, Before, Handled
<1>2. CASE Finish(g)
  BY <1>2, RunEndEffect DEF Finish, TypeOK, feed, Batch, Before, Handled
<1>3. CASE Settle(g)
  BY <1>3, RunEndEffect, SettleEffect DEF Settle, TypeOK, feed, Batch, Before, Handled
<1>4. CASE Mark(g)
  BY <1>4, MarkEffect, MarkSession DEF Mark, TypeOK, feed, Batch, Before, Handled
<1>5. CASE RolloutFails(g)
  BY <1>5, RolloutFailsEffect, RolesFields DEF RolloutFails, TypeOK, feed, Batch, Before, Handled
<1>6. CASE Retire(g)
  <2>1. UNCHANGED <<feed, session, runs, ipc, handled>> /\ lease' = Nobody /\ left' \subseteq Gens
    BY <1>6 DEF Retire, TypeOK
  <2>2. gen' \in [Gens -> Process] /\ repeated' \subseteq Updates
    BY <1>6, RetireEffect
  <2> QED
    BY <2>1, <2>2 DEF TypeOK, feed
<1>7. CASE Die(g)
  BY <1>7, KillEffect, RunEndEffect, DeadEffect, LeftTypes DEF Die, TypeOK, feed, Batch, Before, Handled
<1>8. CASE Throw(g)
  BY <1>8, GiveUpEffect DEF Throw, TypeOK, feed, Batch, Before, Handled
<1>9. CASE TerminateFails(g)
  <2>1. UNCHANGED <<feed, lease, session, runs, ipc, handled>> /\ left' \subseteq Gens
    BY <1>9 DEF TerminateFails, TypeOK
  <2>2. gen' \in [Gens -> Process] /\ repeated' \subseteq Updates
    BY <1>9, GoUnseenEffect, GiveUpEffect DEF TerminateFails, TypeOK
  <2> QED
    BY <2>1, <2>2 DEF TypeOK, feed
<1>10. ASSUME NEW h \in Gens, Spawn(g, h) PROVE TypeOK'
  BY <1>10, SpawnEffect DEF Spawn, TypeOK, feed
<1> QED
  BY <1>1, <1>2, <1>3, <1>4, <1>5, <1>6, <1>7, <1>8, <1>9, <1>10

\* The steps of requests keep the types.
LEMMA RequestTyped ==
    ASSUME TypeOK, NEW r \in ipc,
           Serve(r) \/ ServeThrows(r) \/ Reply(r) \/ HangUp(r) \/ Timeout(r)
    PROVE  TypeOK'
<1> USE RequestFields, EditRequest, Places
<1>1. CASE Serve(r)
  BY <1>1, HandleEffect DEF Serve, TypeOK, feed
<1>2. CASE ServeThrows(r)
  BY <1>2, GiveUpEffect DEF ServeThrows, TypeOK, feed
<1>3. CASE Reply(r)
  BY <1>3, GoUnseenEffect DEF Reply, TypeOK, feed
<1>4. CASE HangUp(r)
  BY <1>4, GoEffect DEF HangUp, TypeOK, feed
<1>5. CASE Timeout(r)
  BY <1>5, GoEffect DEF Timeout, TypeOK, feed
<1> QED
  BY <1>1, <1>2, <1>3, <1>4, <1>5

\* Every step keeps the types.
LEMMA TypeStep ==
    ASSUME TypeOK, RolesHold, [Next]_vars
    PROVE  TypeOK'
<1>1. CASE Next
  <2>1. CASE Send
    BY <2>1, UpdateFeedAssumption DEF Send, TypeOK
  <2>2. CASE Done
    BY <2>2 DEF Done, vars, TypeOK
  <2> QED
    BY <1>1, <2>1, <2>2, LoopTyped, RunTyped, RequestTyped DEF Next
<1>2. CASE UNCHANGED vars
  BY <1>2 DEF vars, TypeOK
<1> QED
  BY <1>1, <1>2
-----------------------------------------------------------------------------
(* Pollers, replacements and batches *)

\* At the start nobody polls.
LEMMA RolesInit == Init => RolesHold
  BY NoProcess, UpdateFeedAssumption
  DEF Init, RolesHold, RoleHolds, Polls, NewProcess, NoRun, Batch, Before, Handled

\* The begin counts keep a bound.
LEMMA BeganStep ==
    ASSUME TypeOK, RolesHold, [Next]_vars
    PROVE  \E b \in Nat : \A h \in Gens : runs'[h].began <= b
<1>1. PICK b \in Nat : \A h \in Gens : runs[h].began <= b
  BY DEF RolesHold
<1>2. SUFFICES ASSUME ~ \E g \in Gens : Activate(g)
      PROVE \A h \in Gens : runs'[h].began <= runs[h].began
  <2>1. ASSUME \A h \in Gens : runs'[h].began <= runs[h].began, TypeOK'
        PROVE  \A h \in Gens : runs'[h].began <= b
    <3>1. \A h \in Gens : runs[h].began \in Nat /\ runs'[h].began \in Nat
      BY <2>1 DEF TypeOK, Run
    <3> QED
      BY <1>1, <2>1, <3>1
  <2> QED
    BY <2>1, TypeStep, ActivateEffect
<1>3. \A h \in Gens : runs[h].began \in Nat
  BY Fields
<1>4. (\A h \in Gens : runs'[h].began = runs[h].began) =>
        \A h \in Gens : runs'[h].began <= runs[h].began
  BY <1>3
<1>5. ASSUME NEW g \in Gens, Handle(g, gen[g].next), gen[g].next \in Updates
      PROVE  \A h \in Gens : runs'[h].began <= runs[h].began
  BY <1>4, <1>5, HandleEffect
<1>6. ASSUME NEW g \in Gens, runs' = [runs EXCEPT ![g] = NoRun] \/ Finish(g)
      PROVE  \A h \in Gens : runs'[h].began <= runs[h].began
  BY <1>6, RunEndEffect
<1>7. CASE UNCHANGED runs
  BY <1>4, <1>7
<1>8. ASSUME NEW g \in Gens, LoopStep(g)
      PROVE  \A h \in Gens : runs'[h].began <= runs[h].began
  <2>1. CASE Terminate(g)
    BY <1>6, <2>1, RolesFields DEF Terminate
  <2>2. CASE Dispatch(g)
    BY <1>5, <2>2, RolesFields DEF Dispatch, Batch, Before
  <2> QED
    BY <1>2, <1>7, <1>8, <2>1, <2>2
    DEF LoopStep, StartService, Acquire, RecoverStale, Bootstrap, Poll, Route, Target,
        RecoverNot, RecoverIdle, Clear, Started, Save, Exit
<1>9. ASSUME NEW g \in Gens,
             \/ Refuse(g) \/ Finish(g) \/ Settle(g) \/ Mark(g) \/ RolloutFails(g) \/ Retire(g)
             \/ Die(g) \/ Throw(g) \/ TerminateFails(g) \/ \E h \in Gens : Spawn(g, h)
      PROVE  \A h \in Gens : runs'[h].began <= runs[h].began
  BY <1>6, <1>7, <1>9
  DEF Refuse, Settle, Mark, RolloutFails, Retire, Die, Throw, TerminateFails, Spawn
<1>10. ASSUME NEW r \in ipc, Serve(r) \/ ServeThrows(r) \/ Reply(r) \/ HangUp(r) \/ Timeout(r)
       PROVE  \A h \in Gens : runs'[h].began <= runs[h].began
  <2>1. CASE Serve(r)
    BY <1>4, <2>1, RequestFields, HandleEffect DEF Serve
  <2> QED
    BY <1>7, <1>10, <2>1 DEF ServeThrows, Reply, HangUp, Timeout
<1> QED
  BY <1>7, <1>8, <1>9, <1>10 DEF Next, Send, Done, vars
\* The steps of a process that is neither off, standing by nor dead.
Inside == {"leading", "boot", "poll"} \cup Batch

\* A process that moves on within its life keeps all roles.
LEMMA MoveRoles ==
    ASSUME TypeOK, RolesHold, NEW g \in Gens, gen' \in [Gens -> Process], Others({g}), SameRole(g),
           UNCHANGED lease, gen[g].at \in Inside, gen'[g].at \in Inside,
           gen'[g].at \in Batch => gen'[g].next \in Updates /\ gen'[g].next <= gen'[g].last,
           gen'[g].at \in {"target", "wait", "recover", "clear"}
             => gen'[g].seen.owner \in Gens \ {g}
    PROVE  \A h \in Gens : RoleHolds(h)'
<1> SUFFICES ASSUME NEW h \in Gens PROVE RoleHolds(h)'
  OBVIOUS
<1>1. Polls(h)' <=> Polls(h)
  BY DEF Polls, Others, SameRole, Inside, Batch, Before, Handled
<1>2. gen'[h].child = gen[h].child
  BY DEF Others, SameRole
<1>3. ASSUME gen[h].child # Nobody
      PROVE  gen'[gen[h].child].at \in {"standby", "dead"}
  <2>1. gen[h].child \in Gens /\ gen[gen[h].child].at \in {"standby", "dead"}
    BY <1>3, Fields DEF RolesHold, RoleHolds
  <2>2. gen[h].child # g
    BY <2>1 DEF Inside, Batch, Before, Handled
  <2> QED
    BY <2>1, <2>2 DEF Others
<1>4. /\ gen'[h].at \in Batch => gen'[h].next \in Updates /\ gen'[h].next <= gen'[h].last
      /\ gen'[h].at \in {"target", "wait", "recover", "clear"}
           => gen'[h].seen.owner \in Gens \ {h}
  BY DEF RolesHold, RoleHolds, Others
<1> QED
  BY <1>1, <1>2, <1>3, <1>4 DEF RolesHold, RoleHolds

\* A process k that dies is nobody's to wait for.
LEMMA KillRoles ==
    ASSUME TypeOK, RolesHold, NEW k \in Gens, Others({k}), gen'[k] = Gone, UNCHANGED lease
    PROVE  \A h \in Gens : RoleHolds(h)'
<1> SUFFICES ASSUME NEW h \in Gens PROVE RoleHolds(h)'
  OBVIOUS
<1>1. CASE h = k
  BY <1>1, GoneIs DEF RoleHolds, Polls, Batch, Before, Handled
<1>2. CASE h # k
  <2>1. gen'[h] = gen[h] /\ RoleHolds(h)
    BY <1>2 DEF Others, RolesHold
  <2>2. gen[h].child \in Gens \cup {Nobody}
    BY Fields
  <2>3. gen[h].child # Nobody => gen'[gen[h].child].at \in {"standby", "dead"}
    BY <2>1, <2>2, GoneIs DEF RoleHolds, Others
  <2> QED
    BY <2>1, <2>3 DEF RoleHolds, Polls
<1> QED
  BY <1>1, <1>2

\* Nobody else polls while the lease is not held by a living process.
LEMMA LeaseOfPoller ==
    ASSUME TypeOK, RolesHold, NEW g \in Gens, Polls(g)
    PROVE  lease = g /\ g \in Living /\ \A h \in Gens \ {g} : ~Polls(h)
  BY UpdateFeedAssumption DEF RolesHold, RoleHolds, Polls, Living, Alive

\* Where a process is when it goes on to another place, and its batch stays.
LEMMA GoRoles ==
    ASSUME TypeOK, RolesHold, NEW g \in Gens, NEW p \in Place,
           Go(g, p) \/ GoUnseen(g, p), UNCHANGED lease,
           gen[g].at \in Inside, p \in Inside, p \in Batch => gen[g].at \in Batch,
           p \in {"target", "wait", "recover", "clear"} =>
              Go(g, p) /\ gen[g].at \in {"target", "wait", "recover", "clear"}
    PROVE  \A h \in Gens : RoleHolds(h)'
<1>1. /\ gen' \in [Gens -> Process] /\ Others({g}) /\ gen'[g].at = p /\ SameBatch(g) /\ SameRole(g)
      /\ Go(g, p) => gen'[g].seen = gen[g].seen
  BY GoEffect, GoUnseenEffect
<1>2. gen'[g].at \in Batch => gen'[g].next \in Updates /\ gen'[g].next <= gen'[g].last
  BY <1>1, RolesFields DEF SameBatch
<1>3. gen'[g].at \in {"target", "wait", "recover", "clear"} => gen'[g].seen.owner \in Gens \ {g}
  BY <1>1, RolesFields
<1> QED
  BY <1>1, <1>2, <1>3, MoveRoles

\* To give a batch up keeps all roles.
LEMMA GiveUpRoles ==
    ASSUME TypeOK, RolesHold, NEW g \in Gens, GiveUp(g), UNCHANGED lease, gen[g].at \in Inside
    PROVE  \A h \in Gens : RoleHolds(h)'
<1>1. "poll" \in Inside /\ "poll" \notin Batch
  BY DEF Inside, Batch, Before, Handled
<1> QED
  BY <1>1, GiveUpEffect, MoveRoles

\* The steps of the update loop keep the roles.
LEMMA RolesLoop ==
    ASSUME TypeOK, RolesHold, NEW g \in Gens, LoopStep(g)
    PROVE  \A h \in Gens : RoleHolds(h)'
<1> USE DEF Batch, Before, Handled, Inside
<1>1. CASE StartService(g)
  <2>1. /\ gen[g].at = "off" /\ \A h \in Gens : gen[h].at \in {"off", "dead"}
        /\ Go(g, "standby") /\ UNCHANGED lease
    BY <1>1 DEF StartService, Alive
  <2>2. Others({g}) /\ gen'[g].at = "standby" /\ SameRole(g)
    BY <2>1, Places, GoEffect
  <2>3. \A h \in Gens : gen'[h].at \in {"off", "standby", "dead"} /\ gen'[h].child = Nobody
    BY <2>1, <2>2 DEF Others, SameRole, RolesHold, RoleHolds, Polls
  <2> QED
    BY <2>3 DEF RoleHolds, Polls
<1>2. CASE Acquire(g)
  <2>1. gen[g].at = "standby" /\ lease \notin Living /\ lease' = g /\ Go(g, "leading")
    BY <1>2 DEF Acquire
  <2>2. Others({g}) /\ gen'[g].at = "leading" /\ SameRole(g)
    BY <2>1, Places, GoEffect
  <2>3. \A h \in Gens : ~Polls(h) /\ gen[h].child = Nobody
    BY <2>1, LeaseOfPoller DEF RolesHold, RoleHolds
  <2>4. \A h \in Gens : gen'[h].child = Nobody /\ (h # g => ~Polls(h)')
    BY <2>2, <2>3 DEF Others, SameRole, Polls
  <2> QED
    BY <2>1, <2>2, <2>4 DEF RolesHold, RoleHolds, Others
<1>3. CASE RecoverStale(g)
  BY <1>3, Places, GoRoles DEF RecoverStale
<1>4. CASE Bootstrap(g)
  BY <1>4, BootstrapStep, MoveRoles
<1>5. CASE Poll(g)
  <2>1. CASE UNCHANGED gen
    BY <1>5, <2>1, PollStep DEF RolesHold, RoleHolds, Polls
  <2>2. CASE ~UNCHANGED gen
    BY <1>5, <2>2, PollStep, MoveRoles
  <2> QED
    BY <2>1, <2>2
<1>6. CASE Route(g)
  <2>1. CASE Go(g, "dispatch")
    BY <1>6, <2>1, Places, GoRoles DEF Route
  <2>2. CASE ~Go(g, "dispatch")
    <3>1. /\ gen' = [gen EXCEPT ![g].at = "target", ![g].seen = session]
          /\ ShouldForward(session, g) /\ gen[g].at = "route" /\ UNCHANGED lease
      BY <1>6, <2>2 DEF Route
    <3>2. session.owner \in Gens \ {g}
      BY <3>1 DEF ShouldForward, TypeOK, Session
    <3>3. /\ gen' \in [Gens -> Process] /\ Others({g})
          /\ gen'[g].at = "target" /\ gen'[g].seen = session /\ SameBatch(g) /\ SameRole(g)
      BY <3>1, RouteEffect
    <3>4. gen'[g].next \in Updates /\ gen'[g].next <= gen'[g].last
      BY <3>1, <3>3, RolesFields DEF SameBatch
    <3> QED
      BY <3>1, <3>2, <3>3, <3>4, MoveRoles
  <2> QED
    BY <2>1, <2>2
<1>7. CASE Target(g)
  BY <1>7, Places, GoRoles DEF Target
<1>8. CASE RecoverNot(g)
  BY <1>8, GiveUpRoles DEF RecoverNot
<1>9. CASE RecoverIdle(g)
  BY <1>9, Places, GoRoles DEF RecoverIdle
<1>10. CASE Terminate(g)
  <2> DEFINE o == gen[g].seen.owner
  <2>1. o \in Gens \ {g} /\ gen[g].at = "recover"
    BY <1>10, RolesFields DEF Terminate
  <2> HIDE DEF o
  <2>2. gen' = [gen EXCEPT ![g].at = "clear", ![o] = Gone] /\ UNCHANGED lease
    BY <1>10 DEF Terminate, o
  <2>3. /\ Others({g, o}) /\ gen'[o] = Gone
        /\ gen'[g].at = "clear" /\ gen'[g].seen = gen[g].seen /\ SameBatch(g) /\ SameRole(g)
    BY <2>1, <2>2, TerminateEffect
  <2>4. ASSUME NEW h \in Gens PROVE RoleHolds(h)'
    <3>1. CASE h = o
      BY <2>3, <3>1, GoneIs DEF RoleHolds, Polls
    <3>2. CASE h # o
      <4>1. /\ Polls(h)' <=> Polls(h)
            /\ gen'[h].child = gen[h].child /\ gen'[h].next = gen[h].next
            /\ gen'[h].last = gen[h].last /\ gen'[h].seen = gen[h].seen
            /\ gen'[h].at = IF h = g THEN "clear" ELSE gen[h].at
        BY <2>1, <2>3, <3>2 DEF Polls, Others, SameBatch, SameRole
      <4>2. gen[h].child # Nobody => gen[h].child \in Gens \ {g}
                                     /\ gen'[gen[h].child].at \in {"standby", "dead"}
        BY <2>1, <2>3, Fields, GoneIs DEF Others, RolesHold, RoleHolds
      <4> QED
        BY <2>1, <2>2, <4>1, <4>2 DEF RolesHold, RoleHolds
    <3> QED
      BY <3>1, <3>2
  <2> QED
    BY <2>4
<1>11. CASE Clear(g)
  BY <1>11, Places, GoRoles DEF Clear
<1>12. CASE Dispatch(g)
  BY <1>12, Places, GoRoles DEF Dispatch
<1>13. CASE Started(g)
  BY <1>13, Places, GoRoles DEF Started
<1>14. CASE Save(g)
  BY <1>14, RolesFields, SaveEffect, MoveRoles DEF Save
<1>15. CASE Exit(g)
  BY <1>15, KillEffect, KillRoles DEF Exit
<1>16. CASE Activate(g)
  BY <1>16 DEF Activate, RolesHold, RoleHolds, Polls
<1> QED
  BY <1>1, <1>2, <1>3, <1>4, <1>5, <1>6, <1>7, <1>8, <1>9, <1>10, <1>11, <1>12, <1>13, <1>14,
     <1>15, <1>16 DEF LoopStep
\* The steps of runs, of rollouts and of faults keep the roles.
LEMMA RolesRun ==
    ASSUME TypeOK, RolesHold, NEW g \in Gens,
           \/ Refuse(g) \/ Finish(g) \/ Settle(g) \/ Mark(g) \/ RolloutFails(g) \/ Retire(g)
           \/ Die(g) \/ Throw(g) \/ TerminateFails(g) \/ \E h \in Gens : Spawn(g, h)
    PROVE  \A h \in Gens : RoleHolds(h)'
<1> USE DEF Batch, Before, Handled, Inside
<1>1. CASE UNCHANGED <<gen, lease>>
  BY <1>1 DEF RolesHold, RoleHolds, Polls
<1>2. CASE Mark(g)
  <2>1. gen[g].at \in Inside /\ UNCHANGED lease
    BY <1>2, Fields DEF Mark, Leader, Place
  <2>2. Others({g}) /\ SameRole(g) /\ SameBatch(g) /\ gen' \in [Gens -> Process]
        /\ gen'[g].at = gen[g].at /\ gen'[g].seen = gen[g].seen
    BY <1>2, MarkEffect
  <2>3. /\ gen'[g].at \in Batch => gen'[g].next \in Updates /\ gen'[g].next <= gen'[g].last
        /\ gen'[g].at \in {"target", "wait", "recover", "clear"}
             => gen'[g].seen.owner \in Gens \ {g}
    BY <2>2, RolesFields DEF SameBatch
  <2> QED
    BY <2>1, <2>2, <2>3, MoveRoles
<1>3. CASE RolloutFails(g)
  <2> DEFINE c == gen[g].child
  <2>1. c \in Gens \ {g} /\ UNCHANGED lease
    BY <1>3, RolesFields DEF RolloutFails
  <2>2. /\ Others({g, c}) /\ gen'[c] = Gone
        /\ gen'[g].at = gen[g].at /\ gen'[g].seen = gen[g].seen /\ SameBatch(g)
        /\ gen'[g].child = Nobody /\ gen'[g].retiring = gen[g].retiring
    BY <1>3, <2>1, RolloutFailsEffect
  <2> HIDE DEF c
  <2>3. ASSUME NEW h \in Gens PROVE RoleHolds(h)'
    <3>1. CASE h = c
      BY <2>2, <3>1, GoneIs DEF RoleHolds, Polls
    <3>2. CASE h = g
      BY <2>1, <2>2, <3>2 DEF RolesHold, RoleHolds, Polls, SameBatch
    <3>3. CASE h \notin {c, g}
      <4>1. gen'[h] = gen[h] /\ (Polls(h)' <=> Polls(h))
        BY <2>2, <3>3 DEF Others, Polls
      <4>2. gen[h].child # Nobody => FALSE
        BY <1>3, <3>3, LeaseOfPoller DEF RolloutFails, Leader, RolesHold, RoleHolds
      <4> QED
        BY <2>1, <4>1, <4>2 DEF RolesHold, RoleHolds
    <3> QED
      BY <3>1, <3>2, <3>3
  <2> QED
    BY <2>3
<1>4. CASE Retire(g)
  <2>1. /\ Others({g}) /\ gen'[g].at = gen[g].at /\ gen'[g].seen = gen[g].seen /\ SameBatch(g)
        /\ gen'[g].child = Nobody /\ gen'[g].retiring
    BY <1>4, RetireEffect
  <2>2. Polls(g)
    BY <1>4 DEF Retire, Leader, Polls
  <2>3. \A h \in Gens \ {g} : ~Polls(h) /\ gen[h].child = Nobody
    BY <2>2, LeaseOfPoller DEF RolesHold, RoleHolds
  <2> QED
    BY <2>1, <2>2, <2>3 DEF RolesHold, RoleHolds, Polls, Others, SameBatch
<1>5. CASE Die(g)
  BY <1>5, KillEffect, KillRoles DEF Die
<1>6. CASE Throw(g)
  BY <1>6, GiveUpRoles DEF Throw
<1>7. CASE TerminateFails(g)
  BY <1>7, Places, GoRoles, GiveUpRoles DEF TerminateFails
<1>8. ASSUME NEW k \in Gens, Spawn(g, k) PROVE \A h \in Gens : RoleHolds(h)'
  <2>1. /\ Others({g, k}) /\ g # k
        /\ gen'[g].child = k /\ gen'[g].at = gen[g].at /\ gen'[g].retiring = gen[g].retiring
        /\ gen'[g].seen = gen[g].seen /\ SameBatch(g)
        /\ gen'[k].at = "standby" /\ gen'[k].child = gen[k].child
    BY <1>8, SpawnEffect
  <2>2. Polls(g) /\ gen[k].at = "off" /\ UNCHANGED lease
    BY <1>8 DEF Spawn, Leader, Polls
  <2>3. \A h \in Gens \ {g} : gen[h].child = Nobody
    BY <2>2, LeaseOfPoller DEF RolesHold, RoleHolds
  <2> QED
    BY <2>1, <2>2, <2>3 DEF RolesHold, RoleHolds, Polls, Others, SameBatch
<1> QED
  BY <1>1, <1>2, <1>3, <1>4, <1>5, <1>6, <1>7, <1>8 DEF Refuse, Finish, Settle

\* The steps of requests keep the roles.
LEMMA RolesRequest ==
    ASSUME TypeOK, RolesHold, RequestsHold, NEW r \in ipc,
           Serve(r) \/ ServeThrows(r) \/ Reply(r) \/ HangUp(r) \/ Timeout(r)
    PROVE  \A h \in Gens : RoleHolds(h)'
<1>1. r.from \in Gens /\ (r.awaited => gen[r.from].at = "wait")
      /\ "wait" \in Inside /\ "save" \in Inside /\ "recover" \in Inside /\ "wait" \in Batch
  BY RequestFields DEF RequestsHold, Inside, Batch, Before, Handled
<1>2. CASE UNCHANGED <<gen, lease>>
  BY <1>2 DEF RolesHold, RoleHolds, Polls
<1>3. CASE ServeThrows(r)
  BY <1>1, <1>2, <1>3, GiveUpRoles DEF ServeThrows
<1>4. CASE Reply(r)
  BY <1>1, <1>2, <1>4, Places, GoRoles DEF Reply
<1>5. CASE HangUp(r)
  BY <1>1, <1>2, <1>5, Places, GoRoles DEF HangUp
<1>6. CASE Timeout(r)
  BY <1>1, <1>2, <1>6, Places, GoRoles DEF Timeout
<1>7. CASE Serve(r)
  BY <1>2, <1>7 DEF Serve
<1> QED
  BY <1>3, <1>4, <1>5, <1>6, <1>7

\* Every step keeps the roles.
LEMMA RolesStep ==
    ASSUME TypeOK, RolesHold, RequestsHold, [Next]_vars
    PROVE  RolesHold'
<1>1. CASE UNCHANGED <<gen, lease>>
  BY <1>1, BeganStep DEF RolesHold, RoleHolds, Polls
<1>2. CASE Next
  <2>1. \A h \in Gens : RoleHolds(h)'
    BY <1>1, <1>2, RolesLoop, RolesRun, RolesRequest DEF Next, Send, Done, vars, RolesHold
  <2> QED
    BY <2>1, BeganStep DEF RolesHold
<1> QED
  BY <1>1, <1>2 DEF vars
-----------------------------------------------------------------------------
(* Requests *)

\* At the start there is no request.
LEMMA RequestsInit == Init => RequestsHold
  BY DEF Init, RequestsHold

\* What waits goes on to wait with what it has; handled updates stay handled.
StillWait(g) == gen[g].at = "wait" => gen'[g].at = "wait" /\ gen'[g].next = gen[g].next
HandledStays == \A u \in Updates : handled[u] > 0 => handled'[u] > 0

\* A step that leaves the requests alone and lets the senders wait keeps RequestsHold.
LEMMA QuietRequests ==
    ASSUME TypeOK, RequestsHold, UNCHANGED ipc, HandledStays, \A g \in Gens : StillWait(g)
    PROVE  RequestsHold'
<1>1. \A r \in ipc : r.from \in Gens /\ r.update \in Updates
  BY RequestFields
<1> QED
  BY <1>1 DEF RequestsHold, StillWait, HandledStays

\* So does the death of a process.
LEMMA DeadRequests ==
    ASSUME TypeOK, RequestsHold, NEW g \in Gens, Dead(g), UNCHANGED handled,
           \A h \in Gens \ {g} : StillWait(h)
    PROVE  RequestsHold'
<1>1. \A r \in ipc' : \E s \in ipc :
         /\ r.from = s.from /\ r.update = s.update /\ r.served = s.served
         /\ (r.awaited <=> s.awaited /\ s.from # g) /\ (s.from # g => r = s)
  BY DeadEffect
<1>2. \A r \in ipc : r.from \in Gens
  BY RequestFields
<1>3. ASSUME NEW r \in ipc'
      PROVE  /\ r.awaited => gen'[r.from].at = "wait" /\ gen'[r.from].next = r.update
             /\ r.served => handled'[r.update] > 0
  BY <1>1, <1>2 DEF RequestsHold, StillWait
<1>4. ASSUME NEW r \in ipc', NEW s \in ipc', r.awaited, s.awaited, r.from = s.from
      PROVE  r = s
  BY <1>1, <1>4 DEF RequestsHold
<1> QED
  BY <1>3, <1>4 DEF RequestsHold

\* What was handled stays handled.
LEMMA HandledStaysSo ==
    ASSUME TypeOK, RolesHold, RequestsHold, [Next]_vars
    PROVE  HandledStays
<1>1. CASE UNCHANGED handled
  BY <1>1 DEF HandledStays
<1>2. ASSUME NEW g \in Gens, Dispatch(g) PROVE HandledStays
  <2>1. gen[g].next \in Updates /\ Handle(g, gen[g].next)
    BY <1>2, RolesFields DEF Dispatch, Batch, Before
  <2> QED
    BY <2>1, HandleEffect DEF HandledStays
<1>3. ASSUME NEW r \in ipc, Serve(r) PROVE HandledStays
  <2>1. r.to \in Gens /\ r.update \in Updates /\ Handle(r.to, r.update)
    BY <1>3, RequestFields DEF Serve
  <2> QED
    BY <2>1, HandleEffect DEF HandledStays
<1>4. ASSUME NEW g \in Gens, LoopStep(g) PROVE HandledStays
  BY <1>1, <1>2, <1>4
  DEF LoopStep, StartService, Acquire, RecoverStale, Bootstrap, Poll, Route, Target,
      RecoverNot, RecoverIdle, Terminate, Clear, Started, Save, Exit, Activate
<1>5. ASSUME NEW g \in Gens,
             \/ Refuse(g) \/ Finish(g) \/ Settle(g) \/ Mark(g) \/ RolloutFails(g) \/ Retire(g)
             \/ Die(g) \/ Throw(g) \/ TerminateFails(g) \/ \E h \in Gens : Spawn(g, h)
      PROVE  HandledStays
  BY <1>1, <1>5
  DEF Refuse, Finish, Settle, Mark, RolloutFails, Retire, Die, Throw, TerminateFails, Spawn
<1>6. ASSUME NEW r \in ipc, Serve(r) \/ ServeThrows(r) \/ Reply(r) \/ HangUp(r) \/ Timeout(r)
      PROVE  HandledStays
  BY <1>1, <1>3, <1>6 DEF ServeThrows, Reply, HangUp, Timeout
<1> QED
  BY <1>1, <1>4, <1>5, <1>6 DEF Next, Send, Done, vars

\* The steps of the update loop keep RequestsHold.
LEMMA RequestsLoop ==
    ASSUME TypeOK, RolesHold, RequestsHold, HandledStays, NEW g \in Gens, LoopStep(g)
    PROVE  RequestsHold'
<1>1. ASSUME Others({g}), gen[g].at # "wait", UNCHANGED ipc PROVE RequestsHold'
  BY <1>1, QuietRequests DEF Others, StillWait
<1>2. CASE Others({g}) /\ gen[g].at # "wait" /\ UNCHANGED ipc
  BY <1>1, <1>2
<1>3. ASSUME NEW p \in Place, Go(g, p) \/ GoUnseen(g, p), gen[g].at # "wait", UNCHANGED ipc
      PROVE  RequestsHold'
  BY <1>1, <1>3, GoEffect, GoUnseenEffect
<1>4. CASE StartService(g) \/ Acquire(g) \/ RecoverStale(g)
  BY <1>3, <1>4, Places DEF StartService, Acquire, RecoverStale
<1>5. CASE Bootstrap(g)
  BY <1>1, <1>5, BootstrapStep
<1>6. CASE Poll(g)
  <2>1. CASE UNCHANGED gen
    BY <1>6, <2>1, PollStep, QuietRequests DEF StillWait
  <2>2. CASE ~UNCHANGED gen
    BY <1>1, <1>6, <2>2, PollStep
  <2> QED
    BY <2>1, <2>2
<1>7. CASE Route(g)
  BY <1>1, <1>3, <1>7, Places, RouteEffect DEF Route
<1>8. CASE Target(g)
  <2>1. CASE Forwards(g)
    <3> DEFINE q == [from |-> g, to |-> gen[g].seen.owner,
                     update |-> gen[g].next, served |-> FALSE, awaited |-> TRUE]
    <3>1. Go(g, "wait") /\ ipc' = ipc \cup {q} /\ gen[g].at = "target" /\ UNCHANGED handled
      BY <1>8, <2>1 DEF Target, Forwards
    <3>2. /\ Others({g}) /\ gen'[g].at = "wait" /\ gen'[g].next = gen[g].next
      BY <3>1, Places, GoEffect DEF SameBatch
    <3>3. q.from = g /\ q.update = gen[g].next /\ ~q.served
      OBVIOUS
    <3>4. \A r \in ipc : r.awaited => r.from # g /\ r.from \in Gens
      BY <3>1, RequestFields DEF RequestsHold
    <3> HIDE DEF q
    <3>5. ASSUME NEW r \in ipc'
          PROVE  /\ r.awaited => gen'[r.from].at = "wait" /\ gen'[r.from].next = r.update
                 /\ r.served => handled'[r.update] > 0
      BY <3>1, <3>2, <3>3, <3>4 DEF RequestsHold, Others
    <3>6. ASSUME NEW r \in ipc', NEW s \in ipc', r.awaited, s.awaited, r.from = s.from
          PROVE  r = s
      BY <3>1, <3>3, <3>4, <3>6 DEF RequestsHold
    <3> QED
      BY <3>5, <3>6 DEF RequestsHold
  <2>2. CASE Disowns(g)
    BY <1>3, <1>8, <2>2, Places DEF Target, Disowns
  <2> QED
    BY <1>8, <2>1, <2>2, TargetCases
<1>9. CASE RecoverNot(g)
  BY <1>1, <1>9, GiveUpEffect DEF RecoverNot
<1>10. CASE RecoverIdle(g)
  BY <1>3, <1>10, Places DEF RecoverIdle
<1>11. CASE Terminate(g)
  <2> DEFINE o == gen[g].seen.owner
  <2>1. o \in Gens \ {g} /\ gen[g].at = "recover"
    BY <1>11, RolesFields DEF Terminate
  <2> HIDE DEF o
  <2>2. gen' = [gen EXCEPT ![g].at = "clear", ![o] = Gone] /\ Dead(o) /\ UNCHANGED handled
    BY <1>11 DEF Terminate, o
  <2>3. Others({g, o})
    BY <2>1, <2>2, TerminateEffect
  <2>4. \A h \in Gens \ {o} : StillWait(h)
    BY <2>1, <2>3 DEF Others, StillWait
  <2> QED
    BY <2>1, <2>2, <2>4, DeadRequests
<1>12. CASE Clear(g) \/ Dispatch(g) \/ Started(g)
  BY <1>3, <1>12, Places DEF Clear, Dispatch, Started
<1>13. CASE Save(g)
  BY <1>1, <1>13, SaveEffect, RolesFields DEF Save, Batch, Handled
<1>14. CASE Exit(g)
  BY <1>1, <1>14, KillEffect DEF Exit
<1>15. CASE Activate(g)
  BY <1>15, QuietRequests DEF Activate, StillWait
<1> QED
  BY <1>4, <1>5, <1>6, <1>7, <1>8, <1>9, <1>10, <1>11, <1>12, <1>13, <1>14, <1>15 DEF LoopStep

\* The steps of runs, of rollouts and of faults keep RequestsHold.
LEMMA RequestsRun ==
    ASSUME TypeOK, RolesHold, RequestsHold, HandledStays, NEW g \in Gens,
           \/ Refuse(g) \/ Finish(g) \/ Settle(g) \/ Mark(g) \/ RolloutFails(g) \/ Retire(g)
           \/ Die(g) \/ Throw(g) \/ TerminateFails(g) \/ \E h \in Gens : Spawn(g, h)
    PROVE  RequestsHold'
<1>1. CASE UNCHANGED <<gen, ipc>>
  BY <1>1, QuietRequests DEF StillWait
<1>2. ASSUME Others({g}), gen[g].at # "wait" \/ (gen'[g].at = gen[g].at /\ SameBatch(g)),
             UNCHANGED ipc
      PROVE  RequestsHold'
  BY <1>2, QuietRequests DEF Others, StillWait, SameBatch
<1>3. CASE Mark(g)
  BY <1>2, <1>3, MarkEffect DEF Mark
<1>4. CASE RolloutFails(g)
  <2> DEFINE c == gen[g].child
  <2>1. c \in Gens \ {g} /\ UNCHANGED ipc /\ gen[c].at # "wait"
    BY <1>4, RolesFields DEF RolloutFails, RolesHold, RoleHolds
  <2>2. Others({g, c}) /\ gen'[g].at = gen[g].at /\ SameBatch(g)
    BY <1>4, <2>1, RolloutFailsEffect
  <2> HIDE DEF c
  <2> QED
    BY <2>1, <2>2, QuietRequests DEF Others, StillWait, SameBatch
<1>5. CASE Retire(g)
  BY <1>2, <1>5, RetireEffect DEF Retire
<1>6. CASE Die(g)
  BY <1>6, KillEffect, DeadRequests DEF Die, Others, StillWait
<1>7. CASE Throw(g)
  <2>1. GiveUp(g) /\ gen[g].at # "wait" /\ UNCHANGED ipc
    BY <1>7 DEF Throw
  <2>2. Others({g})
    BY <2>1, GiveUpEffect
  <2> QED
    BY <1>2, <2>1, <2>2
<1>8. CASE TerminateFails(g)
  <2>1. (GiveUp(g) \/ GoUnseen(g, "dispatch")) /\ gen[g].at # "wait" /\ UNCHANGED ipc
    BY <1>8 DEF TerminateFails
  <2>2. Others({g})
    BY <2>1, Places, GiveUpEffect, GoUnseenEffect
  <2> QED
    BY <1>2, <2>1, <2>2
<1>9. ASSUME NEW h \in Gens, Spawn(g, h) PROVE RequestsHold'
  <2>1. gen[h].at = "off" /\ UNCHANGED ipc
    BY <1>9 DEF Spawn
  <2>2. Others({g, h}) /\ gen'[g].at = gen[g].at /\ SameBatch(g)
    BY <1>9, SpawnEffect
  <2> QED
    BY <2>1, <2>2, QuietRequests DEF Others, StillWait, SameBatch
<1> QED
  BY <1>1, <1>3, <1>4, <1>5, <1>6, <1>7, <1>8, <1>9 DEF Refuse, Finish, Settle

\* A request leaves, or another takes its place.
LEMMA RequestLeaves ==
    ASSUME TypeOK, RequestsHold, HandledStays, NEW r \in ipc, ipc' = ipc \ {r},
           (r.awaited /\ Others({r.from})) \/ (~r.awaited /\ UNCHANGED gen)
    PROVE  RequestsHold'
<1>1. \A s \in ipc : s.from \in Gens /\ s.update \in Updates
  BY RequestFields
<1>2. \A s \in ipc' : s.awaited => gen'[s.from] = gen[s.from]
  BY <1>1 DEF RequestsHold, Others
<1> QED
  BY <1>1, <1>2 DEF RequestsHold, HandledStays

\* The steps of requests keep RequestsHold.
LEMMA RequestsRequest ==
    ASSUME TypeOK, RolesHold, RequestsHold, HandledStays, NEW r \in ipc,
           Serve(r) \/ ServeThrows(r) \/ Reply(r) \/ HangUp(r) \/ Timeout(r)
    PROVE  RequestsHold'
<1>1. r \in Request /\ r.from \in Gens /\ r.update \in Updates /\ \A s \in ipc : s.from \in Gens /\ s.update \in Updates
  BY RequestFields
<1>2. CASE Serve(r)
  <2> DEFINE q == [r EXCEPT !.served = TRUE]
  <2>1. ipc' = (ipc \ {r}) \cup {q} /\ UNCHANGED gen
    BY <1>2 DEF Serve
  <2>2. q.from = r.from /\ q.update = r.update /\ q.awaited = r.awaited
    BY <1>1 DEF Request
  <2>3. handled'[r.update] > 0
    BY <1>1, <1>2, HandleEffect, RequestFields DEF Serve
  <2> HIDE DEF q
  <2>4. ASSUME NEW s \in ipc'
        PROVE  /\ s.awaited => gen'[s.from].at = "wait" /\ gen'[s.from].next = s.update
               /\ s.served => handled'[s.update] > 0
    BY <1>1, <2>1, <2>2, <2>3 DEF RequestsHold, HandledStays
  <2>5. ASSUME NEW s \in ipc', NEW t \in ipc', s.awaited, t.awaited, s.from = t.from
        PROVE  s = t
    BY <2>1, <2>2, <2>5 DEF RequestsHold
  <2> QED
    BY <2>4, <2>5 DEF RequestsHold
<1>3. CASE ServeThrows(r)
  <2>1. ipc' = ipc \ {r} /\ (IF r.awaited THEN GiveUp(r.from) ELSE UNCHANGED <<gen, repeated>>)
    BY <1>3 DEF ServeThrows
  <2>2. r.awaited => Others({r.from})
    BY <1>1, <2>1, GiveUpEffect
  <2> QED
    BY <2>1, <2>2, RequestLeaves
<1>4. CASE Reply(r)
  <2>1. ipc' = ipc \ {r} /\ (IF r.awaited THEN GoUnseen(r.from, "save") ELSE UNCHANGED gen)
    BY <1>4 DEF Reply
  <2>2. r.awaited => Others({r.from})
    BY <1>1, <2>1, Places, GoUnseenEffect
  <2> QED
    BY <2>1, <2>2, RequestLeaves
<1>5. CASE HangUp(r)
  <2>1. ipc' = ipc \ {r} /\ (IF r.awaited THEN Go(r.from, "recover") ELSE UNCHANGED gen)
    BY <1>5 DEF HangUp
  <2>2. r.awaited => Others({r.from})
    BY <1>1, <2>1, Places, GoEffect
  <2> QED
    BY <2>1, <2>2, RequestLeaves
<1>6. CASE Timeout(r)
  <2> DEFINE q == [r EXCEPT !.awaited = FALSE]
  <2>1. ipc' = (ipc \ {r}) \cup {q} /\ r.awaited /\ Others({r.from}) /\ UNCHANGED handled
    BY <1>1, <1>6, Places, GoEffect DEF Timeout
  <2>2. q.update = r.update /\ q.served = r.served /\ ~q.awaited
    BY <1>1 DEF Request
  <2> HIDE DEF q
  <2>3. ASSUME NEW s \in ipc'
        PROVE  /\ s.awaited => gen'[s.from].at = "wait" /\ gen'[s.from].next = s.update
               /\ s.served => handled'[s.update] > 0
    BY <1>1, <2>1, <2>2 DEF RequestsHold, Others
  <2>4. ASSUME NEW s \in ipc', NEW t \in ipc', s.awaited, t.awaited, s.from = t.from
        PROVE  s = t
    BY <2>1, <2>2, <2>4 DEF RequestsHold
  <2> QED
    BY <2>3, <2>4 DEF RequestsHold
<1> QED
  BY <1>2, <1>3, <1>4, <1>5, <1>6

\* Every step keeps RequestsHold.
LEMMA RequestsStep ==
    ASSUME TypeOK, RolesHold, RequestsHold, [Next]_vars
    PROVE  RequestsHold'
<1>1. HandledStays
  BY HandledStaysSo
<1>2. CASE UNCHANGED <<gen, ipc>>
  BY <1>1, <1>2, QuietRequests DEF StillWait
<1> QED
  BY <1>1, <1>2, RequestsLoop, RequestsRun, RequestsRequest DEF Next, Send, Done, vars
-----------------------------------------------------------------------------
(* Offsets *)

\* At the start every offset is that of the first update.
LEMMA OffsetsInit == Init => OffsetsCovered
  BY UpdateFeedAssumption DEF Init, OffsetsCovered, OffsetHolds, Covered, NewProcess, Batch, Before,
     Handled, Updates

\* A process stays where its offsets are covered, or gives its batch up.
KeepsOffsets(g) ==
    \/ /\ SameBatch(g)
       /\ gen'[g].at \in Batch => gen[g].at \in Batch
       /\ gen'[g].at \in Handled => gen[g].at \in Handled \/ handled'[gen[g].next] > 0
    \/ gen'[g].at \notin Batch /\ (gen'[g].offset = gen[g].offset \/ gen'[g].offset = 0)

\* The offsets of a process stay covered.
LEMMA KeepOffset ==
    ASSUME TypeOK, RolesHold, OffsetsCovered, HandledStays, dropped \subseteq dropped',
           NEW g \in Gens, KeepsOffsets(g)
    PROVE  OffsetHolds(g)'
<1>1. OffsetHolds(g) /\ Handled \subseteq Batch
  BY DEF OffsetsCovered, Batch
<1>2. gen[g].at \in Handled => handled'[gen[g].next] > 0
  BY <1>1, RolesFields DEF OffsetHolds, HandledStays
<1>3. \A u \in Updates : ~(u < 0)
  BY DEF Updates
<1> QED
  BY <1>1, <1>2, <1>3 DEF OffsetHolds, KeepsOffsets, SameBatch, Covered, HandledStays

\* The offsets of all processes stay covered.
LEMMA KeepOffsets ==
    ASSUME TypeOK, RolesHold, OffsetsCovered, HandledStays, UNCHANGED <<low, saved, dropped>>,
           \A g \in Gens : KeepsOffsets(g)
    PROVE  OffsetsCovered'
<1>1. \A g \in Gens : OffsetHolds(g)'
  BY KeepOffset
<1> QED
  BY <1>1 DEF OffsetsCovered, Covered, HandledStays

\* An untouched process keeps its offsets.
LEMMA SameKeeps ==
    ASSUME NEW g \in Gens, gen'[g] = gen[g]
    PROVE  KeepsOffsets(g)
  BY DEF KeepsOffsets, SameBatch

\* A dead process has no offsets to keep.
LEMMA GoneKeeps ==
    ASSUME NEW g \in Gens, gen'[g] = Gone
    PROVE  KeepsOffsets(g)
  BY GoneIs DEF KeepsOffsets, Batch, Before, Handled

\* One process moves on and keeps its offsets.
LEMMA MoveOffsets ==
    ASSUME TypeOK, RolesHold, OffsetsCovered, HandledStays, UNCHANGED <<low, saved, dropped>>,
           NEW g \in Gens, Others({g}), KeepsOffsets(g)
    PROVE  OffsetsCovered'
  BY KeepOffsets, SameKeeps DEF Others

\* A process that only moves keeps its offsets, if what it holds as handled is.
LEMMA GoOffsets ==
    ASSUME TypeOK, RolesHold, OffsetsCovered, HandledStays, UNCHANGED <<low, saved, dropped>>,
           NEW g \in Gens, NEW p \in Place, Go(g, p) \/ GoUnseen(g, p),
           p \in Batch => gen[g].at \in Batch,
           p \in Handled => gen[g].at \in Handled \/ handled'[gen[g].next] > 0
    PROVE  OffsetsCovered'
<1>1. Others({g}) /\ gen'[g].at = p /\ SameBatch(g)
  BY GoEffect, GoUnseenEffect
<1>2. KeepsOffsets(g)
  BY <1>1 DEF KeepsOffsets
<1> QED
  BY <1>1, <1>2, MoveOffsets

\* A process that gives its batch up keeps its offset.
LEMMA GiveUpOffsets ==
    ASSUME TypeOK, RolesHold, OffsetsCovered, HandledStays, UNCHANGED <<low, saved, dropped>>,
           NEW g \in Gens, GiveUp(g)
    PROVE  OffsetsCovered'
<1>1. Others({g}) /\ KeepsOffsets(g)
  BY GiveUpEffect DEF KeepsOffsets, Batch, Before, Handled
<1> QED
  BY <1>1, MoveOffsets

\* The steps of the update loop keep all offsets covered.
LEMMA OffsetsLoop ==
    ASSUME TypeOK, RolesHold, OffsetsCovered, HandledStays, NEW g \in Gens, LoopStep(g)
    PROVE  OffsetsCovered'
<1> USE DEF Batch, Before, Handled
<1>1. CASE StartService(g) \/ Acquire(g) \/ RecoverStale(g)
  BY <1>1, Places, GoOffsets DEF StartService, Acquire, RecoverStale, feed
<1>2. CASE Bootstrap(g)
  <2>1. Others({g}) /\ gen'[g].at = "poll" /\ UNCHANGED handled
    BY <1>2, BootstrapStep
  <2>2. CASE gen'[g].offset = saved /\ UNCHANGED <<low, saved, dropped>>
    <3>1. OffsetHolds(g)'
      BY <2>1, <2>2 DEF OffsetHolds, OffsetsCovered, Covered
    <3>2. \A h \in Gens \ {g} : OffsetHolds(h)'
      BY <2>1, <2>2, KeepOffset, SameKeeps DEF Others
    <3> QED
      BY <2>1, <2>2, <3>1, <3>2 DEF OffsetsCovered, Covered
  <2>3. CASE /\ gen'[g].offset = sent + 1 /\ saved' = sent + 1 /\ low' = sent /\ sent \in Updates
             /\ dropped' = dropped \cup low .. sent /\ low .. sent \subseteq Updates
    <3>1. \A u \in Updates : u < sent + 1 => handled'[u] > 0 \/ u \in dropped'
      <4> SUFFICES ASSUME NEW u \in Updates, u < sent + 1
          PROVE  handled'[u] > 0 \/ u \in dropped'
        OBVIOUS
      <4>1. u \in Nat /\ low \in Nat /\ sent \in Nat
        BY DEF TypeOK, Updates
      <4>2. CASE u < low
        BY <2>1, <2>3, <4>2 DEF OffsetsCovered, Covered
      <4>3. CASE ~(u < low)
        BY <2>3, <4>1, <4>3
      <4> QED
        BY <4>2, <4>3
    <3>2. OffsetHolds(g)'
      BY <2>1, <2>3, <3>1 DEF OffsetHolds, Covered
    <3>3. \A h \in Gens \ {g} : OffsetHolds(h)'
      BY <2>1, <2>3, KeepOffset, SameKeeps DEF Others
    <3>4. \A u \in Updates : u < sent => u < sent + 1
      BY DEF Updates, TypeOK
    <3> QED
      BY <2>3, <3>1, <3>2, <3>3, <3>4 DEF OffsetsCovered, Covered
  <2> QED
    BY <1>2, <2>2, <2>3, BootstrapStep
<1>3. CASE Poll(g)
  <2>1. UNCHANGED <<saved, dropped, handled>> /\ (low' = gen[g].offset \/ low' = low)
    BY <1>3, PollStep
  <2>2. Covered(low)' /\ Covered(saved)'
    BY <2>1 DEF OffsetsCovered, OffsetHolds, Covered
  <2>3. CASE UNCHANGED gen
    BY <2>1, <2>2, <2>3 DEF OffsetsCovered, OffsetHolds, Covered
  <2>4. CASE ~UNCHANGED gen
    <3>1. /\ Others({g}) /\ gen'[g].at = "route" /\ gen'[g].next = low'
          /\ gen'[g].offset = gen[g].offset
      BY <1>3, <2>4, PollStep
    <3>2. OffsetHolds(g)'
      BY <2>1, <2>2, <3>1 DEF OffsetsCovered, OffsetHolds, Covered
    <3>3. \A h \in Gens \ {g} : OffsetHolds(h)'
      BY <2>1, <3>1, KeepOffset, SameKeeps DEF Others
    <3> QED
      BY <2>2, <3>2, <3>3 DEF OffsetsCovered
  <2> QED
    BY <2>3, <2>4
<1>4. CASE Route(g)
  <2>1. gen[g].at = "route" /\ UNCHANGED <<low, saved, dropped>>
    BY <1>4 DEF Route, feed
  <2>2. CASE Go(g, "dispatch")
    BY <2>1, <2>2, Places, GoOffsets
  <2>3. CASE ~Go(g, "dispatch")
    <3>1. Others({g}) /\ gen'[g].at = "target" /\ SameBatch(g)
      BY <1>4, <2>3, RouteEffect DEF Route
    <3>2. KeepsOffsets(g)
      BY <2>1, <3>1 DEF KeepsOffsets
    <3> QED
      BY <2>1, <3>1, <3>2, MoveOffsets
  <2> QED
    BY <2>2, <2>3
<1>5. CASE Target(g)
  BY <1>5, Places, GoOffsets DEF Target, feed
<1>6. CASE RecoverNot(g)
  BY <1>6, GiveUpOffsets DEF RecoverNot, feed
<1>7. CASE RecoverIdle(g)
  BY <1>7, Places, GoOffsets DEF RecoverIdle, feed
<1>8. CASE Terminate(g)
  <2> DEFINE o == gen[g].seen.owner
  <2>1. o \in Gens \ {g} /\ gen[g].at = "recover" /\ UNCHANGED <<low, saved, dropped>>
    BY <1>8, RolesFields DEF Terminate, feed
  <2> HIDE DEF o
  <2>2. gen' = [gen EXCEPT ![g].at = "clear", ![o] = Gone]
    BY <1>8 DEF Terminate, o
  <2>3. Others({g, o}) /\ gen'[o] = Gone /\ gen'[g].at = "clear" /\ SameBatch(g)
    BY <2>1, <2>2, TerminateEffect
  <2>4. KeepsOffsets(g)
    BY <2>1, <2>3 DEF KeepsOffsets
  <2>5. \A h \in Gens : KeepsOffsets(h)
    BY <2>3, <2>4, SameKeeps, GoneKeeps DEF Others
  <2> QED
    BY <2>1, <2>5, KeepOffsets
<1>9. CASE Clear(g) \/ Started(g)
  BY <1>9, Places, GoOffsets DEF Clear, Started, feed
<1>10. CASE Dispatch(g)
  <2>1. /\ gen[g].at = "dispatch" /\ Go(g, "started") /\ UNCHANGED <<low, saved, dropped>>
        /\ Handle(g, gen[g].next) /\ gen[g].next \in Updates
    BY <1>10, RolesFields DEF Dispatch, feed
  <2>2. handled'[gen[g].next] > 0
    BY <2>1, HandleEffect
  <2> QED
    BY <2>1, <2>2, Places, GoOffsets
<1>11. CASE Save(g)
  <2>1. /\ gen[g].at = "save" /\ gen[g].next \in Updates /\ gen[g].next <= gen[g].last
        /\ UNCHANGED <<low, dropped, handled>>
    BY <1>11, RolesFields DEF Save
  <2>2. /\ Others({g}) /\ saved' = gen[g].next + 1
        /\ \/ gen'[g].at = "poll" /\ gen'[g].offset = gen[g].next + 1
           \/ /\ gen'[g].at = "route" /\ gen'[g].next = gen[g].next + 1
              /\ gen'[g].offset = gen[g].offset
    BY <1>11, <2>1, SaveEffect
  <2>3. \A u \in Updates : u < gen[g].next + 1 => handled[u] > 0 \/ u \in dropped
    <3>1. OffsetHolds(g)
      BY DEF OffsetsCovered
    <3>2. \A u \in Updates : u < gen[g].next + 1 => u < gen[g].next \/ u = gen[g].next
      BY <2>1 DEF Updates
    <3> QED
      BY <2>1, <3>1, <3>2 DEF OffsetHolds, Covered
  <2>4. OffsetHolds(g)'
    BY <2>1, <2>2, <2>3 DEF OffsetsCovered, OffsetHolds, Covered
  <2>5. \A h \in Gens \ {g} : OffsetHolds(h)'
    BY <2>1, <2>2, KeepOffset, SameKeeps DEF Others
  <2> QED
    BY <2>1, <2>2, <2>3, <2>4, <2>5 DEF OffsetsCovered, Covered
<1>12. CASE Exit(g)
  BY <1>12, KillEffect, GoneKeeps, MoveOffsets DEF Exit, feed
<1>13. CASE Activate(g)
  BY <1>13, KeepOffsets, SameKeeps DEF Activate, feed
<1> QED
  BY <1>1, <1>2, <1>3, <1>4, <1>5, <1>6, <1>7, <1>8, <1>9, <1>10, <1>11, <1>12, <1>13 DEF LoopStep

\* The steps of runs, of rollouts and of faults keep all offsets covered.
LEMMA OffsetsRun ==
    ASSUME TypeOK, RolesHold, OffsetsCovered, HandledStays, NEW g \in Gens,
           \/ Refuse(g) \/ Finish(g) \/ Settle(g) \/ Mark(g) \/ RolloutFails(g) \/ Retire(g)
           \/ Die(g) \/ Throw(g) \/ TerminateFails(g) \/ \E h \in Gens : Spawn(g, h)
    PROVE  OffsetsCovered'
<1>1. CASE UNCHANGED <<gen, low, saved, dropped>>
  BY <1>1, KeepOffsets, SameKeeps
<1>2. UNCHANGED <<low, saved, dropped>>
  BY DEF Refuse, Finish, Settle, Mark, RolloutFails, Retire, Die, Throw, TerminateFails, Spawn, feed
<1>3. CASE Mark(g) \/ Retire(g)
  <2>1. Others({g}) /\ gen'[g].at = gen[g].at /\ SameBatch(g)
    BY <1>3, MarkEffect, RetireEffect
  <2>2. KeepsOffsets(g)
    BY <2>1 DEF KeepsOffsets
  <2> QED
    BY <1>2, <2>1, <2>2, MoveOffsets
<1>4. CASE RolloutFails(g)
  <2> DEFINE c == gen[g].child
  <2>1. c \in Gens \ {g}
    BY <1>4, RolesFields DEF RolloutFails
  <2>2. Others({g, c}) /\ gen'[c] = Gone /\ gen'[g].at = gen[g].at /\ SameBatch(g)
    BY <1>4, <2>1, RolloutFailsEffect
  <2> HIDE DEF c
  <2>3. KeepsOffsets(g)
    BY <2>2 DEF KeepsOffsets
  <2>4. \A h \in Gens : KeepsOffsets(h)
    BY <2>1, <2>2, <2>3, SameKeeps, GoneKeeps DEF Others
  <2> QED
    BY <1>2, <2>4, KeepOffsets
<1>5. CASE Die(g)
  BY <1>2, <1>5, KillEffect, GoneKeeps, MoveOffsets DEF Die
<1>6. CASE Throw(g)
  BY <1>2, <1>6, GiveUpOffsets DEF Throw
<1>7. CASE TerminateFails(g)
  BY <1>2, <1>7, Places, GoOffsets, GiveUpOffsets DEF TerminateFails, Batch, Before, Handled
<1>8. ASSUME NEW k \in Gens, Spawn(g, k) PROVE OffsetsCovered'
  <2>1. /\ Others({g, k}) /\ gen'[g].at = gen[g].at /\ SameBatch(g)
        /\ gen'[k].at = "standby" /\ gen'[k].offset = gen[k].offset
    BY <1>8, SpawnEffect
  <2>2. KeepsOffsets(g) /\ KeepsOffsets(k)
    BY <2>1 DEF KeepsOffsets, Batch, Before, Handled
  <2>3. \A h \in Gens : KeepsOffsets(h)
    BY <2>1, <2>2, SameKeeps DEF Others
  <2> QED
    BY <1>2, <2>3, KeepOffsets
<1> QED
  BY <1>1, <1>2, <1>3, <1>4, <1>5, <1>6, <1>7, <1>8 DEF Refuse, Finish, Settle

\* The steps of requests keep all offsets covered.
LEMMA OffsetsRequest ==
    ASSUME TypeOK, RolesHold, RequestsHold, OffsetsCovered, HandledStays, NEW r \in ipc,
           Serve(r) \/ ServeThrows(r) \/ Reply(r) \/ HangUp(r) \/ Timeout(r)
    PROVE  OffsetsCovered'
<1> USE DEF Batch, Before, Handled
<1>1. UNCHANGED <<low, saved, dropped>>
  BY DEF Serve, ServeThrows, Reply, HangUp, Timeout, feed
<1>2. CASE UNCHANGED gen
  BY <1>1, <1>2, KeepOffsets, SameKeeps
<1>3. r.from \in Gens /\ r.update \in Updates /\ (r.awaited => gen[r.from].at = "wait" /\ gen[r.from].next = r.update)
  BY RequestFields DEF RequestsHold
<1>4. CASE ServeThrows(r)
  BY <1>1, <1>2, <1>3, <1>4, GiveUpOffsets DEF ServeThrows
<1>5. CASE Reply(r)
  <2>1. r.awaited => handled'[gen[r.from].next] > 0
    BY <1>3, <1>5 DEF Reply, RequestsHold
  <2> QED
    BY <1>1, <1>2, <1>3, <1>5, <2>1, Places, GoOffsets DEF Reply
<1>6. CASE HangUp(r) \/ Timeout(r)
  BY <1>1, <1>2, <1>3, <1>6, Places, GoOffsets DEF HangUp, Timeout
<1> QED
  BY <1>2, <1>4, <1>5, <1>6 DEF Serve

\* Every step keeps all offsets covered.
LEMMA OffsetsStep ==
    ASSUME TypeOK, RolesHold, RequestsHold, OffsetsCovered, [Next]_vars
    PROVE  OffsetsCovered'
<1>1. HandledStays
  BY HandledStaysSo
<1>2. CASE UNCHANGED <<gen, low, saved, dropped>>
  BY <1>1, <1>2, KeepOffsets, SameKeeps
<1> QED
  BY <1>1, <1>2, OffsetsLoop, OffsetsRun, OffsetsRequest DEF Next, Send, Done, vars
-----------------------------------------------------------------------------
(* What is spent *)

\* At the start nothing is spent.
LEMMA SpentInit == Init => SpentIsBehind
  BY UpdateFeedAssumption
  DEF Init, SpentIsBehind, HandledOnce, Spent, PollerBehind, Polls, NewProcess, Batch, Before,
      Busy, Handled

MoreRepeated == repeated \subseteq repeated'

\* A process goes on in its batch, or is neither in one nor polls.
MovesOn(g) ==
    \/ gen'[g].at \notin Batch \cup {"poll"}
    \/ /\ SameBatch(g) /\ gen'[g].retiring = gen[g].retiring
       /\ \/ gen'[g].at = gen[g].at
          \/ gen[g].at \in Before /\ gen'[g].at \in Batch
          \/ gen[g].at \in Busy /\ gen'[g].at \in Busy

\* A poller keeps what it has in its hands, or that may be handled again.
KeepsHand(g) ==
    Polls(g) /\ gen[g].at \in Busy =>
       \/ Polls(g)' /\ gen'[g].at \in Busy /\ gen'[g].next = gen[g].next
       \/ gen[g].next \in repeated'

\* The requests are those there were, but for their being awaited.
RequestsStay ==
    \A r \in ipc' : \E s \in ipc :
       /\ r.update = s.update /\ r.served = s.served
       /\ r.awaited = s.awaited \/ r.update \in repeated'

\* In which place a process is in which part of its batch.
LEMMA Parts ==
    /\ "poll" \notin Batch /\ "poll" \notin Busy
    /\ Before \subseteq Batch /\ Busy \subseteq Batch /\ Before \cap Busy = {}
    /\ \A g \in Gens : gen[g].at \in Batch => gen[g].at \in Before \/ gen[g].at \in Busy
    /\ \A g \in Gens : gen[g].at \in Batch /\ ~gen[g].retiring => Polls(g)
  BY DEF Batch, Before, Busy, Handled, Polls

\* A process that moves on has spent nothing it would handle again.
LEMMA MoveBehind ==
    ASSUME TypeOK, RolesHold, SpentIsBehind, UNCHANGED handled, MoreRepeated,
           NEW g \in Gens, MovesOn(g)
    PROVE  PollerBehind(g)'
<1>1. CASE gen'[g].at \notin Batch \cup {"poll"}
  BY <1>1 DEF PollerBehind, Batch, Busy
<1>2. ASSUME SameBatch(g), gen'[g].retiring = gen[g].retiring,
             \/ gen'[g].at = gen[g].at
             \/ gen[g].at \in Before /\ gen'[g].at \in Batch
             \/ gen[g].at \in Busy /\ gen'[g].at \in Busy
      PROVE  PollerBehind(g)'
  <2>1. PollerBehind(g) /\ \A u \in Updates : Spent(u)' => Spent(u)
    BY DEF SpentIsBehind, Spent, MoreRepeated
  <2>2. /\ gen'[g].offset = gen[g].offset /\ gen'[g].next = gen[g].next
        /\ gen'[g].last = gen[g].last /\ gen[g].next \in Int /\ gen[g].last \in Int
    BY <1>2, Fields DEF SameBatch
  <2>3. gen'[g].at \in Batch \cup {"poll"} => (Polls(g)' <=> Polls(g))
    BY <1>2 DEF Polls, Batch, Before, Busy, Handled
  <2>4. /\ gen'[g].at \in Batch => gen[g].at \in Batch
        /\ gen'[g].at \in Before => gen[g].at \in Before
        /\ gen'[g].at = "poll" => gen[g].at = "poll"
        /\ gen'[g].at \in Busy => gen[g].at \in Before \/ gen[g].at \in Busy
    BY <1>2 DEF Batch, Before, Busy, Handled
  <2>5. \A u \in Updates : u < gen[g].next => u < gen[g].next + 1
    BY <2>2 DEF Updates
  <2>6. gen'[g].retiring /\ gen'[g].at \in Batch =>
          \A u \in Updates : gen'[g].next <= u /\ u <= gen'[g].last => u \in repeated'
    BY <1>2, <2>1, <2>2, <2>4 DEF PollerBehind, MoreRepeated
  <2>7. Polls(g)' /\ gen'[g].at = "poll" => Untouched(gen[g].offset)'
    BY <2>1, <2>2, <2>3, <2>4 DEF PollerBehind, Untouched
  <2>8. Polls(g)' /\ gen'[g].at \in Before => Untouched(gen[g].next)'
    BY <2>1, <2>2, <2>3, <2>4, Parts DEF PollerBehind, Untouched
  <2>9. Polls(g)' /\ gen'[g].at \in Busy => Untouched(gen[g].next + 1)'
    BY <2>1, <2>2, <2>3, <2>4, <2>5, Parts DEF PollerBehind, Untouched
  <2> QED
    BY <2>6, <2>7, <2>8, <2>9 DEF PollerBehind
<1> QED
  BY <1>1, <1>2 DEF MovesOn

\* An untouched process moves on, and keeps what it has in its hands.
LEMMA SameMoves ==
    ASSUME NEW g \in Gens, gen'[g] = gen[g]
    PROVE  MovesOn(g) /\ KeepsHand(g)
  BY DEF MovesOn, KeepsHand, SameBatch, Polls

\* The steps that handle nothing and save nothing.
LEMMA QuietSpent ==
    ASSUME TypeOK, SpentIsBehind, UNCHANGED <<handled, saved>>, MoreRepeated,
           \A g \in Gens : KeepsHand(g) /\ PollerBehind(g)',
           \A r \in ipc' : RequestBehind(r)'
    PROVE  SpentIsBehind'
<1>1. \A u \in Updates : Spent(u)' => Spent(u)
  BY DEF Spent, MoreRepeated
<1>2. ASSUME NEW u \in Updates, Spent(u)' PROVE u < saved' \/ InHand(u)'
  <2>1. CASE u < saved
    BY <2>1
  <2>2. CASE InHand(u)
    BY <1>2, <2>2 DEF InHand, KeepsHand, Spent
  <2> QED
    BY <1>1, <1>2, <2>1, <2>2 DEF SpentIsBehind
<1>3. HandledOnce'
  BY DEF SpentIsBehind, HandledOnce, MoreRepeated
<1> QED
  BY <1>2, <1>3 DEF SpentIsBehind

\* The requests that stay bring nothing that is spent.
LEMMA StayBehind ==
    ASSUME TypeOK, SpentIsBehind, UNCHANGED handled, MoreRepeated, RequestsStay
    PROVE  \A r \in ipc' : RequestBehind(r)'
<1>1. SUFFICES ASSUME NEW r \in ipc' PROVE RequestBehind(r)'
  OBVIOUS
<1>2. PICK s \in ipc : /\ r.update = s.update /\ r.served = s.served
                       /\ r.awaited = s.awaited \/ r.update \in repeated'
  BY DEF RequestsStay
<1>3. RequestBehind(s)
  BY DEF SpentIsBehind
<1> QED
  BY <1>2, <1>3 DEF RequestBehind, Spent, MoreRepeated

\* One process moves on.
LEMMA MoveSpent ==
    ASSUME TypeOK, RolesHold, SpentIsBehind, UNCHANGED <<handled, saved, repeated, ipc>>,
           NEW g \in Gens, Others({g}), MovesOn(g), gen[g].at \notin Busy \/ KeepsHand(g)
    PROVE  SpentIsBehind'
<1>1. MoreRepeated /\ RequestsStay
  BY DEF MoreRepeated, RequestsStay
<1>2. \A h \in Gens : KeepsHand(h) /\ MovesOn(h)
  BY SameMoves DEF Others, KeepsHand
<1> QED
  BY <1>1, <1>2, MoveBehind, StayBehind, QuietSpent

\* A process that only moves keeps SpentIsBehind.
LEMMA GoSpent ==
    ASSUME TypeOK, RolesHold, SpentIsBehind, UNCHANGED <<handled, saved, repeated, ipc>>,
           NEW g \in Gens, NEW p \in Place, Go(g, p) \/ GoUnseen(g, p),
           \/ gen[g].at \notin Busy /\ p \notin Batch \cup {"poll"}
           \/ gen[g].at \in Before /\ p \in Batch
           \/ gen[g].at \in Busy /\ p \in Busy
    PROVE  SpentIsBehind'
<1>1. Others({g}) /\ gen'[g].at = p /\ SameBatch(g) /\ SameRole(g)
  BY GoEffect, GoUnseenEffect
<1>2. MovesOn(g)
  BY <1>1 DEF MovesOn, SameRole
<1>3. gen[g].at \notin Busy \/ KeepsHand(g)
  BY <1>1, Parts DEF KeepsHand, Polls, SameRole, SameBatch, Busy, Handled
<1> QED
  BY <1>1, <1>2, <1>3, MoveSpent

\* What is before its handling is not spent.
LEMMA Unspent ==
    ASSUME TypeOK, RolesHold, SpentIsBehind, NEW g \in Gens, gen[g].at \in Before
    PROVE  gen[g].next \in Updates /\ ~Spent(gen[g].next)
<1>1. gen[g].next \in Updates /\ gen[g].next <= gen[g].last /\ gen[g].next \in Int
  BY RolesFields, Fields, Parts
<1>2. PollerBehind(g)
  BY DEF SpentIsBehind
<1>3. CASE gen[g].retiring
  <2>1. gen[g].next \in repeated
    BY <1>1, <1>2, <1>3, Parts DEF PollerBehind
  <2> QED
    BY <1>1, <2>1 DEF Spent
<1>4. CASE ~gen[g].retiring
  <2>1. Untouched(gen[g].next)
    BY <1>2, <1>4, Parts DEF PollerBehind
  <2> QED
    BY <1>1, <2>1 DEF Untouched
<1> QED
  BY <1>3, <1>4, Fields

\* A batch is given up, unless what it has in its hands is spent.
LEMMA GiveUpSpent ==
    ASSUME TypeOK, RolesHold, SpentIsBehind, UNCHANGED <<handled, saved>>, RequestsStay,
           NEW g \in Gens, GiveUp(g), gen[g].at \in Batch,
           ~Spent(gen[g].next)
    PROVE  SpentIsBehind'
<1>1. /\ Others({g}) /\ gen'[g].at = "poll" /\ gen'[g].offset = gen[g].offset /\ SameRole(g)
      /\ MoreRepeated
      /\ \A u \in Updates : gen[g].offset <= u /\ u <= gen[g].next => u \in repeated'
  BY GiveUpEffect DEF MoreRepeated
<1>2. /\ gen[g].next \in Updates /\ gen[g].next \in Int /\ gen[g].offset \in Int
      /\ PollerBehind(g)
  BY RolesFields, Fields DEF SpentIsBehind
<1>3. \A u \in Updates : Spent(u) /\ Polls(g) => u <= gen[g].next
  <2>1. ASSUME NEW u \in Updates, Spent(u), Polls(g) PROVE u <= gen[g].next
    <3>1. u < gen[g].next \/ u < gen[g].next + 1
      BY <1>2, <2>1, Parts DEF PollerBehind, Untouched
    <3> QED
      BY <1>2, <3>1 DEF Updates
  <2> QED
    BY <2>1
<1>4. PollerBehind(g)'
  <2>1. Polls(g)' => Polls(g)
    BY <1>1, Parts DEF Polls, SameRole, Batch, Before, Handled
  <2>2. ASSUME NEW u \in Updates, Polls(g), Spent(u)' PROVE u < gen[g].offset
    <3>1. Spent(u) /\ u \notin repeated'
      BY <1>1, <2>2 DEF Spent, MoreRepeated
    <3> QED
      BY <1>1, <1>2, <1>3, <2>2, <3>1 DEF Updates
  <2> QED
    BY <1>1, <2>1, <2>2, Parts DEF PollerBehind, Untouched, Batch, Before, Busy, Handled
<1>5. \A h \in Gens \ {g} : KeepsHand(h) /\ PollerBehind(h)'
  BY <1>1, SameMoves, MoveBehind DEF Others
<1>6. \A u \in Updates : Spent(u)' => Spent(u)
  BY <1>1 DEF Spent, MoreRepeated
<1>7. ASSUME NEW u \in Updates, Spent(u)' PROVE u < saved' \/ InHand(u)'
  <2>1. CASE u < saved
    BY <2>1
  <2>2. CASE InHand(u)
    <3>1. PICK h \in Gens : Polls(h) /\ gen[h].at \in Busy /\ gen[h].next = u
      BY <2>2 DEF InHand
    <3>2. h # g
      BY <1>6, <1>7, <3>1
    <3> QED
      BY <1>5, <1>7, <3>1, <3>2 DEF KeepsHand, InHand, Spent
  <2> QED
    BY <1>6, <1>7, <2>1, <2>2 DEF SpentIsBehind
<1>8. HandledOnce'
  BY <1>1 DEF SpentIsBehind, HandledOnce, MoreRepeated
<1>9. \A r \in ipc' : RequestBehind(r)'
  BY <1>1, StayBehind
<1> QED
  BY <1>4, <1>5, <1>7, <1>8, <1>9 DEF SpentIsBehind

\* A process dies; what it had in its hands may be handled again.
LEMMA DieSpent ==
    ASSUME TypeOK, RolesHold, RequestsHold, SpentIsBehind, UNCHANGED <<handled, saved>>,
           NEW k \in Gens, gen'[k] = Gone, repeated' = repeated \cup Unsaved(k), Dead(k),
           \A h \in Gens \ {k} : MovesOn(h) /\ KeepsHand(h)
    PROVE  SpentIsBehind'
<1>1. MoreRepeated /\ (gen[k].at \in Busy => gen[k].next \in repeated')
  BY DEF MoreRepeated, Unsaved, Busy, Handled
<1>2. KeepsHand(k) /\ MovesOn(k)
  BY <1>1, GoneIs DEF KeepsHand, MovesOn, Batch, Before, Handled
<1>3. RequestsStay
  <2> SUFFICES ASSUME NEW r \in ipc'
      PROVE  \E s \in ipc : /\ r.update = s.update /\ r.served = s.served
                            /\ r.awaited = s.awaited \/ r.update \in repeated'
    BY DEF RequestsStay
  <2>1. PICK s \in ipc :
           /\ r.from = s.from /\ r.update = s.update /\ r.served = s.served
           /\ (r.awaited <=> s.awaited /\ s.from # k) /\ (s.from # k => r = s)
    BY DeadEffect
  <2>2. CASE s.from = k /\ s.awaited
    BY <1>1, <2>1, <2>2 DEF RequestsHold, Busy
  <2>3. CASE s.from # k
    BY <2>1, <2>3
  <2>4. CASE s.from = k /\ ~s.awaited
    <3>1. RequestBehind(s)
      BY DEF SpentIsBehind
    <3> QED
      BY <1>1, <2>1, <2>4, <3>1 DEF RequestBehind, MoreRepeated
  <2> QED
    BY <2>2, <2>3, <2>4
<1>4. \A h \in Gens : KeepsHand(h) /\ PollerBehind(h)'
  BY <1>1, <1>2, MoveBehind
<1> QED
  BY <1>1, <1>3, <1>4, StayBehind, QuietSpent
\* An update is handled that is not spent: by a process that had it before its
\* handling, or for a request; the poller that has it in its hands then is f.
LEMMA HandleSpent ==
    ASSUME TypeOK, RolesHold, SpentIsBehind, NEW h \in Gens, NEW u \in Updates, Handle(h, u),
           UNCHANGED <<saved, repeated>>, ~Spent(u), \A g \in Gens : KeepsHand(g) /\ MovesOn(g),
           NEW f \in Gens,
           u \notin repeated => Polls(f) /\ Polls(f)' /\ gen'[f].at \in Busy /\ gen'[f].next = u
                                /\ gen[f].at \in Batch /\ gen[f].next = u,
           \A r \in ipc' : /\ ~r.served => r.update # u \/ u \in repeated
                           /\ \E s \in ipc : /\ r.update = s.update /\ r.awaited = s.awaited
                                             /\ r.served = s.served \/ r.served
    PROVE  SpentIsBehind'
<1>1. /\ handled'[u] > 0 /\ (handled[u] = 0 => handled'[u] = 1)
      /\ \A v \in Updates \ {u} : handled'[v] = handled[v]
  BY HandleEffect
<1>2. \A v \in Updates : Spent(v)' => Spent(v) \/ v = u
  BY <1>1 DEF Spent
<1>3. Spent(u)' => u \notin repeated
  BY DEF Spent
<1>4. HandledOnce'
  <2>1. ASSUME NEW v \in Updates \ repeated PROVE handled'[v] <= 1
    <3>1. CASE v = u
      <4>1. handled[u] = 0
        BY <2>1, <3>1 DEF Spent, TypeOK
      <4> QED
        BY <1>1, <3>1, <4>1
    <3>2. CASE v # u
      BY <1>1, <2>1, <3>2 DEF SpentIsBehind, HandledOnce
    <3> QED
      BY <3>1, <3>2
  <2> QED
    BY <2>1 DEF HandledOnce
<1>5. ASSUME NEW v \in Updates, Spent(v)' PROVE v < saved' \/ InHand(v)'
  <2>1. CASE v = u
    BY <1>3, <1>5, <2>1 DEF InHand
  <2>2. CASE v # u
    <3>1. v < saved \/ InHand(v)
      BY <1>2, <1>5, <2>2 DEF SpentIsBehind
    <3> QED
      BY <1>5, <3>1 DEF InHand, KeepsHand, Spent
  <2> QED
    BY <2>1, <2>2
<1>6. ASSUME NEW r \in ipc' PROVE RequestBehind(r)'
  <2>1. PICK s \in ipc : r.update = s.update /\ r.awaited = s.awaited
                         /\ (r.served = s.served \/ r.served)
    BY <1>6
  <2>2. RequestBehind(s) /\ s.update \in Updates /\ (~r.served => r.update # u \/ u \in repeated)
    BY <1>6, RequestFields DEF SpentIsBehind
  <2> QED
    BY <1>2, <1>3, <2>1, <2>2 DEF RequestBehind
<1>7. ASSUME NEW g \in Gens PROVE PollerBehind(g)'
  <2>1. CASE gen'[g].at \notin Batch \cup {"poll"}
    BY <2>1 DEF PollerBehind, Batch, Busy
  <2>2. CASE gen'[g].at \in Batch \cup {"poll"}
    <3>1. /\ gen'[g].offset = gen[g].offset /\ gen'[g].next = gen[g].next
          /\ gen'[g].last = gen[g].last /\ gen[g].next \in Int /\ gen[g].last \in Int
          /\ gen'[g].retiring = gen[g].retiring
          /\ \/ gen'[g].at = gen[g].at
             \/ gen[g].at \in Before /\ gen'[g].at \in Batch
             \/ gen[g].at \in Busy /\ gen'[g].at \in Busy
      BY <2>2, Fields DEF MovesOn, SameBatch
    <3>2. /\ Polls(g)' <=> Polls(g)
          /\ gen'[g].at \in Batch => gen[g].at \in Batch
          /\ gen'[g].at \in Before => gen[g].at \in Before
          /\ gen'[g].at = "poll" => gen[g].at = "poll"
          /\ gen'[g].at \in Busy => gen[g].at \in Before \/ gen[g].at \in Busy
      BY <2>2, <3>1 DEF Polls, Batch, Before, Busy, Handled
    <3>3. PollerBehind(g)
      BY DEF SpentIsBehind
    <3>4. gen'[g].retiring /\ gen'[g].at \in Batch =>
            \A v \in Updates : gen'[g].next <= v /\ v <= gen'[g].last => v \in repeated'
      BY <3>1, <3>2, <3>3 DEF PollerBehind
    <3>5. CASE Polls(g) /\ Spent(u)'
      <4>1. g = f
        BY <1>3, <3>5, LeaseOfPoller
      <4>2. gen'[g].at \in Busy /\ gen'[g].next = u
        BY <1>3, <3>5, <4>1
      <4>3. \A v \in Updates : Spent(v)' => v < gen[g].next + 1
        <5>1. Untouched(gen[g].next) \/ Untouched(gen[g].next + 1)
          BY <3>2, <3>3, <3>5, <4>2 DEF PollerBehind
        <5> QED
          BY <1>2, <3>1, <4>2, <5>1 DEF Untouched, Updates
      <4> QED
        BY <3>1, <3>4, <4>2, <4>3, Parts DEF PollerBehind, Untouched
    <3>6. CASE ~Spent(u)'
      <4>1. \A v \in Updates : Spent(v)' => Spent(v)
        BY <1>2, <3>6
      <4>2. \A v \in Updates : v < gen[g].next => v < gen[g].next + 1
        BY <3>1 DEF Updates
      <4>3. Polls(g)' /\ gen'[g].at = "poll" => Untouched(gen[g].offset)'
        BY <3>1, <3>2, <3>3, <4>1 DEF PollerBehind, Untouched
      <4>4. Polls(g)' /\ gen'[g].at \in Before => Untouched(gen[g].next)'
        BY <3>1, <3>2, <3>3, <4>1 DEF PollerBehind, Untouched
      <4>5. Polls(g)' /\ gen'[g].at \in Busy => Untouched(gen[g].next + 1)'
        BY <3>1, <3>2, <3>3, <4>1, <4>2 DEF PollerBehind, Untouched
      <4> QED
        BY <3>1, <3>4, <4>3, <4>4, <4>5 DEF PollerBehind
    <3>7. CASE ~Polls(g)
      BY <3>2, <3>4, <3>7 DEF PollerBehind
    <3> QED
      BY <3>5, <3>6, <3>7
  <2> QED
    BY <2>1, <2>2
<1> QED
  BY <1>4, <1>5, <1>6, <1>7 DEF SpentIsBehind

\* A process handles the update it has in its hands.
LEMMA DispatchSpent ==
    ASSUME TypeOK, RolesHold, RequestsHold, SpentIsBehind, NEW g \in Gens, Dispatch(g)
    PROVE  SpentIsBehind'
<1>1. /\ gen[g].at = "dispatch" /\ Handle(g, gen[g].next) /\ Go(g, "started")
      /\ UNCHANGED <<saved, repeated, ipc>>
  BY DEF Dispatch, feed
<1>2. /\ gen[g].at \in Before /\ gen[g].at \in Batch /\ gen[g].at \notin Busy
      /\ gen[g].next \in Updates /\ ~Spent(gen[g].next)
  BY <1>1, Unspent DEF Batch, Before, Busy, Handled
<1>3. /\ Others({g}) /\ gen'[g].at = "started" /\ SameBatch(g) /\ SameRole(g)
  BY <1>1, Places, GoEffect
<1>4. gen'[g].at \in Busy /\ gen'[g].at \in Batch /\ gen'[g].next = gen[g].next
  BY <1>3 DEF SameBatch, Busy, Batch, Handled
<1>5. \A h \in Gens : KeepsHand(h) /\ MovesOn(h)
  <2>1. KeepsHand(g) /\ MovesOn(g)
    BY <1>2, <1>3, <1>4 DEF KeepsHand, MovesOn, SameRole
  <2> QED
    BY <1>3, <2>1, SameMoves DEF Others
<1>6. gen[g].next \notin repeated => Polls(g) /\ Polls(g)'
  <2>1. ASSUME gen[g].next \notin repeated PROVE ~gen[g].retiring
    <3>1. PollerBehind(g) /\ gen[g].next \in Int /\ gen[g].next <= gen[g].last
      BY <1>2, RolesFields, Fields DEF SpentIsBehind
    <3> QED
      BY <1>2, <2>1, <3>1 DEF PollerBehind
  <2> QED
    BY <1>1, <1>3, <2>1 DEF Polls, SameRole
<1>7. ASSUME NEW r \in ipc, r.update = gen[g].next, gen[g].next \notin repeated
      PROVE  r.served
  <2>1. RequestBehind(r) /\ r.from \in Gens
    BY RequestFields DEF SpentIsBehind
  <2>2. r.awaited
    BY <1>7, <2>1 DEF RequestBehind
  <2>3. gen[r.from].at = "wait" /\ gen[r.from].next = r.update
    BY <2>2 DEF RequestsHold
  <2>4. Polls(r.from)
    <3>1. /\ gen[r.from].at \in Batch /\ PollerBehind(r.from) /\ gen[r.from].next \in Updates
          /\ gen[r.from].next <= gen[r.from].last
      BY <2>1, <2>3, RolesFields DEF SpentIsBehind, Batch
    <3>2. gen[r.from].next <= gen[r.from].next
      BY <3>1 DEF Updates
    <3>3. ~gen[r.from].retiring
      BY <1>7, <2>3, <3>1, <3>2 DEF PollerBehind
    <3> QED
      BY <2>3, <3>3 DEF Polls
  <2> QED
    BY <1>1, <1>6, <1>7, <2>1, <2>3, <2>4, LeaseOfPoller
<1>8. \A r \in ipc' : /\ ~r.served => r.update # gen[g].next \/ gen[g].next \in repeated
                      /\ \E s \in ipc : /\ r.update = s.update /\ r.awaited = s.awaited
                                        /\ r.served = s.served \/ r.served
  BY <1>1, <1>7
<1> HIDE DEF Handle
<1> QED
  BY <1>1, <1>2, <1>4, <1>5, <1>6, <1>8, HandleSpent

\* An owner handles the update of a request.
LEMMA ServeSpent ==
    ASSUME TypeOK, RolesHold, RequestsHold, SpentIsBehind, NEW r \in ipc, Serve(r)
    PROVE  SpentIsBehind'
<1> DEFINE q == [r EXCEPT !.served = TRUE]
<1>1. /\ ~r.served /\ ipc' = (ipc \ {r}) \cup {q} /\ Handle(r.to, r.update)
      /\ UNCHANGED <<saved, repeated, gen>>
  BY DEF Serve, feed
<1>2. r.from \in Gens /\ r.to \in Gens /\ r.update \in Updates
  BY RequestFields
<1>3. q.update = r.update /\ q.awaited = r.awaited /\ q.served
  BY RequestFields DEF Request
<1> HIDE DEF q
<1>4. RequestBehind(r)
  BY DEF SpentIsBehind
<1>5. ~Spent(r.update) /\ (~r.awaited => r.update \in repeated)
  BY <1>1, <1>4 DEF RequestBehind
<1>6. ASSUME NEW s \in ipc, s.awaited, s.update \notin repeated
      PROVE  /\ gen[s.from].at = "wait" /\ gen[s.from].next = s.update /\ Polls(s.from)
             /\ s.from \in Gens
  <2>1. s.from \in Gens /\ gen[s.from].at = "wait" /\ gen[s.from].next = s.update
    BY <1>6, RequestFields DEF RequestsHold
  <2>2. /\ gen[s.from].at \in Batch /\ PollerBehind(s.from) /\ gen[s.from].next \in Updates
        /\ gen[s.from].next <= gen[s.from].last
    BY <2>1, RolesFields DEF SpentIsBehind, Batch
  <2>3. gen[s.from].next <= gen[s.from].next
    BY <2>2 DEF Updates
  <2>4. ~gen[s.from].retiring
    BY <1>6, <2>1, <2>2, <2>3 DEF PollerBehind
  <2> QED
    BY <2>1, <2>4 DEF Polls
<1>7. ASSUME NEW s \in ipc', ~s.served, s.update = r.update, r.update \notin repeated
      PROVE  FALSE
  <2>1. s \in ipc /\ s # r
    BY <1>1, <1>3, <1>7
  <2>2. RequestBehind(s)
    BY <2>1 DEF SpentIsBehind
  <2>3. r.awaited /\ s.awaited
    BY <1>5, <1>7, <2>2 DEF RequestBehind
  <2>4. r.from = s.from
    BY <1>6, <1>7, <2>1, <2>3, LeaseOfPoller
  <2> QED
    BY <2>1, <2>3, <2>4 DEF RequestsHold
<1>8. \A h \in Gens : KeepsHand(h) /\ MovesOn(h)
  BY <1>1, SameMoves
<1>9. r.update \notin repeated =>
         /\ Polls(r.from) /\ Polls(r.from)' /\ gen'[r.from].at \in Busy
         /\ gen'[r.from].next = r.update /\ gen[r.from].at \in Batch
         /\ gen[r.from].next = r.update
  BY <1>1, <1>5, <1>6 DEF Polls, Busy, Batch
<1>10. ASSUME NEW s \in ipc'
       PROVE  /\ ~s.served => s.update # r.update \/ r.update \in repeated
              /\ \E t \in ipc : /\ s.update = t.update /\ s.awaited = t.awaited
                                /\ s.served = t.served \/ s.served
  BY <1>1, <1>3, <1>7
<1> QED
  BY <1>1, <1>2, <1>5, <1>8, <1>9, <1>10, HandleSpent
\* A process starts to poll from the saved offset, or from the first start on.
LEMMA BootstrapSpent ==
    ASSUME TypeOK, RolesHold, SpentIsBehind, NEW g \in Gens, Bootstrap(g)
    PROVE  SpentIsBehind'
<1>1. /\ gen[g].at = "boot" /\ UNCHANGED <<ipc, handled, repeated>> /\ Others({g})
      /\ gen'[g].at = "poll" /\ gen'[g].retiring = gen[g].retiring
      /\ \/ gen'[g].offset = saved /\ UNCHANGED saved
         \/ saved = 0 /\ saved' = sent + 1
  BY BootstrapStep DEF SameRole
<1>2. MoreRepeated /\ RequestsStay /\ gen[g].at \notin Busy /\ (Polls(g)' <=> Polls(g))
  BY <1>1 DEF MoreRepeated, RequestsStay, Busy, Handled, Polls
<1>3. \A h \in Gens \ {g} : KeepsHand(h) /\ PollerBehind(h)'
  BY <1>1, <1>2, SameMoves, MoveBehind DEF Others
<1>4. KeepsHand(g)
  BY <1>2 DEF KeepsHand
<1>5. \A u \in Updates : Spent(u)' <=> Spent(u)
  BY <1>1 DEF Spent
<1>6. ASSUME NEW u \in Updates, Spent(u), Polls(g) PROVE u < saved
  BY <1>2, <1>6, LeaseOfPoller DEF SpentIsBehind, InHand
<1>7. PollerBehind(g)'
  <2>1. Polls(g)' => Untouched(gen[g].offset)'
    <3>1. CASE gen'[g].offset = saved
      BY <1>2, <1>5, <1>6, <3>1 DEF Untouched
    <3>2. CASE saved = 0
      BY <1>2, <1>5, <1>6, <3>2 DEF Untouched, Updates
    <3> QED
      BY <1>1, <3>1, <3>2
  <2> QED
    BY <1>1, <2>1 DEF PollerBehind, Batch, Before, Busy, Handled
<1>8. ASSUME NEW u \in Updates, Spent(u)' PROVE u < saved' \/ InHand(u)'
  <2>1. u < saved \/ InHand(u)
    BY <1>5, <1>8 DEF SpentIsBehind
  <2>2. CASE InHand(u)
    BY <1>3, <1>4, <1>8, <2>2 DEF InHand, KeepsHand, Spent
  <2>3. CASE u < saved
    BY <1>1, <2>3 DEF Updates
  <2> QED
    BY <2>1, <2>2, <2>3
<1>9. HandledOnce' /\ \A r \in ipc' : RequestBehind(r)'
  BY <1>1, <1>2, StayBehind DEF SpentIsBehind, HandledOnce
<1> QED
  BY <1>3, <1>7, <1>8, <1>9 DEF SpentIsBehind

\* A poller takes a batch from its offset on.
LEMMA PollSpent ==
    ASSUME TypeOK, RolesHold, SpentIsBehind, NEW g \in Gens, Poll(g)
    PROVE  SpentIsBehind'
<1>1. /\ gen[g].at = "poll" /\ ~gen[g].retiring /\ low' \in 1 .. MaxUpdate + 1
      /\ UNCHANGED <<saved, ipc, handled, repeated>> /\ low' >= gen[g].offset
  BY PollStep
<1>2. MoreRepeated /\ RequestsStay
  BY <1>1 DEF MoreRepeated, RequestsStay
<1>3. CASE UNCHANGED gen
  BY <1>1, <1>2, <1>3, SameMoves, MoveBehind, StayBehind, QuietSpent
<1>4. CASE ~UNCHANGED gen
  <2>1. /\ Others({g}) /\ gen'[g].at = "route" /\ gen'[g].next = low'
        /\ gen'[g].retiring = gen[g].retiring
    BY <1>4, PollStep DEF SameRole
  <2>2. \A h \in Gens \ {g} : KeepsHand(h) /\ PollerBehind(h)'
    BY <1>1, <1>2, <2>1, SameMoves, MoveBehind DEF Others
  <2>3. KeepsHand(g)
    BY <1>1, Parts DEF KeepsHand
  <2>4. Untouched(gen[g].offset)
    BY <1>1 DEF SpentIsBehind, PollerBehind, Polls
  <2>5. Untouched(gen[g].next)'
    <3>1. gen[g].offset \in Int
      BY Fields
    <3>2. \A u \in Updates : u < gen[g].offset => u < low'
      BY <1>1, <3>1 DEF Updates
    <3> QED
      BY <1>1, <2>1, <2>4, <3>2 DEF Untouched, Spent
  <2>6. PollerBehind(g)'
    BY <1>1, <2>1, <2>5 DEF PollerBehind, Before, Busy, Handled
  <2> QED
    BY <1>1, <1>2, <2>2, <2>3, <2>6, StayBehind, QuietSpent
<1> QED
  BY <1>3, <1>4

\* A process sends a request for its update, or keeps the update.
LEMMA TargetSpent ==
    ASSUME TypeOK, RolesHold, SpentIsBehind, NEW g \in Gens, Target(g)
    PROVE  SpentIsBehind'
<1>1. gen[g].at = "target" /\ UNCHANGED <<saved, handled, repeated>> /\ gen[g].at \in Before
  BY DEF Target, feed, Before
<1>2. CASE Forwards(g)
  <2> DEFINE q == [from |-> g, to |-> gen[g].seen.owner,
                   update |-> gen[g].next, served |-> FALSE, awaited |-> TRUE]
  <2>1. Go(g, "wait") /\ ipc' = ipc \cup {q}
    BY <1>2 DEF Forwards
  <2>2. q.update = gen[g].next /\ q.awaited
    OBVIOUS
  <2> HIDE DEF q
  <2>3. Others({g}) /\ gen'[g].at = "wait" /\ SameBatch(g) /\ SameRole(g)
    BY <2>1, Places, GoEffect
  <2>4. MovesOn(g) /\ KeepsHand(g)
    BY <1>1, <2>3, Parts DEF MovesOn, KeepsHand, SameRole, Batch, Busy
  <2>5. MoreRepeated /\ \A h \in Gens : KeepsHand(h) /\ PollerBehind(h)'
    BY <1>1, <2>3, <2>4, SameMoves, MoveBehind DEF Others, MoreRepeated
  <2>6. ASSUME NEW r \in ipc' PROVE RequestBehind(r)'
    <3>1. CASE r \in ipc
      BY <1>1, <3>1 DEF SpentIsBehind, RequestBehind, Spent
    <3>2. CASE r = q
      BY <1>1, <2>2, <3>2, Unspent DEF RequestBehind, Spent
    <3> QED
      BY <2>1, <2>6, <3>1, <3>2
  <2> QED
    BY <1>1, <2>5, <2>6, QuietSpent
<1>3. CASE Disowns(g)
  <2>1. GoUnseen(g, "dispatch") /\ UNCHANGED ipc
    BY <1>3 DEF Disowns
  <2>2. "dispatch" \in Batch
    BY DEF Batch, Before
  <2> QED
    BY <1>1, <2>1, <2>2, Places, GoSpent
<1> QED
  BY <1>2, <1>3, TargetCases

\* A process gives up an owner that does not answer, and kills it.
LEMMA TerminateSpent ==
    ASSUME TypeOK, RolesHold, RequestsHold, SpentIsBehind, NEW g \in Gens, Terminate(g)
    PROVE  SpentIsBehind'
<1> DEFINE o == gen[g].seen.owner
<1>1. o \in Gens \ {g} /\ gen[g].at = "recover" /\ UNCHANGED <<saved, handled>>
  BY RolesFields DEF Terminate, feed
<1> HIDE DEF o
<1>2. /\ gen' = [gen EXCEPT ![g].at = "clear", ![o] = Gone]
      /\ repeated' = repeated \cup Unsaved(o) /\ Dead(o)
  BY DEF Terminate, o
<1>3. Others({g, o}) /\ gen'[o] = Gone /\ gen'[g].at = "clear" /\ SameBatch(g) /\ SameRole(g)
  BY <1>1, <1>2, TerminateEffect
<1>4. MovesOn(g) /\ KeepsHand(g)
  BY <1>1, <1>3 DEF MovesOn, KeepsHand, SameRole, Batch, Before, Busy, Handled
<1>5. \A h \in Gens \ {o} : MovesOn(h) /\ KeepsHand(h)
  BY <1>3, <1>4, SameMoves DEF Others
<1> QED
  BY <1>1, <1>2, <1>3, <1>5, DieSpent

\* The offset is saved past the update in hand.
LEMMA SaveSpent ==
    ASSUME TypeOK, RolesHold, SpentIsBehind, NEW g \in Gens, Save(g)
    PROVE  SpentIsBehind'
<1>1. /\ gen[g].at = "save" /\ gen[g].next \in Updates /\ gen[g].next <= gen[g].last
      /\ UNCHANGED <<ipc, handled>> /\ gen[g].at \in Busy /\ gen[g].at \in Batch
  BY RolesFields DEF Save, Batch, Busy, Handled
<1>2. /\ Others({g}) /\ gen'[g].retiring = gen[g].retiring
      /\ saved' = gen[g].next + 1 /\ saved' \in 1 .. MaxUpdate + 1
      /\ \/ gen'[g].at = "poll" /\ gen'[g].offset = gen[g].next + 1
         \/ /\ gen'[g].at = "route" /\ gen'[g].next = gen[g].next + 1
            /\ gen'[g].last = gen[g].last
      /\ MoreRepeated
      /\ \A u \in Updates : gen[g].next < u /\ u < saved => u \in repeated'
  BY <1>1, SaveEffect DEF SameRole, MoreRepeated
<1>3. PollerBehind(g) /\ gen[g].next \in Int
  BY Fields DEF SpentIsBehind
<1>4. \A u \in Updates : Spent(u)' => Spent(u)
  BY <1>1, <1>2 DEF Spent, MoreRepeated
<1>5. Polls(g)' <=> Polls(g)
  BY <1>1, <1>2 DEF Polls
<1>6. Polls(g) => \A u \in Updates : Spent(u) => u < gen[g].next + 1
  BY <1>1, <1>3 DEF PollerBehind, Untouched
<1>7. RequestsStay
  BY <1>1 DEF RequestsStay
<1>8. \A h \in Gens \ {g} : KeepsHand(h) /\ PollerBehind(h)'
  BY <1>1, <1>2, SameMoves, MoveBehind DEF Others
<1>9. PollerBehind(g)'
  <2>1. CASE gen'[g].at = "poll" /\ gen'[g].offset = gen[g].next + 1
    <3>1. Polls(g)' => Untouched(gen[g].offset)'
      BY <1>4, <1>5, <1>6, <2>1 DEF Untouched
    <3> QED
      BY <2>1, <3>1 DEF PollerBehind, Batch, Before, Busy, Handled
  <2>2. CASE /\ gen'[g].at = "route" /\ gen'[g].next = gen[g].next + 1
             /\ gen'[g].last = gen[g].last
    <3>1. Polls(g)' => Untouched(gen[g].next)'
      BY <1>4, <1>5, <1>6, <2>2 DEF Untouched
    <3>2. gen[g].retiring => \A u \in Updates :
             gen[g].next + 1 <= u /\ u <= gen[g].last => u \in repeated'
      <4>1. ASSUME gen[g].retiring, NEW u \in Updates, gen[g].next + 1 <= u, u <= gen[g].last
            PROVE  u \in repeated'
        <5>1. gen[g].next <= u
          BY <1>3, <4>1 DEF Updates
        <5>2. u \in repeated
          BY <1>1, <1>3, <4>1, <5>1 DEF PollerBehind
        <5> QED
          BY <1>2, <5>2 DEF MoreRepeated
      <4> QED
        BY <4>1
    <3> QED
      BY <1>2, <2>2, <3>1, <3>2 DEF PollerBehind, Before, Busy, Handled
  <2> QED
    BY <1>2, <2>1, <2>2
<1>10. ASSUME NEW u \in Updates, Spent(u)' PROVE u < saved' \/ InHand(u)'
  <2>1. CASE Polls(g)
    BY <1>2, <1>4, <1>6, <1>10, <2>1
  <2>2. CASE ~Polls(g) /\ u < saved
    <3>1. ~(gen[g].next < u)
      BY <1>2, <1>10, <2>2 DEF Spent
    <3> QED
      BY <1>2, <1>3, <3>1 DEF Updates
  <2>3. CASE ~Polls(g) /\ InHand(u)
    <3>1. PICK h \in Gens : Polls(h) /\ gen[h].at \in Busy /\ gen[h].next = u
      BY <2>3 DEF InHand
    <3>2. h # g
      BY <2>3, <3>1
    <3> QED
      BY <1>8, <1>10, <3>1, <3>2 DEF KeepsHand, InHand, Spent
  <2> QED
    BY <1>4, <1>10, <2>1, <2>2, <2>3 DEF SpentIsBehind
<1>11. HandledOnce' /\ \A r \in ipc' : RequestBehind(r)'
  BY <1>1, <1>2, <1>7, StayBehind DEF SpentIsBehind, HandledOnce, MoreRepeated
<1> QED
  BY <1>8, <1>9, <1>10, <1>11 DEF SpentIsBehind

\* The steps of the update loop keep SpentIsBehind.
LEMMA SpentLoop ==
    ASSUME TypeOK, RolesHold, RequestsHold, SpentIsBehind, NEW g \in Gens, LoopStep(g)
    PROVE  SpentIsBehind'
<1> USE DEF Batch, Before, Busy, Handled
<1>1. CASE StartService(g) \/ Acquire(g) \/ RecoverStale(g)
  BY <1>1, Places, GoSpent DEF StartService, Acquire, RecoverStale, feed
<1>2. CASE Bootstrap(g)
  BY <1>2, BootstrapSpent
<1>3. CASE Poll(g)
  BY <1>3, PollSpent
<1>4. CASE Route(g)
  <2>1. gen[g].at = "route" /\ UNCHANGED <<saved, handled, repeated, ipc>>
    BY <1>4 DEF Route, feed
  <2>2. CASE Go(g, "dispatch")
    BY <2>1, <2>2, Places, GoSpent
  <2>3. CASE ~Go(g, "dispatch")
    <3>1. Others({g}) /\ gen'[g].at = "target" /\ SameBatch(g) /\ SameRole(g)
      BY <1>4, <2>3, RouteEffect DEF Route
    <3>2. MovesOn(g) /\ gen[g].at \notin Busy
      BY <2>1, <3>1 DEF MovesOn, SameRole
    <3> QED
      BY <2>1, <3>1, <3>2, MoveSpent
  <2> QED
    BY <2>2, <2>3
<1>5. CASE Target(g)
  BY <1>5, TargetSpent
<1>6. CASE RecoverNot(g)
  <2>1. GiveUp(g) /\ gen[g].at = "recover" /\ UNCHANGED <<saved, handled, ipc>>
    BY <1>6 DEF RecoverNot, feed
  <2>2. RequestsStay /\ ~Spent(gen[g].next)
    BY <2>1, Unspent DEF RequestsStay
  <2> QED
    BY <2>1, <2>2, GiveUpSpent
<1>7. CASE RecoverIdle(g) \/ Clear(g) \/ Started(g)
  BY <1>7, Places, GoSpent DEF RecoverIdle, Clear, Started, feed
<1>8. CASE Terminate(g)
  BY <1>8, TerminateSpent
<1>9. CASE Dispatch(g)
  BY <1>9, DispatchSpent
<1>10. CASE Save(g)
  BY <1>10, SaveSpent
<1>11. CASE Exit(g)
  <2>1. Others({g}) /\ gen'[g] = Gone /\ gen[g].at = "poll"
        /\ UNCHANGED <<saved, handled, repeated, ipc>>
    BY <1>11, KillEffect DEF Exit, feed
  <2>2. MovesOn(g)
    BY <2>1, GoneIs DEF MovesOn
  <2> QED
    BY <2>1, <2>2, MoveSpent
<1>12. CASE Activate(g)
  <2>1. UNCHANGED <<saved, handled, repeated, ipc, gen>>
    BY <1>12 DEF Activate, feed
  <2> QED
    BY <2>1, SameMoves, MoveSpent DEF Others
<1> QED
  BY <1>1, <1>2, <1>3, <1>4, <1>5, <1>6, <1>7, <1>8, <1>9, <1>10, <1>11, <1>12 DEF LoopStep

\* The steps of runs, of rollouts and of faults keep SpentIsBehind.
LEMMA SpentRun ==
    ASSUME TypeOK, RolesHold, RequestsHold, SpentIsBehind, NEW g \in Gens,
           \/ Refuse(g) \/ Finish(g) \/ Settle(g) \/ Mark(g) \/ RolloutFails(g) \/ Retire(g)
           \/ Die(g) \/ Throw(g) \/ TerminateFails(g) \/ \E h \in Gens : Spawn(g, h)
    PROVE  SpentIsBehind'
<1>1. UNCHANGED <<saved, handled>>
  BY DEF Refuse, Finish, Settle, Mark, RolloutFails, Retire, Die, Throw, TerminateFails, Spawn, feed
<1>2. CASE Refuse(g) \/ Finish(g) \/ Settle(g)
  <2>1. UNCHANGED <<repeated, ipc, gen>>
    BY <1>2 DEF Refuse, Finish, Settle
  <2> QED
    BY <1>1, <2>1, SameMoves, MoveSpent DEF Others
<1>3. CASE Mark(g)
  <2>1. Others({g}) /\ gen'[g].at = gen[g].at /\ SameBatch(g) /\ SameRole(g)
        /\ UNCHANGED <<repeated, ipc>>
    BY <1>3, MarkEffect DEF Mark
  <2>2. MovesOn(g) /\ KeepsHand(g)
    BY <2>1 DEF MovesOn, KeepsHand, SameBatch, SameRole, Polls
  <2> QED
    BY <1>1, <2>1, <2>2, MoveSpent
<1>4. CASE RolloutFails(g)
  <2> DEFINE c == gen[g].child
  <2>1. c \in Gens \ {g} /\ gen[c].at \in {"standby", "dead"} /\ UNCHANGED <<repeated, ipc>>
    BY <1>4, RolesFields DEF RolloutFails, RolesHold, RoleHolds
  <2>2. /\ Others({g, c}) /\ gen'[c] = Gone /\ gen'[g].at = gen[g].at /\ SameBatch(g)
        /\ gen'[g].retiring = gen[g].retiring
    BY <1>4, <2>1, RolloutFailsEffect
  <2> HIDE DEF c
  <2>3. MovesOn(g) /\ KeepsHand(g)
    BY <2>2 DEF MovesOn, KeepsHand, SameBatch, Polls
  <2>4. MovesOn(c) /\ KeepsHand(c)
    BY <2>1, <2>2, GoneIs DEF MovesOn, KeepsHand, Polls, Batch, Before, Handled
  <2>5. \A h \in Gens : MovesOn(h) /\ KeepsHand(h)
    BY <2>1, <2>2, <2>3, <2>4, SameMoves DEF Others
  <2>6. MoreRepeated /\ RequestsStay
    BY <2>1 DEF MoreRepeated, RequestsStay
  <2> QED
    BY <1>1, <2>5, <2>6, MoveBehind, StayBehind, QuietSpent
<1>5. CASE Retire(g)
  <2>1. /\ Others({g}) /\ gen'[g].at = gen[g].at /\ SameBatch(g) /\ gen'[g].retiring
        /\ MoreRepeated /\ UNCHANGED ipc
        /\ gen[g].at = "poll"
           \/ \A u \in Updates : gen[g].next <= u /\ u <= gen[g].last => u \in repeated'
    BY <1>5, RetireEffect DEF Retire, MoreRepeated
  <2>2. RequestsStay
    BY <2>1 DEF RequestsStay
  <2>3. PollerBehind(g)'
    BY <2>1, Parts DEF PollerBehind, SameBatch, Polls
  <2>4. KeepsHand(g)
    <3>1. ASSUME gen[g].at \in Busy PROVE gen[g].next \in repeated'
      <4>1. gen[g].next \in Updates /\ gen[g].next <= gen[g].last /\ gen[g].next \in Int
            /\ gen[g].at # "poll"
        BY <3>1, RolesFields, Fields, Parts
      <4> QED
        BY <2>1, <4>1
    <3> QED
      BY <3>1 DEF KeepsHand
  <2>5. \A h \in Gens : KeepsHand(h) /\ PollerBehind(h)'
    BY <1>1, <2>1, <2>3, <2>4, SameMoves, MoveBehind DEF Others
  <2> QED
    BY <1>1, <2>1, <2>2, <2>5, StayBehind, QuietSpent
<1>6. CASE Die(g)
  <2>1. gen' = [gen EXCEPT ![g] = Gone] /\ repeated' = repeated \cup Unsaved(g) /\ Dead(g)
    BY <1>6 DEF Die
  <2>2. Others({g}) /\ gen'[g] = Gone
    BY <2>1, KillEffect
  <2>3. \A h \in Gens \ {g} : MovesOn(h) /\ KeepsHand(h)
    BY <2>2, SameMoves DEF Others
  <2> QED
    BY <1>1, <2>1, <2>2, <2>3, DieSpent
<1>7. CASE Throw(g)
  <2>1. GiveUp(g) /\ gen[g].at \in Before /\ UNCHANGED ipc
    BY <1>7 DEF Throw, Before
  <2>2. RequestsStay /\ ~Spent(gen[g].next) /\ gen[g].at \in Batch
    BY <2>1, Unspent, Parts DEF RequestsStay
  <2> QED
    BY <1>1, <2>1, <2>2, GiveUpSpent
<1>8. CASE TerminateFails(g)
  <2>1. /\ gen[g].at \in Before /\ UNCHANGED ipc
        /\ (GoUnseen(g, "dispatch") /\ UNCHANGED repeated) \/ GiveUp(g)
    BY <1>8 DEF TerminateFails, Before
  <2>2. RequestsStay /\ ~Spent(gen[g].next) /\ gen[g].at \in Batch /\ "dispatch" \in Batch
    BY <2>1, Unspent, Parts DEF RequestsStay, Batch, Before
  <2> QED
    BY <1>1, <2>1, <2>2, Places, GoSpent, GiveUpSpent
<1>9. ASSUME NEW k \in Gens, Spawn(g, k) PROVE SpentIsBehind'
  <2>1. /\ Others({g, k}) /\ gen'[g].at = gen[g].at /\ SameBatch(g)
        /\ gen'[g].retiring = gen[g].retiring /\ gen'[k].at = "standby"
    BY <1>9, SpawnEffect
  <2>2. gen[k].at = "off" /\ UNCHANGED <<repeated, ipc>>
    BY <1>9 DEF Spawn
  <2>3. MovesOn(g) /\ KeepsHand(g)
    BY <2>1 DEF MovesOn, KeepsHand, SameBatch, Polls
  <2>4. MovesOn(k) /\ KeepsHand(k)
    BY <2>1, <2>2 DEF MovesOn, KeepsHand, Polls, Batch, Before, Handled
  <2>5. \A h \in Gens : MovesOn(h) /\ KeepsHand(h)
    BY <2>1, <2>3, <2>4, SameMoves DEF Others
  <2>6. MoreRepeated /\ RequestsStay
    BY <2>2 DEF MoreRepeated, RequestsStay
  <2> QED
    BY <1>1, <2>5, <2>6, MoveBehind, StayBehind, QuietSpent
<1> QED
  BY <1>2, <1>3, <1>4, <1>5, <1>6, <1>7, <1>8, <1>9
\* The steps of requests keep SpentIsBehind.
LEMMA SpentRequest ==
    ASSUME TypeOK, RolesHold, RequestsHold, SpentIsBehind, NEW r \in ipc,
           Serve(r) \/ ServeThrows(r) \/ Reply(r) \/ HangUp(r) \/ Timeout(r)
    PROVE  SpentIsBehind'
<1> USE DEF Batch, Before, Busy, Handled
<1>1. /\ r \in Request /\ r.from \in Gens /\ r.update \in Updates /\ RequestBehind(r)
      /\ r.awaited => gen[r.from].at = "wait" /\ gen[r.from].next = r.update
  BY RequestFields DEF RequestsHold, SpentIsBehind
<1>2. UNCHANGED <<gen, repeated>> /\ MoreRepeated => \A h \in Gens : KeepsHand(h) /\ MovesOn(h)
  BY SameMoves
<1>3. CASE Serve(r)
  BY <1>3, ServeSpent
<1>4. CASE ServeThrows(r)
  <2>1. /\ ~r.served /\ ipc' = ipc \ {r} /\ UNCHANGED <<saved, handled>>
        /\ IF r.awaited THEN GiveUp(r.from) ELSE UNCHANGED <<gen, repeated>>
    BY <1>4 DEF ServeThrows, feed
  <2>2. RequestsStay
    BY <2>1 DEF RequestsStay
  <2>3. CASE r.awaited
    BY <1>1, <2>1, <2>2, <2>3, GiveUpSpent DEF RequestBehind
  <2>4. CASE ~r.awaited
    BY <1>2, <2>1, <2>2, <2>4, MoveBehind, StayBehind, QuietSpent DEF MoreRepeated
  <2> QED
    BY <2>3, <2>4
<1>5. CASE Reply(r)
  <2>1. /\ ipc' = ipc \ {r} /\ UNCHANGED <<saved, handled, repeated>>
        /\ IF r.awaited THEN GoUnseen(r.from, "save") ELSE UNCHANGED gen
    BY <1>5 DEF Reply, feed
  <2>2. RequestsStay /\ MoreRepeated
    BY <2>1 DEF RequestsStay, MoreRepeated
  <2>3. CASE r.awaited
    <3>1. Others({r.from}) /\ gen'[r.from].at = "save" /\ SameBatch(r.from) /\ SameRole(r.from)
      BY <1>1, <2>1, <2>3, Places, GoUnseenEffect
    <3>2. MovesOn(r.from) /\ KeepsHand(r.from)
      BY <1>1, <2>3, <3>1 DEF MovesOn, KeepsHand, SameBatch, SameRole, Polls
    <3>3. \A h \in Gens : MovesOn(h) /\ KeepsHand(h)
      BY <3>1, <3>2, SameMoves DEF Others
    <3> QED
      BY <2>1, <2>2, <3>3, MoveBehind, StayBehind, QuietSpent
  <2>4. CASE ~r.awaited
    BY <1>2, <2>1, <2>2, <2>4, MoveBehind, StayBehind, QuietSpent
  <2> QED
    BY <2>3, <2>4
<1>6. CASE HangUp(r) \/ Timeout(r)
  <2>1. /\ UNCHANGED <<saved, handled>> /\ MoreRepeated
        /\ IF r.awaited THEN Go(r.from, "recover") ELSE UNCHANGED gen
        /\ r.served => r.update \in repeated'
    BY <1>6 DEF HangUp, Timeout, feed, MoreRepeated
  <2>2. RequestsStay
    <3>1. CASE HangUp(r)
      BY <3>1 DEF HangUp, RequestsStay
    <3>2. CASE Timeout(r)
      <4> DEFINE q == [r EXCEPT !.awaited = FALSE]
      <4>1. ipc' = (ipc \ {r}) \cup {q} /\ r.update \in repeated'
        BY <3>2 DEF Timeout
      <4>2. q.update = r.update /\ q.served = r.served
        BY <1>1 DEF Request
      <4> HIDE DEF q
      <4> QED
        BY <4>1, <4>2 DEF RequestsStay
    <3> QED
      BY <1>6, <3>1, <3>2
  <2>3. ~Spent(r.update)'
    BY <1>1, <2>1 DEF RequestBehind, Spent, MoreRepeated
  <2>4. CASE r.awaited
    <3> DEFINE g == r.from
    <3>1. /\ Others({g}) /\ gen'[g].at = "recover" /\ gen'[g].next = gen[g].next
          /\ gen'[g].last = gen[g].last /\ gen'[g].retiring = gen[g].retiring
      BY <1>1, <2>1, <2>4, Places, GoEffect DEF SameBatch, SameRole
    <3>2. g \in Gens /\ gen[g].at = "wait" /\ gen[g].next = r.update
      BY <1>1, <2>4
    <3> HIDE DEF g
    <3>3. PollerBehind(g) /\ gen[g].next \in Updates
      BY <1>1, <3>2 DEF SpentIsBehind
    <3>4. \A u \in Updates : Spent(u)' => Spent(u) /\ u # r.update
      BY <2>1, <2>3 DEF Spent, MoreRepeated
    <3>5. Polls(g)' => Untouched(gen[g].next)'
      <4>1. ASSUME Polls(g), NEW u \in Updates, Spent(u)' PROVE u < gen[g].next
        <5>1. u < gen[g].next + 1 /\ u # gen[g].next
          BY <3>2, <3>3, <3>4, <4>1 DEF PollerBehind, Untouched
        <5> QED
          BY <3>3, <5>1 DEF Updates
      <4>2. Polls(g)' => Polls(g)
        BY <3>1, <3>2 DEF Polls
      <4> QED
        BY <3>1, <4>1, <4>2 DEF Untouched
    <3>6. PollerBehind(g)'
      <4>1. gen'[g].retiring =>
              \A u \in Updates : gen'[g].next <= u /\ u <= gen'[g].last => u \in repeated'
        BY <2>1, <3>1, <3>2, <3>3 DEF PollerBehind, MoreRepeated
      <4> QED
        BY <3>1, <3>5, <4>1 DEF PollerBehind
    <3>7. \A h \in Gens \ {g} : KeepsHand(h) /\ PollerBehind(h)'
      BY <2>1, <3>1, SameMoves, MoveBehind DEF Others
    <3>8. ASSUME NEW u \in Updates, Spent(u)' PROVE u < saved' \/ InHand(u)'
      <4>1. CASE u < saved
        BY <2>1, <4>1
      <4>2. CASE InHand(u)
        <5>1. PICK h \in Gens : Polls(h) /\ gen[h].at \in Busy /\ gen[h].next = u
          BY <4>2 DEF InHand
        <5>2. h # g
          BY <3>2, <3>4, <3>8, <5>1
        <5> QED
          BY <3>7, <3>8, <5>1, <5>2 DEF KeepsHand, InHand, Spent
      <4> QED
        BY <3>4, <3>8, <4>1, <4>2 DEF SpentIsBehind
    <3>9. HandledOnce' /\ \A s \in ipc' : RequestBehind(s)'
      BY <2>1, <2>2, StayBehind DEF SpentIsBehind, HandledOnce, MoreRepeated
    <3> QED
      BY <3>6, <3>7, <3>8, <3>9 DEF SpentIsBehind
  <2>5. CASE ~r.awaited
    BY <2>1, <2>2, <2>5, SameMoves, MoveBehind, StayBehind, QuietSpent
  <2> QED
    BY <2>4, <2>5
<1> QED
  BY <1>3, <1>4, <1>5, <1>6

\* Every step keeps SpentIsBehind.
LEMMA SpentStep ==
    ASSUME TypeOK, RolesHold, RequestsHold, SpentIsBehind, [Next]_vars
    PROVE  SpentIsBehind'
<1>1. CASE UNCHANGED <<saved, handled, repeated, ipc, gen>>
  <2>1. MoreRepeated /\ RequestsStay
    BY <1>1 DEF MoreRepeated, RequestsStay
  <2> QED
    BY <1>1, <2>1, SameMoves, MoveBehind, StayBehind, QuietSpent
<1> QED
  BY <1>1, SpentLoop, SpentRun, SpentRequest DEF Next, Send, Done, vars

-----------------------------------------------------------------------------
(* The invariant of the topic *)

\* A process that led at some time, or still does
Past(g) == gen[g].at \notin {"off", "standby"}
Runner(g) == runs[g] # NoRun

\* A topic is owned by a process that had a run, and a request goes to one.
OwnersHold ==
    /\ session.owner # Nobody => Past(session.owner)
    /\ \A g \in Gens : gen[g].seen.owner # Nobody => Past(gen[g].seen.owner)
    /\ \A r \in ipc : Past(r.to)
    /\ \A g \in Gens : Runner(g) => Past(g) /\ Alive(g) /\ runs[g].state # "none"

\* A sender waits for the owner it saw; a request it gave up goes to a dead
\* process, or its sender is about to take the topic over.
SendersHold ==
    /\ \A r \in ipc : r.awaited => gen[r.from].seen.owner = r.to
    /\ left = {} => \A r \in ipc : ~r.awaited /\ Alive(r.to) =>
          gen[r.from].at = "recover" /\ gen[r.from].seen.owner = r.to

\* A run begins with an update in the hands of the poller, who dispatches it
\* or waits for the one it goes to.
StartingHolds ==
    \A g \in Gens : runs[g].state = "starting" =>
       gen[g].at = "started" \/ \E r \in ipc : r.to = g /\ r.served

\* While an update is in the hands of the poller, nobody runs but where it goes.
TopicHolds(g) ==
    /\ gen[g].retiring => gen[g].at = "poll"
    /\ gen[g].at \in {"target", "wait", "recover", "clear"} =>
          \A h \in Gens : Runner(h) => h = gen[g].seen.owner
    /\ gen[g].at = "clear" => \A h \in Gens : ~Runner(h)
    /\ gen[g].at = "dispatch" /\ Prompt(gen[g].next) => \A h \in Gens : Runner(h) => h = g

OneRuns == \A g, h \in Gens : Runner(g) /\ Runner(h) => g = h
Recorded == \A g \in Gens : runs[g].state \in {"active", "ending"} =>
                session.owner = g /\ session.status = "running"
Orderly == StartingHolds /\ (\A g \in Gens : TopicHolds(g)) /\ OneRuns /\ Recorded
RunsHold == left = {} => Orderly

TopicInv == FeedInv /\ OwnersHold /\ SendersHold /\ RunsHold

-----------------------------------------------------------------------------
(* Owners *)

\* How a process dies
Dying(h) ==
    \/ Exit(h) \/ Die(h)
    \/ \E g \in Gens : (Terminate(g) /\ h = gen[g].seen.owner)
                      \/ (RolloutFails(g) /\ h = gen[g].child)

\* A process sees what it saw, or the session as it is, or nothing; one that
\* waits sees the same.
SeesOn(h) ==
    /\ gen'[h].seen \in {gen[h].seen, session, NoSession}
    /\ Past(h) => Past(h)'
    /\ gen[h].at = "wait" /\ gen'[h].at = "wait" => gen'[h].seen = gen[h].seen
    /\ gen[h].at = "dead" => gen'[h].at = "dead"
    /\ gen'[h].at = "dead" => gen[h].at = "dead" \/ Dying(h)

\* The steps of the update loop
LEMMA SeesLoop ==
    ASSUME TypeOK, RolesHold, NEW g \in Gens, LoopStep(g), NEW h \in Gens
    PROVE  SeesOn(h)
<1> USE DEF SeesOn, Past
<1>0. gen \in [Gens -> Process]
  BY DEF TypeOK
<1>1. CASE StartService(g) \/ Acquire(g) \/ RecoverStale(g) \/ Dispatch(g) \/ Started(g) \/ RecoverIdle(g)
  BY <1>0, <1>1 DEF StartService, Acquire, RecoverStale, Dispatch, Started, RecoverIdle, Go, Process
<1>2. CASE Bootstrap(g) \/ Poll(g)
  BY <1>0, <1>2 DEF Bootstrap, Poll, Process
<1>3. CASE Route(g)
  BY <1>0, <1>3 DEF Route, Go, Process
<1>4. CASE Target(g) \/ Clear(g)
  BY <1>0, <1>4 DEF Target, Clear, Go, GoUnseen, Process
<1>5. CASE RecoverNot(g)
  BY <1>0, <1>5 DEF RecoverNot, GiveUp, Idle, Process
<1>6. CASE Terminate(g)
  <2>1. gen[g].seen.owner \in Gens \ {g} /\ gen[g].at = "recover"
    BY <1>6, RolesFields DEF Terminate
  <2>2. /\ Others({g, gen[g].seen.owner}) /\ gen'[gen[g].seen.owner] = Gone
        /\ gen'[g].at = "clear" /\ gen'[g].seen = gen[g].seen
    BY <1>6, <2>1, TerminateEffect DEF Terminate
  <2>3. h = gen[g].seen.owner => Dying(h)
    BY <1>6 DEF Dying
  <2>4. Gone.at = "dead" /\ Gone.seen = NoSession
    BY DEF Gone, NewProcess
  <2> QED BY <2>1, <2>2, <2>3, <2>4 DEF Others
<1>7. CASE Save(g)
  <2>1. gen[g].at = "save"
    BY <1>7 DEF Save
  <2>2. /\ gen'[g].seen \in {gen[g].seen, NoSession} /\ gen'[g].at \in {"poll", "route"}
        /\ Others({g})
    <3>1. CASE gen[g].next = gen[g].last
      <4> DEFINE p == [gen[g] EXCEPT !.at = "poll", !.next = 0, !.last = 0, !.seen = NoSession,
                                     !.offset = gen[g].last + 1]
      <4>1. gen' = [gen EXCEPT ![g] = p]
        BY <1>7, <3>1 DEF Save, Idle
      <4>2. p.seen = NoSession /\ p.at = "poll"
        BY <1>0 DEF Process
      <4> HIDE DEF p
      <4> QED BY <1>0, <4>1, <4>2 DEF Others
    <3>2. CASE gen[g].next # gen[g].last
      <4>1. gen' = [gen EXCEPT ![g].at = "route", ![g].next = @ + 1]
        BY <1>7, <3>2 DEF Save
      <4> QED BY <1>0, <4>1 DEF Process, Others
    <3> QED BY <3>1, <3>2
  <2> QED BY <2>1, <2>2 DEF Others
<1>8. CASE Exit(g)
  BY <1>0, <1>8 DEF Exit, Gone, NewProcess, Dying
<1>9. CASE Activate(g)
  BY <1>9 DEF Activate
<1> QED BY <1>1, <1>2, <1>3, <1>4, <1>5, <1>6, <1>7, <1>8, <1>9 DEF LoopStep

\* The steps of runs, of rollouts and of faults
LEMMA SeesRun ==
    ASSUME TypeOK, RolesHold, NEW g \in Gens,
           \/ Refuse(g) \/ Finish(g) \/ Settle(g) \/ Mark(g) \/ RolloutFails(g) \/ Retire(g)
           \/ Die(g) \/ Throw(g) \/ TerminateFails(g) \/ \E k \in Gens : Spawn(g, k),
           NEW h \in Gens
    PROVE  SeesOn(h)
<1> USE DEF SeesOn, Past
<1>0. gen \in [Gens -> Process]
  BY DEF TypeOK
<1>1. CASE Refuse(g) \/ Finish(g) \/ Settle(g)
  BY <1>1 DEF Refuse, Finish, Settle
<1>2. CASE Mark(g)
  BY <1>2, MarkEffect DEF Others
<1>3. CASE RolloutFails(g)
  <2>1. gen[g].child \in Gens \ {g}
    BY <1>3, RolesFields DEF RolloutFails
  <2> QED BY <1>3, <2>1, RolloutFailsEffect DEF Others, Gone, NewProcess, Dying
<1>4. CASE Retire(g)
  BY <1>4, RetireEffect DEF Others
<1>5. CASE Die(g)
  BY <1>0, <1>5 DEF Die, Gone, NewProcess, Dying
<1>6. CASE Throw(g)
  BY <1>0, <1>6 DEF Throw, GiveUp, Idle, Process
<1>7. CASE TerminateFails(g)
  BY <1>0, <1>7 DEF TerminateFails, GiveUp, Idle, GoUnseen, Process
<1>8. ASSUME NEW k \in Gens, Spawn(g, k) PROVE SeesOn(h)
  BY <1>0, <1>8 DEF Spawn, Process, Leader
<1> QED BY <1>1, <1>2, <1>3, <1>4, <1>5, <1>6, <1>7, <1>8

\* The steps of requests
LEMMA SeesRequest ==
    ASSUME TypeOK, RequestsHold, NEW r \in ipc,
           Serve(r) \/ ServeThrows(r) \/ Reply(r) \/ HangUp(r) \/ Timeout(r), NEW h \in Gens
    PROVE  SeesOn(h)
<1> USE DEF SeesOn, Past
<1>0. gen \in [Gens -> Process] /\ (r.awaited => gen[r.from].at = "wait")
  BY DEF TypeOK, RequestsHold
<1>1. CASE Serve(r)
  BY <1>1 DEF Serve
<1>2. CASE ServeThrows(r)
  <2>1. UNCHANGED gen \/ (r.awaited /\ gen' = [gen EXCEPT ![r.from] = Idle(@)])
    BY <1>2 DEF ServeThrows, GiveUp
  <2>2. CASE r.awaited /\ gen' = [gen EXCEPT ![r.from] = Idle(@)]
    <3> DEFINE p == [gen[r.from] EXCEPT !.at = "poll", !.next = 0, !.last = 0, !.seen = NoSession]
    <3>1. r.from \in Gens /\ gen' = [gen EXCEPT ![r.from] = p]
      BY <2>2, RequestFields DEF Idle
    <3>2. p.seen = NoSession /\ p.at = "poll"
      BY <1>0, <3>1 DEF Process
    <3> HIDE DEF p
    <3> QED BY <1>0, <2>2, <3>1, <3>2
  <2> QED BY <2>1, <2>2
<1>3. CASE Reply(r)
  BY <1>0, <1>3 DEF Reply, GoUnseen, Process
<1>4. CASE HangUp(r) \/ Timeout(r)
  BY <1>0, <1>4 DEF HangUp, Timeout, Go, Process
<1> QED BY <1>1, <1>2, <1>3, <1>4

\* Every step
LEMMA SeesStep ==
    ASSUME TypeOK, RolesHold, RequestsHold, Next
    PROVE  \A h \in Gens : SeesOn(h)
<1>1. UNCHANGED gen => \A h \in Gens : SeesOn(h)
  BY DEF SeesOn, Past
<1> QED BY <1>1, SeesLoop, SeesRun, SeesRequest DEF Next, Send, Done, vars

\* Where the requests of a step come from
Kept(r) == \E s \in ipc :
    /\ s.from = r.from /\ s.to = r.to
    /\ (s.served => r.served) /\ (r.awaited => s.awaited)
    /\ \/ r.served => s.served
       \/ Serve(s)
    /\ \/ s.awaited => r.awaited
       \/ Timeout(s)
       \/ Dead(s.from) /\ Orphans(s.from) \subseteq left' /\ gen'[s.from].at = "dead"
Added(r) == \E g \in Gens :
    /\ Target(g) /\ Forwards(g)
    /\ r.from = g /\ r.to = gen[g].seen.owner /\ ~r.served /\ r.awaited

\* A request of a step is one of before, or the one of an update that is
\* forwarded.
LEMMA RequestsCome ==
    ASSUME TypeOK, RolesHold, Next, NEW r \in ipc'
    PROVE  Kept(r) \/ Added(r)
<1>1. r \in ipc => Kept(r)
  BY DEF Kept
<1>2. CASE UNCHANGED ipc
  BY <1>1, <1>2
<1>3. ASSUME NEW g \in Gens, Target(g) PROVE Kept(r) \/ Added(r)
  <2> DEFINE new == [from |-> g, to |-> gen[g].seen.owner, update |-> gen[g].next,
                     served |-> FALSE, awaited |-> TRUE]
  <2>1. CASE r \in ipc
    BY <1>1, <2>1
  <2>2. CASE r \notin ipc
    <3>1. Forwards(g) /\ r = new
      BY <1>3, <2>2, TargetCases DEF Forwards, Disowns
    <3>2. r.from = g /\ r.to = gen[g].seen.owner /\ ~r.served /\ r.awaited
      BY <3>1
    <3> QED BY <1>3, <3>1, <3>2 DEF Added
  <2> QED BY <2>1, <2>2
<1>4. ASSUME NEW k \in Gens, Dead(k), Orphans(k) \subseteq left', gen'[k].at = "dead"
      PROVE  Kept(r)
  <2>1. PICK s \in ipc : /\ r.from = s.from /\ r.to = s.to /\ r.served = s.served
                         /\ (r.awaited <=> s.awaited /\ s.from # k)
    BY <1>4, DeadEffect
  <2> QED BY <1>4, <2>1 DEF Kept
<1>5. ASSUME NEW g \in Gens, Terminate(g) PROVE Kept(r)
  <2> DEFINE k == gen[g].seen.owner
  <2>1. k \in Gens \ {g} /\ gen[g].at = "recover"
    BY <1>5, RolesFields DEF Terminate
  <2>2. Dead(k) /\ Orphans(k) \subseteq left' /\ gen' = [gen EXCEPT ![g].at = "clear", ![k] = Gone]
    BY <1>5 DEF Terminate
  <2> HIDE DEF k
  <2>3. gen'[k].at = "dead"
    BY <2>1, <2>2, TerminateEffect, GoneIs
  <2> QED BY <1>4, <2>1, <2>2, <2>3
<1>6. ASSUME NEW g \in Gens, Die(g) PROVE Kept(r)
  <2>1. gen'[g].at = "dead"
    BY <1>6, KillEffect, GoneIs DEF Die
  <2> QED BY <1>4, <1>6, <2>1 DEF Die
<1>7. ASSUME NEW q \in ipc, Serve(q) \/ ServeThrows(q) \/ Reply(q) \/ HangUp(q) \/ Timeout(q)
      PROVE  Kept(r)
  <2>1. CASE r \in ipc
    BY <1>1, <2>1
  <2>2. CASE r \notin ipc /\ Serve(q)
    <3>1. r = [q EXCEPT !.served = TRUE] /\ q \in Request
      BY <1>7, <2>2, RequestFields DEF Serve
    <3>2. r.from = q.from /\ r.to = q.to /\ r.awaited = q.awaited /\ r.served
      BY <3>1 DEF Request
    <3> QED BY <1>7, <2>2, <3>2 DEF Kept
  <2>3. CASE r \notin ipc /\ Timeout(q)
    <3>1. r = [q EXCEPT !.awaited = FALSE] /\ q \in Request
      BY <1>7, <2>3, RequestFields DEF Timeout
    <3>2. r.from = q.from /\ r.to = q.to /\ ~r.awaited /\ r.served = q.served
      BY <3>1 DEF Request
    <3> QED BY <1>7, <2>3, <3>2 DEF Kept
  <2>4. CASE r \notin ipc /\ (ServeThrows(q) \/ Reply(q) \/ HangUp(q))
    BY <2>4 DEF ServeThrows, Reply, HangUp
  <2> QED BY <1>7, <2>1, <2>2, <2>3, <2>4
<1>8. ASSUME NEW g \in Gens, LoopStep(g) PROVE Kept(r) \/ Added(r)
  BY <1>2, <1>3, <1>5, <1>8 DEF LoopStep, StartService, Acquire, RecoverStale, Bootstrap, Poll, Route,
     RecoverNot, RecoverIdle, Clear, Dispatch, Started, Save, Exit, Activate
<1>9. ASSUME NEW g \in Gens,
             \/ Refuse(g) \/ Finish(g) \/ Settle(g) \/ Mark(g) \/ RolloutFails(g) \/ Retire(g)
             \/ Die(g) \/ Throw(g) \/ TerminateFails(g) \/ \E k \in Gens : Spawn(g, k)
      PROVE  Kept(r)
  BY <1>1, <1>6, <1>9 DEF Refuse, Finish, Settle, Mark, RolloutFails, Retire, Throw, TerminateFails, Spawn
<1> QED BY <1>2, <1>7, <1>8, <1>9 DEF Next, Send, Done, vars

\* Who owns the session after a step, and who runs
Comes(h) == runs'[h].state = "starting" /\ (Dispatch(h) \/ \E r \in ipc : Serve(r) /\ r.to = h)
RunsOn(h) == Runner(h)' => (Runner(h) /\ (runs'[h].state # "none" \/ runs[h].state = "none")) \/ Comes(h)

\* A run goes on, or begins with an update that is dispatched or served.
LEMMA RunsCome ==
    ASSUME TypeOK, RolesHold, Next, NEW h \in Gens
    PROVE  RunsOn(h)
<1>0. runs \in [Gens -> Run]
  BY DEF TypeOK
<1>1. CASE UNCHANGED runs
  BY <1>1 DEF RunsOn, Runner
<1>2. ASSUME NEW g \in Gens, runs' = [runs EXCEPT ![g] = NoRun] PROVE RunsOn(h)
  BY <1>0, <1>2 DEF RunsOn, Runner
<1>3. ASSUME NEW g \in Gens, NEW u, Handle(g, u), g = h => Dispatch(h) \/ \E r \in ipc : Serve(r) /\ r.to = h
      PROVE  RunsOn(h)
  <2>1. UNCHANGED runs \/ runs' = [runs EXCEPT ![g].state = "starting"]
    BY <1>3 DEF Handle
  <2>2. CASE runs' = [runs EXCEPT ![g].state = "starting"]
    BY <1>0, <1>3, <2>2 DEF RunsOn, Runner, Comes, Run
  <2> QED BY <1>1, <2>1, <2>2
<1>4. ASSUME NEW g \in Gens, Dispatch(g) PROVE RunsOn(h)
  BY <1>3, <1>4 DEF Dispatch
<1>5. ASSUME NEW r \in ipc, Serve(r) PROVE RunsOn(h)
  <2>1. r.to \in Gens /\ Handle(r.to, r.update)
    BY <1>5, RequestFields DEF Serve
  <2> QED BY <1>3, <1>5, <2>1
<1>6. ASSUME NEW g \in Gens, Activate(g) PROVE RunsOn(h)
  <2>1. \E n : runs' = [runs EXCEPT ![g] = [state |-> "active", began |-> n]]
    BY <1>6 DEF Activate
  <2>2. runs[g] # NoRun /\ runs[g].state = "starting"
    BY <1>6 DEF Activate, NoRun
  <2> QED BY <1>0, <2>1, <2>2 DEF RunsOn, Runner
<1>7. ASSUME NEW g \in Gens, Finish(g) PROVE RunsOn(h)
  <2>1. runs[g].state = "active" /\ runs[g] # NoRun
    BY <1>7 DEF Finish, NoRun
  <2>2. runs' = [runs EXCEPT ![g] = NoRun] \/ runs' = [runs EXCEPT ![g] = [runs[g] EXCEPT !.state = "ending"]]
    BY <1>0, <1>7 DEF Finish
  <2> QED BY <1>0, <2>1, <2>2 DEF RunsOn, Runner, Run
<1>8. ASSUME NEW g \in Gens, LoopStep(g) PROVE RunsOn(h)
  <2>1. Terminate(g) => gen[g].seen.owner \in Gens /\ runs' = [runs EXCEPT ![gen[g].seen.owner] = NoRun]
    BY RolesFields DEF Terminate
  <2> QED BY <1>1, <1>2, <1>4, <1>6, <1>8, <2>1 DEF LoopStep, StartService, Acquire, RecoverStale, Bootstrap, Poll,
             Route, Target, RecoverNot, RecoverIdle, Clear, Started, Save, Exit
<1>9. ASSUME NEW g \in Gens,
             \/ Refuse(g) \/ Finish(g) \/ Settle(g) \/ Mark(g) \/ RolloutFails(g) \/ Retire(g)
             \/ Die(g) \/ Throw(g) \/ TerminateFails(g) \/ \E k \in Gens : Spawn(g, k)
      PROVE  RunsOn(h)
  BY <1>1, <1>2, <1>7, <1>9 DEF Refuse, Settle, Mark, RolloutFails, Retire, Die, Throw, TerminateFails, Spawn
<1>10. ASSUME NEW r \in ipc, ServeThrows(r) \/ Reply(r) \/ HangUp(r) \/ Timeout(r) PROVE RunsOn(h)
  BY <1>1, <1>10 DEF ServeThrows, Reply, HangUp, Timeout
<1> QED BY <1>1, <1>5, <1>8, <1>9, <1>10 DEF Next, Send, Done, vars

\* The owner of the session stays, is forgotten, or is a process that runs or
\* leads.
LEMMA OwnerComes ==
    ASSUME TypeOK, Next
    PROVE  \/ session'.owner \in {session.owner, Nobody}
           \/ \E g \in Gens : session'.owner = g /\ (Runner(g) \/ Past(g))
<1>0. session \in Session
  BY DEF TypeOK
<1>1. CASE UNCHANGED session
  BY <1>1
<1>2. Unowned.owner = Nobody /\ [Unowned EXCEPT !.status = "interrupted"].owner = Nobody
  BY <1>0 DEF Unowned, Session
<1>3. ASSUME NEW g \in Gens, LoopStep(g), ~UNCHANGED session
      PROVE  \/ session'.owner = Nobody
             \/ \E k \in Gens : session'.owner = k /\ (Runner(k) \/ Past(k))
  <2>1. CASE Activate(g)
    BY <2>1 DEF Activate, Runner, NoRun
  <2>2. CASE RecoverStale(g) \/ Target(g) \/ Clear(g)
    BY <1>2, <1>3, <2>2 DEF RecoverStale, Target, Clear
  <2> QED BY <1>3, <2>1, <2>2 DEF LoopStep, StartService, Acquire, Bootstrap, Poll, Route,
             RecoverNot, RecoverIdle, Terminate, Dispatch, Started, Save, Exit
<1>4. ASSUME NEW g \in Gens, Settle(g) PROVE session'.owner = Nobody
  BY <1>4 DEF Settle
<1>5. ASSUME NEW g \in Gens, Mark(g), ~UNCHANGED session PROVE session'.owner = g /\ Past(g)
  <2>1. session' = [session EXCEPT !.owner = g, !.mode = "retiring"] /\ Leader(g)
    BY <1>5 DEF Mark
  <2> QED BY <1>0, <2>1 DEF Leader, Past, Session
<1>6. ASSUME NEW g \in Gens,
             \/ Refuse(g) \/ Finish(g) \/ RolloutFails(g) \/ Retire(g)
             \/ Die(g) \/ Throw(g) \/ TerminateFails(g) \/ \E k \in Gens : Spawn(g, k)
      PROVE  UNCHANGED session
  BY <1>6 DEF Refuse, Finish, RolloutFails, Retire, Die, Throw, TerminateFails, Spawn
<1>7. ASSUME NEW r \in ipc, Serve(r) \/ ServeThrows(r) \/ Reply(r) \/ HangUp(r) \/ Timeout(r)
      PROVE  UNCHANGED session
  BY <1>7 DEF Serve, ServeThrows, Reply, HangUp, Timeout
<1> QED BY <1>1, <1>3, <1>4, <1>5, <1>6, <1>7 DEF Next, Send, Done, vars

\* A process that runs lives, and so did every owner.
LEMMA OwnersKept ==
    ASSUME TypeOK, RolesHold, RequestsHold, OwnersHold, Next
    PROVE  OwnersHold'
<1>0. \A h \in Gens : SeesOn(h) /\ (Past(h) => Past(h)')
  BY SeesStep DEF SeesOn
<1>1. session'.owner # Nobody => session'.owner \in Gens /\ \A k \in Gens : k = session'.owner => Past(k)'
  <2>1. session.owner \in Gens \cup {Nobody}
    BY DEF TypeOK, Session
  <2> QED BY <1>0, <2>1, OwnerComes DEF OwnersHold
<1>2. ASSUME NEW g \in Gens, gen'[g].seen.owner # Nobody
      PROVE  gen'[g].seen.owner \in Gens /\ \A k \in Gens : k = gen'[g].seen.owner => Past(k)'
  <2>1. gen'[g].seen.owner = gen[g].seen.owner \/ gen'[g].seen.owner = session.owner
    BY <1>0, <1>2 DEF SeesOn, NoSession
  <2>2. gen[g].seen.owner \in Gens \cup {Nobody} /\ session.owner \in Gens \cup {Nobody}
    BY Fields DEF TypeOK, Session
  <2> QED BY <1>0, <1>2, <2>1, <2>2 DEF OwnersHold
<1>3. ASSUME NEW r \in ipc' PROVE Past(r.to)'
  <2>1. CASE Kept(r)
    BY <1>0, <2>1, RequestFields DEF Kept, OwnersHold
  <2>2. CASE Added(r)
    <3>1. PICK g \in Gens : r.to = gen[g].seen.owner /\ Target(g)
      BY <2>2 DEF Added
    <3>2. gen[g].seen.owner \in Gens
      BY <3>1, RolesFields DEF Target
    <3> QED BY <1>0, <3>1, <3>2, UpdateFeedAssumption DEF OwnersHold
  <2> QED BY <2>1, <2>2, RequestsCome
<1>4. ASSUME NEW h \in Gens, Runner(h)' PROVE Past(h)' /\ Alive(h)' /\ runs'[h].state # "none"
  <2>1. CASE Comes(h)
    <3>1. CASE Dispatch(h)
      BY <2>1, <3>1, Places, GoEffect DEF Dispatch, Comes, Past, Alive
    <3>2. CASE \E r \in ipc : Serve(r) /\ r.to = h
      BY <2>1, <3>2 DEF Serve, Comes, Past, Alive, OwnersHold
    <3> QED BY <2>1, <3>1, <3>2 DEF Comes
  <2>2. CASE ~Comes(h)
    <3>1. Runner(h) /\ runs'[h].state # "none"
      BY <1>4, <2>2, RunsCome DEF RunsOn, OwnersHold
    <3>2. gen[h].at \notin {"off", "standby", "dead"}
      BY <3>1 DEF OwnersHold, Past, Alive
    <3>3. ~Dying(h)
      <4>1. ~Exit(h) /\ ~Die(h)
        BY <1>4, <3>1 DEF Exit, Die, Runner, TypeOK
      <4>2. ASSUME NEW g \in Gens, Terminate(g), h = gen[g].seen.owner PROVE FALSE
        BY <1>4, <4>2 DEF Terminate, Runner, TypeOK
      <4>3. ASSUME NEW g \in Gens, RolloutFails(g), h = gen[g].child PROVE FALSE
        BY <3>2, <4>3 DEF RolloutFails, RolesHold, RoleHolds
      <4> QED BY <4>1, <4>2, <4>3 DEF Dying
    <3>4. gen'[h].at \notin {"off", "standby", "dead"}
      BY <1>0, <3>2, <3>3 DEF SeesOn, Past
    <3> QED BY <3>1, <3>4 DEF Past, Alive
  <2> QED BY <2>1, <2>2
<1> QED BY <1>1, <1>2, <1>3, <1>4 DEF OwnersHold, Past

\* What is left behind stays so.
LEMMA LeftStays == ASSUME Next PROVE left \subseteq left'
<1>1. ASSUME NEW g \in Gens, LoopStep(g) PROVE left \subseteq left'
  <2>1. CASE RecoverNot(g) \/ RecoverIdle(g) \/ Terminate(g)
    BY <2>1 DEF RecoverNot, RecoverIdle, Terminate
  <2>2. CASE StartService(g) \/ Acquire(g) \/ RecoverStale(g) \/ Bootstrap(g) \/ Poll(g) \/ Route(g)
    BY <2>2 DEF StartService, Acquire, RecoverStale, Bootstrap, Poll, Route
  <2>3. CASE Target(g) \/ Clear(g) \/ Dispatch(g) \/ Started(g) \/ Save(g) \/ Exit(g) \/ Activate(g)
    BY <2>3 DEF Target, Clear, Dispatch, Started, Save, Exit, Activate
  <2> QED BY <1>1, <2>1, <2>2, <2>3 DEF LoopStep
<1>2. ASSUME NEW g \in Gens, Refuse(g) \/ Finish(g) \/ Settle(g) \/ Mark(g) \/ RolloutFails(g)
      PROVE  left \subseteq left'
  BY <1>2 DEF Refuse, Finish, Settle, Mark, RolloutFails
<1>3. ASSUME NEW g \in Gens,
             Retire(g) \/ Die(g) \/ Throw(g) \/ TerminateFails(g) \/ \E k \in Gens : Spawn(g, k)
      PROVE  left \subseteq left'
  BY <1>3 DEF Retire, Die, Throw, TerminateFails, Spawn
<1>4. ASSUME NEW r \in ipc, Serve(r) \/ ServeThrows(r) \/ Reply(r) \/ HangUp(r) \/ Timeout(r)
      PROVE  left \subseteq left'
  BY <1>4 DEF Serve, ServeThrows, Reply, HangUp, Timeout
<1> QED BY <1>1, <1>2, <1>3, <1>4 DEF Next, Send, Done, vars

\* A process that is to take the topic over from a living one, and leaves none
\* behind, is there until one of them dies.
LEMMA RecoverStays ==
    ASSUME TypeOK, RolesHold, RequestsHold, Next, left' = {}, NEW g \in Gens,
           gen[g].at = "recover", Alive(gen[g].seen.owner), gen'[gen[g].seen.owner].at # "dead"
    PROVE  \/ gen'[g].at = "recover" /\ gen'[g].seen = gen[g].seen
           \/ Dead(g) /\ Orphans(g) \subseteq left'
<1> DEFINE o == gen[g].seen.owner
<1>0. gen \in [Gens -> Process] /\ o \in Gens \ {g} /\ o \in Living /\ gen[g].at \in Inside
  BY RolesFields DEF TypeOK, Living, Inside, Batch, Before
<1> HIDE DEF o
<1>1. ASSUME NEW h \in Gens, LoopStep(h), h # g, ~Terminate(h) PROVE gen'[g] = gen[g]
  <2>1. gen[h].at = "save" => gen'[g] = gen[g] \/ ~Save(h)
    BY <1>0, <1>1 DEF Save
  <2> QED BY <1>0, <1>1, <2>1 DEF LoopStep, StartService, Acquire, RecoverStale, Bootstrap, Poll, Route, Target,
             RecoverNot, RecoverIdle, Clear, Dispatch, Started, Save, Exit, Activate, Go, GoUnseen, GiveUp
<1>2. ASSUME LoopStep(g) PROVE gen'[g] = gen[g]
  <2>1. ~RecoverNot(g) /\ ~RecoverIdle(g)
    BY <1>0 DEF RecoverNot, RecoverIdle, o
  <2>2. ~Terminate(g)
    <3> SUFFICES ASSUME Terminate(g) PROVE FALSE
      OBVIOUS
    <3>1. gen'[o].at = "dead"
      BY <1>0, TerminateEffect, GoneIs DEF Terminate, o
    <3> QED BY <3>1 DEF o
  <2> QED BY <1>0, <1>2, <2>1, <2>2 DEF LoopStep, StartService, Acquire, RecoverStale, Bootstrap, Poll, Route,
             Target, Clear, Dispatch, Started, Save, Exit, Activate
<1>3. ASSUME NEW h \in Gens, Terminate(h), h # g
      PROVE  gen'[g] = gen[g] \/ (Dead(g) /\ Orphans(g) \subseteq left')
  <2>1. gen[h].seen.owner \in Gens \ {h}
    BY <1>3, RolesFields DEF Terminate
  <2>2. gen[h].seen.owner # g => gen'[g] = gen[g]
    BY <1>0, <1>3, <2>1, TerminateEffect DEF Terminate, Others
  <2>3. gen[h].seen.owner = g => Dead(g) /\ Orphans(g) \subseteq left'
    BY <1>3 DEF Terminate
  <2> QED BY <2>2, <2>3
<1>4. ASSUME NEW h \in Gens, Mark(h) \/ Retire(h) PROVE gen'[g].at = "recover" /\ gen'[g].seen = gen[g].seen
  BY <1>4, MarkEffect, RetireEffect DEF Others
<1>5. ASSUME NEW h \in Gens, RolloutFails(h) PROVE gen'[g].at = "recover" /\ gen'[g].seen = gen[g].seen
  <2>1. gen[h].child \in Gens \ {h} /\ gen[gen[h].child].at \in {"standby", "dead"}
    BY <1>5, RolesFields DEF RolloutFails, RolesHold, RoleHolds
  <2> QED BY <1>5, <2>1, RolloutFailsEffect DEF Others
<1>6. ASSUME NEW h \in Gens, Die(h) PROVE gen'[g] = gen[g] \/ (Dead(g) /\ Orphans(g) \subseteq left')
  BY <1>0, <1>6 DEF Die
<1>7. ASSUME NEW h \in Gens, Throw(h) PROVE gen'[g] = gen[g]
  BY <1>0, <1>7 DEF Throw, GiveUp
<1>8. ASSUME NEW h \in Gens, TerminateFails(h) PROVE FALSE
  BY <1>8 DEF TerminateFails
<1>9. ASSUME NEW h \in Gens, NEW k \in Gens, Spawn(h, k) PROVE gen'[g].at = "recover" /\ gen'[g].seen = gen[g].seen
  <2>1. k # g
    BY <1>0, <1>9 DEF Spawn, Inside, Batch, Before
  <2> QED BY <1>0, <1>9, <2>1 DEF Spawn, Leader, Process
<1>10. ASSUME NEW r \in ipc, ServeThrows(r) \/ Reply(r) \/ HangUp(r) \/ Timeout(r) \/ Serve(r)
       PROVE  gen'[g] = gen[g]
  <2>1. r.awaited => r.from # g
    BY DEF RequestsHold
  <2> QED BY <1>0, <1>10, <2>1 DEF ServeThrows, Reply, HangUp, Timeout, Serve, Go, GoUnseen, GiveUp
<1>11. UNCHANGED gen => gen'[g] = gen[g]
  OBVIOUS
<1> QED BY <1>1, <1>2, <1>3, <1>4, <1>5, <1>6, <1>7, <1>8, <1>9, <1>10, <1>11
        DEF Next, Refuse, Finish, Settle, Send, Done, vars

\* Who waits and who takes over know whom they asked.
LEMMA SendersKept ==
    ASSUME TypeOK, RolesHold, RequestsHold, RequestsHold', OwnersHold, SendersHold, Next
    PROVE  SendersHold'
<1>0. \A h \in Gens : SeesOn(h)
  BY SeesStep
<1>1. ASSUME NEW r \in ipc', r.awaited PROVE gen'[r.from].seen.owner = r.to
  <2>1. CASE Kept(r)
    <3>1. PICK s \in ipc : s.from = r.from /\ s.to = r.to /\ s.awaited
      BY <1>1, <2>1 DEF Kept
    <3>2. r.from \in Gens /\ gen[r.from].at = "wait" /\ gen'[r.from].at = "wait"
      BY <1>1, <3>1, RequestFields DEF RequestsHold
    <3> QED BY <1>0, <3>1, <3>2 DEF SeesOn, SendersHold
  <2>2. CASE Added(r)
    <3>1. PICK g \in Gens : Forwards(g) /\ r.from = g /\ r.to = gen[g].seen.owner
      BY <2>2 DEF Added
    <3>2. gen'[g].seen = gen[g].seen
      BY <3>1, Places, GoEffect DEF Forwards
    <3> QED BY <3>1, <3>2
  <2> QED BY <2>1, <2>2, RequestsCome
<1>2. ASSUME left' = {}, NEW r \in ipc', ~r.awaited, gen'[r.to].at \notin {"off", "dead"}
      PROVE  gen'[r.from].at = "recover" /\ gen'[r.from].seen.owner = r.to
  <2>1. PICK s \in ipc :
          /\ s.from = r.from /\ s.to = r.to
          /\ \/ ~s.awaited
             \/ Timeout(s)
             \/ Dead(s.from) /\ Orphans(s.from) \subseteq left' /\ gen'[s.from].at = "dead"
    BY <1>2, RequestsCome DEF Kept, Added
  <2>2. s.to \in Gens /\ s.from \in Gens /\ Past(s.to)
    BY RequestFields DEF OwnersHold
  <2>3. Alive(s.to) /\ s.to \in Living
    BY <1>0, <1>2, <2>1, <2>2 DEF SeesOn, Past, Alive, Living
  <2>4. left = {}
    BY <1>2, LeftStays
  <2>5. CASE s.awaited /\ Timeout(s)
    <3>1. gen'[s.from].at = "recover" /\ gen'[s.from].seen = gen[s.from].seen
      BY <2>2, <2>5, Places, GoEffect DEF Timeout
    <3> QED BY <2>1, <2>5, <3>1 DEF SendersHold
  <2>6. ASSUME Dead(s.from), Orphans(s.from) \subseteq left', s.to # s.from PROVE FALSE
    <3>1. s.to \in Orphans(s.from)
      BY <2>3, <2>6 DEF Orphans
    <3> QED BY <1>2, <2>6, <3>1
  <2>7. CASE Dead(s.from) /\ Orphans(s.from) \subseteq left' /\ gen'[s.from].at = "dead"
    BY <1>2, <2>1, <2>6, <2>7 DEF Alive
  <2>8. CASE ~s.awaited
    <3>1. gen[s.from].at = "recover" /\ gen[s.from].seen.owner = s.to
      BY <2>3, <2>4, <2>8 DEF SendersHold
    <3>2. s.to # s.from
      BY <2>2, <3>1, RolesFields
    <3> QED BY <1>2, <2>1, <2>2, <2>3, <2>6, <3>1, <3>2, RecoverStays
  <2> QED BY <2>1, <2>5, <2>7, <2>8
<1> QED BY <1>1, <1>2 DEF SendersHold, Alive

-----------------------------------------------------------------------------
(* Runs *)

\* A batch is in the hands of one process.
LEMMA OneBatch ==
    ASSUME TypeOK, RolesHold, Orderly, NEW g \in Gens, NEW h \in Gens, gen[g].at \in Batch, gen[h].at \in Batch
    PROVE  g = h /\ ~gen[g].retiring
<1>1. \A k \in Gens : gen[k].at \in Batch => gen[k].at \notin {"off", "standby", "dead", "poll"}
  BY DEF Batch, Before, Handled
<1>2. \A k \in Gens : gen[k].at \in Batch => Polls(k)
  BY <1>1 DEF Polls, Orderly, TopicHolds
<1> QED BY <1>2 DEF RolesHold, RoleHolds, Polls

\* The update of a run that starts is in the hands of the process that starts
\* it, or of the one that waits for it.
LEMMA Starters ==
    ASSUME TypeOK, RolesHold, RequestsHold, OwnersHold, SendersHold, left = {}, Orderly,
           NEW h \in Gens, runs[h].state = "starting"
    PROVE  \/ gen[h].at = "started"
           \/ \E g \in Gens : gen[g].at \in {"wait", "recover"} /\ gen[g].seen.owner = h
<1>1. Runner(h) /\ Alive(h)
  BY DEF Runner, NoRun, OwnersHold
<1>2. ASSUME NEW r \in ipc, r.to = h, r.served
      PROVE  gen[r.from].at \in {"wait", "recover"} /\ gen[r.from].seen.owner = h
  BY <1>1, <1>2 DEF RequestsHold, SendersHold
<1> QED BY <1>2, RequestFields DEF Orderly, StartingHolds

\* No run starts while a batch is before its handling, or after it.
LEMMA NoStarter ==
    ASSUME TypeOK, RolesHold, RequestsHold, OwnersHold, SendersHold, left = {}, Orderly,
           NEW g \in Gens, gen[g].at \in {"route", "target", "clear", "dispatch", "save"}, NEW h \in Gens
    PROVE  runs[h].state # "starting"
<1>1. gen[g].at \in Batch /\ gen[g].at \notin {"started", "wait", "recover"}
  BY DEF Batch, Before, Handled
<1>2. \A k \in Gens : gen[k].at \in {"started", "wait", "recover"} => gen[k].at \in Batch
  BY DEF Batch, Before, Handled
<1> QED BY <1>1, <1>2, OneBatch, Starters

\* A run that is not starting is recorded.
LEMMA RunnerRecorded ==
    ASSUME TypeOK, OwnersHold, Orderly, NEW h \in Gens, Runner(h), runs[h].state # "starting"
    PROVE  session.owner = h /\ session.status = "running"
<1>1. runs[h] \in Run /\ runs[h].state # "none"
  BY Fields DEF OwnersHold
<1>2. runs[h].state \in {"active", "ending"}
  BY <1>1 DEF Run
<1> QED BY <1>2 DEF Orderly, Recorded

\* A step that starts no run and ends none of the others' batches
ServedStay == \A r \in ipc : r.served /\ runs'[r.to].state = "starting" =>
                 \E s \in ipc' : s.to = r.to /\ s.served
Calm(S) ==
    /\ Others(S)
    /\ \A h \in Gens : /\ Runner(h)' => Runner(h)
                       /\ runs'[h].state = "starting" => runs[h].state = "starting"
    /\ ServedStay
    /\ \A h \in S : /\ TopicHolds(h)'
                    /\ gen[h].at = "started" /\ runs'[h].state = "starting" => gen'[h].at = "started"
    /\ Recorded'

LEMMA CalmKeeps == ASSUME TypeOK, Orderly, NEW S \in SUBSET Gens, Calm(S) PROVE Orderly'
<1>1. OneRuns'
  BY DEF Orderly, OneRuns, Calm
<1>2. ASSUME NEW g \in Gens PROVE TopicHolds(g)'
  BY DEF Orderly, TopicHolds, Calm, Others
<1>3. ASSUME NEW g \in Gens, runs'[g].state = "starting"
      PROVE  gen'[g].at = "started" \/ \E r \in ipc' : r.to = g /\ r.served
  <2>1. gen[g].at = "started" \/ \E r \in ipc : r.to = g /\ r.served
    BY <1>3 DEF Orderly, StartingHolds, Calm
  <2>2. CASE gen[g].at = "started"
    BY <1>3, <2>2 DEF Calm, Others
  <2>3. ASSUME NEW r \in ipc, r.to = g, r.served PROVE \E s \in ipc' : s.to = g /\ s.served
    BY <1>3, <2>3 DEF Calm, ServedStay
  <2> QED BY <2>1, <2>2, <2>3
<1>4. StartingHolds'
  BY <1>3 DEF StartingHolds
<1> QED BY <1>1, <1>2, <1>4 DEF Orderly, Calm

\* Where nobody runs, only a retiring process has to be at the poll.
LEMMA NobodyRuns ==
    ASSUME TypeOK', \A h \in Gens : ~Runner(h)', \A h \in Gens : gen'[h].retiring => gen'[h].at = "poll"
    PROVE  Orderly'
<1>1. \A h \in Gens : runs'[h].state \notin {"starting", "active", "ending"}
  BY DEF Runner, NoRun
<1> QED BY <1>1 DEF Orderly, StartingHolds, TopicHolds, OneRuns, Recorded

\* The runs go on under the session that records them.
LEMMA RecordedStays ==
    ASSUME Orderly, session'.owner = session.owner, session'.status = session.status,
           \A h \in Gens : runs'[h].state \in {"active", "ending"} => runs[h].state \in {"active", "ending"}
    PROVE  Recorded'
  BY DEF Orderly, Recorded

\* A process goes on with the runs as they are, to a place where nobody but the
\* owner it saw runs, or where it does not matter.
LEMMA GoesOn ==
    ASSUME TypeOK, Orderly, NEW g \in Gens, Others({g}), UNCHANGED runs, Recorded', ServedStay,
           gen'[g].retiring => gen'[g].at = "poll",
           gen[g].at = "started" /\ runs[g].state = "starting" => gen'[g].at = "started",
           gen'[g].at \in {"target", "wait", "recover", "clear"} =>
              \A h \in Gens : Runner(h) => h = gen'[g].seen.owner,
           gen'[g].at = "clear" => \A h \in Gens : ~Runner(h),
           gen'[g].at = "dispatch" /\ Prompt(gen'[g].next) => \A h \in Gens : Runner(h) => h = g
    PROVE  Orderly'
<1>1. \A h \in Gens : Runner(h)' <=> Runner(h)
  BY DEF Runner
<1>2. TopicHolds(g)'
  BY <1>1 DEF TopicHolds
<1>3. Calm({g})
  BY <1>1, <1>2 DEF Calm
<1> QED BY <1>3, CalmKeeps

\* A process that is not at the poll does not retire.
LEMMA InBatch ==
    ASSUME TypeOK, Orderly, NEW g \in Gens, gen[g].at # "poll"
    PROVE  ~gen[g].retiring
  BY DEF Orderly, TopicHolds

\* The steps of the update loop
LEMMA TopicLoop ==
    ASSUME TypeOK, TypeOK', RolesHold, RequestsHold, OwnersHold, SendersHold, left = {}, left' = {},
           Orderly, NEW g \in Gens, LoopStep(g)
    PROVE  Orderly'
<1>0. /\ UNCHANGED <<runs, ipc>> => ServedStay
      /\ UNCHANGED <<runs, session>> => Recorded'
  BY RecordedStays DEF ServedStay
<1>1. CASE StartService(g) \/ Acquire(g)
  <2>1. PICK p \in {"standby", "leading"} : Go(g, p) /\ UNCHANGED <<runs, ipc, session>>
        /\ gen[g].at \in {"off", "standby"}
    BY <1>1 DEF StartService, Acquire
  <2>2. Others({g}) /\ gen'[g].at = p /\ SameRole(g) /\ ~gen[g].retiring
    BY <2>1, InBatch, Places, GoEffect
  <2> QED BY <1>0, <2>1, <2>2, GoesOn DEF SameRole
<1>2. CASE RecoverStale(g)
  <2>1. Go(g, "boot") /\ gen[g].at = "leading" /\ UNCHANGED <<runs, ipc>>
    BY <1>2 DEF RecoverStale
  <2>2. Others({g}) /\ gen'[g].at = "boot" /\ SameRole(g) /\ ~gen[g].retiring
    BY <2>1, InBatch, Places, GoEffect
  <2>3. ASSUME left' = left \cup Deserted(session.owner), NEW h \in Gens
        PROVE  runs[h].state \notin {"active", "ending"}
    <3>1. runs[h].state \in {"active", "ending"} => session.owner = h /\ runs[h] # NoRun
      BY DEF Orderly, Recorded, NoRun
    <3> QED BY <2>3, <3>1 DEF Deserted
  <2>4. Recorded'
    <3>1. CASE left' = left \cup Deserted(session.owner)
      BY <2>1, <2>3, <3>1 DEF Recorded
    <3>2. CASE UNCHANGED session
      BY <1>0, <2>1, <3>2
    <3> QED BY <1>2, <3>1, <3>2 DEF RecoverStale
  <2> QED BY <1>0, <2>1, <2>2, <2>4, GoesOn DEF SameRole
<1>3. CASE Bootstrap(g)
  <2>1. UNCHANGED <<runs, ipc, session>> /\ gen[g].at = "boot"
    BY <1>3 DEF Bootstrap
  <2>2. Others({g}) /\ gen'[g].at = "poll"
    <3>1. \E n : gen' = [gen EXCEPT ![g].at = "poll", ![g].offset = n]
      BY <1>3 DEF Bootstrap
    <3> QED BY <3>1 DEF Others, TypeOK, Process
  <2> QED BY <1>0, <2>1, <2>2, GoesOn
<1>4. CASE Poll(g)
  <2>1. UNCHANGED <<runs, ipc, session>> /\ gen[g].at = "poll" /\ ~gen[g].retiring
    BY <1>4 DEF Poll
  <2>2. \/ UNCHANGED gen
        \/ Others({g}) /\ gen'[g].at = "route" /\ ~gen'[g].retiring
    <3>1. UNCHANGED gen \/ \E n, hi : gen' = [gen EXCEPT ![g].at = "route", ![g].next = n, ![g].last = hi]
      BY <1>4 DEF Poll
    <3>2. ASSUME NEW n, NEW hi, gen' = [gen EXCEPT ![g].at = "route", ![g].next = n, ![g].last = hi]
          PROVE  Others({g}) /\ gen'[g].at = "route" /\ gen'[g].retiring = gen[g].retiring
      <4>1. gen' = [gen EXCEPT ![g] = [gen[g] EXCEPT !.at = "route", !.next = n, !.last = hi]]
        BY <3>2, Fields DEF TypeOK
      <4>2. [gen[g] EXCEPT !.at = "route", !.next = n, !.last = hi].at = "route"
            /\ [gen[g] EXCEPT !.at = "route", !.next = n, !.last = hi].retiring = gen[g].retiring
        BY Fields DEF Process
      <4> QED BY <4>1, <4>2 DEF Others, TypeOK
    <3> QED BY <2>1, <3>1, <3>2
  <2>3. UNCHANGED gen => Others({g}) /\ gen'[g].at = "poll"
    BY <2>1 DEF Others
  <2> QED BY <1>0, <2>1, <2>2, <2>3, GoesOn
<1>5. CASE Route(g)
  <2>1. UNCHANGED <<runs, ipc, session>> /\ gen[g].at = "route" /\ ~gen[g].retiring
    BY <1>5, InBatch DEF Route
  <2>2. \A h \in Gens : Runner(h) => session.owner = h /\ session.status = "running"
    BY <2>1, NoStarter, RunnerRecorded
  <2>3. CASE ShouldForward(session, g) /\ gen[g].next \notin Status
    <3>1. Others({g}) /\ gen'[g].at = "target" /\ gen'[g].seen = session /\ SameRole(g)
      BY <1>5, <2>3, RouteEffect DEF Route
    <3>2. gen'[g].at = "target" => \A h \in Gens : Runner(h) => h = gen'[g].seen.owner
      BY <2>2, <3>1
    <3> QED BY <1>0, <2>1, <3>1, <3>2, GoesOn DEF SameRole
  <2>4. CASE ~(ShouldForward(session, g) /\ gen[g].next \notin Status)
    <3>1. Others({g}) /\ gen'[g].at = "dispatch" /\ SameBatch(g) /\ SameRole(g)
      BY <1>5, <2>4, Places, GoEffect DEF Route
    <3>2. ASSUME Prompt(gen[g].next), NEW h \in Gens, Runner(h) PROVE h = g
      BY <2>2, <2>4, <3>2, UpdateFeedAssumption DEF Prompt, ShouldForward
    <3> QED BY <1>0, <2>1, <3>1, <3>2, GoesOn DEF SameRole, SameBatch
  <2> QED BY <2>3, <2>4
<1>6. CASE Target(g)
  <2>1. UNCHANGED runs /\ gen[g].at = "target" /\ ~gen[g].retiring
    BY <1>6, InBatch DEF Target
  <2>2. \A h \in Gens : Runner(h) => h = gen[g].seen.owner
    BY <2>1 DEF Orderly, TopicHolds
  <2>3. CASE Forwards(g)
    <3>1. Go(g, "wait") /\ UNCHANGED session /\ ipc \subseteq ipc'
      BY <2>3 DEF Forwards
    <3>2. Others({g}) /\ gen'[g].at = "wait" /\ gen'[g].seen = gen[g].seen /\ SameRole(g)
      BY <3>1, Places, GoEffect
    <3>3. ServedStay
      BY <3>1 DEF ServedStay
    <3> QED BY <1>0, <2>1, <2>2, <3>1, <3>2, <3>3, GoesOn DEF SameRole
  <2>4. CASE Disowns(g)
    <3>1. GoUnseen(g, "dispatch") /\ UNCHANGED ipc
      BY <2>4 DEF Disowns
    <3>2. Others({g}) /\ gen'[g].at = "dispatch" /\ SameRole(g)
      BY <3>1, Places, GoUnseenEffect
    <3>3. \A h \in Gens : ~Runner(h)
      <4>1. Deserted(gen[g].seen.owner) = {}
        BY <2>4 DEF Disowns
      <4> QED BY <2>2, <4>1 DEF Deserted, Runner
    <3>4. Recorded'
      BY <2>1, <3>3 DEF Recorded, Runner, NoRun
    <3> QED BY <1>0, <2>1, <3>1, <3>2, <3>3, <3>4, GoesOn DEF SameRole
  <2> QED BY <1>6, <2>3, <2>4, TargetCases
<1>7. CASE RecoverNot(g)
  <2>1. GiveUp(g) /\ gen[g].at = "recover" /\ UNCHANGED <<runs, ipc, session>>
    BY <1>7 DEF RecoverNot
  <2> QED BY <1>0, <2>1, GiveUpEffect, GoesOn
<1>8. CASE RecoverIdle(g)
  <2>1. Go(g, "clear") /\ gen[g].at = "recover" /\ UNCHANGED <<runs, ipc, session>>
        /\ gen[g].seen.owner \notin Living /\ ~gen[g].retiring
    BY <1>8, InBatch DEF RecoverIdle
  <2>2. Others({g}) /\ gen'[g].at = "clear" /\ SameRole(g)
    BY <2>1, Places, GoEffect
  <2>3. \A h \in Gens : ~Runner(h)
    BY <2>1 DEF Orderly, TopicHolds, OwnersHold, Living
  <2> QED BY <1>0, <2>1, <2>2, <2>3, GoesOn DEF SameRole
<1>9. CASE Terminate(g)
  <2>1. gen[g].seen.owner \in Gens \ {g} /\ gen[g].at = "recover" /\ ~gen[g].retiring
    BY <1>9, RolesFields, InBatch DEF Terminate
  <2>2. /\ Others({g, gen[g].seen.owner}) /\ gen'[gen[g].seen.owner] = Gone /\ SameRole(g)
        /\ runs' = [runs EXCEPT ![gen[g].seen.owner] = NoRun]
    BY <1>9, <2>1, TerminateEffect DEF Terminate
  <2>3. \A h \in Gens : ~Runner(h)'
    BY <2>1, <2>2 DEF Orderly, TopicHolds, Runner, TypeOK
  <2>4. ASSUME NEW h \in Gens, gen'[h].retiring PROVE gen'[h].at = "poll"
    BY <2>1, <2>2, <2>4, GoneIs DEF Orderly, TopicHolds, Others, SameRole
  <2> QED BY <2>3, <2>4, NobodyRuns
<1>10. CASE Clear(g)
  <2>1. GoUnseen(g, "dispatch") /\ gen[g].at = "clear" /\ ~gen[g].retiring /\ UNCHANGED <<runs, ipc>>
    BY <1>10, InBatch DEF Clear
  <2>2. Others({g}) /\ gen'[g].at = "dispatch" /\ SameRole(g)
    BY <2>1, Places, GoUnseenEffect
  <2>3. \A h \in Gens : ~Runner(h)
    BY <2>1 DEF Orderly, TopicHolds
  <2>4. Recorded'
    BY <2>1, <2>3 DEF Recorded, Runner, NoRun
  <2> QED BY <1>0, <2>1, <2>2, <2>3, <2>4, GoesOn DEF SameRole
<1>11. CASE Dispatch(g)
  <2>1. Go(g, "started") /\ gen[g].at = "dispatch" /\ ~gen[g].retiring /\ UNCHANGED <<session, ipc>>
    BY <1>11, InBatch DEF Dispatch
  <2>2. Others({g}) /\ gen'[g].at = "started" /\ SameRole(g)
    BY <2>1, Places, GoEffect
  <2>3. CASE UNCHANGED runs
    BY <1>0, <2>1, <2>2, <2>3, GoesOn DEF SameRole
  <2>4. CASE ~UNCHANGED runs
    <3>1. Prompt(gen[g].next) /\ runs' = [runs EXCEPT ![g].state = "starting"]
      BY <1>11, <2>4 DEF Dispatch, Handle
    <3>2. \A h \in Gens : Runner(h) => h = g
      BY <2>1, <3>1 DEF Orderly, TopicHolds
    <3>3. runs \in [Gens -> Run]
      BY DEF TypeOK
    <3>4. runs'[g].state = "starting" /\ \A h \in Gens \ {g} : runs'[h] = NoRun
      BY <3>1, <3>2, <3>3 DEF Run, Runner
    <3>5. \A h \in Gens \ {g} : gen[h].at \notin Batch
      BY <2>1, OneBatch DEF Batch, Before
    <3>6. OneRuns' /\ StartingHolds' /\ Recorded'
      BY <2>2, <3>4 DEF OneRuns, StartingHolds, Recorded, Runner, NoRun
    <3>7. ASSUME NEW h \in Gens PROVE TopicHolds(h)'
      BY <2>1, <2>2, <3>5 DEF Orderly, TopicHolds, Others, SameRole, Batch, Before
    <3> QED BY <3>6, <3>7 DEF Orderly
  <2> QED BY <2>3, <2>4
<1>12. CASE Started(g)
  <2>1. Go(g, "save") /\ gen[g].at = "started" /\ ~gen[g].retiring /\ UNCHANGED <<session, ipc, runs>>
        /\ runs[g].state # "starting"
    BY <1>12, InBatch DEF Started
  <2>2. Others({g}) /\ gen'[g].at = "save" /\ SameRole(g)
    BY <2>1, Places, GoEffect
  <2> QED BY <1>0, <2>1, <2>2, GoesOn DEF SameRole
<1>13. CASE Save(g)
  <2>1. gen[g].at = "save" /\ ~gen[g].retiring /\ UNCHANGED <<session, ipc, runs>>
    BY <1>13, InBatch DEF Save
  <2>2. gen[g].next \in Updates /\ gen[g].next <= gen[g].last
    BY <2>1 DEF RolesHold, RoleHolds, Batch, Handled
  <2>3. Others({g}) /\ gen'[g].at \in {"poll", "route"} /\ SameRole(g)
    BY <1>13, <2>2, SaveEffect
  <2> QED BY <1>0, <2>1, <2>3, GoesOn DEF SameRole
<1>14. CASE Exit(g)
  <2>1. gen' = [gen EXCEPT ![g] = Gone] /\ gen[g].at = "poll" /\ UNCHANGED <<session, ipc, runs>>
    BY <1>14 DEF Exit
  <2>2. Others({g}) /\ gen'[g] = Gone
    BY <2>1, KillEffect
  <2> QED BY <1>0, <2>1, <2>2, GoneIs, GoesOn
<1>15. CASE Activate(g)
  <2>1. /\ runs[g].state = "starting" /\ UNCHANGED <<gen, ipc>>
        /\ \E n : runs' = [runs EXCEPT ![g] = [state |-> "active", began |-> n]]
        /\ session'.owner = g /\ session'.status = "running"
    BY <1>15 DEF Activate
  <2>2. runs \in [Gens -> Run] /\ Runner(g)
    BY <2>1 DEF TypeOK, Runner, NoRun
  <2>3. \A h \in Gens \ {g} : ~Runner(h)
    BY <2>2 DEF Orderly, OneRuns
  <2>4. Runner(g)' /\ runs'[g].state = "active" /\ \A h \in Gens \ {g} : runs'[h] = NoRun
    BY <2>1, <2>2, <2>3 DEF Runner, NoRun
  <2>5. Calm({})
    BY <2>1, <2>2, <2>3, <2>4 DEF Calm, Others, ServedStay, Recorded, Runner, NoRun
  <2> QED BY <2>5, CalmKeeps
<1> QED BY <1>1, <1>2, <1>3, <1>4, <1>5, <1>6, <1>7, <1>8, <1>9, <1>10, <1>11, <1>12, <1>13, <1>14, <1>15
        DEF LoopStep

\* When a process dies what it forwarded is still to be served, or was.
LEMMA DeadServed ==
    ASSUME TypeOK, NEW g \in Gens, Dead(g), NEW r \in ipc
    PROVE  \E s \in ipc' : s.to = r.to /\ s.served = r.served
<1>1. r \in Request
  BY RequestFields
<1>2. CASE r.from = g
  <2>1. [r EXCEPT !.awaited = FALSE] \in ipc'
    BY <1>2 DEF Dead
  <2>2. [r EXCEPT !.awaited = FALSE].to = r.to /\ [r EXCEPT !.awaited = FALSE].served = r.served
    BY <1>1 DEF Request
  <2> QED BY <2>1, <2>2
<1>3. CASE r.from # g
  BY <1>3 DEF Dead
<1> QED BY <1>2, <1>3

\* The steps of runs, of rollouts and of faults
LEMMA TopicRun ==
    ASSUME TypeOK, TypeOK', RolesHold, RequestsHold, OwnersHold, SendersHold, left = {}, left' = {},
           Orderly, NEW g \in Gens,
           \/ Refuse(g) \/ Finish(g) \/ Settle(g) \/ Mark(g) \/ RolloutFails(g) \/ Retire(g)
           \/ Die(g) \/ Throw(g) \/ TerminateFails(g) \/ \E k \in Gens : Spawn(g, k)
    PROVE  Orderly'
<1>0. /\ UNCHANGED <<runs, ipc>> => ServedStay
      /\ UNCHANGED <<runs, session>> => Recorded'
      /\ gen \in [Gens -> Process] /\ runs \in [Gens -> Run] /\ session \in Session
  BY RecordedStays DEF ServedStay, TypeOK
<1>1. CASE Refuse(g)
  <2>1. runs' = [runs EXCEPT ![g] = NoRun] /\ UNCHANGED <<gen, session, ipc>>
    BY <1>1 DEF Refuse
  <2>2. \A h \in Gens : runs'[h] \in {runs[h], NoRun}
    BY <1>0, <2>1
  <2>3. Recorded'
    BY <2>1, <2>2, RecordedStays DEF NoRun
  <2>4. Calm({})
    BY <2>1, <2>2, <2>3, RequestFields DEF Calm, Others, ServedStay, Runner, NoRun
  <2> QED BY <2>4, CalmKeeps
<1>2. CASE Finish(g)
  <2>1. /\ runs[g].state = "active" /\ UNCHANGED <<gen, session, ipc>>
        /\ runs' = [runs EXCEPT ![g] = NoRun] \/ runs' = [runs EXCEPT ![g].state = "ending"]
    BY <1>2 DEF Finish
  <2>2. \A h \in Gens : /\ runs'[h].state \in {runs[h].state, "none", "ending"}
                        /\ h # g => runs'[h] = runs[h]
    BY <1>0, <2>1 DEF NoRun, Run
  <2>3. Runner(g)
    BY <2>1 DEF Runner, NoRun
  <2>4. Recorded'
    BY <2>1, <2>2, RecordedStays
  <2>5. Calm({})
    BY <2>1, <2>2, <2>3, <2>4 DEF Calm, Others, ServedStay, Runner
  <2> QED BY <2>5, CalmKeeps
<1>3. CASE Settle(g)
  <2>1. runs[g].state = "ending" /\ runs' = [runs EXCEPT ![g] = NoRun] /\ UNCHANGED gen
    BY <1>3 DEF Settle
  <2>2. Runner(g)
    BY <2>1 DEF Runner, NoRun
  <2>3. \A h \in Gens : ~Runner(h)'
    BY <1>0, <2>1, <2>2 DEF Orderly, OneRuns, Runner
  <2> QED BY <2>1, <2>3, NobodyRuns DEF Orderly, TopicHolds
<1>4. CASE Mark(g)
  <2>1. /\ UNCHANGED <<runs, ipc>>
        /\ \/ session' = session
           \/ Runner(g) /\ session'.owner = g /\ session'.status = session.status
    BY <1>0, <1>4 DEF Mark, Runner, Session
  <2>2. Recorded'
    <3>1. CASE session' = session
      BY <1>0, <2>1, <3>1
    <3>2. CASE Runner(g) /\ session'.owner = g /\ session'.status = session.status
      <4>1. \A h \in Gens : runs[h].state \in {"active", "ending"} => h = g
        BY <3>2 DEF Orderly, OneRuns, Runner, NoRun
      <4> QED BY <2>1, <3>2, <4>1 DEF Orderly, Recorded
    <3> QED BY <2>1, <3>1, <3>2
  <2>3. /\ Others({g}) /\ gen'[g].at = gen[g].at /\ gen'[g].seen = gen[g].seen
        /\ SameBatch(g) /\ gen'[g].retiring = gen[g].retiring
    BY <1>4, MarkEffect DEF SameRole
  <2>4. TopicHolds(g)'
    BY <2>1, <2>3 DEF Orderly, TopicHolds, SameBatch, Runner
  <2>5. Calm({g})
    BY <1>0, <2>1, <2>2, <2>3, <2>4 DEF Calm, Runner
  <2> QED BY <2>5, CalmKeeps
<1>5. CASE RolloutFails(g)
  <2>1. gen[g].child \in Gens \ {g} /\ gen[gen[g].child].at \in {"standby", "dead"} /\ UNCHANGED <<session, runs, ipc>>
    BY <1>5, RolesFields DEF RolloutFails, RolesHold, RoleHolds
  <2>2. /\ Others({g, gen[g].child}) /\ gen'[gen[g].child] = Gone
        /\ gen'[g].at = gen[g].at /\ gen'[g].seen = gen[g].seen
        /\ SameBatch(g) /\ gen'[g].retiring = gen[g].retiring
    BY <1>5, <2>1, RolloutFailsEffect
  <2>3. TopicHolds(g)'
    BY <2>1, <2>2 DEF Orderly, TopicHolds, SameBatch, Runner
  <2>4. gen'[gen[g].child].at = "dead" /\ ~gen'[gen[g].child].retiring
    BY <2>2, GoneIs
  <2>5. ASSUME NEW h \in {g, gen[g].child}
        PROVE  TopicHolds(h)' /\ (gen[h].at = "started" => gen'[h].at = "started")
    BY <2>1, <2>2, <2>3, <2>4 DEF TopicHolds
  <2>6. Calm({g, gen[g].child})
    BY <1>0, <2>1, <2>2, <2>5 DEF Calm, Runner
  <2> QED BY <2>1, <2>6, CalmKeeps
<1>6. CASE Retire(g)
  <2>1. gen[g].at = "poll" /\ UNCHANGED <<session, runs, ipc>>
    BY <1>6 DEF Retire
  <2>2. Others({g}) /\ gen'[g].at = "poll"
    BY <1>6, <2>1, RetireEffect
  <2> QED BY <1>0, <2>1, <2>2, GoesOn
<1>7. CASE Die(g)
  <2>1. /\ runs' = [runs EXCEPT ![g] = NoRun] /\ UNCHANGED session
        /\ Dead(g) /\ gen' = [gen EXCEPT ![g] = Gone]
    BY <1>7 DEF Die
  <2>2. Others({g}) /\ gen'[g].at = "dead" /\ ~gen'[g].retiring
    BY <2>1, KillEffect, GoneIs
  <2>3. \A h \in Gens : runs'[h] \in {runs[h], NoRun}
    BY <1>0, <2>1
  <2>4. Recorded'
    BY <2>1, <2>3, RecordedStays DEF NoRun
  <2>5. ServedStay
    BY <2>1, DeadServed DEF ServedStay
  <2>6. TopicHolds(g)'
    BY <2>2 DEF TopicHolds
  <2>7. runs'[g].state = "none"
    BY <1>0, <2>1 DEF NoRun
  <2>8. Calm({g})
    BY <2>2, <2>3, <2>4, <2>5, <2>6, <2>7 DEF Calm, Runner, NoRun
  <2> QED BY <2>8, CalmKeeps
<1>8. CASE Throw(g)
  <2>1. GiveUp(g) /\ gen[g].at = "dispatch" /\ UNCHANGED <<runs, ipc, session>>
    BY <1>8 DEF Throw
  <2> QED BY <1>0, <2>1, GiveUpEffect, GoesOn
<1>9. CASE TerminateFails(g)
  <2>1. gen[g].seen.owner \in left'
    BY <1>9 DEF TerminateFails
  <2> QED BY <2>1
<1>10. ASSUME NEW k \in Gens, Spawn(g, k) PROVE Orderly'
  <2>1. UNCHANGED <<session, runs, ipc>> /\ gen[k].at = "off" /\ ~gen[k].retiring
    BY <1>10, InBatch DEF Spawn
  <2>2. /\ Others({g, k}) /\ gen'[k].at = "standby" /\ ~gen'[k].retiring
        /\ gen'[g].at = gen[g].at /\ gen'[g].seen = gen[g].seen
        /\ SameBatch(g) /\ gen'[g].retiring = gen[g].retiring
    BY <1>10, <2>1, SpawnEffect
  <2>3. TopicHolds(g)'
    BY <2>1, <2>2 DEF Orderly, TopicHolds, SameBatch, Runner
  <2>4. TopicHolds(k)'
    BY <2>2 DEF TopicHolds
  <2>5. Calm({g, k})
    BY <1>0, <2>1, <2>2, <2>3, <2>4 DEF Calm, Runner
  <2> QED BY <2>5, CalmKeeps
<1> QED BY <1>1, <1>2, <1>3, <1>4, <1>5, <1>6, <1>7, <1>8, <1>9, <1>10

\* The steps of requests
LEMMA TopicRequest ==
    ASSUME TypeOK, TypeOK', RolesHold, RequestsHold, OwnersHold, SendersHold, left = {}, left' = {},
           Orderly, NEW r \in ipc,
           Serve(r) \/ ServeThrows(r) \/ Reply(r) \/ HangUp(r) \/ Timeout(r)
    PROVE  Orderly'
<1>0. /\ UNCHANGED <<runs, session>> => Recorded'
      /\ r \in Request /\ r.from \in Gens /\ r.to \in Gens /\ r.update \in Updates
      /\ runs \in [Gens -> Run] /\ \A s \in ipc : s.to \in Gens
      /\ \A h \in Gens : Runner(h) \/ runs[h].state = "none"
  BY RecordedStays, RequestFields DEF TypeOK, Runner, NoRun
<1>1. r.awaited => gen[r.from].at = "wait" /\ ~gen[r.from].retiring
  BY <1>0, InBatch DEF RequestsHold
<1>2. r.awaited => gen[r.from].seen.owner = r.to /\ \A h \in Gens : Runner(h) => h = r.to
  BY <1>0, <1>1 DEF SendersHold, Orderly, TopicHolds
<1>3. CASE Serve(r)
  <2>1. UNCHANGED <<gen, session>> /\ Alive(r.to) /\ ~r.served
        /\ ipc' = (ipc \ {r}) \cup {[r EXCEPT !.served = TRUE]}
    BY <1>3 DEF Serve
  <2>2. [r EXCEPT !.served = TRUE].to = r.to /\ [r EXCEPT !.served = TRUE].served
        /\ [r EXCEPT !.served = TRUE] \in ipc'
    BY <1>0, <2>1 DEF Request
  <2>3. CASE UNCHANGED runs
    <3>1. Calm({})
      BY <1>0, <2>1, <2>3 DEF Calm, Others, ServedStay, Runner
    <3> QED BY <3>1, CalmKeeps
  <2>4. CASE ~UNCHANGED runs
    <3>1. runs' = [runs EXCEPT ![r.to].state = "starting"]
      BY <1>3, <2>4 DEF Serve, Handle
    <3>2. gen[r.from].at \in {"wait", "recover"} /\ gen[r.from].seen.owner = r.to
      BY <1>1, <1>2, <2>1 DEF SendersHold
    <3>3. \A h \in Gens : Runner(h) => h = r.to
      BY <1>0, <3>2 DEF Orderly, TopicHolds
    <3>4. runs'[r.to].state = "starting" /\ \A h \in Gens \ {r.to} : runs'[h] = NoRun
      BY <1>0, <3>1, <3>3 DEF Run, Runner
    <3>5. \A h \in Gens \ {r.from} : gen[h].at \notin Batch
      BY <1>0, <3>2, OneBatch DEF Batch, Before
    <3>6. /\ OneRuns' /\ Recorded'
          /\ \A h \in Gens : runs'[h].state = "starting" => h = r.to
      BY <1>0, <3>4 DEF OneRuns, Recorded, Runner, NoRun
    <3>7. ASSUME NEW h \in Gens PROVE TopicHolds(h)'
      <4>1. \A k \in Gens : Runner(k)' => k = r.to
        BY <3>4 DEF Runner
      <4> QED BY <2>1, <3>2, <3>5, <4>1 DEF Orderly, TopicHolds, Batch, Before
    <3>8. StartingHolds'
      BY <2>2, <3>6 DEF StartingHolds
    <3> QED BY <3>6, <3>7, <3>8 DEF Orderly
  <2> QED BY <2>3, <2>4
<1>4. CASE ServeThrows(r)
  <2>1. /\ ~r.served /\ ipc' = ipc \ {r} /\ UNCHANGED <<runs, session>>
        /\ UNCHANGED gen \/ (r.awaited /\ GiveUp(r.from))
    BY <1>4 DEF ServeThrows
  <2>2. ServedStay
    BY <2>1 DEF ServedStay
  <2>3. CASE UNCHANGED gen
    <3>1. Calm({})
      BY <1>0, <2>1, <2>2, <2>3 DEF Calm, Others, Runner
    <3> QED BY <3>1, CalmKeeps
  <2>4. CASE r.awaited /\ GiveUp(r.from)
    BY <1>0, <1>1, <2>1, <2>2, <2>4, GiveUpEffect, GoesOn
  <2> QED BY <2>1, <2>3, <2>4
<1>5. CASE Reply(r)
  <2>1. /\ runs[r.to].state # "starting" /\ ipc' = ipc \ {r} /\ UNCHANGED <<runs, session>>
        /\ UNCHANGED gen \/ (r.awaited /\ GoUnseen(r.from, "save"))
    BY <1>5 DEF Reply
  <2>2. ServedStay
    BY <2>1 DEF ServedStay
  <2>3. CASE UNCHANGED gen
    <3>1. Calm({})
      BY <1>0, <2>1, <2>2, <2>3 DEF Calm, Others, Runner
    <3> QED BY <3>1, CalmKeeps
  <2>4. CASE r.awaited /\ GoUnseen(r.from, "save")
    <3>1. Others({r.from}) /\ gen'[r.from].at = "save" /\ SameRole(r.from)
      BY <1>0, <2>4, Places, GoUnseenEffect
    <3> QED BY <1>0, <1>1, <2>1, <2>2, <2>4, <3>1, GoesOn DEF SameRole
  <2> QED BY <2>1, <2>3, <2>4
<1>6. CASE HangUp(r)
  <2>1. /\ ~Alive(r.to) /\ ipc' = ipc \ {r} /\ UNCHANGED <<runs, session>>
        /\ UNCHANGED gen \/ (r.awaited /\ Go(r.from, "recover"))
    BY <1>6 DEF HangUp
  <2>2. ServedStay
    BY <1>0, <2>1 DEF ServedStay, OwnersHold
  <2>3. CASE UNCHANGED gen
    <3>1. Calm({})
      BY <1>0, <2>1, <2>2, <2>3 DEF Calm, Others, Runner
    <3> QED BY <3>1, CalmKeeps
  <2>4. CASE r.awaited /\ Go(r.from, "recover")
    <3>1. Others({r.from}) /\ gen'[r.from].at = "recover" /\ gen'[r.from].seen = gen[r.from].seen
          /\ SameRole(r.from)
      BY <1>0, <2>4, Places, GoEffect
    <3> QED BY <1>0, <1>1, <1>2, <2>1, <2>2, <2>4, <3>1, GoesOn DEF SameRole
  <2> QED BY <2>1, <2>3, <2>4
<1>7. CASE Timeout(r)
  <2>1. /\ ipc' = (ipc \ {r}) \cup {[r EXCEPT !.awaited = FALSE]} /\ UNCHANGED <<runs, session>>
        /\ r.awaited /\ Go(r.from, "recover")
    BY <1>7 DEF Timeout
  <2>2. [r EXCEPT !.awaited = FALSE].to = r.to /\ [r EXCEPT !.awaited = FALSE].served = r.served
    BY <1>0 DEF Request
  <2>3. ServedStay
    BY <2>1, <2>2 DEF ServedStay
  <2>4. Others({r.from}) /\ gen'[r.from].at = "recover" /\ gen'[r.from].seen = gen[r.from].seen
        /\ SameRole(r.from)
    BY <1>0, <2>1, Places, GoEffect
  <2> QED BY <1>0, <1>1, <1>2, <2>1, <2>3, <2>4, GoesOn DEF SameRole
<1> QED BY <1>3, <1>4, <1>5, <1>6, <1>7

\* Every step keeps RunsHold.
LEMMA RunsKept ==
    ASSUME TypeOK, TypeOK', RolesHold, RequestsHold, OwnersHold, SendersHold, RunsHold, Next
    PROVE  RunsHold'
<1> SUFFICES ASSUME left' = {} PROVE Orderly'
  BY DEF RunsHold
<1>1. left = {}
  BY LeftStays
<1>2. Orderly
  BY <1>1 DEF RunsHold
<1>3. CASE UNCHANGED <<gen, runs, session, ipc>>
  BY <1>2, <1>3 DEF Orderly, StartingHolds, TopicHolds, OneRuns, Recorded, Runner
<1> QED BY <1>1, <1>2, <1>3, TopicLoop, TopicRun, TopicRequest DEF Next, Send, Done, vars

\* Nothing is owned, forwarded or run at the start.
LEMMA TopicInit == Init => OwnersHold /\ SendersHold /\ RunsHold
  BY DEF Init, OwnersHold, SendersHold, RunsHold, Orderly, StartingHolds, TopicHolds, OneRuns, Recorded,
         Runner, NewProcess, NoSession, NoRun

\* A step that leaves the topic alone
LEMMA TopicUnchanged ==
    ASSUME OwnersHold, SendersHold, RunsHold, UNCHANGED vars
    PROVE  OwnersHold' /\ SendersHold' /\ RunsHold'
  BY DEF vars, OwnersHold, SendersHold, RunsHold, Orderly, StartingHolds, TopicHolds, OneRuns, Recorded,
         Past, Runner, Alive

-----------------------------------------------------------------------------
(* Theorems *)

\* The inductive invariant holds.
LEMMA FeedInvInvariant == Spec => []FeedInv
<1>1. Init => FeedInv
  BY TypeInit, RolesInit, RequestsInit, OffsetsInit, SpentInit DEF FeedInv
<1>2. FeedInv /\ [Next]_vars => FeedInv'
  BY TypeStep, RolesStep, RequestsStep, OffsetsStep, SpentStep DEF FeedInv
<1> QED
  BY <1>1, <1>2, PTL DEF Spec

\* bootstrapOffset, processUpdates: for any number of generations and updates,
\* whatever dies, throws or retires, neither Telegram nor the offset file is
\* ahead of what was handled, or dropped at the first start.
THEOREM NoUpdateIsSkipped == Spec => []NothingSkipped
<1>1. FeedInv => NothingSkipped
  BY DEF FeedInv, OffsetsCovered, Covered, NothingSkipped
<1> QED
  BY <1>1, FeedInvInvariant, PTL

\* processUpdates, createForwardingRequestHandler: an update that no listed
\* case hands out again is handled at most once, by whichever process.
THEOREM UpdatesAreHandledOnce == Spec => []HandledOnce
<1>1. FeedInv => HandledOnce
  BY DEF FeedInv, SpentIsBehind
<1> QED
  BY <1>1, FeedInvInvariant, PTL

\* The invariant of the topic holds.
LEMMA TopicInvariant == Spec => []TopicInv
<1>1. Init /\ FeedInv => TopicInv
  BY TopicInit DEF TopicInv
<1>2. TopicInv /\ [Next]_vars /\ FeedInv' => TopicInv'
  BY TopicUnchanged, OwnersKept, SendersKept, RunsKept DEF TopicInv, FeedInv
<1> QED BY <1>1, <1>2, FeedInvInvariant, PTL DEF Spec

\* shouldForwardSessionToOwner, terminateRetiringOwnerGeneration: for any
\* number of generations and updates, two processes never run a topic at the
\* same time, unless a process was left behind with work of it.
THEOREM TopicHasOneRunner == Spec => []OneRunner
<1>1. ASSUME TopicInv, left = {} PROVE Cardinality({g \in Gens : runs[g] # NoRun}) <= 1
  <2> DEFINE S == {g \in Gens : runs[g] # NoRun}
  <2>1. \A g, h \in S : g = h
    BY <1>1 DEF TopicInv, RunsHold, Orderly, OneRuns, Runner
  <2>2. S = {} \/ \E g : S = {g}
    BY <2>1
  <2>3. Cardinality({}) = 0 /\ \A g : Cardinality({g}) = 1
    BY FS_EmptySet, FS_Singleton, Zenon
  <2> HIDE DEF S
  <2>4. Cardinality(S) = 0 \/ Cardinality(S) = 1
    BY <2>2, <2>3, Zenon
  <2>5. \A n : n = 0 \/ n = 1 => n <= 1
    OBVIOUS
  <2> QED BY <2>4, <2>5 DEF S
<1>2. TopicInv => OneRunner
  BY <1>1 DEF OneRunner
<1> QED BY <1>2, TopicInvariant, PTL

\* isRunSuperseded, resolveAgentUpdateRoute: what routes the updates is true.
\* The session of an active run names its process and is running until the
\* run writes its end.
THEOREM RunsAreRecorded == Spec => []RunIsRecorded
<1>1. TopicInv => RunIsRecorded
  BY DEF TopicInv, RunsHold, Orderly, Recorded, RunIsRecorded
<1> QED BY <1>1, TopicInvariant, PTL

=============================================================================

---------------------------- MODULE MetaLockProofs ----------------------------
(***************************************************************************)
(* The lock of a session's meta file excludes, for any number of callers,  *)
(* as long as no lock was taken away by mistake.                           *)
(*                                                                         *)
(* The exclusion follows from one fact: the directory is of the one that   *)
(* works under it.  Three steps remove the directory.  The holder may, and *)
(* so may one that has found the process of the owner dead, because a      *)
(* process that is dead stays so: as long as the directory is still of     *)
(* that process, nobody works under it.                                    *)
(***************************************************************************)
EXTENDS MetaLock, TLAPS

Places == {"idle", "try", "owner", "in", "stat", "read", "reap", "dead"}

TypeOK ==
    /\ dir \in Callers \cup {None} /\ owner \in Callers \cup {None}
    /\ old \in BOOLEAN /\ mistaken \in BOOLEAN
    /\ pc \in [Callers -> Places]
    /\ late \in [Callers -> BOOLEAN]
    /\ seen \in [Callers -> Callers \cup {None}]

\* The directory is of the one that holds the lock.
HolderMadeIt == \A c \in Callers : Holds(c) => dir = c

\* Who is about to remove a directory has seen no owner, or a dead one.
ReaperSawDead == \A c \in Callers : pc[c] = "reap" => seen[c] = None \/ Dead(seen[c])

LockInv == TypeOK /\ (~mistaken => HolderMadeIt) /\ ReaperSawDead

-----------------------------------------------------------------------------
(* One caller moves to a place, nobody else does. *)
LEMMA GoMoves ==
    ASSUME pc \in [Callers -> Places], NEW c \in Callers, NEW where \in Places, Go(c, where)
    PROVE  /\ pc' \in [Callers -> Places]
           /\ pc'[c] = where
           /\ \A d \in Callers : d # c => pc'[d] = pc[d]
BY DEF Go

(* Every step keeps the types. *)
LEMMA TypeStep == TypeOK /\ [Next]_vars => TypeOK'
<1> SUFFICES ASSUME TypeOK, [Next]_vars PROVE TypeOK'
  OBVIOUS
<1>1. CASE UNCHANGED vars
  BY <1>1 DEF TypeOK, vars
<1>2. CASE Ages
  BY <1>2 DEF TypeOK, Ages
<1>3. ASSUME NEW c \in Callers, Call(c) PROVE TypeOK'
  <2>1. CASE Ask(c) \/ Make(c) \/ Look(c) \/ Wait(c) \/ Beat(c)
    BY <2>1 DEF TypeOK, Places, Ask, Make, Look, Wait, Beat, Go, Settled
  <2>2. CASE WriteOwner(c) \/ WriteFails(c) \/ Leave(c)
    BY <2>2 DEF TypeOK, Places, WriteOwner, WriteFails, Leave, Go, Remove
  <2>3. CASE Stat(c) \/ ReadOwner(c)
    BY <2>3 DEF TypeOK, Places, Stat, ReadOwner, Go, Settled
  <2>4. CASE Reap(c) \/ Crash(c)
    BY <2>4 DEF TypeOK, Places, Reap, Crash, Go, Remove, Settled, Forget
  <2> QED BY <1>3, <2>1, <2>2, <2>3, <2>4 DEF Call
<1> QED BY <1>1, <1>2, <1>3 DEF Next, Over

(* A dead process stays dead, and what a reaper has seen is dead. *)
LEMMA ReaperStep == TypeOK /\ ReaperSawDead /\ [Next]_vars => ReaperSawDead'
<1> SUFFICES ASSUME TypeOK, ReaperSawDead, [Next]_vars
             PROVE  ReaperSawDead'
  OBVIOUS
<1>1. CASE UNCHANGED <<pc, seen>>
  BY <1>1 DEF ReaperSawDead, Dead
<1>2. ASSUME NEW c \in Callers, Call(c) PROVE ReaperSawDead'
  <2>1. ASSUME NEW d \in Callers PROVE Dead(d) => Dead(d)'
    BY <1>2, <2>1 DEF Call, Dead, TypeOK, Ask, Make, WriteOwner, WriteFails, Wait, Look, Stat,
        ReadOwner, Reap, Beat, Leave, Crash, Go
  <2>2. CASE ReadOwner(c)
    BY <2>1, <2>2 DEF ReadOwner, Reapable, ReaperSawDead, TypeOK, Go, Dead
  <2>3. CASE ~ReadOwner(c)
    <3>1. ASSUME NEW d \in Callers, pc'[d] = "reap" PROVE pc[d] = "reap" /\ seen'[d] = seen[d]
      BY <1>2, <2>3, <3>1 DEF Call, TypeOK, Ask, Make, WriteOwner, WriteFails, Wait, Look, Stat,
          Reap, Beat, Leave, Crash, Go, Forget
    <3> QED BY <2>1, <3>1 DEF ReaperSawDead, TypeOK, Dead
  <2> QED BY <2>2, <2>3
<1> QED BY <1>1, <1>2 DEF Next, vars, Over, Ages

(* Once a lock was taken away by mistake that is not forgotten. *)
LEMMA MistakeStays == [Next]_vars /\ mistaken => mistaken'
BY DEF Next, vars, Over, Ages, Call, Ask, Make, WriteOwner, WriteFails, Wait, Look, Stat,
    ReadOwner, Reap, Beat, Leave, Crash

(* A step that makes no mistake leaves the directory to its holder. *)
LEMMA HolderStep ==
    ASSUME None \notin Callers, LockInv, ~mistaken, ~mistaken', [Next]_vars
    PROVE  HolderMadeIt'
<1>0. HolderMadeIt /\ TypeOK
  BY DEF LockInv
<1>1. CASE UNCHANGED <<pc, dir>>
  BY <1>0, <1>1 DEF HolderMadeIt, Holds
<1>2. ASSUME NEW c \in Callers, Call(c) PROVE HolderMadeIt'
  <2>1. CASE Ask(c) \/ Wait(c) \/ Look(c) \/ Stat(c) \/ ReadOwner(c) \/ Beat(c) \/ Crash(c)
    BY <1>0, <2>1 DEF HolderMadeIt, Holds, TypeOK, Go, Ask, Wait, Look, Stat, ReadOwner, Beat,
        Crash
  <2>2. CASE Make(c)
    BY <1>0, <2>2 DEF HolderMadeIt, Holds, TypeOK, Go, Make, Free
  <2>3. CASE WriteOwner(c)
    BY <1>0, <2>3 DEF HolderMadeIt, Holds, TypeOK, Go, WriteOwner, Free
  <2>4. CASE WriteFails(c) \/ Leave(c)
    <3>1. \A d \in Callers : Holds(d) => d = c
      BY <1>0, <2>4 DEF HolderMadeIt, Holds, WriteFails, Leave
    <3> QED BY <1>0, <2>4, <3>1 DEF HolderMadeIt, Holds, TypeOK, Go, WriteFails, Leave
  <2>5. CASE Reap(c)
    <3>1. \A d \in Callers : ~Holds(d)
      BY <1>0, <2>5 DEF LockInv, HolderMadeIt, ReaperSawDead, Holds, Dead, Reap, Free
    <3> QED BY <1>0, <2>5, <3>1 DEF HolderMadeIt, Holds, TypeOK, Go, Reap
  <2> QED BY <1>2, <2>1, <2>2, <2>3, <2>4, <2>5 DEF Call
<1> QED BY <1>1, <1>2 DEF Next, vars, Over, Ages

(* LockInv is an invariant of any number of callers. *)
LEMMA LockInvInvariant == ASSUME None \notin Callers PROVE Spec => []LockInv
<1>1. Init => LockInv
  BY DEF Init, LockInv, TypeOK, Places, HolderMadeIt, ReaperSawDead, Holds
<1>2. LockInv /\ [Next]_vars => LockInv'
  <2> SUFFICES ASSUME LockInv, [Next]_vars PROVE LockInv'
    OBVIOUS
  <2>1. TypeOK'
    BY TypeStep DEF LockInv
  <2>2. ReaperSawDead'
    BY ReaperStep DEF LockInv
  <2>3. ~mistaken' => HolderMadeIt'
    BY HolderStep, MistakeStays
  <2> QED BY <2>1, <2>2, <2>3 DEF LockInv
<1> QED BY <1>1, <1>2, PTL DEF Spec

(* withMetaLock: two callers never hold the lock of a session at once, whoever    *)
(* crashes and stands still, until a lock was taken away that was not the one      *)
(* looked at.                                                                      *)
THEOREM MetaLockIsExclusive == ASSUME None \notin Callers PROVE Spec => []MetaLockExcludes
<1>1. LockInv => MetaLockExcludes
  BY DEF LockInv, HolderMadeIt, MetaLockExcludes
<1> QED BY <1>1, LockInvInvariant, PTL
===============================================================================

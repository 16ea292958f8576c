------------------------------- MODULE MetaLock -------------------------------
(***************************************************************************)
(* The lock of a session's meta file: a directory, made by whoever takes   *)
(* it, with the process of the owner written into it.  The owner touches   *)
(* the directory while it works.  One that has waited for long takes the   *)
(* lock away when the directory is old and the process in it is dead; it   *)
(* looks at the age, reads the owner and removes the directory in three    *)
(* steps.                                                                  *)
(*                                                                         *)
(* Every caller is of a process of its own, and the process of a caller    *)
(* that crashed is not there again.  A directory may become old at any     *)
(* time: nothing bounds how long a process stands still.                   *)
(***************************************************************************)
CONSTANTS
    Callers,    \* calls of withMetaLock, one at a time each
    None        \* no caller

VARIABLES
    dir,        \* who made the directory, None when there is none
    owner,      \* the owner written into it
    old,        \* it was not touched for META_LOCK_STALE_MS
    pc,         \* what a caller does
    late,       \* it has waited for META_LOCK_TIMEOUT_MS
    seen,       \* the owner it read
    mistaken    \* history: a lock was taken away that was not the one looked at,
                \* or whose owner was not written yet

vars == <<dir, owner, old, pc, late, seen, mistaken>>

Free == dir = None

Dead(c) == pc[c] = "dead"

\* The directory goes, whoever made it.
Remove == dir' = None /\ owner' = None /\ old' = FALSE

Go(c, where) == pc' = [pc EXCEPT ![c] = where]

\* The call is over, or it has the lock: how long it waited is no matter now.
Settled(c) == late' = [late EXCEPT ![c] = FALSE]

Forget(c) == seen' = [seen EXCEPT ![c] = None]

(***************************************************************************)
(* Taking the lock                                                         *)
(***************************************************************************)
Ask(c) ==
    /\ pc[c] = "idle" /\ Go(c, "try")
    /\ UNCHANGED <<dir, owner, old, late, seen, mistaken>>

Make(c) ==
    /\ pc[c] = "try" /\ Free
    /\ dir' = c /\ owner' = None /\ old' = FALSE
    /\ Go(c, "owner") /\ Settled(c)
    /\ UNCHANGED <<seen, mistaken>>

\* The write makes the directory again if it is gone.
WriteOwner(c) ==
    /\ pc[c] = "owner" /\ Go(c, "in")
    /\ dir' = IF Free THEN c ELSE dir
    /\ owner' = c
    /\ UNCHANGED <<old, late, seen, mistaken>>

WriteFails(c) ==
    /\ pc[c] = "owner" /\ Go(c, "idle")
    /\ Remove
    /\ UNCHANGED <<late, seen, mistaken>>

\* The lock is there: wait, and after the time limit look at it.
Wait(c) ==
    /\ pc[c] = "try" /\ ~Free /\ ~late[c]
    /\ late' = [late EXCEPT ![c] = TRUE]
    /\ UNCHANGED <<dir, owner, old, pc, seen, mistaken>>

Look(c) ==
    /\ pc[c] = "try" /\ ~Free /\ late[c]
    /\ Go(c, "stat")
    /\ UNCHANGED <<dir, owner, old, late, seen, mistaken>>

(***************************************************************************)
(* Taking it away                                                          *)
(***************************************************************************)
Stat(c) ==
    /\ pc[c] = "stat"
    /\ IF Free \/ old THEN Go(c, IF Free THEN "try" ELSE "read") /\ UNCHANGED late
       ELSE Go(c, "idle") /\ Settled(c)
    /\ UNCHANGED <<dir, owner, old, seen, mistaken>>

AlwaysReapable(o) == TRUE

\* No file, no directory, no process: all the same.
Reapable(o) == o = None \/ Dead(o)

ReadOwner(c) ==
    /\ pc[c] = "read"
    /\ IF Reapable(owner)
       THEN /\ Go(c, "reap") /\ seen' = [seen EXCEPT ![c] = owner]
            /\ UNCHANGED late
       ELSE Go(c, "idle") /\ Settled(c) /\ UNCHANGED seen
    /\ UNCHANGED <<dir, owner, old, mistaken>>

Reap(c) ==
    /\ pc[c] = "reap" /\ Go(c, "try")
    /\ mistaken' = (mistaken \/ (~Free /\ (seen[c] = None \/ dir # seen[c])))
    /\ Remove /\ Forget(c)
    /\ UNCHANGED late

(***************************************************************************)
(* Holding it                                                              *)
(***************************************************************************)
Beat(c) ==
    /\ pc[c] = "in" /\ old /\ old' = FALSE
    /\ UNCHANGED <<dir, owner, pc, late, seen, mistaken>>

Leave(c) ==
    /\ pc[c] = "in" /\ Go(c, "idle")
    /\ Remove
    /\ UNCHANGED <<late, seen, mistaken>>

Crash(c) ==
    /\ ~Dead(c) /\ Go(c, "dead")
    /\ Settled(c) /\ Forget(c)
    /\ UNCHANGED <<dir, owner, old, mistaken>>

Ages ==
    /\ ~Free /\ ~old /\ old' = TRUE
    /\ UNCHANGED <<dir, owner, pc, late, seen, mistaken>>

Over ==
    /\ \A c \in Callers : Dead(c)
    /\ UNCHANGED vars

Init ==
    /\ dir = None /\ owner = None /\ old = FALSE
    /\ pc = [c \in Callers |-> "idle"]
    /\ late = [c \in Callers |-> FALSE]
    /\ seen = [c \in Callers |-> None]
    /\ mistaken = FALSE

Call(c) ==
    \/ Ask(c) \/ Make(c) \/ WriteOwner(c) \/ WriteFails(c) \/ Wait(c) \/ Look(c)
    \/ Stat(c) \/ ReadOwner(c) \/ Reap(c) \/ Beat(c) \/ Leave(c) \/ Crash(c)

Next == (\E c \in Callers : Call(c)) \/ Ages \/ Over

Spec == Init /\ [][Next]_vars

(***************************************************************************)
(* Properties                                                              *)
(***************************************************************************)
Holds(c) == pc[c] \in {"owner", "in"}

\* Two callers never work under the lock at once (withMetaLock).  Not so after a
\* lock was taken away by mistake: two that wait may both find the lock of a dead
\* process, and the slower one then removes the lock that the faster one has made
\* meanwhile; and a process that stands still before it has written its name is
\* taken for none.
MetaLockExcludes == mistaken \/ \A c, d \in Callers : Holds(c) /\ Holds(d) => c = d
===============================================================================

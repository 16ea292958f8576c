------------------------------- MODULE Mailbox -------------------------------
(***************************************************************************)
(* A reply in parts and the record of it, as a reader sees them: parts are *)
(* shown in order until the record is sealed, the record names only parts  *)
(* that are shown, and neither changes afterwards.                         *)
(***************************************************************************)
EXTENDS Naturals

CONSTANT Parts

VARIABLES shown, sealed, record

Init == shown = {} /\ sealed = FALSE /\ record = {}

Show(n) ==
    /\ ~sealed
    /\ \A m \in shown : m < n
    /\ shown' = shown \cup {n}
    /\ UNCHANGED <<sealed, record>>

Seal ==
    /\ ~sealed
    /\ sealed' = TRUE
    /\ record' \in SUBSET shown
    /\ UNCHANGED shown

Next == Seal \/ \E n \in Parts : Show(n)

Spec == Init /\ [][Next]_<<shown, sealed, record>>
=============================================================================

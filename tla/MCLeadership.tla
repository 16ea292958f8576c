--------------------------- MODULE MCLeadership ---------------------------
(***************************************************************************)
(* Leadership on small instances.  The periods of the code are heartbeat   *)
(* 3 s, lock time-out 5 s, lease 8 s, record 12 s and stale lock 30 s;     *)
(* neither .cfg reverses their order.                                      *)
(***************************************************************************)
EXTENDS Leadership, TLC

GenSymmetry == Permutations(Gen)
=============================================================================

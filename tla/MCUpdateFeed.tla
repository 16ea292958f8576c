--------------------------- MODULE MCUpdateFeed ---------------------------
(* Instances of UpdateFeed for TLC.                                        *)
EXTENDS UpdateFeed, TLC

Symmetry == Permutations(Gens)

===========================================================================

--------------------------- MODULE MCPromptQueue ---------------------------
(* Instances of PromptQueue for TLC.  Drains are interchangeable.          *)
EXTENDS PromptQueue, TLC

Symmetry == Permutations(Drains)

============================================================================

------------------------------ MODULE MCIntake ------------------------------
(* Intake for model checking. *)
EXTENDS Intake
=============================================================================

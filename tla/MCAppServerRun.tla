-------------------------- MODULE MCAppServerRun --------------------------
(* Instances of AppServerRun for TLC: the constants are given in the .cfg files.*)
EXTENDS AppServerRun
===========================================================================

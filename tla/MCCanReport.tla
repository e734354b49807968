---------------------------- MODULE MCCanReport ----------------------------
(* Instances of CanReport for TLC.                                         *)
EXTENDS CanReport
=============================================================================

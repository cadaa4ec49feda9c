------------------------------ MODULE MCIntake ------------------------------
(* Instances of Intake for TLC: see the .cfg file for the sizes. *)
EXTENDS Intake
=============================================================================

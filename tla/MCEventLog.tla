----------------------------- MODULE MCEventLog -----------------------------
(* Instances of EventLog for TLC: see the .cfg files for the sizes. *)
EXTENDS EventLog, TLC

Symmetry == Permutations(Thread) \cup Permutations(Call)
=============================================================================
